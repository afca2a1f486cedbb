--------------------------- MODULE MCOfflineQueue ---------------------------
(***************************************************************************)
(* Instances of OfflineQueue for TLC.                                      *)
(***************************************************************************)
EXTENDS OfflineQueue, TLC

CONSTANTS k1, k2, f1, f2

Interchangeable == Permutations(Keys) \cup Permutations(Flushes)
=============================================================================
