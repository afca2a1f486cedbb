--------------------------- MODULE MCAiGeneration ---------------------------
(***************************************************************************)
(* Instances of AiGeneration for TLC.                                      *)
(***************************************************************************)
EXTENDS AiGeneration, TLC

CONSTANTS g1, g2, g3, h1, h2

Interchangeable == Permutations(Generations) \cup Permutations(Handlers)
=============================================================================
