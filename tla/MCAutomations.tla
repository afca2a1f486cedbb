--------------------------- MODULE MCAutomations ---------------------------
(***************************************************************************)
(* Instances of Automations for TLC.                                       *)
(***************************************************************************)
EXTENDS Automations
=============================================================================
