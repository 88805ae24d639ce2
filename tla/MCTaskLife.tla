------------------------------ MODULE MCTaskLife ------------------------------
(***************************************************************************)
(* TLC instance of TaskLife.  Two workers are enough to have a holder and  *)
(* a stranger for every holder check.                                      *)
(***************************************************************************)
EXTENDS TaskLife, TLC

CONSTANTS a1, a2, h1, h2

=============================================================================
