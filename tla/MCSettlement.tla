---------------------------- MODULE MCSettlement ----------------------------
(* The constants of Settlement's runs.                                     *)
EXTENDS Settlement

CONSTANTS o1, o2, s1, s2
=============================================================================
