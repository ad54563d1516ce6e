--------------------------- MODULE MCHostedAgents ---------------------------
(* The constants of HostedAgents' run.                                     *)
EXTENDS HostedAgents

CONSTANTS c1, c2, c3, r1, r2, r3, s1, s2
=============================================================================
