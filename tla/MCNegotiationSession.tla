-------------------------- MODULE MCNegotiationSession --------------------------
(* The constants of NegotiationSession's runs: only the seller escalates,  *)
(* below the midpoint of the lowest bid and the highest ask.               *)
EXTENDS NegotiationSession

CONSTANTS opA, opB, none

MCMinEnvelope == [s \in Sides |-> IF s = "sell" THEN 5 ELSE 0]
MCMaxEnvelope == [s \in Sides |-> 9]
=============================================================================
