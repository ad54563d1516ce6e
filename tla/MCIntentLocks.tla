---------------------------- MODULE MCIntentLocks ----------------------------
(* The constants of IntentLocks' run.                                      *)
EXTENDS IntentLocks, TLC

CONSTANTS i1, i2, g1, g2, acct, s1

\* Two intents of two agents lock the same account, which covers both until a
\* snapshot lowers its balance.
MCAgentOf == [i \in Intents |-> IF i = i1 THEN g1 ELSE g2]
MCAccountOf == [i \in Intents |-> acct]
MCAmount == [i \in Intents |-> IF i = i1 THEN 2 ELSE 1]
MCDeposit == [a \in Accounts |-> 3]
=============================================================================
