---------------------------- MODULE SettlementRpc ----------------------------
(***************************************************************************)
(* persist_completed_settlement: one database transaction that records a   *)
(* trade and moves both assets between the portfolios of its two sides.    *)
(***************************************************************************)
EXTENDS Orders, Portfolios

\* The four updates.  The institutions differ and the traded asset is not the
\* settlement asset, so they touch four different rows.
Legs(table, b, s, lockedCash, lockedAsset) ==
  [table EXCEPT
     ![CashOf(b)]    = PayLeg(@, Cost(b, s), lockedCash),
     ![HoldingOf(b)] = ReceiveLeg(@, Fill(b, s)),
     ![HoldingOf(s)] = PayLeg(@, Fill(b, s), lockedAsset),
     ![CashOf(s)]    = ReceiveLeg(@, Cost(b, s))]

\* It raises unless both balances, locked or not, cover their legs, ...
Covered(table, b, s) ==
  /\ table[CashOf(b)].balance >= Cost(b, s)
  /\ table[HoldingOf(s)].balance >= Fill(b, s)

\* ... and the CHECK constraint aborts it when a payer's remaining locks
\* exceed its remaining balance.
CanPersist(table, b, s, lockedCash, lockedAsset) ==
  /\ Covered(table, b, s)
  /\ \A a \in {CashOf(b), HoldingOf(s)} :
       RowOK(Legs(table, b, s, lockedCash, lockedAsset)[a])
=============================================================================
