------------------------------ MODULE Exchange ------------------------------
(***************************************************************************)
(* What a matching venue promises, whatever finds the matches: an order    *)
(* opens once, is matched at most once and settles at most once, with a    *)
(* counterpart it crosses; a settlement moves both assets at once, at the  *)
(* midpoint of the two limits, between accounts that cover it; and no      *)
(* balance changes in any other way.  MatchingOrchestrator implements it.  *)
(***************************************************************************)
EXTENDS Orders, FiniteSets

CONSTANT Deposit  \* initial balance of an account

ASSUME DepositAssumption == Deposit \in [Accounts -> Nat]

VARIABLES
  seen,     \* orders that were ever opened
  open,     \* orders that can still be matched
  matched,  \* pairs decided and not yet settled or abandoned
  trades,   \* pairs settled
  balance   \* [Accounts -> Nat]

evars == <<seen, open, matched, trades, balance>>

Init ==
  /\ seen = {}
  /\ open = {}
  /\ matched = {}
  /\ trades = {}
  /\ balance = Deposit

Open(i) ==
  /\ i \notin seen
  /\ seen' = seen \cup {i}
  /\ open' = open \cup {i}
  /\ UNCHANGED <<matched, trades, balance>>

\* (Variant: the sealed entries are not consumed.)
MatchKeepingOpen(b, s) ==
  /\ {b, s} \subseteq open
  /\ PairCrosses(b, s)
  /\ matched' = matched \cup {<<b, s>>}
  /\ UNCHANGED <<seen, open, trades, balance>>

Match(b, s) ==
  /\ {b, s} \subseteq open
  /\ PairCrosses(b, s)
  /\ open' = open \ {b, s}
  /\ matched' = matched \cup {<<b, s>>}
  /\ UNCHANGED <<seen, trades, balance>>

\* The decision is lost before anyone acts on it.
MatchInVain(b, s) ==
  /\ {b, s} \subseteq open
  /\ PairCrosses(b, s)
  /\ open' = open \ {b, s}
  /\ UNCHANGED <<seen, matched, trades, balance>>

Transfer(b, s) ==
  [balance EXCEPT
     ![CashOf(b)]    = @ - Cost(b, s),
     ![HoldingOf(b)] = @ + Fill(b, s),
     ![HoldingOf(s)] = @ - Fill(b, s),
     ![CashOf(s)]    = @ + Cost(b, s)]

\* (Variant: the seller's holding is not checked.)
SettleUncovered(b, s) ==
  /\ <<b, s>> \in matched
  /\ balance[CashOf(b)] >= Cost(b, s)
  /\ balance' = Transfer(b, s)
  /\ matched' = matched \ {<<b, s>>}
  /\ trades' = trades \cup {<<b, s>>}
  /\ UNCHANGED <<seen, open>>

Settle(b, s) ==
  /\ <<b, s>> \in matched
  /\ balance[CashOf(b)] >= Cost(b, s)
  /\ balance[HoldingOf(s)] >= Fill(b, s)
  /\ balance' = Transfer(b, s)
  /\ matched' = matched \ {<<b, s>>}
  /\ trades' = trades \cup {<<b, s>>}
  /\ UNCHANGED <<seen, open>>

Abandon(b, s) ==
  /\ <<b, s>> \in matched
  /\ matched' = matched \ {<<b, s>>}
  /\ UNCHANGED <<seen, open, trades, balance>>

Next ==
  \/ \E i \in Intents : Open(i)
  \/ \E p \in Pairs :
       \/ Match(p[1], p[2])
       \/ MatchInVain(p[1], p[2])
       \/ Settle(p[1], p[2])
       \/ Abandon(p[1], p[2])

Spec == Init /\ [][Next]_evars

-----------------------------------------------------------------------------
TypeOK ==
  /\ seen \subseteq Intents
  /\ open \subseteq seen
  /\ matched \subseteq Pairs
  /\ trades \subseteq Pairs
  /\ balance \in [Accounts -> Nat]

Sides(p) == {p[1], p[2]}

\* No order takes part in two settled trades, whichever calls of evaluate_match
\* and executeSettlement overlap.
OneTradePerOrder ==
  \A p, q \in trades : Sides(p) \cap Sides(q) # {} => p = q

\* Everyone trades within the limit it sealed, no seller delivers more than it
\* reserved, and a buyer pays less than one wire unit above what it reserved:
\* seal_intent truncates the reservation and persist_completed_settlement
\* charges the exact product at a midpoint that rounds up.
WithinReservation ==
  \A p \in matched \cup trades :
    /\ Limit[p[2]] <= Price(p[1], p[2])
    /\ Price(p[1], p[2]) <= Limit[p[1]]
    /\ Cost(p[1], p[2]) < Reservation(p[1]) + WireScale
    /\ Fill(p[1], p[2]) <= Reservation(p[2])

\* What a trade takes from an account, and what it brings.
Debit(p, a) ==
  IF a = CashOf(p[1]) THEN Cost(p[1], p[2])
  ELSE IF a = HoldingOf(p[2]) THEN Fill(p[1], p[2]) ELSE 0

Credit(p, a) ==
  IF a = CashOf(p[2]) THEN Cost(p[1], p[2])
  ELSE IF a = HoldingOf(p[1]) THEN Fill(p[1], p[2]) ELSE 0

\* What a set of trades takes from an account or brings to it, unit by unit.
UnitsPaid(ps, a) == UNION {{p} \X (1 .. Debit(p, a)) : p \in ps}
UnitsReceived(ps, a) == UNION {{p} \X (1 .. Credit(p, a)) : p \in ps}

\* completed_trades explains every balance: no trade moves money twice, none
\* is recorded without its legs, and no leg without its trade
\* (persist_completed_settlement inserts the row and moves the assets).
BooksBalance ==
  \A a \in Accounts :
    balance[a] + Cardinality(UnitsPaid(trades, a))
      = Deposit[a] + Cardinality(UnitsReceived(trades, a))
=============================================================================
