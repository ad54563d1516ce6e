--------------------------- MODULE ExchangeProofs ---------------------------
(***************************************************************************)
(* The venue's promises for any set of orders.                             *)
(***************************************************************************)
EXTENDS Exchange, FiniteSetTheorems, TLAPS

\* The midpoint of an ask and a bid that cross lies between them, the odd unit
\* included (midpoint, cross_verdict).
LEMMA MidpointBetween ==
  ASSUME NEW a \in Nat, NEW b \in Nat, a <= b
  PROVE  /\ Midpoint(b, a) \in Nat
         /\ a <= Midpoint(b, a)
         /\ Midpoint(b, a) <= b
BY DEF Midpoint

LEMMA ProductMonotone ==
  ASSUME NEW q \in Nat, NEW r \in Nat, NEW p \in Nat, NEW l \in Nat,
         q <= r, p <= l
  PROVE  q * p <= r * l
<1>1. PICK d \in Nat : r = q + d
  <2>1. r - q \in Nat /\ r = q + (r - q)
    OBVIOUS
  <2> QED BY <2>1
<1>2. PICK e \in Nat : l = p + e
  <2>1. l - p \in Nat /\ l = p + (l - p)
    OBVIOUS
  <2> QED BY <2>1
<1>3. r * l = q * p + q * e + d * p + d * e
  BY <1>1, <1>2
<1>4. q * e \in Nat /\ d * p \in Nat /\ d * e \in Nat /\ q * p \in Nat
  OBVIOUS
<1>5. QED BY <1>3, <1>4

\* Truncating an amount to the wire takes less than one wire unit off it.
LEMMA TruncatedBounds ==
  ASSUME NEW x \in Nat
  PROVE  Truncated(x) \in Nat /\ Truncated(x) <= x /\ x < Truncated(x) + WireScale
<1>1. WireScale \in Nat \ {0}
  BY OrdersAssumption
<1>2. /\ x \div WireScale \in Nat
      /\ (x \div WireScale) * WireScale <= x
      /\ x < (x \div WireScale) * WireScale + WireScale
  BY <1>1, SMTT(30)
<1>3. QED BY <1>1, <1>2 DEF Truncated

\* What the contract decides on a crossing pair stays inside what each side
\* sealed, and within a wire unit of what it reserved.
LEMMA CrossedPair ==
  ASSUME NEW p \in Pairs, PairCrosses(p[1], p[2])
  PROVE  /\ Limit[p[2]] <= Price(p[1], p[2])
         /\ Price(p[1], p[2]) <= Limit[p[1]]
         /\ Price(p[1], p[2]) \in Nat
         /\ Fill(p[1], p[2]) \in Nat
         /\ Cost(p[1], p[2]) \in Nat
         /\ Cost(p[1], p[2]) < Reservation(p[1]) + WireScale
         /\ Fill(p[1], p[2]) <= Reservation(p[2])
<1> DEFINE b == p[1]
           s == p[2]
<1>1. b \in Intents /\ s \in Intents /\ SideOf[b] = "buy" /\ SideOf[s] # "buy"
  BY DEF Pairs, Counterparts
<1>2. /\ Limit[b] \in Nat /\ Limit[s] \in Nat
      /\ Quantity[b] \in Nat /\ Quantity[s] \in Nat
  BY <1>1, OrdersAssumption
<1>3. Limit[s] <= Limit[b]
  BY <1>2 DEF PairCrosses, Crosses
<1>4. /\ Price(b, s) \in Nat
      /\ Limit[s] <= Price(b, s)
      /\ Price(b, s) <= Limit[b]
  BY <1>2, <1>3, MidpointBetween DEF Price
<1>5. /\ Fill(b, s) \in Nat
      /\ Fill(b, s) <= Quantity[b]
      /\ Fill(b, s) <= Quantity[s]
  BY <1>2 DEF Fill, MatchedQuantity
<1>6. Cost(b, s) \in Nat
  BY <1>4, <1>5 DEF Cost
<1>7. Cost(b, s) <= Quantity[b] * Limit[b]
  BY <1>2, <1>4, <1>5, ProductMonotone DEF Cost
<1>8. Quantity[b] * Limit[b] \in Nat
  BY <1>2
<1>9. /\ Quantity[b] * Limit[b] < Reservation(b) + WireScale
      /\ Reservation(b) \in Nat /\ WireScale \in Nat
      /\ Reservation(s) = Quantity[s]
  BY <1>1, <1>8, TruncatedBounds, OrdersAssumption DEF Reservation
<1>10. QED
  BY <1>4, <1>5, <1>6, <1>7, <1>8, <1>9

\* The four accounts of a settlement are four different rows.
LEMMA FourAccounts ==
  ASSUME NEW p \in Pairs
  PROVE  /\ {CashOf(p[1]), HoldingOf(p[1]), CashOf(p[2]), HoldingOf(p[2])}
              \subseteq Accounts
         /\ CashOf(p[1]) # HoldingOf(p[1]) /\ CashOf(p[2]) # HoldingOf(p[2])
         /\ CashOf(p[1]) # CashOf(p[2]) /\ HoldingOf(p[1]) # HoldingOf(p[2])
         /\ CashOf(p[1]) # HoldingOf(p[2]) /\ CashOf(p[2]) # HoldingOf(p[1])
<1> DEFINE b == p[1]
           s == p[2]
<1>1. b \in Intents /\ s \in Intents /\ InstitutionOf[b] # InstitutionOf[s]
  BY DEF Pairs, Counterparts
<1>2. /\ InstitutionOf[b] \in Institutions /\ InstitutionOf[s] \in Institutions
      /\ AssetOf[b] \in Assets \ {Cash} /\ AssetOf[s] \in Assets \ {Cash}
      /\ Cash \in Assets
  BY <1>1, OrdersAssumption
<1>3. QED
  BY <1>1, <1>2 DEF CashOf, HoldingOf, Accounts

-----------------------------------------------------------------------------
\* Orders in use are no longer open, no order is in two pairs, and every pair
\* crossed when it was decided.
Decided == matched \cup trades

Disjoint ==
  /\ \A p \in Decided : Sides(p) \subseteq seen \ open
  /\ \A p, q \in Decided : Sides(p) \cap Sides(q) # {} => p = q

Crossed == \A p \in Decided : PairCrosses(p[1], p[2])

IInv == TypeOK /\ Disjoint /\ Crossed

LEMMA InitInv == Init => IInv
<1> SUFFICES ASSUME Init PROVE IInv
  OBVIOUS
<1>1. TypeOK
  BY DepositAssumption DEF Init, TypeOK
<1>2. Disjoint /\ Crossed
  BY DEF Init, Disjoint, Crossed, Decided
<1>3. QED BY <1>1, <1>2 DEF IInv

LEMMA StepInv == IInv /\ [Next]_evars => IInv'
<1> SUFFICES ASSUME IInv, [Next]_evars PROVE IInv'
  OBVIOUS
<1> USE DEF IInv
<1>1. ASSUME NEW i \in Intents, Open(i)
      PROVE  IInv'
  <2>1. TypeOK'
    BY <1>1 DEF Open, TypeOK
  <2>2. Decided' = Decided
    BY <1>1 DEF Open, Decided
  <2>3. \A p \in Decided : Sides(p) \subseteq seen' \ open'
    BY <1>1 DEF Open, Disjoint
  <2>4. Disjoint' /\ Crossed'
    BY <2>2, <2>3 DEF Disjoint, Crossed, Sides
  <2>5. QED BY <2>1, <2>4
<1>2. ASSUME NEW p \in Pairs, Match(p[1], p[2])
      PROVE  IInv'
  <2>1. p = <<p[1], p[2]>>
    BY DEF Pairs
  <2>2. TypeOK'
    BY <1>2, <2>1 DEF Match, TypeOK
  <2>3. Decided' = Decided \cup {p}
    BY <1>2, <2>1 DEF Match, Decided
  <2>4. Sides(p) \subseteq open
    BY <1>2 DEF Match, Sides
  <2>5. \A q \in Decided : Sides(p) \cap Sides(q) = {}
    BY <2>4 DEF Disjoint
  <2>6. \A q \in Decided' : Sides(q) \subseteq seen' \ open'
    BY <1>2, <2>3, <2>4 DEF Match, Disjoint, Sides, TypeOK
  <2>7. \A q, r \in Decided' : Sides(q) \cap Sides(r) # {} => q = r
    BY <2>3, <2>5 DEF Disjoint
  <2>8. Crossed'
    BY <1>2, <2>3 DEF Match, Crossed
  <2>9. QED BY <2>2, <2>6, <2>7, <2>8 DEF Disjoint, Sides
<1>3. ASSUME NEW p \in Pairs, MatchInVain(p[1], p[2])
      PROVE  IInv'
  <2>1. TypeOK'
    BY <1>3 DEF MatchInVain, TypeOK
  <2>2. Decided' = Decided
    BY <1>3 DEF MatchInVain, Decided
  <2>3. \A q \in Decided : Sides(q) \subseteq seen' \ open'
    BY <1>3 DEF MatchInVain, Disjoint
  <2>4. Disjoint' /\ Crossed'
    BY <2>2, <2>3 DEF Disjoint, Crossed, Sides
  <2>5. QED BY <2>1, <2>4
<1>4. ASSUME NEW p \in Pairs, Settle(p[1], p[2])
      PROVE  IInv'
  <2>1. p = <<p[1], p[2]>> /\ p \in matched
    BY <1>4 DEF Settle, Pairs
  <2>2. PairCrosses(p[1], p[2])
    BY <2>1 DEF Crossed, Decided
  <2>3. Transfer(p[1], p[2]) \in [Accounts -> Nat]
    BY <1>4, <2>2, CrossedPair, FourAccounts DEF Settle, Transfer, TypeOK
  <2>4. TypeOK'
    BY <1>4, <2>1, <2>3 DEF Settle, TypeOK
  <2>5. Decided' = Decided
    BY <1>4, <2>1 DEF Settle, Decided
  <2>6. Disjoint' /\ Crossed'
    BY <1>4, <2>5 DEF Settle, Disjoint, Crossed, Sides
  <2>7. QED BY <2>4, <2>6
<1>5. ASSUME NEW p \in Pairs, Abandon(p[1], p[2])
      PROVE  IInv'
  <2>1. TypeOK'
    BY <1>5 DEF Abandon, TypeOK
  <2>2. Decided' \subseteq Decided
    BY <1>5 DEF Abandon, Decided
  <2>3. Disjoint' /\ Crossed'
    BY <1>5, <2>2 DEF Abandon, Disjoint, Crossed, Sides
  <2>4. QED BY <2>1, <2>3
<1>6. CASE UNCHANGED evars
  BY <1>6 DEF evars, TypeOK, Disjoint, Crossed, Decided, Sides
<1>7. QED
  BY <1>1, <1>2, <1>3, <1>4, <1>5, <1>6 DEF Next

LEMMA Inductive == Spec => []IInv
BY InitInv, StepInv, PTL DEF Spec

-----------------------------------------------------------------------------
\* Type correctness; in particular no settlement drives a balance below zero.
THEOREM TypeCorrect == Spec => []TypeOK
<1>1. IInv => TypeOK
  BY DEF IInv
<1>2. QED BY Inductive, <1>1, PTL

\* No order is settled twice: once a match has consumed it, it is in one pair
\* for good (evaluate_match deletes both kv entries).
THEOREM TradedOnce == Spec => []OneTradePerOrder
<1>1. IInv => OneTradePerOrder
  BY DEF IInv, Disjoint, Decided, OneTradePerOrder
<1>2. QED BY Inductive, <1>1, PTL

\* Every decided and every settled pair respects both limits, takes no more of
\* the asset than the seller's descriptor reserved, and charges the buyer less
\* than one wire unit above what its truncated descriptor reserved
\* (cross_verdict, seal_intent, persist_completed_settlement).
THEOREM LimitsRespected == Spec => []WithinReservation
<1>1. IInv => WithinReservation
  <2> SUFFICES ASSUME IInv, NEW p \in Decided
               PROVE  /\ Limit[p[2]] <= Price(p[1], p[2])
                      /\ Price(p[1], p[2]) <= Limit[p[1]]
                      /\ Cost(p[1], p[2]) < Reservation(p[1]) + WireScale
                      /\ Fill(p[1], p[2]) <= Reservation(p[2])
    BY DEF WithinReservation, Decided
  <2>1. p \in Pairs /\ PairCrosses(p[1], p[2])
    BY DEF IInv, TypeOK, Crossed, Decided
  <2>2. QED BY <2>1, CrossedPair
<1>2. QED BY Inductive, <1>1, PTL

-----------------------------------------------------------------------------
(* Sums over trades, as cardinalities of sets of numbered units.           *)

UnitsOf(p, n) == {p} \X (1 .. n)
Units(ps, f) == UNION {UnitsOf(p, f[p]) : p \in ps}

LEMMA UnitsOfSize ==
  ASSUME NEW p, NEW n \in Nat
  PROVE  IsFiniteSet(UnitsOf(p, n)) /\ Cardinality(UnitsOf(p, n)) = n
<1>1. IsFiniteSet({p}) /\ Cardinality({p}) = 1
  BY FS_Singleton
<1>2. IsFiniteSet(1 .. n) /\ Cardinality(1 .. n) = n
  BY FS_Interval
<1>3. /\ IsFiniteSet({p} \X (1 .. n))
      /\ Cardinality({p} \X (1 .. n)) = Cardinality({p}) * Cardinality(1 .. n)
  BY <1>1, <1>2, FS_Product, Zenon
<1>4. QED BY <1>1, <1>2, <1>3 DEF UnitsOf

\* One trade more adds its own amount.
LEMMA UnitsGrow ==
  ASSUME NEW ps, NEW p, p \notin ps, NEW f, f[p] \in Nat,
         IsFiniteSet(Units(ps, f))
  PROVE  /\ IsFiniteSet(Units(ps \cup {p}, f))
         /\ Cardinality(Units(ps \cup {p}, f))
              = Cardinality(Units(ps, f)) + f[p]
<1> DEFINE old == Units(ps, f)
           new == UnitsOf(p, f[p])
<1>1. IsFiniteSet(new) /\ Cardinality(new) = f[p]
  BY UnitsOfSize
<1>2. Units(ps \cup {p}, f) = old \cup new
  BY DEF Units
<1>3. old \cap new = {}
  BY DEF Units, UnitsOf
<1>4. Cardinality(old) \in Nat
  BY FS_CardinalityType
<1> HIDE DEF old, new
<1>5. IsFiniteSet(old)
  BY DEF old
<1>6. /\ IsFiniteSet(old \cup new)
      /\ Cardinality(old \cup new)
           = Cardinality(old) + Cardinality(new) - Cardinality(old \cap new)
  BY <1>1, <1>5, FS_Union, Zenon
<1>7. Cardinality(old \cap new) = 0
  BY <1>3, FS_EmptySet
<1>8. Cardinality(old \cup new) = Cardinality(old) + f[p]
  BY <1>1, <1>4, <1>6, <1>7
<1>9. QED BY <1>2, <1>6, <1>8 DEF old

DebitsOf(a) == [p \in Pairs |-> Debit(p, a)]
CreditsOf(a) == [p \in Pairs |-> Credit(p, a)]

LEMMA UnitsOfTrades ==
  ASSUME NEW ps \in SUBSET Pairs, NEW a
  PROVE  /\ UnitsPaid(ps, a) = Units(ps, DebitsOf(a))
         /\ UnitsReceived(ps, a) = Units(ps, CreditsOf(a))
<1>1. \A p \in ps : DebitsOf(a)[p] = Debit(p, a) /\ CreditsOf(a)[p] = Credit(p, a)
  BY DEF DebitsOf, CreditsOf
<1>2. QED BY <1>1 DEF UnitsPaid, UnitsReceived, Units, UnitsOf

\* What a trade not yet in the books adds to both of an account's sums.
LEMMA BooksGrow ==
  ASSUME NEW ps \in SUBSET Pairs, NEW p \in Pairs \ ps, PairCrosses(p[1], p[2]),
         NEW a, IsFiniteSet(UnitsPaid(ps, a)), IsFiniteSet(UnitsReceived(ps, a))
  PROVE  /\ Debit(p, a) \in Nat /\ Credit(p, a) \in Nat
         /\ IsFiniteSet(UnitsPaid(ps \cup {p}, a))
         /\ Cardinality(UnitsPaid(ps \cup {p}, a))
              = Cardinality(UnitsPaid(ps, a)) + Debit(p, a)
         /\ IsFiniteSet(UnitsReceived(ps \cup {p}, a))
         /\ Cardinality(UnitsReceived(ps \cup {p}, a))
              = Cardinality(UnitsReceived(ps, a)) + Credit(p, a)
<1>1. Debit(p, a) \in Nat /\ Credit(p, a) \in Nat
  BY CrossedPair DEF Debit, Credit
<1>2. DebitsOf(a)[p] = Debit(p, a) /\ CreditsOf(a)[p] = Credit(p, a)
  BY DEF DebitsOf, CreditsOf
<1>3. /\ UnitsPaid(ps, a) = Units(ps, DebitsOf(a))
      /\ UnitsReceived(ps, a) = Units(ps, CreditsOf(a))
      /\ UnitsPaid(ps \cup {p}, a) = Units(ps \cup {p}, DebitsOf(a))
      /\ UnitsReceived(ps \cup {p}, a) = Units(ps \cup {p}, CreditsOf(a))
  BY UnitsOfTrades
<1>4. PICK d : d = DebitsOf(a)
  OBVIOUS
<1>5. PICK c : c = CreditsOf(a)
  OBVIOUS
<1>6. /\ IsFiniteSet(Units(ps \cup {p}, d))
      /\ Cardinality(Units(ps \cup {p}, d)) = Cardinality(Units(ps, d)) + d[p]
  BY <1>1, <1>2, <1>3, <1>4, UnitsGrow
<1>7. /\ IsFiniteSet(Units(ps \cup {p}, c))
      /\ Cardinality(Units(ps \cup {p}, c)) = Cardinality(Units(ps, c)) + c[p]
  BY <1>1, <1>2, <1>3, <1>5, UnitsGrow
<1>8. QED BY <1>1, <1>2, <1>3, <1>4, <1>5, <1>6, <1>7

-----------------------------------------------------------------------------
(* The books.                                                              *)

\* A settled pair is never in hand again, which is why its legs move once.
BooksInv ==
  /\ matched \cap trades = {}
  /\ \A a \in Accounts : /\ IsFiniteSet(UnitsPaid(trades, a))
                         /\ IsFiniteSet(UnitsReceived(trades, a))
  /\ BooksBalance

LEMMA BooksInit == Init => BooksInv
<1> SUFFICES ASSUME Init PROVE BooksInv
  OBVIOUS
<1>1. trades = {} /\ matched = {} /\ balance = Deposit
  BY DEF Init
<1>2. \A a : UnitsPaid({}, a) = {} /\ UnitsReceived({}, a) = {}
  BY DEF UnitsPaid, UnitsReceived
<1>3. IsFiniteSet({}) /\ Cardinality({}) = 0
  BY FS_EmptySet
<1>4. \A a \in Accounts : Deposit[a] \in Nat
  BY DepositAssumption
<1>5. QED BY <1>1, <1>2, <1>3, <1>4 DEF BooksInv, BooksBalance

\* A settlement changes each of its four accounts by its debit or credit there.
LEMMA LegsBooked ==
  ASSUME NEW p \in Pairs, PairCrosses(p[1], p[2]),
         balance \in [Accounts -> Nat], NEW a \in Accounts
  PROVE  Transfer(p[1], p[2])[a] = balance[a] - Debit(p, a) + Credit(p, a)
<1>1. PICK cost \in Nat : cost = Cost(p[1], p[2])
  BY CrossedPair
<1>2. PICK fill \in Nat : fill = Fill(p[1], p[2])
  BY CrossedPair
<1>3. balance[a] \in Nat
  OBVIOUS
<1>4. Transfer(p[1], p[2])[a] =
        IF a = CashOf(p[1]) THEN balance[a] - cost
        ELSE IF a = HoldingOf(p[1]) THEN balance[a] + fill
        ELSE IF a = HoldingOf(p[2]) THEN balance[a] - fill
        ELSE IF a = CashOf(p[2]) THEN balance[a] + cost
        ELSE balance[a]
  BY <1>1, <1>2, FourAccounts DEF Transfer
<1>5. QED BY <1>1, <1>2, <1>3, <1>4, FourAccounts DEF Debit, Credit

LEMMA BooksStep == IInv /\ IInv' /\ BooksInv /\ [Next]_evars => BooksInv'
<1> SUFFICES ASSUME IInv, IInv', BooksInv, [Next]_evars PROVE BooksInv'
  OBVIOUS
<1>1. ASSUME trades' = trades, balance' = balance,
             matched' \cap trades = {}
      PROVE  BooksInv'
  BY <1>1 DEF BooksInv, BooksBalance
<1>2. ASSUME NEW i \in Intents, Open(i)
      PROVE  BooksInv'
  BY <1>1, <1>2 DEF Open, BooksInv
<1>3. ASSUME NEW p \in Pairs, Match(p[1], p[2])
      PROVE  BooksInv'
  <2>1. p = <<p[1], p[2]>>
    BY DEF Pairs
  <2>2. Sides(p) \subseteq open /\ Sides(p) # {}
    BY <1>3 DEF Match, Sides
  <2>3. p \notin trades
    BY <2>2 DEF IInv, Disjoint, Decided
  <2>4. matched' \cap trades = {}
    BY <1>3, <2>1, <2>3 DEF Match, BooksInv
  <2>5. QED BY <1>1, <1>3, <2>4 DEF Match
<1>4. ASSUME NEW p \in Pairs, MatchInVain(p[1], p[2])
      PROVE  BooksInv'
  BY <1>1, <1>4 DEF MatchInVain, BooksInv
<1>5. ASSUME NEW p \in Pairs, Settle(p[1], p[2])
      PROVE  BooksInv'
  <2>1. p = <<p[1], p[2]>> /\ p \in matched
    BY <1>5 DEF Settle, Pairs
  <2>2. /\ PairCrosses(p[1], p[2]) /\ balance \in [Accounts -> Nat]
        /\ trades \in SUBSET Pairs /\ balance' \in [Accounts -> Nat]
    BY <2>1 DEF IInv, TypeOK, Crossed, Decided
  <2>3. /\ balance' = Transfer(p[1], p[2])
        /\ trades' = trades \cup {p} /\ matched' = matched \ {p}
    BY <1>5, <2>1 DEF Settle
  <2>4. p \in Pairs \ trades
    BY <2>1 DEF BooksInv
  <2>5. matched' \cap trades' = {}
    BY <2>3 DEF BooksInv
  <2>6. PICK ts : ts = trades
    OBVIOUS
  <2>7. ASSUME NEW a \in Accounts
        PROVE  /\ IsFiniteSet(UnitsPaid(trades', a))
               /\ IsFiniteSet(UnitsReceived(trades', a))
               /\ balance'[a] + Cardinality(UnitsPaid(trades', a))
                    = Deposit[a] + Cardinality(UnitsReceived(trades', a))
    <3>1. /\ IsFiniteSet(UnitsPaid(ts, a)) /\ IsFiniteSet(UnitsReceived(ts, a))
          /\ balance[a] + Cardinality(UnitsPaid(ts, a))
               = Deposit[a] + Cardinality(UnitsReceived(ts, a))
      BY <2>6 DEF BooksInv, BooksBalance
    <3>2. /\ Debit(p, a) \in Nat /\ Credit(p, a) \in Nat
          /\ IsFiniteSet(UnitsPaid(ts \cup {p}, a))
          /\ Cardinality(UnitsPaid(ts \cup {p}, a))
               = Cardinality(UnitsPaid(ts, a)) + Debit(p, a)
          /\ IsFiniteSet(UnitsReceived(ts \cup {p}, a))
          /\ Cardinality(UnitsReceived(ts \cup {p}, a))
               = Cardinality(UnitsReceived(ts, a)) + Credit(p, a)
      BY <2>2, <2>4, <2>6, <3>1, BooksGrow
    <3>3. balance'[a] = balance[a] - Debit(p, a) + Credit(p, a)
      BY <2>2, <2>3, LegsBooked
    <3>4. /\ Cardinality(UnitsPaid(ts, a)) \in Nat
          /\ Cardinality(UnitsReceived(ts, a)) \in Nat
          /\ balance[a] \in Nat /\ Deposit[a] \in Nat
      BY <2>2, <3>1, FS_CardinalityType, DepositAssumption
    <3>5. trades' = ts \cup {p}
      BY <2>3, <2>6
    <3>6. QED BY <3>1, <3>2, <3>3, <3>4, <3>5
  <2>8. QED BY <2>5, <2>7 DEF BooksInv, BooksBalance
<1>6. ASSUME NEW p \in Pairs, Abandon(p[1], p[2])
      PROVE  BooksInv'
  BY <1>1, <1>6 DEF Abandon, BooksInv
<1>7. CASE UNCHANGED evars
  BY <1>1, <1>7 DEF evars, BooksInv
<1>8. QED
  BY <1>2, <1>3, <1>4, <1>5, <1>6, <1>7 DEF Next

\* Every balance is the deposit, less what the recorded trades took, plus what
\* they brought: each row of completed_trades moved its legs exactly once
\* (persist_completed_settlement).
THEOREM BooksKept == Spec => []BooksBalance
<1>1. Spec => []BooksInv
  BY Inductive, BooksInit, BooksStep, PTL DEF Spec
<1>2. BooksInv => BooksBalance
  BY DEF BooksInv
<1>3. QED BY <1>1, <1>2, PTL
=============================================================================
