---------------------- MODULE MatchingOrchestratorProofs ----------------------
(***************************************************************************)
(* Proofs about MatchingOrchestrator, for any intents, agents, limits and  *)
(* bounds: its invariants, and that it implements Exchange, step by step.  *)
(***************************************************************************)
EXTENDS MatchingOrchestrator, FiniteSetTheorems, SequenceTheorems,
        WellFoundedInduction, TLAPS

-----------------------------------------------------------------------------
(* Arrays.                                                                 *)

\* A set of indexes has a least one.
LEMMA LeastIndex ==
  ASSUME NEW T \in SUBSET Nat, T # {}
  PROVE  \E k \in T : \A j \in T : k <= j
  <1> DEFINE R == OpToRel(<, Nat)
  <1>1. IsWellFoundedOn(R, Nat)
    BY NatLessThanWellFounded
  <1>2. \A x, y \in Nat : x < y => <<x, y>> \in R
    BY DEF OpToRel
  <1> HIDE DEF R
  <1>3. PICK k \in T : \A j \in T : <<j, k>> \notin R
    BY <1>1, WFMin, Zenon
  <1>4. \A j \in T : ~(j < k)
    BY <1>2, <1>3
  <1>5. \A j \in T : k <= j
    BY <1>4
  <1>6. QED  BY <1>5

LEMMA IntervalSize ==
  ASSUME NEW n \in Nat
  PROVE  IsFiniteSet(1 .. n) /\ Cardinality(1 .. n) = n
  BY FS_Interval

\* The index after the n-th of a set that has more than n.
LEMMA NextRank ==
  ASSUME NEW K \in SUBSET Nat, IsFiniteSet(K), NEW k \in K,
         Cardinality({j \in K : j < k}) + 1 < Cardinality(K)
  PROVE  \E l \in K : Cardinality({j \in K : j < l}) =
                        Cardinality({j \in K : j < k}) + 1
  <1> DEFINE below == {j \in K : j < k}
             above == {j \in K : j > k}
  <1>0. \A j \in K : j \in Nat
    OBVIOUS
  <1>1. IsFiniteSet(below) /\ Cardinality(below) \in Nat
    BY FS_Subset, FS_CardinalityType
  <1>2. /\ IsFiniteSet(below \cup {k})
        /\ Cardinality(below \cup {k}) = Cardinality(below) + 1
    <2>1. k \notin below
      BY <1>0
    <2> HIDE DEF below
    <2>2. QED  BY <1>1, <2>1, FS_AddElement
  <1>3. above # {}
    <2>1. SUFFICES ASSUME above = {} PROVE FALSE
      OBVIOUS
    <2>2. \A j \in K : j < k \/ j = k
      <3>1. \A j \in K : ~(j > k)
        BY <2>1
      <3>2. QED  BY <1>0, <3>1
    <2>3. K = below \cup {k}
      BY <2>2
    <2>4. Cardinality(K) = Cardinality(below) + 1
      BY <1>2, <2>3
    <2>5. QED  BY <1>1, <2>4
  <1>4. PICK l \in above : \A j \in above : l <= j
    BY <1>3, LeastIndex
  <1>5. {j \in K : j < l} = below \cup {k}
    <2>1. \A j \in K : j < l <=> j < k \/ j = k
      BY <1>0, <1>4
    <2>2. QED  BY <2>1
  <1>6. QED  BY <1>2, <1>4, <1>5

\* A set of n indexes or more has an n-th.
LEMMA NthProperties ==
  ASSUME NEW K \in SUBSET Nat, IsFiniteSet(K), NEW n \in 1 .. Cardinality(K)
  PROVE  /\ Nth(K, n) \in K
         /\ Cardinality({j \in K : j < Nth(K, n)}) = n - 1
  <1> DEFINE Ranked(m) == \E k \in K : Cardinality({j \in K : j < k}) = m - 1
             missing == {m \in 1 .. Cardinality(K) : ~Ranked(m)}
  <1>1. Cardinality(K) \in Nat
    BY FS_CardinalityType
  <1>2. SUFFICES missing = {}
    BY <1>2 DEF Nth
  <1>3. SUFFICES ASSUME missing # {} PROVE FALSE
    OBVIOUS
  <1>4. PICK m \in missing : \A j \in missing : m <= j
    <2>1. missing \in SUBSET Nat
      BY <1>1
    <2>2. QED  BY <1>3, <2>1, LeastIndex
  <1>5. CASE m = 1
    <2>1. K # {}
      BY <1>1, <1>5, FS_EmptySet
    <2>2. PICK k \in K : \A j \in K : k <= j
      BY <2>1, LeastIndex
    <2>3. {j \in K : j < k} = {}
      <3>1. \A j \in K : j \in Nat /\ k <= j
        BY <2>2
      <3>2. \A j \in K : ~(j < k)
        BY <3>1
      <3>3. QED  BY <3>2
    <2>4. Cardinality({j \in K : j < k}) = 0
      BY <2>3, FS_EmptySet
    <2>5. QED  BY <1>4, <1>5, <2>4
  <1>6. CASE m # 1
    <2>1. m - 1 \in 1 .. Cardinality(K)
      BY <1>1, <1>4, <1>6
    <2>2. m - 1 \notin missing
      BY <1>1, <1>4, <1>6
    <2>3. PICK k \in K : Cardinality({j \in K : j < k}) = (m - 1) - 1
      BY <2>1, <2>2
    <2>4. \E l \in K : Cardinality({j \in K : j < l}) = m - 1
      <3>1. /\ Cardinality({j \in K : j < k}) + 1 = m - 1
            /\ m - 1 < Cardinality(K)
        BY <1>1, <1>4, <2>3
      <3>2. QED  BY <3>1, NextRank
    <2>5. QED  BY <1>4, <2>4
  <1>7. QED  BY <1>5, <1>6

\* What filtering an array leaves: its elements without those that go, no more
\* often than before, and all of it when nothing goes.
LEMMA WithoutProperties ==
  ASSUME NEW T, NEW q \in Seq(T), NEW gone
  PROVE  /\ Without(q, gone) \in Seq(T)
         /\ \A n \in DOMAIN Without(q, gone) :
              /\ \E k \in DOMAIN q : Without(q, gone)[n] = q[k]
              /\ Without(q, gone)[n] \notin gone
         /\ IsInjective(q) => IsInjective(Without(q, gone))
         /\ (\A k \in DOMAIN q : q[k] \notin gone) => Without(q, gone) = q
  <1> DEFINE kept == {k \in DOMAIN q : q[k] \notin gone}
             size == Cardinality(kept)
             w == [n \in 1 .. size |-> q[Nth(kept, n)]]
  <1>1. /\ Len(q) \in Nat /\ DOMAIN q = 1 .. Len(q)
        /\ \A k \in DOMAIN q : q[k] \in T
        /\ q = [k \in 1 .. Len(q) |-> q[k]]
    BY LenProperties, ElementOfSeq
  <1>2. IsFiniteSet(kept) /\ size \in Nat /\ kept \in SUBSET Nat
    <2>1. IsFiniteSet(DOMAIN q)
      <3>1. IsFiniteSet(1 .. Len(q))
        BY <1>1, IntervalSize, Zenon
      <3>2. QED  BY <1>1, <3>1
    <2>2. kept \in SUBSET (DOMAIN q)
      OBVIOUS
    <2>3. QED  BY <1>1, <2>1, <2>2, FS_Subset, FS_CardinalityType
  <1>3. \A n \in 1 .. size :
          /\ Nth(kept, n) \in kept
          /\ Cardinality({j \in kept : j < Nth(kept, n)}) = n - 1
    <2>1. SUFFICES ASSUME NEW n \in 1 .. size
                   PROVE  /\ Nth(kept, n) \in kept
                          /\ Cardinality({j \in kept : j < Nth(kept, n)}) = n - 1
      OBVIOUS
    <2> HIDE DEF kept
    <2>2. QED  BY <1>2, NthProperties
  <1>4. Without(q, gone) = w
    BY DEF Without
  <1>5. w \in Seq(T)
    <2>1. \A n \in 1 .. size : w[n] \in T
      BY <1>1, <1>3
    <2>2. w \in [1 .. size -> T]
      BY <2>1
    <2> HIDE DEF w, size
    <2>3. QED  BY <1>2, <2>2
  <1>6. ASSUME NEW n \in 1 .. size
        PROVE  (\E k \in DOMAIN q : w[n] = q[k]) /\ w[n] \notin gone
    BY <1>3
  <1>7. ASSUME IsInjective(q) PROVE IsInjective(w)
    <2>1. SUFFICES ASSUME NEW m \in 1 .. size, NEW n \in 1 .. size, w[m] = w[n]
                   PROVE  m = n
      BY DEF IsInjective
    <2>2. Nth(kept, m) = Nth(kept, n)
      BY <1>3, <1>7, <2>1 DEF IsInjective
    <2>3. m - 1 = n - 1
      BY <1>3, <2>2
    <2>4. QED  BY <1>2, <2>3
  <1>8. ASSUME \A k \in DOMAIN q : q[k] \notin gone
        PROVE  w = q
    <2>1. kept = 1 .. Len(q) /\ size = Len(q)
      <3>1. kept = 1 .. Len(q)
        BY <1>1, <1>8
      <3>2. Cardinality(1 .. Len(q)) = Len(q)
        BY <1>1, IntervalSize, Zenon
      <3>3. QED  BY <3>1, <3>2
    <2>2. ASSUME NEW n \in 1 .. Len(q) PROVE Nth(kept, n) = n
      <3> DEFINE m == Nth(kept, n)
      <3>1. /\ m \in 1 .. Len(q)
            /\ Cardinality({j \in kept : j < m}) = n - 1
        BY <1>3, <2>1
      <3> HIDE DEF m
      <3>2. {j \in kept : j < m} = 1 .. (m - 1)
        BY <1>1, <2>1, <3>1
      <3>3. m - 1 \in Nat
        BY <1>1, <3>1
      <3>4. Cardinality(1 .. (m - 1)) = m - 1
        BY <3>3, IntervalSize
      <3>5. m - 1 = n - 1
        BY <3>1, <3>2, <3>4
      <3>6. m = n
        BY <1>1, <3>1, <3>5
      <3>7. QED  BY <3>6 DEF m
    <2>3. \A n \in 1 .. Len(q) : w[n] = q[n]
      BY <2>1, <2>2
    <2>4. QED  BY <1>1, <2>1, <2>3
  <1> HIDE DEF w
  <1>9. DOMAIN w = 1 .. size
    BY DEF w
  <1>10. QED  BY <1>4, <1>5, <1>6, <1>7, <1>8, <1>9

\* What is left of an array after splice(k, 1), index by index.
LEMMA RemoveAtProperties ==
  ASSUME NEW T, NEW q \in Seq(T), NEW k \in DOMAIN q
  PROVE  /\ RemoveAt(q, k) \in Seq(T)
         /\ Len(RemoveAt(q, k)) = Len(q) - 1
         /\ \A i \in 1 .. Len(q) - 1 :
              RemoveAt(q, k)[i] = IF i < k THEN q[i] ELSE q[i + 1]
  <1> DEFINE a == SubSeq(q, 1, k - 1)
             b == SubSeq(q, k + 1, Len(q))
  <1>1. k \in 1 .. Len(q) /\ Len(q) \in Nat
    BY LenProperties
  <1>2. /\ a \in Seq(T) /\ Len(a) = k - 1
        /\ \A i \in 1 .. k - 1 : a[i] = q[i]
    BY <1>1, SubSeqProperties
  <1>3. /\ b \in Seq(T) /\ Len(b) = Len(q) - k
        /\ \A i \in 1 .. Len(q) - k : b[i] = q[k + i]
    BY <1>1, SubSeqProperties
  <1>4. RemoveAt(q, k) = a \o b
    BY DEF RemoveAt
  <1> HIDE DEF a, b
  <1>5. /\ a \o b \in Seq(T)
        /\ Len(a \o b) = Len(q) - 1
    BY <1>1, <1>2, <1>3, ConcatProperties
  <1>6. ASSUME NEW i \in 1 .. Len(q) - 1
        PROVE  (a \o b)[i] = IF i < k THEN q[i] ELSE q[i + 1]
    <2>1. (a \o b)[i] = IF i <= Len(a) THEN a[i] ELSE b[i - Len(a)]
      BY <1>1, <1>2, <1>3, ConcatProperties
    <2>2. CASE i < k
      BY <2>1, <2>2, <1>1, <1>2
    <2>3. CASE ~(i < k)
      BY <2>1, <2>3, <1>1, <1>2, <1>3
    <2>4. QED  BY <2>2, <2>3
  <1>7. QED  BY <1>4, <1>5, <1>6

\* r holds nothing that q does not, and nothing twice.
Subarray(r, q) ==
  /\ r \in Seq(Intents)
  /\ IsInjective(r)
  /\ \A n \in DOMAIN r : \E k \in DOMAIN q : r[n] = q[k]

LEMMA SpliceShrinks ==
  ASSUME NEW q \in Seq(Intents), IsInjective(q), NEW k
  PROVE  Subarray(Splice(q, k), q)
  <1>1. CASE k \in DOMAIN q
    <2> DEFINE r == RemoveAt(q, k)
    <2>1. Len(q) \in Nat /\ DOMAIN q = 1 .. Len(q) /\ k \in 1 .. Len(q)
      BY <1>1, LenProperties
    <2>2. /\ r \in Seq(Intents) /\ Len(r) = Len(q) - 1
          /\ \A n \in 1 .. Len(q) - 1 :
               r[n] = IF n < k THEN q[n] ELSE q[n + 1]
      BY <1>1, RemoveAtProperties
    <2> HIDE DEF r
    <2>3. DOMAIN r = 1 .. Len(q) - 1
      BY <2>1, <2>2, LenProperties
    <2>4. ASSUME NEW m \in DOMAIN r, NEW n \in DOMAIN r, r[m] = r[n]
          PROVE  m = n
      <3> DEFINE at(l) == IF l < k THEN l ELSE l + 1
      <3>1. at(m) \in DOMAIN q /\ at(n) \in DOMAIN q
        BY <2>1, <2>3, <2>4
      <3>2. q[at(m)] = q[at(n)]
        BY <2>2, <2>3, <2>4
      <3>3. at(m) = at(n)
        BY <3>1, <3>2 DEF IsInjective
      <3>4. QED  BY <2>1, <2>3, <2>4, <3>3
    <2>5. \A n \in DOMAIN r : \E l \in DOMAIN q : r[n] = q[l]
      BY <2>1, <2>2, <2>3
    <2>6. Splice(q, k) = r
      BY <1>1 DEF Splice, r
    <2>7. IsInjective(r)
      BY <2>4 DEF IsInjective
    <2>8. QED  BY <2>2, <2>5, <2>6, <2>7 DEF Subarray
  <1>2. CASE k \notin DOMAIN q
    BY <1>2 DEF Splice, Subarray
  <1>3. QED  BY <1>1, <1>2

LEMMA WithoutShrinks ==
  ASSUME NEW q \in Seq(Intents), IsInjective(q), NEW gone
  PROVE  /\ Subarray(Without(q, gone), q)
         /\ \A n \in DOMAIN Without(q, gone) : Without(q, gone)[n] \notin gone
         /\ (\A k \in DOMAIN q : q[k] \notin gone) => Without(q, gone) = q
  BY WithoutProperties DEF Subarray

LEMMA SubarrayTransitive ==
  ASSUME NEW q, NEW r, NEW w, Subarray(w, r), Subarray(r, q)
  PROVE  Subarray(w, q)
  BY DEF Subarray

\* push of an intent that is not in the array.
LEMMA PushProperties ==
  ASSUME NEW q \in Seq(Intents), IsInjective(q), NEW i \in Intents,
         \A k \in DOMAIN q : q[k] # i
  PROVE  /\ Append(q, i) \in Seq(Intents)
         /\ Len(Append(q, i)) = Len(q) + 1
         /\ \A k \in DOMAIN q : Append(q, i)[k] = q[k]
         /\ Append(q, i)[Len(q) + 1] = i
         /\ IsInjective(Append(q, i))
  <1> DEFINE r == Append(q, i)
  <1>1. Len(q) \in Nat /\ DOMAIN q = 1 .. Len(q)
    BY LenProperties
  <1>2. /\ r \in Seq(Intents) /\ Len(r) = Len(q) + 1
        /\ \A k \in 1 .. Len(q) : r[k] = q[k]
        /\ r[Len(q) + 1] = i
    BY AppendProperties
  <1> HIDE DEF r
  <1>3. DOMAIN r = 1 .. Len(q) + 1
    BY <1>1, <1>2, LenProperties
  <1>4. ASSUME NEW m \in DOMAIN r, NEW n \in DOMAIN r, r[m] = r[n]
        PROVE  m = n
    <2>1. CASE m \in DOMAIN q /\ n \in DOMAIN q
      BY <1>1, <1>2, <1>4, <2>1 DEF IsInjective
    <2>2. CASE m = Len(q) + 1 \/ n = Len(q) + 1
      BY <1>1, <1>2, <1>3, <1>4, <2>2
    <2>3. QED  BY <1>1, <1>3, <2>1, <2>2
  <1>5. IsInjective(r)
    BY <1>4 DEF IsInjective
  <1>6. QED  BY <1>1, <1>2, <1>5 DEF r

-----------------------------------------------------------------------------
(* The scan.                                                               *)

Tasks == [pc : TaskStates, at : Nat, other : Intents, locked : Nat]

LEMMA NewTaskType ==
  ASSUME NEW i \in Intents, NEW pc \in TaskStates
  PROVE  NewTask(i, pc) \in Tasks /\ NewTask(i, pc).pc = pc
  BY DEF NewTask, Tasks

\* From index k on the scan stops at the first counterpart, or there is none
\* and the call returns.
LEMMA ScanFinds ==
  ASSUME NEW i \in Intents, NEW k \in Nat \ {0}, NEW q \in Seq(Intents)
  PROVE  /\ Scan(i, k, q) \in Tasks
         /\ \/ /\ Scan(i, k, q).pc = "done"
               /\ \A j \in k .. Len(q) : ~Counterparts(i, q[j])
            \/ /\ Scan(i, k, q).pc = "evaluate"
               /\ Scan(i, k, q).at \in k .. Len(q)
               /\ Scan(i, k, q).other = q[Scan(i, k, q).at]
               /\ Counterparts(i, Scan(i, k, q).other)
               /\ \A j \in k .. Scan(i, k, q).at - 1 : ~Counterparts(i, q[j])
  <1> DEFINE hits == {j \in k .. Len(q) : Counterparts(i, q[j])}
             first == Min(hits)
  <1>1. Len(q) \in Nat /\ DOMAIN q = 1 .. Len(q) /\ \A j \in 1 .. Len(q) : q[j] \in Intents
    BY LenProperties, ElementOfSeq
  <1>2. CASE hits = {}
    <2>1. Scan(i, k, q) = NewTask(i, "done")
      BY <1>2 DEF Scan
    <2>2. "done" \in TaskStates
      BY DEF TaskStates
    <2>3. QED  BY <1>2, <2>1, <2>2, NewTaskType
  <1>3. CASE hits # {}
    <2>1. hits \in SUBSET Nat
      BY <1>1
    <2>2. first \in hits /\ \A j \in hits : first <= j
      BY <1>3, <2>1, LeastIndex DEF Min
    <2>3. Scan(i, k, q) = [pc |-> "evaluate", at |-> first, other |-> q[first],
                           locked |-> 0]
      BY <1>3 DEF Scan
    <2> HIDE DEF first
    <2>4. first \in k .. Len(q) /\ Counterparts(i, q[first]) /\ q[first] \in Intents
      BY <1>1, <2>2
    <2>5. \A j \in k .. first - 1 : ~Counterparts(i, q[j])
      <3>1. SUFFICES ASSUME NEW j \in k .. first - 1, Counterparts(i, q[j])
                     PROVE  FALSE
        OBVIOUS
      <3>2. j \in hits
        BY <1>1, <2>4, <3>1
      <3>3. QED  BY <1>1, <2>2, <2>4, <3>1, <3>2
    <2>6. "evaluate" \in TaskStates /\ first \in Nat
      BY <1>1, <2>4 DEF TaskStates
    <2>7. QED  BY <2>3, <2>4, <2>5, <2>6 DEF Tasks
  <1>4. QED  BY <1>2, <1>3

-----------------------------------------------------------------------------
(* Pairs and their accounts.                                               *)

LEMMA CounterpartsPair ==
  ASSUME NEW i \in Intents, NEW j \in Intents, Counterparts(i, j)
  PROVE  /\ <<BuyerOf(i, j), SellerOf(i, j)>> \in Pairs
         /\ {BuyerOf(i, j), SellerOf(i, j)} = {i, j}
  <1>1. SideOf[i] \in {"buy", "sell"} /\ SideOf[j] \in {"buy", "sell"}
    BY OrdersAssumption
  <1>2. CASE SideOf[i] = "buy"
    BY <1>1, <1>2 DEF Counterparts, Pairs, BuyerOf, SellerOf
  <1>3. CASE SideOf[i] = "sell"
    BY <1>1, <1>3 DEF Counterparts, Pairs, BuyerOf, SellerOf
  <1>4. QED  BY <1>1, <1>2, <1>3

\* What a pair trades, and the four rows its settlement touches.
LEMMA PairFacts ==
  ASSUME NEW b, NEW s, <<b, s>> \in Pairs
  PROVE  /\ b \in Intents /\ s \in Intents /\ b # s
         /\ Fill(b, s) \in Nat /\ Cost(b, s) \in Nat
         /\ {CashOf(b), HoldingOf(b), CashOf(s), HoldingOf(s)} \subseteq Accounts
         /\ CashOf(b) # HoldingOf(b) /\ CashOf(s) # HoldingOf(s)
         /\ CashOf(b) # CashOf(s) /\ HoldingOf(b) # HoldingOf(s)
         /\ CashOf(b) # HoldingOf(s) /\ CashOf(s) # HoldingOf(b)
         /\ ReservedAccount(b) = CashOf(b) /\ ReservedAccount(s) = HoldingOf(s)
  <1>1. /\ b \in Intents /\ s \in Intents /\ b # s
        /\ InstitutionOf[b] # InstitutionOf[s]
        /\ SideOf[b] = "buy" /\ SideOf[s] # "buy"
    BY DEF Pairs, Counterparts
  <1>2. /\ InstitutionOf[b] \in Institutions /\ InstitutionOf[s] \in Institutions
        /\ AssetOf[b] \in Assets \ {Cash} /\ AssetOf[s] \in Assets \ {Cash}
        /\ Cash \in Assets
        /\ Quantity[b] \in Nat /\ Quantity[s] \in Nat
        /\ Limit[b] \in Nat /\ Limit[s] \in Nat
    BY <1>1, OrdersAssumption
  <1>3. Fill(b, s) \in Nat
    BY <1>2 DEF Fill, MatchedQuantity
  <1>4. Price(b, s) \in Nat
    BY <1>2 DEF Price, Midpoint
  <1>5. Cost(b, s) \in Nat
    BY <1>3, <1>4 DEF Cost
  <1>6. QED
    BY <1>1, <1>2, <1>3, <1>5 DEF CashOf, HoldingOf, Accounts, ReservedAccount

\* Truncating an amount to the wire takes less than one wire unit off it.
LEMMA TruncatedBounds ==
  ASSUME NEW x \in Nat
  PROVE  Truncated(x) \in Nat /\ Truncated(x) <= x /\ x < Truncated(x) + WireScale
  <1>1. WireScale \in Nat \ {0}
    BY OrdersAssumption
  <1>2. /\ x \div WireScale \in Nat
        /\ (x \div WireScale) * WireScale <= x
        /\ x < (x \div WireScale) * WireScale + WireScale
    BY <1>1, SMTT(30)
  <1>3. QED  BY <1>1, <1>2 DEF Truncated

LEMMA ReservationFacts ==
  ASSUME NEW i \in Intents
  PROVE  Reservation(i) \in Nat /\ ReservedAccount(i) \in Accounts
  <1>1. /\ InstitutionOf[i] \in Institutions /\ AssetOf[i] \in Assets
        /\ Cash \in Assets /\ Quantity[i] \in Nat /\ Limit[i] \in Nat
    BY OrdersAssumption
  <1>2. Truncated(Quantity[i] * Limit[i]) \in Nat
    BY <1>1, TruncatedBounds
  <1>3. QED
    BY <1>1, <1>2
       DEF Reservation, ReservedAccount, CashOf, HoldingOf, Accounts

-----------------------------------------------------------------------------
(* The stored procedures on a row.                                         *)

LEMMA LockRowOK ==
  ASSUME NEW row, RowOK(row), NEW amount \in Nat, CanLock(row, amount)
  PROVE  /\ RowOK(LockRow(row, amount))
         /\ LockRow(row, amount).balance = row.balance
         /\ LockRow(row, amount).locked = row.locked + amount
  BY DEF RowOK, PortfolioRow, CanLock, Available, LockRow

LEMMA ReleaseRowOK ==
  ASSUME NEW row, RowOK(row), NEW amount \in Nat
  PROVE  /\ RowOK(ReleaseRow(row, amount))
         /\ ReleaseRow(row, amount).balance = row.balance
         /\ ReleaseRow(row, amount).locked = Greatest(row.locked - amount, 0)
  BY DEF RowOK, PortfolioRow, ReleaseRow, Greatest

LEMMA ReceiveLegOK ==
  ASSUME NEW row, RowOK(row), NEW amount \in Nat
  PROVE  /\ RowOK(ReceiveLeg(row, amount))
         /\ ReceiveLeg(row, amount).balance = row.balance + amount
         /\ ReceiveLeg(row, amount).locked <= row.locked
  BY DEF RowOK, PortfolioRow, ReceiveLeg, Least

\* persist_completed_settlement on the table: the two payers' locks shrink by
\* what the outcome says, the receivers' locks do not grow, and every row keeps
\* its constraints.
LEMMA LegsOK ==
  ASSUME NEW b, NEW s, <<b, s>> \in Pairs,
         NEW table \in [Accounts -> PortfolioRow], \A a \in Accounts : RowOK(table[a]),
         NEW cash \in Nat, NEW asset \in Nat, CanPersist(table, b, s, cash, asset)
  PROVE  /\ Legs(table, b, s, cash, asset) \in [Accounts -> PortfolioRow]
         /\ \A a \in Accounts : RowOK(Legs(table, b, s, cash, asset)[a])
         /\ Legs(table, b, s, cash, asset)[CashOf(b)].locked =
              Greatest(table[CashOf(b)].locked - cash, 0)
         /\ Legs(table, b, s, cash, asset)[HoldingOf(s)].locked =
              Greatest(table[HoldingOf(s)].locked - asset, 0)
         /\ \A a \in Accounts \ {CashOf(b), HoldingOf(s)} :
              Legs(table, b, s, cash, asset)[a].locked <= table[a].locked
         /\ \A a \in Accounts :
              Legs(table, b, s, cash, asset)[a].balance =
                IF a = CashOf(b) THEN table[a].balance - Cost(b, s)
                ELSE IF a = HoldingOf(b) THEN table[a].balance + Fill(b, s)
                ELSE IF a = HoldingOf(s) THEN table[a].balance - Fill(b, s)
                ELSE IF a = CashOf(s) THEN table[a].balance + Cost(b, s)
                ELSE table[a].balance
  <1> DEFINE after == Legs(table, b, s, cash, asset)
  <1>1. /\ {CashOf(b), HoldingOf(b), CashOf(s), HoldingOf(s)} \subseteq Accounts
        /\ CashOf(b) # HoldingOf(b) /\ CashOf(s) # HoldingOf(s)
        /\ CashOf(b) # CashOf(s) /\ HoldingOf(b) # HoldingOf(s)
        /\ CashOf(b) # HoldingOf(s) /\ CashOf(s) # HoldingOf(b)
        /\ Fill(b, s) \in Nat /\ Cost(b, s) \in Nat
    BY PairFacts
  <1>2. /\ DOMAIN after = Accounts
        /\ after[CashOf(b)] = PayLeg(table[CashOf(b)], Cost(b, s), cash)
        /\ after[HoldingOf(b)] = ReceiveLeg(table[HoldingOf(b)], Fill(b, s))
        /\ after[HoldingOf(s)] = PayLeg(table[HoldingOf(s)], Fill(b, s), asset)
        /\ after[CashOf(s)] = ReceiveLeg(table[CashOf(s)], Cost(b, s))
        /\ \A a \in Accounts \ {CashOf(b), HoldingOf(b), CashOf(s), HoldingOf(s)} :
             after[a] = table[a]
        /\ after = [a \in Accounts |-> after[a]]
    BY <1>1 DEF Legs
  <1>3. RowOK(after[CashOf(b)]) /\ RowOK(after[HoldingOf(s)])
    BY DEF CanPersist
  <1> HIDE DEF after
  <1>4. /\ RowOK(after[HoldingOf(b)])
        /\ after[HoldingOf(b)].balance = table[HoldingOf(b)].balance + Fill(b, s)
        /\ after[HoldingOf(b)].locked <= table[HoldingOf(b)].locked
    <2> DEFINE row == table[HoldingOf(b)]
    <2>1. RowOK(row) /\ Fill(b, s) \in Nat /\ after[HoldingOf(b)] = ReceiveLeg(row, Fill(b, s))
      BY <1>1, <1>2
    <2> HIDE DEF row
    <2>2. /\ RowOK(after[HoldingOf(b)]) /\ after[HoldingOf(b)].balance = row.balance + Fill(b, s)
          /\ after[HoldingOf(b)].locked <= row.locked
      BY <2>1, ReceiveLegOK
    <2>3. QED  BY <2>2 DEF row
  <1>5. /\ RowOK(after[CashOf(s)])
        /\ after[CashOf(s)].balance = table[CashOf(s)].balance + Cost(b, s)
        /\ after[CashOf(s)].locked <= table[CashOf(s)].locked
    <2> DEFINE row == table[CashOf(s)]
    <2>1. RowOK(row) /\ Cost(b, s) \in Nat /\ after[CashOf(s)] = ReceiveLeg(row, Cost(b, s))
      BY <1>1, <1>2
    <2> HIDE DEF row
    <2>2. /\ RowOK(after[CashOf(s)]) /\ after[CashOf(s)].balance = row.balance + Cost(b, s)
          /\ after[CashOf(s)].locked <= row.locked
      BY <2>1, ReceiveLegOK
    <2>3. QED  BY <2>2 DEF row
  <1>6. /\ after[CashOf(b)].balance = table[CashOf(b)].balance - Cost(b, s)
        /\ after[CashOf(b)].locked = Greatest(table[CashOf(b)].locked - cash, 0)
        /\ after[HoldingOf(s)].balance = table[HoldingOf(s)].balance - Fill(b, s)
        /\ after[HoldingOf(s)].locked = Greatest(table[HoldingOf(s)].locked - asset, 0)
    BY <1>2 DEF PayLeg
  <1>7. \A a \in Accounts : RowOK(after[a])
    BY <1>2, <1>3, <1>4, <1>5
  <1>8. after \in [Accounts -> PortfolioRow]
    <2>1. \A a \in Accounts : after[a] \in PortfolioRow
      BY <1>7 DEF RowOK
    <2>2. QED  BY <1>2, <2>1
  <1>9. \A a \in Accounts \ {CashOf(b), HoldingOf(s)} :
          after[a].locked <= table[a].locked
    <2>1. \A a \in Accounts : table[a].locked \in Nat
      BY DEF PortfolioRow
    <2>2. QED  BY <1>2, <1>4, <1>5, <2>1
  <1>10. \A a \in Accounts :
           after[a].balance =
             IF a = CashOf(b) THEN table[a].balance - Cost(b, s)
             ELSE IF a = HoldingOf(b) THEN table[a].balance + Fill(b, s)
             ELSE IF a = HoldingOf(s) THEN table[a].balance - Fill(b, s)
             ELSE IF a = CashOf(s) THEN table[a].balance + Cost(b, s)
             ELSE table[a].balance
    BY <1>2, <1>4, <1>5, <1>6
  <1>11. QED  BY <1>6, <1>7, <1>8, <1>9, <1>10 DEF after

-----------------------------------------------------------------------------
(* Sums of claims, as cardinalities of sets of units.                      *)

UnitsOf(i, n) == {i} \X (1 .. n)

Units(c, a) ==
  UNION {UnitsOf(i, c[i]) : i \in {j \in Intents : ReservedAccount(j) = a}}

LEMMA UnitsOfSize ==
  ASSUME NEW i, NEW n \in Nat
  PROVE  IsFiniteSet(UnitsOf(i, n)) /\ Cardinality(UnitsOf(i, n)) = n
  <1>1. IsFiniteSet({i}) /\ Cardinality({i}) = 1
    BY FS_Singleton
  <1>2. IsFiniteSet(1 .. n) /\ Cardinality(1 .. n) = n
    BY IntervalSize
  <1>3. /\ IsFiniteSet({i} \X (1 .. n))
        /\ Cardinality({i} \X (1 .. n)) = Cardinality({i}) * Cardinality(1 .. n)
    BY <1>1, <1>2, FS_Product, Zenon
  <1>4. QED  BY <1>1, <1>2, <1>3 DEF UnitsOf

\* One intent's claim becomes n: the sum of its account changes by as much.
LEMMA ClaimChanges ==
  ASSUME NEW c \in [Intents -> Nat], NEW i \in Intents, NEW n \in Nat, NEW a,
         NEW d, d[i] = n, \A j \in Intents \ {i} : d[j] = c[j],
         IsFiniteSet(Units(c, a))
  PROVE  /\ IsFiniteSet(Units(d, a))
         /\ ReservedAccount(i) = a =>
              /\ Cardinality(Units(c, a)) >= c[i]
              /\ Cardinality(Units(d, a)) = Cardinality(Units(c, a)) - c[i] + n
         /\ ReservedAccount(i) # a => Units(d, a) = Units(c, a)
  <1> DEFINE rest == Units(c, a) \ UnitsOf(i, c[i])
  <1>1. /\ d[i] = n /\ c[i] \in Nat
        /\ \A j \in Intents \ {i} : d[j] = c[j]
    OBVIOUS
  <1>2. Cardinality(Units(c, a)) \in Nat
    BY FS_CardinalityType
  <1>3. CASE ReservedAccount(i) = a
    <2>1. Units(c, a) \cap UnitsOf(i, c[i]) = UnitsOf(i, c[i])
      BY <1>3 DEF Units
    <2>2. UnitsOf(i, c[i]) \in SUBSET Units(c, a)
      BY <2>1
    <2>3. /\ IsFiniteSet(UnitsOf(i, c[i])) /\ Cardinality(UnitsOf(i, c[i])) = c[i]
          /\ IsFiniteSet(UnitsOf(i, n)) /\ Cardinality(UnitsOf(i, n)) = n
      BY <1>1, UnitsOfSize
    <2>4. Cardinality(UnitsOf(i, c[i])) <= Cardinality(Units(c, a))
      BY <2>2, FS_Subset
    <2>5. /\ IsFiniteSet(rest)
          /\ Cardinality(rest) = Cardinality(Units(c, a)) - c[i]
      <3>1. /\ IsFiniteSet(rest)
            /\ Cardinality(rest) = Cardinality(Units(c, a))
                 - Cardinality(Units(c, a) \cap UnitsOf(i, c[i]))
        BY <2>3, FS_Difference, Zenon
      <3>2. QED  BY <2>1, <2>3, <3>1
    <2>6. Units(d, a) = rest \cup UnitsOf(i, n)
      <3>1. \A u \in rest : \E j \in Intents \ {i} :
              ReservedAccount(j) = a /\ u \in UnitsOf(j, c[j])
        BY DEF Units
      <3>2. \A j \in Intents \ {i} : UnitsOf(j, c[j]) \cap UnitsOf(i, c[i]) = {}
        BY DEF UnitsOf
      <3>3. ASSUME NEW u \in Units(d, a) PROVE u \in rest \cup UnitsOf(i, n)
        <4>1. PICK j \in Intents : ReservedAccount(j) = a /\ u \in UnitsOf(j, d[j])
          BY <3>3 DEF Units
        <4>2. CASE j = i
          BY <1>1, <4>1, <4>2
        <4>3. CASE j # i
          <5>1. u \in UnitsOf(j, c[j])
            BY <1>1, <4>1, <4>3
          <5>2. u \in Units(c, a)
            BY <4>1, <5>1 DEF Units
          <5>3. QED  BY <3>2, <4>3, <5>1, <5>2
        <4>4. QED  BY <4>2, <4>3
      <3>4. ASSUME NEW u \in rest PROVE u \in Units(d, a)
        BY <1>1, <3>1, <3>4 DEF Units
      <3>5. ASSUME NEW u \in UnitsOf(i, n) PROVE u \in Units(d, a)
        BY <1>1, <1>3 DEF Units
      <3>6. QED  BY <3>3, <3>4, <3>5
    <2>7. rest \cap UnitsOf(i, n) = {}
      <3>1. \A u \in rest : \E j \in Intents \ {i} : u \in UnitsOf(j, c[j])
        BY DEF Units
      <3>2. \A j \in Intents \ {i} : UnitsOf(j, c[j]) \cap UnitsOf(i, n) = {}
        BY DEF UnitsOf
      <3>3. QED  BY <3>1, <3>2
    <2> HIDE DEF rest
    <2>8. /\ IsFiniteSet(rest \cup UnitsOf(i, n))
          /\ Cardinality(rest \cup UnitsOf(i, n)) =
               Cardinality(rest) + Cardinality(UnitsOf(i, n))
                 - Cardinality(rest \cap UnitsOf(i, n))
      BY <2>3, <2>5, FS_Union, Zenon
    <2>9. Cardinality({}) = 0
      BY FS_EmptySet
    <2>10. QED
      BY <1>1, <1>2, <1>3, <2>3, <2>4, <2>5, <2>6, <2>7, <2>8, <2>9
  <1>4. CASE ReservedAccount(i) # a
    <2>1. Units(d, a) = Units(c, a)
      BY <1>1, <1>4 DEF Units
    <2>2. IsFiniteSet(Units(d, a))
      BY <2>1
    <2>3. QED  BY <1>4, <2>1, <2>2
  <1>5. QED  BY <1>3, <1>4

-----------------------------------------------------------------------------
(* Calls, and the type invariant.                                          *)

Waiting == {"idle", "push", "refused"}

\* Past the enclave, up to the end of the call.
Held == {"checkBuyer", "checkSeller", "settle", "persist", "fill"}

\* Whoever is in the array or held by a call has had its own call's push, and a
\* call holds a counterpart.
CallInv ==
  /\ \A k \in DOMAIN queue : task[queue[k]].pc \notin Waiting
  /\ \A i \in Intents : task[i].pc \in Held \cup {"evaluate"} =>
       /\ Counterparts(i, task[i].other)
       /\ task[task[i].other].pc \notin Waiting

\* Nothing is sealed or reserved before the submit, and never more than the
\* descriptor says.
ClaimInv ==
  \A i \in Intents :
    /\ task[i].pc = "idle" => i \notin sealed /\ claim[i] = 0
    /\ claim[i] <= Reservation(i)

TypeInv == TypeOK /\ CallInv /\ ClaimInv

LEMMA HeldPair ==
  ASSUME TypeOK, CallInv, NEW i \in Intents, task[i].pc \in Held \cup {"evaluate"}
  PROVE  <<B(i), S(i)>> \in Pairs /\ {B(i), S(i)} = {i, task[i].other}
  <1>1. Counterparts(i, task[i].other) /\ task[i].other \in Intents
    BY DEF CallInv, TypeOK
  <1>2. QED  BY <1>1, CounterpartsPair DEF B, S

\* What any step of a call past its push does: it goes on with the counterpart
\* at hand, or with one of the array, or ends.
CallMove(i) ==
  /\ task[i].pc \notin Waiting
  /\ task' = [task EXCEPT ![i] = task'[i]]
  /\ task'[i] \in Tasks /\ task'[i].pc \notin Waiting
  /\ task'[i].pc \in Held \cup {"evaluate"} =>
       \/ /\ task[i].pc \in Held \cup {"evaluate"}
          /\ task'[i].other = task[i].other
       \/ /\ \E k \in DOMAIN queue : task'[i].other = queue[k]
          /\ Counterparts(i, task'[i].other)
  /\ Subarray(queue', queue)
  /\ sealed' \subseteq sealed
  /\ \/ UNCHANGED <<ledgerVars, trades>>
     \/ task[i].pc = "persist" /\ CanSettle(i) /\ SettleTrade(i)
  /\ releases' \in [Intents -> Nat] /\ deletes' \subseteq Intents
  /\ faults' \in 0 .. MaxFaults
  /\ UNCHANGED <<lockRefs, agentVars>>

LEMMA FaultType ==
  ASSUME TypeOK, Fault
  PROVE  faults' \in 0 .. MaxFaults
  BY OrchestratorAssumption DEF TypeOK, Fault

LEMMA DropType ==
  ASSUME TypeOK, NEW gone \in SUBSET Intents, Drop(gone)
  PROVE  releases' \in [Intents -> Nat] /\ deletes' \subseteq Intents
  BY DEF TypeOK, Drop

LEMMA SubarrayItself ==
  ASSUME TypeOK
  PROVE  Subarray(queue, queue)
  BY DEF TypeOK, Subarray

LEMMA GotoMoves ==
  ASSUME TypeOK, NEW i \in Intents, NEW pc \in TaskStates, Goto(i, pc)
  PROVE  /\ task' = [task EXCEPT ![i] = task'[i]]
         /\ task'[i] \in Tasks
         /\ task'[i].pc = pc /\ task'[i].other = task[i].other
         /\ task'[i].locked = task[i].locked /\ task'[i].at = task[i].at
  <1>1. task \in [Intents -> Tasks]
    BY DEF TypeOK, Tasks
  <1>2. QED  BY <1>1 DEF Goto, Tasks

LEMMA FinishMoves ==
  ASSUME TypeOK, NEW i \in Intents, Finish(i)
  PROVE  /\ task' = [task EXCEPT ![i] = task'[i]]
         /\ task'[i] \in Tasks /\ task'[i].pc = "done"
  <1>1. task \in [Intents -> Tasks] /\ "done" \in TaskStates
    BY DEF TypeOK, Tasks, TaskStates
  <1>2. QED  BY <1>1, NewTaskType DEF Finish

LEMMA RejectMoves ==
  ASSUME TypeOK, NEW i \in Intents, RejectOther(i)
  PROVE  /\ task' = [task EXCEPT ![i] = task'[i]]
         /\ task'[i] \in Tasks /\ task'[i].pc = "done"
         /\ Subarray(queue', queue)
         /\ \A k \in DOMAIN queue' : queue'[k] # task[i].other
         /\ releases' \in [Intents -> Nat] /\ deletes' \subseteq Intents
  <1> DEFINE spliced == Splice(queue, task[i].at)
  <1>1. queue \in Seq(Intents) /\ IsInjective(queue) /\ task[i].other \in Intents
    BY DEF TypeOK
  <1>2. Subarray(spliced, queue)
    BY <1>1, SpliceShrinks
  <1>3. queue' = Without(spliced, {task[i].other})
    BY DEF RejectOther
  <1> HIDE DEF spliced
  <1>4. /\ Subarray(queue', spliced)
        /\ \A k \in DOMAIN queue' : queue'[k] \notin {task[i].other}
    <2>1. spliced \in Seq(Intents) /\ IsInjective(spliced)
      BY <1>2 DEF Subarray
    <2>2. QED  BY <1>3, <2>1, WithoutShrinks
  <1>5. Subarray(queue', queue)
    BY <1>2, <1>4, SubarrayTransitive
  <1>6. Finish(i) /\ Drop({task[i].other})
    BY DEF RejectOther
  <1>7. QED  BY <1>1, <1>4, <1>5, <1>6, FinishMoves, DropType

LEMMA ScanMoves ==
  ASSUME TypeOK, NEW i \in Intents, NEW k \in Nat \ {0},
         task' = [task EXCEPT ![i] = Scan(i, k, queue)]
  PROVE  /\ task' = [task EXCEPT ![i] = task'[i]]
         /\ task'[i] = Scan(i, k, queue)
         /\ task'[i] \in Tasks /\ task'[i].pc \in {"done", "evaluate"}
         /\ task'[i].pc = "evaluate" =>
              /\ Counterparts(i, task'[i].other)
              /\ \E j \in DOMAIN queue : task'[i].other = queue[j]
  <1>1. task \in [Intents -> Tasks] /\ queue \in Seq(Intents)
    BY DEF TypeOK, Tasks
  <1>2. task'[i] = Scan(i, k, queue)
    BY <1>1
  <1>3. Len(queue) \in Nat /\ DOMAIN queue = 1 .. Len(queue)
    BY <1>1, LenProperties
  <1>4. /\ Scan(i, k, queue) \in Tasks
        /\ Scan(i, k, queue).pc \in {"done", "evaluate"}
        /\ Scan(i, k, queue).pc = "evaluate" =>
             /\ Scan(i, k, queue).at \in k .. Len(queue)
             /\ Scan(i, k, queue).other = queue[Scan(i, k, queue).at]
             /\ Counterparts(i, Scan(i, k, queue).other)
    BY <1>1, ScanFinds
  <1>5. k .. Len(queue) \subseteq DOMAIN queue
    BY <1>3
  <1>6. QED  BY <1>1, <1>2, <1>4, <1>5

\* Steps of a call, one by one.
LEMMA CallMoves ==
  ASSUME TypeOK, CallInv, NEW i \in Intents, CallStep(i), ~OnIntentSealed(i)
  PROVE  CallMove(i)
  <1> USE DEF Waiting, Held
  <1>0. /\ task[i] \in Tasks /\ faults \in 0 .. MaxFaults
        /\ releases \in [Intents -> Nat] /\ deletes \subseteq Intents
    BY DEF TypeOK, Tasks
  <1>1. CASE NoMatch(i)
    <2>1. task[i].at + 1 \in Nat \ {0}
      BY <1>0 DEF Tasks
    <2>2. task' = [task EXCEPT ![i] = Scan(i, task[i].at + 1, queue)]
      BY <1>1 DEF NoMatch
    <2>3. QED
      BY <1>0, <1>1, <2>1, <2>2, ScanMoves, SubarrayItself
         DEF NoMatch, CallMove, callVars
  <1>2. CASE Match(i)
    <2>1. /\ task' = [task EXCEPT ![i] = task'[i]]
          /\ task'[i] \in Tasks
          /\ \/ task'[i].pc = "done"
             \/ task'[i].pc = "checkBuyer" /\ task'[i].other = task[i].other
      <3>1. CASE Finish(i)
        BY <3>1, FinishMoves
      <3>2. CASE ~Finish(i)
        <4>1. /\ Truncated(Cost(B(i), S(i))) \in Nat
              /\ Truncated(Fill(B(i), S(i)) * Limit[B(i)]) \in Nat
          <5>1. <<B(i), S(i)>> \in Pairs
            BY <1>2, HeldPair DEF Match
          <5>2. /\ B(i) \in Intents /\ Cost(B(i), S(i)) \in Nat
                /\ Fill(B(i), S(i)) \in Nat
            BY <5>1, PairFacts
          <5>3. Limit[B(i)] \in Nat
            BY <5>2, OrdersAssumption
          <5>4. Fill(B(i), S(i)) * Limit[B(i)] \in Nat
            BY <5>2, <5>3
          <5>5. QED  BY <5>2, <5>4, TruncatedBounds
        <4>2. PICK locked \in BuyerLockedAmounts(i) :
                task' = [task EXCEPT ![i].pc = "checkBuyer", ![i].locked = locked]
          BY <1>2, <3>2 DEF Match, ActOn
        <4>3. locked \in Nat /\ task \in [Intents -> Tasks]
          BY <4>1, <4>2 DEF TypeOK, Tasks, BuyerLockedAmounts
        <4> DEFINE t == [task[i] EXCEPT !.pc = "checkBuyer", !.locked = locked]
        <4>4. t \in Tasks /\ t.pc = "checkBuyer" /\ t.other = task[i].other
          BY <1>0, <4>3 DEF Tasks, TaskStates
        <4>5. task' = [task EXCEPT ![i] = t]
          BY <4>2, <4>3
        <4> HIDE DEF t
        <4>6. task'[i] = t
          BY <4>3, <4>5
        <4>7. QED  BY <4>4, <4>5, <4>6
      <3>3. QED  BY <3>1, <3>2
    <2>2. sealed' \subseteq sealed
      BY <1>2 DEF Match, Matched
    <2>3. QED
      BY <1>0, <1>2, <2>1, <2>2, SubarrayItself DEF Match, CallMove, callVars
  <1>3. CASE EvaluateFails(i)
    <2>1. Finish(i) /\ Fault /\ sealed' \subseteq sealed
      BY <1>3 DEF EvaluateFails
    <2>2. QED
      BY <1>0, <1>3, <2>1, FinishMoves, FaultType, SubarrayItself
         DEF EvaluateFails, CallMove, callVars
  <1>4. ASSUME NEW pc \in {"checkSeller", "settle"},
               task[i].pc \in {"checkBuyer", "checkSeller"},
               Proceed(i, pc) \/ RejectOther(i),
               faults' \in 0 .. MaxFaults,
               UNCHANGED <<ledgerVars, trades, lockRefs, sealed, agentVars>>
        PROVE  CallMove(i)
    <2>1. CASE Proceed(i, pc)
      <3>1. Goto(i, pc) /\ pc \in TaskStates
        BY <2>1 DEF Proceed, TaskStates
      <3>2. QED
        BY <1>0, <1>4, <2>1, <3>1, GotoMoves, SubarrayItself
           DEF Proceed, CallMove, callVars
    <2>2. CASE RejectOther(i)
      BY <1>4, <2>2, RejectMoves DEF CallMove
    <2>3. QED  BY <1>4, <2>1, <2>2
  <1>5. CASE CheckBuyer(i)
    BY <1>0, <1>4, <1>5 DEF CheckBuyer
  <1>6. CASE CheckSeller(i)
    BY <1>0, <1>4, <1>6 DEF CheckSeller
  <1>7. CASE CheckFails(i)
    <2>1. Fault /\ (Proceed(i, "settle") \/ RejectOther(i))
      BY <1>7 DEF CheckFails
    <2>2. QED  BY <1>4, <1>7, <2>1, FaultType DEF CheckFails
  <1>8. CASE BuildCommand(i)
    <2>1. /\ Goto(i, "persist") \/ Finish(i)
          /\ faults' \in 0 .. MaxFaults
          /\ UNCHANGED <<ledgerVars, trades>>
      BY <1>0, <1>8, FaultType DEF BuildCommand, GiveUp
    <2>2. CASE Goto(i, "persist")
      BY <1>0, <1>8, <2>1, <2>2, GotoMoves, SubarrayItself
         DEF BuildCommand, CallMove, TaskStates, callVars
    <2>3. CASE Finish(i)
      BY <1>0, <1>8, <2>1, <2>3, FinishMoves, SubarrayItself
         DEF BuildCommand, CallMove, callVars
    <2>4. QED  BY <2>1, <2>2, <2>3
  <1>9. ASSUME task[i].pc = "persist", faults' \in 0 .. MaxFaults,
               UNCHANGED <<lockRefs, sealed, queue, callVars, agentVars>>,
               \/ UNCHANGED <<ledgerVars, trades>>
               \/ CanSettle(i) /\ SettleTrade(i),
               Goto(i, "fill") \/ Finish(i)
        PROVE  CallMove(i)
    <2>1. CASE Goto(i, "fill")
      <3>1. "fill" \in TaskStates
        BY DEF TaskStates
      <3>2. QED
        BY <1>0, <1>9, <2>1, <3>1, GotoMoves, SubarrayItself DEF CallMove, callVars
    <2>2. CASE Finish(i)
      BY <1>0, <1>9, <2>2, FinishMoves, SubarrayItself DEF CallMove, callVars
    <2>3. QED  BY <1>9, <2>1, <2>2
  <1>10. CASE PersistSettlement(i)
    BY <1>0, <1>9, <1>10 DEF PersistSettlement, GiveUp
  <1>11. CASE PersistFails(i)
    BY <1>9, <1>11, FaultType DEF PersistFails, GiveUp
  <1>12. CASE ApplyFill(i)
    <2>1. PICK gone : queue' = Without(queue, gone)
      BY <1>12 DEF ApplyFill
    <2>2. Subarray(queue', queue)
      BY <2>1, WithoutShrinks DEF TypeOK
    <2>3. deletes' \subseteq Intents
      <3>1. {B(i), S(i)} \subseteq Intents
        BY <1>12, HeldPair, PairFacts DEF ApplyFill
      <3>2. QED  BY <1>0, <1>12, <3>1 DEF ApplyFill
    <2>4. QED
      BY <1>0, <1>12, <2>2, <2>3, FinishMoves DEF ApplyFill, CallMove
  <1>13. QED
    BY <1>1, <1>2, <1>3, <1>5, <1>6, <1>7, <1>8, <1>10, <1>11, <1>12 DEF CallStep

\* A settlement that commits keeps the table's constraints and raises no claim.
LEMMA SettleTyped ==
  ASSUME TypeOK, CallInv, NEW i \in Intents, task[i].pc = "persist",
         CanSettle(i), SettleTrade(i)
  PROVE  /\ portfolio' \in [Accounts -> PortfolioRow]
         /\ \A a \in Accounts : RowOK(portfolio'[a])
         /\ trades' \subseteq Pairs
         /\ claim' \in [Intents -> Nat]
         /\ \A j \in Intents : claim'[j] <= claim[j]
  <1> DEFINE b == B(i)
             s == S(i)
             cash == task[i].locked
  <1>1. <<b, s>> \in Pairs
    BY HeldPair DEF Held
  <1>2. b \in Intents /\ s \in Intents /\ Fill(b, s) \in Nat
    BY <1>1, PairFacts
  <1>3. /\ cash \in Nat /\ claim \in [Intents -> Nat]
        /\ portfolio \in [Accounts -> PortfolioRow]
        /\ \A a \in Accounts : RowOK(portfolio[a])
    BY DEF TypeOK
  <1>4. /\ CanPersist(portfolio, b, s, cash, Fill(b, s))
        /\ portfolio' = Legs(portfolio, b, s, cash, Fill(b, s))
        /\ trades' = trades \cup {<<b, s>>}
        /\ claim' = [claim EXCEPT ![b] = Greatest(@ - cash, 0),
                                  ![s] = Greatest(@ - Fill(b, s), 0)]
    BY DEF CanSettle, SettleTrade
  <1> HIDE DEF b, s, cash
  <1>5. /\ portfolio' \in [Accounts -> PortfolioRow]
        /\ \A a \in Accounts : RowOK(portfolio'[a])
    BY <1>1, <1>2, <1>3, <1>4, LegsOK
  <1>6. trades' \subseteq Pairs
    BY <1>1, <1>4 DEF TypeOK
  <1>7. claim' \in [Intents -> Nat] /\ \A j \in Intents : claim'[j] <= claim[j]
    BY <1>2, <1>3, <1>4 DEF Greatest
  <1>8. QED  BY <1>5, <1>6, <1>7

LEMMA MoveTyped ==
  ASSUME TypeInv, NEW i \in Intents, CallMove(i)
  PROVE  TypeInv'
  <1> USE DEF TypeInv
  <1>1. /\ portfolio' \in [Accounts -> PortfolioRow]
        /\ \A a \in Accounts : RowOK(portfolio'[a])
        /\ trades' \subseteq Pairs
        /\ claim' \in [Intents -> Nat]
        /\ \A j \in Intents : claim'[j] <= claim[j]
    <2>1. CASE UNCHANGED <<ledgerVars, trades>>
      BY <2>1 DEF TypeOK, ledgerVars
    <2>2. CASE task[i].pc = "persist" /\ CanSettle(i) /\ SettleTrade(i)
      BY <2>2, SettleTyped
    <2>3. QED  BY <2>1, <2>2 DEF CallMove
  <1>2. /\ task \in [Intents -> Tasks] /\ queue \in Seq(Intents)
        /\ claim \in [Intents -> Nat]
    BY DEF TypeOK, Tasks
  <1>3. /\ task' \in [Intents -> Tasks]
        /\ \A j \in Intents \ {i} : task'[j] = task[j]
        /\ \A j \in Intents : task'[j].pc \in Waiting <=> task[j].pc \in Waiting
        /\ \A j \in Intents : task'[j].pc = "idle" <=> task[j].pc = "idle"
    BY <1>2 DEF CallMove, Waiting
  <1>4. TypeOK'
    BY <1>1, <1>3 DEF CallMove, TypeOK, Tasks, Subarray, agentVars
  <1>5. \A k \in DOMAIN queue : queue[k] \in Intents /\ task[queue[k]].pc \notin Waiting
    BY <1>2, ElementOfSeq, LenProperties DEF CallInv
  <1>6. CallInv'
    <2>1. \A k \in DOMAIN queue' : task'[queue'[k]].pc \notin Waiting
      BY <1>3, <1>5 DEF CallMove, Subarray
    <2>2. ASSUME NEW j \in Intents, task'[j].pc \in Held \cup {"evaluate"}
          PROVE  /\ Counterparts(j, task'[j].other)
                 /\ task'[task'[j].other].pc \notin Waiting
      <3>1. CASE j # i
        <4>1. /\ Counterparts(j, task[j].other) /\ task[j].other \in Intents
              /\ task[task[j].other].pc \notin Waiting
          BY <1>2, <1>3, <2>2, <3>1 DEF CallInv, Tasks
        <4>2. QED  BY <1>3, <3>1, <4>1
      <3>2. CASE j = i
        <4>1. CASE /\ task[i].pc \in Held \cup {"evaluate"}
                   /\ task'[i].other = task[i].other
          <5>1. /\ Counterparts(i, task[i].other) /\ task[i].other \in Intents
                /\ task[task[i].other].pc \notin Waiting
            BY <1>2, <4>1 DEF CallInv, Tasks
          <5>2. QED  BY <1>3, <3>2, <4>1, <5>1
        <4>2. CASE /\ \E k \in DOMAIN queue : task'[i].other = queue[k]
                   /\ Counterparts(i, task'[i].other)
          BY <1>3, <1>5, <3>2, <4>2
        <4>3. QED  BY <2>2, <3>2, <4>1, <4>2 DEF CallMove
      <3>3. QED  BY <3>1, <3>2
    <2>3. QED  BY <2>1, <2>2 DEF CallInv
  <1>7. ClaimInv'
    <2>1. SUFFICES ASSUME NEW j \in Intents
                   PROVE  /\ task'[j].pc = "idle" => j \notin sealed' /\ claim'[j] = 0
                          /\ claim'[j] <= Reservation(j)
      BY DEF ClaimInv
    <2>2. /\ task[j].pc = "idle" => j \notin sealed /\ claim[j] = 0
          /\ claim[j] <= Reservation(j)
      BY DEF ClaimInv
    <2>3. /\ claim'[j] <= claim[j] /\ claim'[j] \in Nat /\ claim[j] \in Nat
          /\ Reservation(j) \in Nat
      BY <1>1, <1>2, ReservationFacts
    <2>4. sealed' \subseteq sealed
      BY DEF CallMove
    <2>5. QED  BY <1>3, <2>2, <2>3, <2>4
  <1>8. QED  BY <1>4, <1>6, <1>7

LEMMA SubmitTyped ==
  ASSUME TypeInv, NEW i \in Intents, SubmitIntent(i)
  PROVE  TypeInv'
  <1> USE DEF TypeInv
  <1>1. /\ Reservation(i) \in Nat /\ ReservedAccount(i) \in Accounts
        /\ task[i].pc = "idle" /\ i \in Intents
        /\ task \in [Intents -> Tasks]
    BY ReservationFacts DEF SubmitIntent, TypeOK, Tasks
  <1>2. /\ portfolio' \in [Accounts -> PortfolioRow]
        /\ \A a \in Accounts : RowOK(portfolio'[a])
        /\ claim' \in [Intents -> Nat]
        /\ \A j \in Intents \ {i} : claim'[j] = claim[j]
        /\ claim'[i] \in {claim[i], Reservation(i)}
    <2>1. CASE UNCHANGED ledgerVars
      BY <2>1 DEF TypeOK, ledgerVars
    <2>2. CASE /\ Accepted(i)
               /\ portfolio' = [portfolio EXCEPT
                    ![ReservedAccount(i)] = LockRow(@, Reservation(i))]
               /\ claim' = [claim EXCEPT ![i] = Reservation(i)]
      <3> DEFINE row == LockRow(portfolio[ReservedAccount(i)], Reservation(i))
      <3>1. RowOK(row)
        BY <1>1, <2>2, LockRowOK DEF Accepted, TypeOK
      <3>2. row \in PortfolioRow
        BY <3>1 DEF RowOK
      <3> HIDE DEF row
      <3>3. portfolio' = [portfolio EXCEPT ![ReservedAccount(i)] = row]
        BY <2>2 DEF row
      <3>4. QED  BY <1>1, <2>2, <3>1, <3>2, <3>3 DEF TypeOK
    <2>3. QED  BY <2>1, <2>2 DEF SubmitIntent
  <1>3. \/ Goto(i, "push") /\ lockRefs' = lockRefs \cup {i}
        \/ Goto(i, "refused") /\ lockRefs' = lockRefs
    BY DEF SubmitIntent
  <1>4. /\ task' = [task EXCEPT ![i] = task'[i]] /\ task'[i] \in Tasks
        /\ task'[i].pc \in {"push", "refused"}
        /\ lockRefs' \subseteq Intents
    <2>1. "push" \in TaskStates /\ "refused" \in TaskStates
      BY DEF TaskStates
    <2>2. QED  BY <1>3, <2>1, GotoMoves DEF TypeOK
  <1>5. /\ task' \in [Intents -> Tasks]
        /\ \A j \in Intents \ {i} : task'[j] = task[j]
        /\ \A j \in Intents : task'[j].pc \in Waiting <=> task[j].pc \in Waiting
    BY <1>1, <1>4 DEF Waiting
  <1>6. faults' \in 0 .. MaxFaults
    BY FaultType DEF SubmitIntent, TypeOK
  <1>7. TypeOK'
    BY <1>2, <1>4, <1>5, <1>6
       DEF SubmitIntent, TypeOK, Tasks, callVars, agentVars
  <1>8. CallInv'
    <2>1. queue' = queue
      BY DEF SubmitIntent
    <2>2. \A k \in DOMAIN queue : queue[k] \in Intents
      BY ElementOfSeq, LenProperties DEF TypeOK
    <2>3. \A j \in Intents : task'[j].pc \in Held \cup {"evaluate"} =>
            j # i /\ task'[j] = task[j] /\ task[j].other \in Intents
      BY <1>1, <1>4, <1>5 DEF Held, Tasks
    <2>4. QED  BY <1>5, <2>1, <2>2, <2>3 DEF CallInv
  <1>9. ClaimInv'
    <2>1. sealed' = sealed \cup {i}
      BY DEF SubmitIntent
    <2>2. Reservation(i) <= Reservation(i)
      BY <1>1
    <2>3. QED  BY <1>1, <1>2, <1>4, <1>5, <2>1, <2>2 DEF ClaimInv
  <1>10. QED  BY <1>7, <1>8, <1>9

LEMMA PushTyped ==
  ASSUME TypeInv, NEW i \in Intents, OnIntentSealed(i)
  PROVE  /\ TypeInv'
         /\ task'[i] = Scan(i, 1, queue') /\ task'[i].pc \in {"done", "evaluate"}
         /\ queue' = Append(Without(queue, expired), i)
         /\ \A k \in DOMAIN Without(queue, expired) : Without(queue, expired)[k] # i
  <1> USE DEF TypeInv
  <1> DEFINE rest == Without(queue, expired)
  <1>1. /\ queue \in Seq(Intents) /\ IsInjective(queue) /\ task \in [Intents -> Tasks]
        /\ task[i].pc = "push" /\ queue' = Append(rest, i)
        /\ task' = [task EXCEPT ![i] = Scan(i, 1, queue')]
    BY DEF TypeOK, Tasks, OnIntentSealed
  <1>2. Subarray(rest, queue)
    BY <1>1, WithoutShrinks
  <1> HIDE DEF rest
  <1>3. \A k \in DOMAIN queue : queue[k] \in Intents /\ task[queue[k]].pc \notin Waiting
    BY <1>1, ElementOfSeq, LenProperties DEF CallInv
  <1>4. /\ rest \in Seq(Intents) /\ IsInjective(rest)
        /\ \A k \in DOMAIN rest : rest[k] # i /\ rest[k] \in Intents
                                  /\ task[rest[k]].pc \notin Waiting
    BY <1>1, <1>2, <1>3 DEF Subarray, Waiting
  <1>5. /\ queue' \in Seq(Intents) /\ IsInjective(queue')
        /\ Len(queue') = Len(rest) + 1
        /\ \A k \in DOMAIN rest : queue'[k] = rest[k]
        /\ queue'[Len(rest) + 1] = i
    BY <1>1, <1>4, PushProperties
  <1>6. /\ DOMAIN queue' = 1 .. Len(rest) + 1 /\ DOMAIN rest = 1 .. Len(rest)
        /\ Len(rest) \in Nat
    BY <1>4, <1>5, LenProperties
  <1>7. \A k \in DOMAIN queue' :
          \/ queue'[k] = i
          \/ queue'[k] \in Intents /\ task[queue'[k]].pc \notin Waiting
    BY <1>4, <1>5, <1>6
  <1>8. /\ Scan(i, 1, queue') \in Tasks
        /\ Scan(i, 1, queue').pc \in {"done", "evaluate"}
        /\ Scan(i, 1, queue').pc = "evaluate" =>
             /\ Counterparts(i, Scan(i, 1, queue').other)
             /\ \E k \in DOMAIN queue' : Scan(i, 1, queue').other = queue'[k]
    <2>1. \/ Scan(i, 1, queue').pc = "done"
          \/ /\ Scan(i, 1, queue').pc = "evaluate"
             /\ Scan(i, 1, queue').at \in 1 .. Len(queue')
             /\ Scan(i, 1, queue').other = queue'[Scan(i, 1, queue').at]
             /\ Counterparts(i, Scan(i, 1, queue').other)
      BY <1>5, ScanFinds
    <2>2. Scan(i, 1, queue') \in Tasks
      BY <1>5, ScanFinds
    <2>3. 1 .. Len(queue') = DOMAIN queue'
      BY <1>5, <1>6
    <2>4. QED  BY <2>1, <2>2, <2>3
  <1>9. /\ task' \in [Intents -> Tasks] /\ task'[i] = Scan(i, 1, queue')
        /\ \A j \in Intents \ {i} : task'[j] = task[j]
    BY <1>1, <1>8
  <1>10. TypeOK'
    <2>1. Drop(Queued \cap expired) /\ Queued \cap expired \in SUBSET Intents
      BY DEF OnIntentSealed, TypeOK
    <2>2. releases' \in [Intents -> Nat] /\ deletes' \subseteq Intents
      BY <2>1, DropType
    <2>3. QED
      BY <1>5, <1>9, <2>2 DEF OnIntentSealed, TypeOK, Tasks, ledgerVars, agentVars
  <1>11. CallInv'
    <2>1. \A j \in Intents : task[j].pc \notin Waiting => task'[j].pc \notin Waiting
      BY <1>1, <1>8, <1>9 DEF Waiting
    <2>2. task'[i].pc \notin Waiting
      BY <1>8, <1>9 DEF Waiting
    <2>3. \A k \in DOMAIN queue' : task'[queue'[k]].pc \notin Waiting
      BY <1>7, <2>1, <2>2
    <2>4. ASSUME NEW j \in Intents, task'[j].pc \in Held \cup {"evaluate"}
          PROVE  /\ Counterparts(j, task'[j].other)
                 /\ task'[task'[j].other].pc \notin Waiting
      <3>1. CASE j = i
        BY <1>8, <1>9, <2>3, <2>4, <3>1 DEF Held
      <3>2. CASE j # i
        <4>1. /\ Counterparts(j, task[j].other) /\ task[j].other \in Intents
              /\ task[task[j].other].pc \notin Waiting /\ task'[j] = task[j]
          BY <1>1, <1>9, <2>4, <3>2 DEF CallInv, Tasks
        <4>2. QED  BY <2>1, <4>1
      <3>3. QED  BY <3>1, <3>2
    <2>5. QED  BY <2>3, <2>4 DEF CallInv
  <1>12. ClaimInv'
    <2>1. \A j \in Intents : task'[j].pc = "idle" => task[j].pc = "idle"
      BY <1>8, <1>9
    <2>2. QED  BY <2>1 DEF ClaimInv, OnIntentSealed, ledgerVars
  <1>13. \A k \in DOMAIN rest : rest[k] # i
    BY <1>4
  <1>14. QED  BY <1>1, <1>8, <1>9, <1>10, <1>11, <1>12, <1>13 DEF rest

\* Cancel, eviction and revocation: some leave the array, nothing else moves
\* but the calls fired for them.
LEMMA LeaveTyped ==
  ASSUME TypeInv, NEW gone \in SUBSET Intents, NEW away,
         queue' = Without(queue, away), Drop(gone), revoked' \subseteq Agents,
         UNCHANGED <<ledgerVars, trades, lockRefs, sealed, task, expired, faults>>
  PROVE  TypeInv'
  <1> USE DEF TypeInv
  <1>1. queue \in Seq(Intents) /\ IsInjective(queue)
    BY DEF TypeOK
  <1>2. Subarray(queue', queue)
    BY <1>1, WithoutShrinks
  <1>3. TypeOK'
    BY <1>2, DropType DEF TypeOK, Subarray, ledgerVars
  <1>4. CallInv'
    BY <1>2 DEF CallInv, Subarray
  <1>5. ClaimInv'
    BY DEF ClaimInv, ledgerVars
  <1>6. QED  BY <1>3, <1>4, <1>5

LEMMA ReleaseTyped ==
  ASSUME TypeInv, NEW i \in Intents, ReleaseBalance(i)
  PROVE  TypeInv'
  <1> USE DEF TypeInv
  <1>1. /\ releases[i] > 0 /\ releases' = [releases EXCEPT ![i] = @ - 1]
        /\ UNCHANGED <<trades, lockRefs, sealed, queue, task, deletes, agentVars>>
    BY DEF ReleaseBalance
  <1>2. releases' \in [Intents -> Nat]
    BY <1>1 DEF TypeOK
  <1>3. CASE Fault /\ UNCHANGED ledgerVars
    <2>1. TypeOK'
      BY <1>1, <1>2, <1>3, FaultType DEF TypeOK, ledgerVars, agentVars
    <2>2. CallInv' /\ ClaimInv'
      BY <1>1, <1>3 DEF CallInv, ClaimInv, ledgerVars
    <2>3. QED  BY <2>1, <2>2
  <1>4. CASE /\ portfolio' = [portfolio EXCEPT
                  ![ReservedAccount(i)] = ReleaseRow(@, Reservation(i))]
             /\ claim' = [claim EXCEPT ![i] = 0]
             /\ UNCHANGED faults
    <2> DEFINE row == ReleaseRow(portfolio[ReservedAccount(i)], Reservation(i))
    <2>1. /\ Reservation(i) \in Nat /\ ReservedAccount(i) \in Accounts
      BY ReservationFacts
    <2>2. RowOK(row) /\ row \in PortfolioRow
      BY <2>1, ReleaseRowOK DEF TypeOK, RowOK
    <2> HIDE DEF row
    <2>3. portfolio' = [portfolio EXCEPT ![ReservedAccount(i)] = row]
      BY <1>4 DEF row
    <2>4. /\ portfolio' \in [Accounts -> PortfolioRow]
          /\ \A a \in Accounts : RowOK(portfolio'[a])
      BY <2>1, <2>2, <2>3 DEF TypeOK
    <2>5. claim' \in [Intents -> Nat] /\ \A j \in Intents : claim'[j] \in {0, claim[j]}
      BY <1>4 DEF TypeOK
    <2>6. TypeOK'
      BY <1>1, <1>2, <1>4, <2>4, <2>5 DEF TypeOK, agentVars
    <2>7. CallInv'
      BY <1>1 DEF CallInv
    <2>8. ClaimInv'
      <3>1. \A j \in Intents : Reservation(j) >= 0
        BY ReservationFacts
      <3>2. QED  BY <1>1, <2>5, <3>1 DEF ClaimInv
    <2>9. QED  BY <2>6, <2>7, <2>8
  <1>5. QED  BY <1>3, <1>4 DEF ReleaseBalance

LEMMA TypeInit == Init => TypeInv
  <1> SUFFICES ASSUME Init PROVE TypeInv
    OBVIOUS
  <1>1. /\ queue = <<>> /\ queue \in Seq(Intents) /\ DOMAIN queue = {}
        /\ IsInjective(queue)
    <2>1. queue = <<>>
      BY DEF Init
    <2>2. queue \in Seq(Intents) /\ DOMAIN queue = {}
      BY <2>1, EmptySeq
    <2>3. QED  BY <2>1, <2>2 DEF IsInjective
  <1>2. task \in [Intents -> Tasks] /\ \A i \in Intents : task[i].pc = "idle"
    <2>1. "idle" \in TaskStates
      BY DEF TaskStates
    <2>2. \A i \in Intents : NewTask(i, "idle") \in Tasks /\ NewTask(i, "idle").pc = "idle"
      BY <2>1, NewTaskType
    <2>3. QED  BY <2>2 DEF Init
  <1>3. /\ portfolio \in [Accounts -> PortfolioRow]
        /\ \A a \in Accounts : RowOK(portfolio[a])
    BY OrchestratorAssumption DEF Init, PortfolioRow, RowOK
  <1>4. TypeOK
    BY <1>1, <1>2, <1>3, OrchestratorAssumption DEF Init, TypeOK, Tasks
  <1>5. CallInv
    BY <1>1, <1>2 DEF CallInv, Held
  <1>6. ClaimInv
    <2>1. \A i \in Intents : 0 <= Reservation(i)
      BY ReservationFacts
    <2>2. QED  BY <2>1 DEF Init, ClaimInv
  <1>7. QED  BY <1>4, <1>5, <1>6 DEF TypeInv

LEMMA TypeNext ==
  ASSUME TypeInv, [Next]_vars
  PROVE  TypeInv'
  <1>1. ASSUME NEW i \in Intents, CallStep(i)
        PROVE  TypeInv'
    BY <1>1, PushTyped, CallMoves, MoveTyped DEF TypeInv
  <1>2. ASSUME NEW i \in Intents, CancelIntent(i)
        PROVE  TypeInv'
    <2>1. revoked' \subseteq Agents
      BY <1>2 DEF CancelIntent, TypeInv, TypeOK
    <2>2. QED  BY <1>2, <2>1, LeaveTyped DEF CancelIntent
  <1>3. CASE EvictExpired
    <2>1. revoked' \subseteq Agents /\ Queued \cap expired \in SUBSET Intents
      BY <1>3 DEF EvictExpired, TypeInv, TypeOK, agentVars
    <2>2. QED  BY <1>3, <2>1, LeaveTyped DEF EvictExpired, agentVars
  <1>4. ASSUME NEW g \in Agents, RevokeAgent(g)
        PROVE  TypeInv'
    <2> DEFINE gone == {i \in Queued : AgentOf[i] = g}
    <2>1. revoked' \subseteq Agents
      BY <1>4 DEF RevokeAgent, TypeInv, TypeOK
    <2>2. gone \in SUBSET Intents
      BY ElementOfSeq, LenProperties DEF Queued, TypeInv, TypeOK
    <2>3. /\ queue' = Without(queue, gone) /\ Drop(gone)
          /\ UNCHANGED <<ledgerVars, trades, lockRefs, sealed, task, expired, faults>>
      BY <1>4 DEF RevokeAgent
    <2> HIDE DEF gone
    <2>4. QED  BY <2>1, <2>2, <2>3, LeaveTyped
  <1>5. ASSUME NEW i \in Intents, DeleteRef(i)
        PROVE  TypeInv'
    <2>1. TypeOK'
      BY <1>5, FaultType DEF DeleteRef, TypeInv, TypeOK, ledgerVars, agentVars
    <2>2. CallInv' /\ ClaimInv'
      BY <1>5 DEF DeleteRef, TypeInv, CallInv, ClaimInv, ledgerVars
    <2>3. QED  BY <2>1, <2>2 DEF TypeInv
  <1>6. ASSUME NEW i \in Intents, TtlPasses(i)
        PROVE  TypeInv'
    <2>1. TypeOK'
      BY <1>6 DEF TtlPasses, TypeInv, TypeOK, ledgerVars, callVars
    <2>2. CallInv' /\ ClaimInv'
      BY <1>6 DEF TtlPasses, TypeInv, CallInv, ClaimInv, ledgerVars
    <2>3. QED  BY <2>1, <2>2 DEF TypeInv
  <1>7. CASE UNCHANGED vars
    BY <1>7 DEF vars, TypeInv, TypeOK, CallInv, ClaimInv
  <1>8. QED
    BY <1>1, <1>2, <1>3, <1>4, <1>5, <1>6, <1>7, SubmitTyped, ReleaseTyped DEF Next

LEMMA TypeAlways == Spec => []TypeInv
  <1>1. TypeInv /\ [Next]_vars => TypeInv'
    BY TypeNext
  <1>2. QED  BY TypeInit, <1>1, PTL DEF Spec

\* Type correctness: every row keeps the table's CHECK constraints, and no
\* intent is in the array twice, whatever overlaps.
THEOREM TypeCorrect == Spec => []TypeOK
  <1>1. TypeInv => TypeOK
    BY DEF TypeInv
  <1>2. QED  BY TypeAlways, <1>1, PTL

-----------------------------------------------------------------------------
(* No phantom lock.                                                        *)

LedgerInv ==
  /\ \A a \in Accounts : IsFiniteSet(Units(claim, a))
  /\ \A a \in Accounts : portfolio[a].locked <= Cardinality(Units(claim, a))

LEMMA LedgerInvStated == LedgerInv => NoPhantomLock
  BY DEF LedgerInv, NoPhantomLock, Claimed, Units, UnitsOf

\* The submit's lock raises both sides by the reservation.
LEMMA SubmitLedger ==
  ASSUME TypeInv, LedgerInv, NEW i \in Intents, SubmitIntent(i)
  PROVE  LedgerInv'
  <1>1. CASE UNCHANGED ledgerVars
    BY <1>1 DEF LedgerInv, ledgerVars
  <1>2. CASE /\ Accepted(i)
             /\ portfolio' = [portfolio EXCEPT
                  ![ReservedAccount(i)] = LockRow(@, Reservation(i))]
             /\ claim' = [claim EXCEPT ![i] = Reservation(i)]
    <2>1. /\ Reservation(i) \in Nat /\ ReservedAccount(i) \in Accounts
          /\ claim \in [Intents -> Nat] /\ claim[i] = 0
          /\ portfolio \in [Accounts -> PortfolioRow]
          /\ RowOK(portfolio[ReservedAccount(i)])
      BY ReservationFacts DEF SubmitIntent, TypeInv, TypeOK, ClaimInv
    <2>2. LockRow(portfolio[ReservedAccount(i)], Reservation(i)).locked =
            portfolio[ReservedAccount(i)].locked + Reservation(i)
      BY <1>2, <2>1, LockRowOK DEF Accepted
    <2>3. \A a \in Accounts : portfolio'[a].locked =
            IF a = ReservedAccount(i) THEN portfolio[a].locked + Reservation(i)
            ELSE portfolio[a].locked
      BY <1>2, <2>1, <2>2
    <2>4. ASSUME NEW a \in Accounts
          PROVE  /\ IsFiniteSet(Units(claim', a))
                 /\ portfolio'[a].locked <= Cardinality(Units(claim', a))
      <3>1. IsFiniteSet(Units(claim, a)) /\ Cardinality(Units(claim, a)) \in Nat
        BY FS_CardinalityType DEF LedgerInv
      <3>2. /\ IsFiniteSet(Units(claim', a))
            /\ ReservedAccount(i) = a =>
                 Cardinality(Units(claim', a)) =
                   Cardinality(Units(claim, a)) - claim[i] + Reservation(i)
            /\ ReservedAccount(i) # a => Units(claim', a) = Units(claim, a)
        <4>1. claim'[i] = Reservation(i) /\ \A j \in Intents \ {i} : claim'[j] = claim[j]
          BY <1>2, <2>1
        <4>2. QED  BY <2>1, <3>1, <4>1, ClaimChanges
      <3>3. /\ portfolio[a].locked <= Cardinality(Units(claim, a))
            /\ portfolio[a].locked \in Nat
        BY <2>1 DEF LedgerInv, PortfolioRow
      <3>4. QED  BY <2>1, <2>3, <3>1, <3>2, <3>3
    <2>5. QED  BY <2>4 DEF LedgerInv
  <1>3. QED  BY <1>1, <1>2 DEF SubmitIntent

\* A release gives back the whole reservation, which is no less than what is
\* left of the claim, or whatever is still locked.
LEMMA ReleaseLedger ==
  ASSUME TypeInv, LedgerInv, NEW i \in Intents, ReleaseBalance(i)
  PROVE  LedgerInv'
  <1>1. CASE UNCHANGED ledgerVars
    BY <1>1 DEF LedgerInv, ledgerVars
  <1>2. CASE /\ portfolio' = [portfolio EXCEPT
                  ![ReservedAccount(i)] = ReleaseRow(@, Reservation(i))]
             /\ claim' = [claim EXCEPT ![i] = 0]
    <2>1. /\ Reservation(i) \in Nat /\ ReservedAccount(i) \in Accounts
          /\ claim \in [Intents -> Nat] /\ claim[i] \in Nat
          /\ claim[i] <= Reservation(i)
          /\ portfolio \in [Accounts -> PortfolioRow]
          /\ RowOK(portfolio[ReservedAccount(i)])
      BY ReservationFacts DEF TypeInv, TypeOK, ClaimInv
    <2>2. ReleaseRow(portfolio[ReservedAccount(i)], Reservation(i)).locked =
            Greatest(portfolio[ReservedAccount(i)].locked - Reservation(i), 0)
      BY <2>1, ReleaseRowOK
    <2>3. \A a \in Accounts : portfolio'[a].locked =
            IF a = ReservedAccount(i)
            THEN Greatest(portfolio[a].locked - Reservation(i), 0)
            ELSE portfolio[a].locked
      BY <1>2, <2>1, <2>2
    <2>4. ASSUME NEW a \in Accounts
          PROVE  /\ IsFiniteSet(Units(claim', a))
                 /\ portfolio'[a].locked <= Cardinality(Units(claim', a))
      <3>1. IsFiniteSet(Units(claim, a)) /\ Cardinality(Units(claim, a)) \in Nat
        BY FS_CardinalityType DEF LedgerInv
      <3>2. /\ IsFiniteSet(Units(claim', a))
            /\ ReservedAccount(i) = a =>
                 /\ Cardinality(Units(claim, a)) >= claim[i]
                 /\ Cardinality(Units(claim', a)) =
                      Cardinality(Units(claim, a)) - claim[i] + 0
            /\ ReservedAccount(i) # a => Units(claim', a) = Units(claim, a)
        <4>1. claim'[i] = 0 /\ \A j \in Intents \ {i} : claim'[j] = claim[j]
          BY <1>2, <2>1
        <4>2. QED  BY <2>1, <3>1, <4>1, ClaimChanges
      <3>3. /\ portfolio[a].locked <= Cardinality(Units(claim, a))
            /\ portfolio[a].locked \in Nat
        BY <2>1 DEF LedgerInv, PortfolioRow
      <3>4. QED  BY <2>1, <2>3, <3>1, <3>2, <3>3 DEF Greatest
    <2>5. QED  BY <2>4 DEF LedgerInv
  <1>3. QED  BY <1>1, <1>2 DEF ReleaseBalance

\* A settlement lowers each payer's lock by what it lowers the claim by, or to
\* zero.
LEMMA SettleLedger ==
  ASSUME TypeInv, LedgerInv, NEW i \in Intents, task[i].pc = "persist",
         CanSettle(i), SettleTrade(i)
  PROVE  LedgerInv'
  <1> DEFINE b == B(i)
             s == S(i)
             cash == task[i].locked
             asset == Fill(b, s)
             half == [claim EXCEPT ![b] = Greatest(claim[b] - cash, 0)]
  <1>1. <<b, s>> \in Pairs
    BY HeldPair DEF Held, TypeInv
  <1>2. /\ b \in Intents /\ s \in Intents /\ b # s /\ asset \in Nat
        /\ CashOf(b) # HoldingOf(s)
        /\ ReservedAccount(b) = CashOf(b) /\ ReservedAccount(s) = HoldingOf(s)
    BY <1>1, PairFacts
  <1>3. /\ cash \in Nat /\ claim \in [Intents -> Nat]
        /\ portfolio \in [Accounts -> PortfolioRow]
        /\ \A a \in Accounts : RowOK(portfolio[a])
    BY DEF TypeInv, TypeOK
  <1>4. /\ CanPersist(portfolio, b, s, cash, asset)
        /\ portfolio' = Legs(portfolio, b, s, cash, asset)
        /\ claim' = [claim EXCEPT ![b] = Greatest(@ - cash, 0),
                                  ![s] = Greatest(@ - asset, 0)]
    BY DEF CanSettle, SettleTrade
  <1> HIDE DEF b, s, cash, asset
  <1>5. /\ portfolio'[CashOf(b)].locked = Greatest(portfolio[CashOf(b)].locked - cash, 0)
        /\ portfolio'[HoldingOf(s)].locked =
             Greatest(portfolio[HoldingOf(s)].locked - asset, 0)
        /\ \A a \in Accounts \ {CashOf(b), HoldingOf(s)} :
             portfolio'[a].locked <= portfolio[a].locked
        /\ portfolio' \in [Accounts -> PortfolioRow]
    BY <1>1, <1>2, <1>3, <1>4, LegsOK
  <1>6. /\ claim[b] \in Nat /\ claim[s] \in Nat
        /\ Greatest(claim[b] - cash, 0) \in Nat /\ Greatest(claim[s] - asset, 0) \in Nat
    BY <1>2, <1>3 DEF Greatest
  <1>7. /\ half \in [Intents -> Nat] /\ half[s] = claim[s]
        /\ claim' = [half EXCEPT ![s] = Greatest(claim[s] - asset, 0)]
    BY <1>2, <1>3, <1>4, <1>6
  <1>8. ASSUME NEW a \in Accounts
        PROVE  /\ IsFiniteSet(Units(claim', a))
               /\ portfolio'[a].locked <= Cardinality(Units(claim', a))
    <2>1. IsFiniteSet(Units(claim, a)) /\ Cardinality(Units(claim, a)) \in Nat
      BY FS_CardinalityType DEF LedgerInv
    <2>2. /\ IsFiniteSet(Units(half, a))
          /\ ReservedAccount(b) = a =>
               /\ Cardinality(Units(claim, a)) >= claim[b]
               /\ Cardinality(Units(half, a)) =
                    Cardinality(Units(claim, a)) - claim[b] + Greatest(claim[b] - cash, 0)
          /\ ReservedAccount(b) # a => Units(half, a) = Units(claim, a)
      <3> DEFINE left == Greatest(claim[b] - cash, 0)
      <3>1. /\ half[b] = left /\ left \in Nat
            /\ \A j \in Intents \ {b} : half[j] = claim[j]
        BY <1>2, <1>3, <1>6
      <3> HIDE DEF half, left
      <3>2. /\ IsFiniteSet(Units(half, a))
            /\ ReservedAccount(b) = a =>
                 /\ Cardinality(Units(claim, a)) >= claim[b]
                 /\ Cardinality(Units(half, a)) =
                      Cardinality(Units(claim, a)) - claim[b] + left
            /\ ReservedAccount(b) # a => Units(half, a) = Units(claim, a)
        BY <1>2, <1>3, <2>1, <3>1, ClaimChanges
      <3>3. QED  BY <3>2 DEF left
    <2> HIDE DEF half
    <2>3. /\ IsFiniteSet(Units(claim', a))
          /\ ReservedAccount(s) = a =>
               /\ Cardinality(Units(half, a)) >= half[s]
               /\ Cardinality(Units(claim', a)) =
                    Cardinality(Units(half, a)) - half[s] + Greatest(claim[s] - asset, 0)
          /\ ReservedAccount(s) # a => Units(claim', a) = Units(half, a)
      <3> DEFINE left == Greatest(claim[s] - asset, 0)
      <3>1. /\ claim'[s] = left /\ left \in Nat
            /\ \A j \in Intents \ {s} : claim'[j] = half[j]
        BY <1>2, <1>6, <1>7
      <3> HIDE DEF left
      <3>2. half \in [Intents -> Nat] /\ IsFiniteSet(Units(half, a))
        BY <1>7, <2>2
      <3>3. /\ IsFiniteSet(Units(claim', a))
            /\ ReservedAccount(s) = a =>
                 /\ Cardinality(Units(half, a)) >= half[s]
                 /\ Cardinality(Units(claim', a)) =
                      Cardinality(Units(half, a)) - half[s] + left
            /\ ReservedAccount(s) # a => Units(claim', a) = Units(half, a)
        BY <1>2, <3>1, <3>2, ClaimChanges
      <3>4. QED  BY <3>3 DEF left
    <2>4. /\ portfolio[a].locked <= Cardinality(Units(claim, a))
          /\ portfolio[a].locked \in Nat /\ portfolio'[a].locked \in Nat
      BY <1>3, <1>5 DEF LedgerInv, PortfolioRow
    <2>5. CASE a = CashOf(b)
      BY <1>2, <1>3, <1>5, <1>6, <2>1, <2>2, <2>3, <2>4, <2>5 DEF Greatest
    <2>6. CASE a = HoldingOf(s)
      BY <1>2, <1>3, <1>5, <1>6, <1>7, <2>1, <2>2, <2>3, <2>4, <2>6 DEF Greatest
    <2>7. CASE a \notin {CashOf(b), HoldingOf(s)}
      BY <1>2, <1>5, <2>1, <2>2, <2>3, <2>4, <2>7
    <2>8. QED  BY <2>5, <2>6, <2>7
  <1>9. QED  BY <1>8 DEF LedgerInv

LEMMA LedgerInit == Init => LedgerInv
  <1> SUFFICES ASSUME Init, NEW a \in Accounts
               PROVE  /\ IsFiniteSet(Units(claim, a))
                      /\ portfolio[a].locked <= Cardinality(Units(claim, a))
    BY DEF LedgerInv
  <1>1. \A i \in Intents : UnitsOf(i, claim[i]) = {}
    BY DEF Init, UnitsOf
  <1>2. Units(claim, a) = {}
    BY <1>1 DEF Units
  <1>3. portfolio[a].locked = 0
    BY DEF Init
  <1>4. QED  BY <1>2, <1>3, FS_EmptySet

LEMMA LedgerNext ==
  ASSUME TypeInv, LedgerInv, [Next]_vars
  PROVE  LedgerInv'
  <1>1. CASE UNCHANGED ledgerVars
    BY <1>1 DEF LedgerInv, ledgerVars
  <1>2. ASSUME NEW i \in Intents, CallStep(i)
        PROVE  LedgerInv'
    <2>1. CASE OnIntentSealed(i)
      BY <1>1, <2>1 DEF OnIntentSealed
    <2>2. CASE ~OnIntentSealed(i)
      <3>1. \/ UNCHANGED ledgerVars
            \/ task[i].pc = "persist" /\ CanSettle(i) /\ SettleTrade(i)
        BY <1>2, <2>2, CallMoves DEF CallMove, TypeInv, ledgerVars
      <3>2. QED  BY <1>1, <3>1, SettleLedger
    <2>3. QED  BY <2>1, <2>2
  <1>3. ASSUME NEW i \in Intents, CancelIntent(i) \/ TtlPasses(i) \/ DeleteRef(i)
        PROVE  UNCHANGED ledgerVars
    BY <1>3 DEF CancelIntent, TtlPasses, DeleteRef
  <1>4. CASE EvictExpired \/ (\E g \in Agents : RevokeAgent(g))
    BY <1>1, <1>4 DEF EvictExpired, RevokeAgent
  <1>5. CASE UNCHANGED vars
    BY <1>1, <1>5 DEF vars, ledgerVars
  <1>6. QED
    BY <1>1, <1>2, <1>3, <1>4, <1>5, SubmitLedger, ReleaseLedger DEF Next

\* `locked` is never more than what is left of the reservations, after double
\* releases, partial fills and settlements that overtake a release.
THEOREM PhantomFree == Spec => []NoPhantomLock
  <1>1. TypeInv /\ LedgerInv /\ [Next]_vars => LedgerInv'
    BY LedgerNext
  <1>2. Spec => []LedgerInv
    BY TypeAlways, LedgerInit, <1>1, PTL DEF Spec
  <1>3. QED  BY <1>2, LedgerInvStated, PTL

-----------------------------------------------------------------------------
(* The orchestrator implements the venue, if the contract's deletions do    *)
(* what they say.                                                          *)

\* What calls past the enclave hold is out of the enclave's store, and no two
\* of them hold the same order.
OnceInv ==
  \A i \in Intents : task[i].pc \in Held =>
    /\ {i, task[i].other} \cap sealed = {}
    /\ \A j \in Intents \ {i} : task[j].pc \in Held =>
         {i, task[i].other} \cap {j, task[j].other} = {}

\* A call gets past the enclave only by a match.
LEMMA HeldByMatch ==
  ASSUME TypeOK, CallInv, NEW i \in Intents, CallStep(i),
         ~OnIntentSealed(i), task'[i].pc \in Held
  PROVE  /\ task'[i].other = task[i].other
         /\ \/ task[i].pc \in Held
            \/ /\ task[i].pc = "evaluate" /\ Matched(i)
               /\ ~DeletesFail => sealed' = sealed \ {B(i), S(i)}
  <1> USE DEF Held
  <1>0. task \in [Intents -> Tasks]
    BY DEF TypeOK, Tasks
  <1>1. \A pc \in TaskStates : Goto(i, pc) => task'[i].other = task[i].other
    BY GotoMoves
  <1>2. Finish(i) => task'[i].pc = "done"
    BY FinishMoves
  <1>3. CASE NoMatch(i)
    <2>1. /\ task[i].at + 1 \in Nat \ {0}
          /\ task' = [task EXCEPT ![i] = Scan(i, task[i].at + 1, queue)]
      BY <1>0, <1>3 DEF NoMatch, Tasks
    <2>2. task'[i].pc \in {"done", "evaluate"}
      BY <2>1, ScanMoves
    <2>3. QED  BY <2>2
  <1>4. CASE Match(i)
    <2>1. ~DeletesFail => sealed' = sealed \ {B(i), S(i)}
      BY <1>4 DEF Match
    <2>2. task'[i].other = task[i].other
      <3>1. CASE ~Finish(i)
        <4>1. PICK locked \in BuyerLockedAmounts(i) :
                task' = [task EXCEPT ![i].pc = "checkBuyer", ![i].locked = locked]
          BY <1>4, <3>1 DEF Match, ActOn
        <4>2. QED  BY <1>0, <4>1 DEF Tasks
      <3>2. CASE Finish(i)
        BY <1>2, <1>4, <3>2 DEF Match
      <3>3. QED  BY <3>1, <3>2
    <2>3. QED  BY <1>4, <2>1, <2>2 DEF Match
  <1>5. CASE EvaluateFails(i)
    BY <1>2, <1>5 DEF EvaluateFails
  <1>6. CASE CheckBuyer(i) \/ CheckSeller(i) \/ CheckFails(i)
    <2>1. \/ Goto(i, "checkSeller") \/ Goto(i, "settle") \/ Finish(i)
      BY <1>6 DEF CheckBuyer, CheckSeller, CheckFails, Proceed, RejectOther
    <2>2. task[i].pc \in {"checkBuyer", "checkSeller"}
      BY <1>6 DEF CheckBuyer, CheckSeller, CheckFails
    <2>3. QED  BY <1>1, <1>2, <2>1, <2>2 DEF TaskStates
  <1>7. CASE BuildCommand(i) \/ PersistSettlement(i) \/ PersistFails(i) \/ ApplyFill(i)
    <2>1. \/ Goto(i, "persist") \/ Goto(i, "fill") \/ Finish(i)
      BY <1>7 DEF BuildCommand, PersistSettlement, PersistFails, ApplyFill, GiveUp
    <2>2. task[i].pc \in {"settle", "persist", "fill"}
      BY <1>7 DEF BuildCommand, PersistSettlement, PersistFails, ApplyFill
    <2>3. QED  BY <1>1, <1>2, <2>1, <2>2 DEF TaskStates
  <1>8. QED  BY <1>3, <1>4, <1>5, <1>6, <1>7 DEF CallStep

LEMMA OnceInit == Init => OnceInv
  BY DEF Init, OnceInv, Held, NewTask

LEMMA OnceNext ==
  ASSUME TypeInv, OnceInv, ~DeletesFail, [Next]_vars
  PROVE  OnceInv'
  <1> USE DEF TypeInv
  <1>0. task \in [Intents -> Tasks]
    BY DEF TypeOK, Tasks
  <1>1. ASSUME UNCHANGED <<sealed, task>>
        PROVE  OnceInv'
    BY <1>1 DEF OnceInv
  <1>2. ASSUME NEW i \in Intents, SubmitIntent(i)
        PROVE  OnceInv'
    <2>1. /\ task[i].pc = "idle" /\ sealed' = sealed \cup {i}
          /\ Goto(i, "push") \/ Goto(i, "refused")
      BY <1>2 DEF SubmitIntent
    <2>2. /\ task' = [task EXCEPT ![i] = task'[i]]
          /\ task'[i].pc \in {"push", "refused"}
      <3>1. "push" \in TaskStates /\ "refused" \in TaskStates
        BY DEF TaskStates
      <3>2. QED  BY <2>1, <3>1, GotoMoves
    <2>3. \A j \in Intents : task'[j].pc \in Held => j # i /\ task'[j] = task[j]
      BY <1>0, <2>2 DEF Held
    <2>4. \A j \in Intents : task[j].pc \in Held => i # j /\ i # task[j].other
      BY <2>1 DEF CallInv, Held, Waiting
    <2>5. QED  BY <2>1, <2>3, <2>4 DEF OnceInv
  <1>3. ASSUME NEW i \in Intents, CallStep(i)
        PROVE  OnceInv'
    <2>1. CASE OnIntentSealed(i)
      <3>1. /\ sealed' = sealed /\ task'[i].pc \notin Held
            /\ task' = [task EXCEPT ![i] = task'[i]]
        BY <1>0, <2>1, PushTyped DEF OnIntentSealed, Held
      <3>2. \A j \in Intents : task'[j].pc \in Held => j # i /\ task'[j] = task[j]
        BY <1>0, <3>1
      <3>3. QED  BY <3>1, <3>2 DEF OnceInv
    <2>2. CASE ~OnIntentSealed(i)
      <3>1. /\ sealed' \subseteq sealed
            /\ task' = [task EXCEPT ![i] = task'[i]]
        BY <1>3, <2>2, CallMoves DEF CallMove
      <3>2. \A j \in Intents \ {i} : task'[j] = task[j]
        BY <1>0, <3>1
      <3>3. CASE task'[i].pc \notin Held
        <4>1. \A j \in Intents : task'[j].pc \in Held => j # i /\ task'[j] = task[j]
          BY <3>2, <3>3
        <4>2. QED  BY <3>1, <4>1 DEF OnceInv
      <3>4. CASE task'[i].pc \in Held /\ task[i].pc \in Held
        <4>1. task'[i].other = task[i].other
          BY <1>3, <2>2, <3>4, HeldByMatch
        <4>2. \A j \in Intents : task'[j].pc \in Held =>
                task[j].pc \in Held /\ task'[j].other = task[j].other
          BY <3>2, <3>4, <4>1
        <4>3. QED  BY <3>1, <4>2 DEF OnceInv
      <3>5. CASE task'[i].pc \in Held /\ task[i].pc \notin Held
        <4>1. /\ task'[i].other = task[i].other /\ task[i].pc = "evaluate"
              /\ {B(i), S(i)} \subseteq sealed /\ sealed' = sealed \ {B(i), S(i)}
          BY <1>3, <2>2, <3>5, HeldByMatch DEF Matched
        <4>2. {B(i), S(i)} = {i, task[i].other}
          BY <4>1, HeldPair
        <4>3. \A j \in Intents \ {i} : task[j].pc \in Held =>
                {i, task[i].other} \cap {j, task[j].other} = {}
          BY <4>1, <4>2 DEF OnceInv
        <4>4. {i, task'[i].other} \cap sealed' = {}
          BY <4>1, <4>2
        <4>5. ASSUME NEW j \in Intents \ {i}, task'[j].pc \in Held
              PROVE  /\ {j, task'[j].other} \cap sealed' = {}
                     /\ {i, task'[i].other} \cap {j, task'[j].other} = {}
                     /\ \A k \in Intents \ {i, j} : task'[k].pc \in Held =>
                          {j, task'[j].other} \cap {k, task'[k].other} = {}
          BY <3>1, <3>2, <4>1, <4>3, <4>5 DEF OnceInv
        <4>6. QED  BY <4>4, <4>5 DEF OnceInv
      <3>6. QED  BY <3>3, <3>4, <3>5
    <2>3. QED  BY <2>1, <2>2
  <1>4. ASSUME NEW i \in Intents,
               CancelIntent(i) \/ TtlPasses(i) \/ ReleaseBalance(i) \/ DeleteRef(i)
        PROVE  UNCHANGED <<sealed, task>>
    BY <1>4 DEF CancelIntent, TtlPasses, ReleaseBalance, DeleteRef
  <1>5. CASE EvictExpired \/ (\E g \in Agents : RevokeAgent(g))
    BY <1>1, <1>5 DEF EvictExpired, RevokeAgent
  <1>6. CASE UNCHANGED vars
    BY <1>1, <1>6 DEF vars
  <1>7. QED  BY <1>1, <1>2, <1>3, <1>4, <1>5, <1>6 DEF Next

\* The venue's orders are the orchestrator's.
LEMMA SameOrders ==
  /\ Venue!Pairs = Pairs /\ Venue!Accounts = Accounts
  /\ \A i : Venue!CashOf(i) = CashOf(i) /\ Venue!HoldingOf(i) = HoldingOf(i)
  /\ \A b, s : /\ Venue!PairCrosses(b, s) = PairCrosses(b, s)
               /\ Venue!Fill(b, s) = Fill(b, s) /\ Venue!Cost(b, s) = Cost(b, s)
  <1>1. Venue!Accounts = Accounts
    BY DEF Venue!Accounts, Accounts
  <1>2. Venue!Pairs = Pairs
    BY DEF Venue!Pairs, Pairs, Venue!Counterparts, Counterparts
  <1>3. ASSUME NEW i
        PROVE  Venue!CashOf(i) = CashOf(i) /\ Venue!HoldingOf(i) = HoldingOf(i)
    BY DEF Venue!CashOf, CashOf, Venue!HoldingOf, HoldingOf
  <1>4. ASSUME NEW b, NEW s
        PROVE  /\ Venue!PairCrosses(b, s) = PairCrosses(b, s)
               /\ Venue!Fill(b, s) = Fill(b, s) /\ Venue!Cost(b, s) = Cost(b, s)
    <2>1. Venue!PairCrosses(b, s) = PairCrosses(b, s)
      BY DEF Venue!PairCrosses, PairCrosses, Venue!Crosses, Crosses, Venue!SumFits,
             SumFits
    <2>2. Venue!Fill(b, s) = Fill(b, s)
      BY DEF Venue!Fill, Fill, Venue!MatchedQuantity, MatchedQuantity
    <2>3. Venue!Price(b, s) = Price(b, s)
      BY DEF Venue!Price, Price, Venue!Midpoint, Midpoint
    <2>4. Venue!Cost(b, s) = Cost(b, s)
      BY <2>2, <2>3 DEF Venue!Cost, Cost
    <2>5. QED  BY <2>1, <2>2, <2>4
  <1>5. QED  BY <1>1, <1>2, <1>3, <1>4

\* A venue action of one pair is a step of the venue.
LEMMA VenueMoves ==
  ASSUME NEW b, NEW s, <<b, s>> \in Pairs,
         \/ Venue!Match(b, s) \/ Venue!MatchInVain(b, s)
         \/ Venue!Settle(b, s) \/ Venue!Abandon(b, s)
  PROVE  Venue!Next
  <1>1. PICK p \in Venue!Pairs : p = <<b, s>>
    BY SameOrders
  <1>2. b = p[1] /\ s = p[2]
    BY <1>1
  <1>3. \/ Venue!Match(p[1], p[2]) \/ Venue!MatchInVain(p[1], p[2])
        \/ Venue!Settle(p[1], p[2]) \/ Venue!Abandon(p[1], p[2])
    BY <1>2
  <1>4. QED  BY <1>3, Zenon DEF Venue!Next

\* What the venue sees of the orchestrator's state.
Seen == {i \in Intents : task[i].pc # "idle"}
Balances == [a \in Accounts |-> portfolio[a].balance]
Deciding == {"checkBuyer", "checkSeller", "settle", "persist"}

LEMMA VenueStutters ==
  ASSUME Seen' = Seen, InHand' = InHand, UNCHANGED <<sealed, trades>>,
         Balances' = Balances
  PROVE  UNCHANGED Venue!evars
  BY DEF Venue!evars, Seen, Balances

\* How a step of one call changes the pairs in hand.
LEMMA InHandChanges ==
  ASSUME TypeInv, OnceInv, NEW i \in Intents,
         task' = [task EXCEPT ![i] = task'[i]]
  PROVE  /\ task[i].pc \notin Deciding /\ task'[i].pc \notin Deciding =>
              InHand' = InHand
         /\ /\ task[i].pc \in Deciding /\ task'[i].pc \in Deciding
            /\ task'[i].other = task[i].other
            => InHand' = InHand
         /\ /\ task[i].pc \notin Deciding /\ task'[i].pc \in Deciding
            /\ task'[i].other = task[i].other
            => InHand' = InHand \cup {<<B(i), S(i)>>}
         /\ task[i].pc \in Deciding /\ task'[i].pc \notin Deciding =>
              /\ <<B(i), S(i)>> \in InHand
              /\ InHand' = InHand \ {<<B(i), S(i)>>}
  <1> USE DEF TypeInv
  <1>0. task \in [Intents -> Tasks]
    BY DEF TypeOK, Tasks
  <1>1. /\ InHand = {<<B(j), S(j)>> : j \in {k \in Intents : task[k].pc \in Deciding}}
        /\ InHand' = {<<B(j)', S(j)'>> : j \in {k \in Intents : task'[k].pc \in Deciding}}
    BY DEF InHand, Deciding
  <1>2. \A j \in Intents \ {i} : task'[j] = task[j] /\ B(j)' = B(j) /\ S(j)' = S(j)
    BY <1>0 DEF B, S
  <1>3. task'[i].other = task[i].other => B(i)' = B(i) /\ S(i)' = S(i)
    BY DEF B, S
  <1>4. ASSUME NEW j \in Intents \ {i}, task[i].pc \in Deciding, task[j].pc \in Deciding
        PROVE  <<B(j), S(j)>> # <<B(i), S(i)>>
    <2>1. task[i].pc \in Held /\ task[j].pc \in Held
      BY <1>4 DEF Deciding, Held
    <2>2. /\ {B(i), S(i)} = {i, task[i].other}
          /\ {B(j), S(j)} = {j, task[j].other}
      BY <2>1, HeldPair
    <2>3. {i, task[i].other} \cap {j, task[j].other} = {}
      BY <2>1 DEF OnceInv
    <2>4. QED  BY <2>2, <2>3
  <1>5. QED  BY <1>1, <1>2, <1>3, <1>4

\* A committed settlement is the venue's: both payers cover their legs, and the
\* balances of the four accounts move.
LEMMA VenueSettles ==
  ASSUME TypeInv, OnceInv, NEW i \in Intents, task[i].pc = "persist",
         CanSettle(i), SettleTrade(i), Seen' = Seen, UNCHANGED sealed,
         <<B(i), S(i)>> \in InHand, InHand' = InHand \ {<<B(i), S(i)>>}
  PROVE  Venue!Next
  <1>0. PICK b, s : b = B(i) /\ s = S(i)
    OBVIOUS
  <1> DEFINE cash == task[i].locked
             asset == Fill(b, s)
  <1>1. <<b, s>> \in Pairs
    BY <1>0, HeldPair DEF Held, TypeInv
  <1>2. /\ {CashOf(b), HoldingOf(b), CashOf(s), HoldingOf(s)} \subseteq Accounts
        /\ CashOf(b) # HoldingOf(b) /\ CashOf(s) # HoldingOf(s)
        /\ CashOf(b) # CashOf(s) /\ HoldingOf(b) # HoldingOf(s)
        /\ CashOf(b) # HoldingOf(s) /\ CashOf(s) # HoldingOf(b)
        /\ asset \in Nat
    BY <1>1, PairFacts
  <1>3. /\ cash \in Nat /\ portfolio \in [Accounts -> PortfolioRow]
        /\ \A a \in Accounts : RowOK(portfolio[a])
    BY DEF TypeInv, TypeOK
  <1>4. /\ CanPersist(portfolio, b, s, cash, asset)
        /\ portfolio' = Legs(portfolio, b, s, cash, asset)
        /\ trades' = trades \cup {<<b, s>>}
    BY <1>0 DEF CanSettle, SettleTrade
  <1>5. InHand' = InHand \ {<<b, s>>} /\ <<b, s>> \in InHand
    BY <1>0
  <1> HIDE DEF cash, asset
  <1>6. \A a \in Accounts :
          portfolio'[a].balance =
            IF a = CashOf(b) THEN portfolio[a].balance - Cost(b, s)
            ELSE IF a = HoldingOf(b) THEN portfolio[a].balance + Fill(b, s)
            ELSE IF a = HoldingOf(s) THEN portfolio[a].balance - Fill(b, s)
            ELSE IF a = CashOf(s) THEN portfolio[a].balance + Cost(b, s)
            ELSE portfolio[a].balance
    BY <1>1, <1>2, <1>3, <1>4, LegsOK
  <1>7. Balances' = [Balances EXCEPT
          ![CashOf(b)]    = @ - Cost(b, s),
          ![HoldingOf(b)] = @ + Fill(b, s),
          ![HoldingOf(s)] = @ - Fill(b, s),
          ![CashOf(s)]    = @ + Cost(b, s)]
    BY <1>2, <1>6 DEF Balances
  <1>8. Balances' = Venue!Transfer(b, s)
    BY <1>7, SameOrders DEF Venue!Transfer, Balances
  <1>9. /\ Balances[CashOf(b)] >= Cost(b, s)
        /\ Balances[HoldingOf(s)] >= Fill(b, s)
    BY <1>2, <1>4 DEF CanPersist, Covered, Balances
  <1>10. Venue!Settle(b, s)
    BY <1>4, <1>5, <1>8, <1>9, SameOrders DEF Venue!Settle, Balances, Seen
  <1>11. QED  BY <1>1, <1>10, VenueMoves

\* What a call's step past its push is to the venue: a match, a step that only
\* the call sees or gives its pair up, or a settlement.
LEMMA CallKinds ==
  ASSUME TypeInv, ~DeletesFail, NEW i \in Intents, CallStep(i),
         ~OnIntentSealed(i)
  PROVE  \/ /\ task[i].pc = "evaluate" /\ Matched(i)
            /\ sealed' = sealed \ {B(i), S(i)}
            /\ UNCHANGED <<ledgerVars, trades>>
         \/ /\ UNCHANGED <<sealed, ledgerVars, trades>>
            /\ task'[i].pc \in Deciding => task[i].pc \in Deciding
         \/ /\ task[i].pc = "persist" /\ CanSettle(i) /\ SettleTrade(i)
            /\ UNCHANGED sealed /\ task'[i].pc \notin Deciding
  <1> USE DEF TypeInv, Deciding
  <1>0. task \in [Intents -> Tasks]
    BY DEF TypeOK, Tasks
  <1>1. Finish(i) => task'[i].pc = "done"
    BY FinishMoves
  <1>2. CASE NoMatch(i)
    <2>1. /\ task[i].at + 1 \in Nat \ {0}
          /\ task' = [task EXCEPT ![i] = Scan(i, task[i].at + 1, queue)]
      BY <1>0, <1>2 DEF NoMatch, Tasks
    <2>2. task'[i].pc \in {"done", "evaluate"}
      BY <2>1, ScanMoves
    <2>3. QED  BY <1>2, <2>2 DEF NoMatch
  <1>3. CASE Match(i)
    BY <1>3 DEF Match
  <1>4. CASE EvaluateFails(i)
    BY <1>1, <1>4 DEF EvaluateFails
  <1>5. CASE CheckBuyer(i) \/ CheckSeller(i) \/ CheckFails(i)
    BY <1>5 DEF CheckBuyer, CheckSeller, CheckFails
  <1>6. CASE BuildCommand(i)
    BY <1>6 DEF BuildCommand, GiveUp, ledgerVars
  <1>7. CASE PersistSettlement(i) \/ PersistFails(i)
    <2>1. \/ /\ CanSettle(i) /\ SettleTrade(i)
             /\ Goto(i, "fill") \/ Finish(i)
          \/ GiveUp(i)
      BY <1>7 DEF PersistSettlement, PersistFails
    <2>2. Goto(i, "fill") => task'[i].pc = "fill"
      BY <1>0 DEF Goto, Tasks
    <2>3. task[i].pc = "persist" /\ UNCHANGED sealed
      BY <1>7 DEF PersistSettlement, PersistFails
    <2>4. QED  BY <1>1, <2>1, <2>2, <2>3 DEF GiveUp, ledgerVars
  <1>8. CASE ApplyFill(i)
    BY <1>1, <1>8 DEF ApplyFill
  <1>9. QED  BY <1>2, <1>3, <1>4, <1>5, <1>6, <1>7, <1>8 DEF CallStep

\* A step of a call is a step of the venue, or none.
LEMMA VenueCall ==
  ASSUME TypeInv, OnceInv, ~DeletesFail, NEW i \in Intents, CallStep(i),
         ~OnIntentSealed(i)
  PROVE  Venue!Next \/ UNCHANGED Venue!evars
  <1>0. task \in [Intents -> Tasks]
    BY DEF TypeInv, TypeOK, Tasks
  <1>1. /\ task[i].pc \notin Waiting /\ task'[i].pc \notin Waiting
        /\ task' = [task EXCEPT ![i] = task'[i]]
    BY CallMoves DEF CallMove, TypeInv
  <1>2. Seen' = Seen
    BY <1>0, <1>1 DEF Seen, Waiting
  <1>3. PICK b, s : b = B(i) /\ s = S(i)
    OBVIOUS
  <1>4. task[i].pc \in Deciding \cup {"evaluate"} => <<b, s>> \in Pairs
    BY <1>3, HeldPair DEF TypeInv, Held, Deciding
  <1>5. task'[i].pc \in Deciding => task'[i].other = task[i].other
    BY HeldByMatch DEF TypeInv, Held, Deciding
  <1>6. UNCHANGED ledgerVars => Balances' = Balances
    BY DEF ledgerVars, Balances
  <1>7. CASE /\ task[i].pc = "evaluate" /\ Matched(i)
             /\ sealed' = sealed \ {B(i), S(i)}
             /\ UNCHANGED <<ledgerVars, trades>>
    <2>1. /\ {b, s} \subseteq sealed /\ Venue!PairCrosses(b, s)
          /\ sealed' = sealed \ {b, s}
      BY <1>3, <1>7, SameOrders DEF Matched
    <2>2. CASE task'[i].pc \in Deciding
      <3>1. InHand' = InHand \cup {<<b, s>>}
        BY <1>1, <1>3, <1>5, <1>7, <2>2, InHandChanges DEF Deciding
      <3>2. Venue!Match(b, s)
        BY <1>2, <1>6, <1>7, <2>1, <3>1 DEF Venue!Match, Seen, Balances
      <3>3. QED  BY <1>4, <1>7, <3>2, VenueMoves
    <2>3. CASE task'[i].pc \notin Deciding
      <3>1. InHand' = InHand
        BY <1>1, <1>7, <2>3, InHandChanges DEF Deciding
      <3>2. Venue!MatchInVain(b, s)
        BY <1>2, <1>6, <1>7, <2>1, <3>1 DEF Venue!MatchInVain, Seen, Balances
      <3>3. QED  BY <1>4, <1>7, <3>2, VenueMoves
    <2>4. QED  BY <2>2, <2>3
  <1>8. CASE /\ UNCHANGED <<sealed, ledgerVars, trades>>
             /\ task'[i].pc \in Deciding => task[i].pc \in Deciding
    <2>1. CASE task[i].pc \in Deciding /\ task'[i].pc \notin Deciding
      <3>1. <<b, s>> \in InHand /\ InHand' = InHand \ {<<b, s>>}
        BY <1>1, <1>3, <2>1, InHandChanges
      <3>2. Venue!Abandon(b, s)
        BY <1>2, <1>6, <1>8, <3>1 DEF Venue!Abandon, Seen, Balances
      <3>3. QED  BY <1>4, <2>1, <3>2, VenueMoves
    <2>2. CASE ~(task[i].pc \in Deciding /\ task'[i].pc \notin Deciding)
      <3>1. InHand' = InHand
        BY <1>1, <1>5, <1>8, <2>2, InHandChanges
      <3>2. QED  BY <1>2, <1>6, <1>8, <3>1, VenueStutters
    <2>3. QED  BY <2>1, <2>2
  <1>9. CASE /\ task[i].pc = "persist" /\ CanSettle(i) /\ SettleTrade(i)
             /\ UNCHANGED sealed /\ task'[i].pc \notin Deciding
    <2>1. <<B(i), S(i)>> \in InHand /\ InHand' = InHand \ {<<B(i), S(i)>>}
      BY <1>1, <1>9, InHandChanges DEF Deciding
    <2>2. QED  BY <1>2, <1>9, <2>1, VenueSettles
  <1>10. QED  BY <1>7, <1>8, <1>9, CallKinds

\* An accepted or refused submit opens the order; a lock moves no balance.
LEMMA VenueOpens ==
  ASSUME TypeInv, OnceInv, NEW i \in Intents, SubmitIntent(i)
  PROVE  Venue!Next
  <1>0. task \in [Intents -> Tasks]
    BY DEF TypeInv, TypeOK, Tasks
  <1>1. /\ task[i].pc = "idle" /\ sealed' = sealed \cup {i} /\ trades' = trades
        /\ Goto(i, "push") \/ Goto(i, "refused")
    BY DEF SubmitIntent
  <1>2. /\ task' = [task EXCEPT ![i] = task'[i]]
        /\ task'[i].pc \in {"push", "refused"}
    <2>1. "push" \in TaskStates /\ "refused" \in TaskStates
      BY DEF TaskStates
    <2>2. QED  BY <1>1, <2>1, GotoMoves DEF TypeInv
  <1>3. InHand' = InHand
    BY <1>1, <1>2, InHandChanges DEF Deciding
  <1>4. i \notin Seen /\ Seen' = Seen \cup {i}
    BY <1>0, <1>1, <1>2 DEF Seen
  <1>5. Balances' = Balances
    <2>1. CASE UNCHANGED ledgerVars
      BY <2>1 DEF ledgerVars, Balances
    <2>2. CASE /\ Accepted(i)
               /\ portfolio' = [portfolio EXCEPT
                    ![ReservedAccount(i)] = LockRow(@, Reservation(i))]
      <3> DEFINE row == LockRow(portfolio[ReservedAccount(i)], Reservation(i))
      <3>1. /\ Reservation(i) \in Nat /\ ReservedAccount(i) \in Accounts
            /\ portfolio \in [Accounts -> PortfolioRow]
            /\ \A a \in Accounts : RowOK(portfolio[a])
        BY ReservationFacts DEF TypeInv, TypeOK
      <3>2. row.balance = portfolio[ReservedAccount(i)].balance
        BY <2>2, <3>1, LockRowOK DEF Accepted
      <3> HIDE DEF row
      <3>3. portfolio' = [portfolio EXCEPT ![ReservedAccount(i)] = row]
        BY <2>2 DEF row
      <3>4. \A a \in Accounts : portfolio'[a].balance = portfolio[a].balance
        BY <3>1, <3>2, <3>3
      <3>5. QED  BY <3>4 DEF Balances
    <2>3. QED  BY <2>1, <2>2 DEF SubmitIntent
  <1>6. Venue!Open(i)
    BY <1>1, <1>3, <1>4, <1>5 DEF Venue!Open, Seen, Balances
  <1>7. QED  BY <1>6, Zenon DEF Venue!Next

\* The release of a reservation moves no balance.
LEMMA VenueReleases ==
  ASSUME TypeInv, NEW i \in Intents, ReleaseBalance(i)
  PROVE  Balances' = Balances
  <1>1. CASE UNCHANGED ledgerVars
    BY <1>1 DEF ledgerVars, Balances
  <1>2. CASE portfolio' = [portfolio EXCEPT
               ![ReservedAccount(i)] = ReleaseRow(@, Reservation(i))]
    <2> DEFINE row == ReleaseRow(portfolio[ReservedAccount(i)], Reservation(i))
    <2>1. /\ Reservation(i) \in Nat /\ ReservedAccount(i) \in Accounts
          /\ portfolio \in [Accounts -> PortfolioRow]
          /\ \A a \in Accounts : RowOK(portfolio[a])
      BY ReservationFacts DEF TypeInv, TypeOK
    <2>2. row.balance = portfolio[ReservedAccount(i)].balance
      BY <2>1, ReleaseRowOK
    <2> HIDE DEF row
    <2>3. portfolio' = [portfolio EXCEPT ![ReservedAccount(i)] = row]
      BY <1>2 DEF row
    <2>4. \A a \in Accounts : portfolio'[a].balance = portfolio[a].balance
      BY <2>1, <2>2, <2>3
    <2>5. QED  BY <2>4 DEF Balances
  <1>3. QED  BY <1>1, <1>2 DEF ReleaseBalance

LEMMA VenueInit == Init => Venue!Init
  <1> SUFFICES ASSUME Init PROVE Venue!Init
    OBVIOUS
  <1>1. Seen = {} /\ InHand = {}
    BY DEF Init, Seen, InHand, NewTask
  <1>2. Balances = Deposit
    BY OrchestratorAssumption DEF Init, Balances
  <1>3. QED  BY <1>1, <1>2 DEF Init, Venue!Init, Seen, Balances

LEMMA VenueNext ==
  ASSUME TypeInv, OnceInv, ~DeletesFail, [Next]_vars
  PROVE  [Venue!Next]_(Venue!evars)
  <1>1. ASSUME UNCHANGED <<sealed, task, trades>>, Balances' = Balances
        PROVE  UNCHANGED Venue!evars
    <2>1. Seen' = Seen /\ InHand' = InHand
      BY <1>1 DEF Seen, InHand, B, S
    <2>2. QED  BY <1>1, <2>1, VenueStutters
  <1>2. UNCHANGED ledgerVars => Balances' = Balances
    BY DEF ledgerVars, Balances
  <1>3. ASSUME NEW i \in Intents, CallStep(i)
        PROVE  Venue!Next \/ UNCHANGED Venue!evars
    <2>1. CASE OnIntentSealed(i)
      <3>1. /\ UNCHANGED <<sealed, trades, ledgerVars>> /\ task[i].pc = "push"
            /\ task' = [task EXCEPT ![i] = task'[i]]
        BY <2>1 DEF OnIntentSealed, TypeInv, TypeOK
      <3>2. task'[i].pc \in {"done", "evaluate"}
        BY <2>1, PushTyped
      <3>3. InHand' = InHand
        BY <3>1, <3>2, InHandChanges DEF Deciding
      <3>4. Seen' = Seen
        <4>1. task \in [Intents -> Tasks]
          BY DEF TypeInv, TypeOK, Tasks
        <4>2. QED  BY <3>1, <3>2, <4>1 DEF Seen
      <3>5. QED  BY <1>2, <3>1, <3>3, <3>4, VenueStutters
    <2>2. CASE ~OnIntentSealed(i)
      BY <1>3, <2>2, VenueCall
    <2>3. QED  BY <2>1, <2>2
  <1>4. ASSUME NEW i \in Intents, ReleaseBalance(i)
        PROVE  UNCHANGED Venue!evars
    <2>1. UNCHANGED <<sealed, task, trades>>
      BY <1>4 DEF ReleaseBalance
    <2>2. QED  BY <1>1, <1>4, <2>1, VenueReleases
  <1>5. ASSUME NEW i \in Intents, CancelIntent(i) \/ TtlPasses(i) \/ DeleteRef(i)
        PROVE  UNCHANGED Venue!evars
    BY <1>1, <1>2, <1>5 DEF CancelIntent, TtlPasses, DeleteRef
  <1>6. CASE EvictExpired \/ (\E g \in Agents : RevokeAgent(g))
    BY <1>1, <1>2, <1>6 DEF EvictExpired, RevokeAgent
  <1>7. CASE UNCHANGED vars
    BY <1>1, <1>2, <1>7 DEF vars, ledgerVars
  <1>8. QED
    BY <1>3, <1>4, <1>5, <1>6, <1>7, VenueOpens DEF Next

\* Whatever calls overlap, fail or lose their answer, the orchestrator does what
\* the venue does, where the contract's deletions succeed: an order is matched
\* once, settled at most once inside both limits, and moves no other balance.
THEOREM VenueImplemented ==
  ASSUME ~DeletesFail
  PROVE  Spec => ImplementsVenue
  <1>1. TypeInv /\ OnceInv /\ [Next]_vars => OnceInv'
    BY OnceNext
  <1>2. Spec => []OnceInv
    BY TypeAlways, OnceInit, <1>1, PTL DEF Spec
  <1>3. TypeInv /\ OnceInv /\ [Next]_vars => [Venue!Next]_(Venue!evars)
    BY VenueNext
  <1>4. QED
    BY TypeAlways, VenueInit, <1>2, <1>3, PTL
       DEF Spec, ImplementsVenue, Venue!Spec

-----------------------------------------------------------------------------
(* What the venue promises, of the orchestrator itself.                    *)

\* An order that traded has left the enclave's store, and no call that can still
\* settle holds it.
TradedInv ==
  /\ Venue!OneTradePerOrder
  /\ \A p \in trades : \A x \in {p[1], p[2]} :
       /\ x \notin sealed /\ task[x].pc # "idle"
       /\ \A i \in Intents :
            task[i].pc \in Deciding => x \notin {i, task[i].other}

LEMMA TradedInit == Init => TradedInv
  BY DEF Init, TradedInv, Venue!OneTradePerOrder

\* Whatever leaves the trades alone, opens no traded order and gives none to a
\* call that can settle.
LEMMA TradedKept ==
  ASSUME TypeOK, TradedInv, NEW i \in Intents, trades' = trades,
         task' = [task EXCEPT ![i] = task'[i]],
         task[i].pc # "idle" => task'[i].pc # "idle",
         sealed' \subseteq sealed \cup {i},
         i \in sealed' => i \in sealed \/ task[i].pc = "idle",
         task'[i].pc \in Deciding =>
           /\ task'[i].other = task[i].other
           /\ \/ task[i].pc \in Deciding
              \/ {i, task[i].other} \subseteq sealed
  PROVE  TradedInv'
  <1>0. task \in [Intents -> Tasks] /\ trades \subseteq Pairs
    BY DEF TypeOK, Tasks
  <1>1. ASSUME NEW p \in trades, NEW x \in {p[1], p[2]}
        PROVE  /\ x \notin sealed' /\ task'[x].pc # "idle"
               /\ \A j \in Intents :
                    task'[j].pc \in Deciding => x \notin {j, task'[j].other}
    <2>1. /\ x \notin sealed /\ task[x].pc # "idle"
          /\ \A j \in Intents :
               task[j].pc \in Deciding => x \notin {j, task[j].other}
      BY <1>1 DEF TradedInv
    <2>2. x \in Intents
      BY <1>0, <1>1 DEF Pairs
    <2>3. \A j \in Intents \ {i} : task'[j] = task[j]
      BY <1>0
    <2>4. x \notin sealed' /\ task'[x].pc # "idle"
      BY <2>1, <2>2, <2>3
    <2>5. task'[i].pc \in Deciding => x \notin {i, task'[i].other}
      BY <2>1
    <2>6. QED  BY <2>1, <2>3, <2>4, <2>5
  <1>2. Venue!OneTradePerOrder'
    BY DEF TradedInv, Venue!OneTradePerOrder, Venue!Sides
  <1>3. QED  BY <1>1, <1>2 DEF TradedInv

\* A settlement spends two orders that had not traded.
LEMMA TradedSettles ==
  ASSUME TypeInv, OnceInv, TradedInv, NEW i \in Intents, task[i].pc = "persist",
         SettleTrade(i), UNCHANGED sealed, task' = [task EXCEPT ![i] = task'[i]],
         task'[i].pc \notin Deciding \cup {"idle"}
  PROVE  TradedInv'
  <1> USE DEF TypeInv
  <1>0. task \in [Intents -> Tasks] /\ trades \subseteq Pairs
    BY DEF TypeOK, Tasks
  <1>1. PICK b, s : b = B(i) /\ s = S(i)
    OBVIOUS
  <1>2. <<b, s>> \in Pairs /\ {b, s} = {i, task[i].other}
    BY <1>1, HeldPair DEF Held
  <1>3. trades' = trades \cup {<<b, s>>}
    BY <1>1 DEF SettleTrade
  <1>4. task[i].pc \in Deciding /\ task[i].pc \in Held
    BY DEF Deciding, Held
  <1>5. \A p \in trades : {p[1], p[2]} \cap {b, s} = {}
    BY <1>2, <1>4 DEF TradedInv
  <1>6. \A j \in Intents \ {i} : task'[j] = task[j]
    BY <1>0
  <1>7. ASSUME NEW x \in {b, s}
        PROVE  /\ x \notin sealed' /\ task'[x].pc # "idle"
               /\ \A j \in Intents :
                    task'[j].pc \in Deciding => x \notin {j, task'[j].other}
    <2>1. x \notin sealed' /\ x \in Intents
      BY <1>0, <1>2, <1>4, <1>7 DEF OnceInv, Tasks
    <2>2. task[x].pc # "idle" \/ x = i
      BY <1>2, <1>4, <1>7 DEF CallInv, Waiting
    <2>3. task'[x].pc # "idle"
      BY <1>6, <2>1, <2>2
    <2>4. ASSUME NEW j \in Intents, task'[j].pc \in Deciding
          PROVE  x \notin {j, task'[j].other}
      <3>1. j # i /\ task'[j] = task[j] /\ task[j].pc \in Held
        BY <1>6, <2>4 DEF Deciding, Held
      <3>2. {i, task[i].other} \cap {j, task[j].other} = {}
        BY <1>4, <3>1 DEF OnceInv
      <3>3. QED  BY <1>2, <1>7, <3>1, <3>2
    <2>5. QED  BY <2>1, <2>3, <2>4
  <1>8. ASSUME NEW p \in trades, NEW x \in {p[1], p[2]}
        PROVE  /\ x \notin sealed' /\ task'[x].pc # "idle"
               /\ \A j \in Intents :
                    task'[j].pc \in Deciding => x \notin {j, task'[j].other}
    <2>1. /\ x \notin sealed /\ task[x].pc # "idle"
          /\ \A j \in Intents :
               task[j].pc \in Deciding => x \notin {j, task[j].other}
      BY <1>8 DEF TradedInv
    <2>2. x \in Intents
      BY <1>0, <1>8 DEF Pairs
    <2>3. QED  BY <1>6, <2>1, <2>2
  <1>9. ASSUME NEW p \in trades', NEW q \in trades',
               {p[1], p[2]} \cap {q[1], q[2]} # {}
        PROVE  p = q
    <2>1. CASE p \in trades /\ q \in trades
      BY <1>9, <2>1 DEF TradedInv, Venue!OneTradePerOrder, Venue!Sides
    <2>2. CASE p = <<b, s>> \/ q = <<b, s>>
      BY <1>3, <1>5, <1>9, <2>2
    <2>3. QED  BY <1>3, <2>1, <2>2
  <1>10. Venue!OneTradePerOrder'
    BY <1>9 DEF Venue!OneTradePerOrder, Venue!Sides
  <1>11. \A p \in trades' : \A x \in {p[1], p[2]} :
           /\ x \notin sealed' /\ task'[x].pc # "idle"
           /\ \A j \in Intents :
                task'[j].pc \in Deciding => x \notin {j, task'[j].other}
    BY <1>3, <1>7, <1>8
  <1>12. QED  BY <1>10, <1>11 DEF TradedInv

LEMMA TradedNext ==
  ASSUME TypeInv, OnceInv, TradedInv, ~DeletesFail, [Next]_vars
  PROVE  TradedInv'
  <1> USE DEF TypeInv
  <1>0. task \in [Intents -> Tasks]
    BY DEF TypeOK, Tasks
  <1>1. ASSUME UNCHANGED <<sealed, task, trades>>
        PROVE  TradedInv'
    BY <1>1 DEF TradedInv, Venue!OneTradePerOrder, Venue!Sides
  <1>2. ASSUME NEW i \in Intents, SubmitIntent(i)
        PROVE  TradedInv'
    <2>1. /\ task[i].pc = "idle" /\ sealed' = sealed \cup {i} /\ trades' = trades
          /\ Goto(i, "push") \/ Goto(i, "refused")
      BY <1>2 DEF SubmitIntent
    <2>2. /\ task' = [task EXCEPT ![i] = task'[i]]
          /\ task'[i].pc \in {"push", "refused"}
      <3>1. "push" \in TaskStates /\ "refused" \in TaskStates
        BY DEF TaskStates
      <3>2. QED  BY <2>1, <3>1, GotoMoves
    <2>3. QED  BY <2>1, <2>2, TradedKept DEF Deciding
  <1>3. ASSUME NEW i \in Intents, OnIntentSealed(i)
        PROVE  TradedInv'
    <2>1. /\ sealed' = sealed /\ trades' = trades
          /\ task' = [task EXCEPT ![i] = task'[i]]
          /\ task'[i].pc \in {"done", "evaluate"}
      BY <1>0, <1>3, PushTyped DEF OnIntentSealed
    <2>2. QED  BY <2>1, TradedKept DEF Deciding
  <1>4. ASSUME NEW i \in Intents, CallStep(i), ~OnIntentSealed(i)
        PROVE  TradedInv'
    <2>1. /\ task' = [task EXCEPT ![i] = task'[i]] /\ sealed' \subseteq sealed
          /\ task'[i].pc # "idle"
      BY <1>4, CallMoves DEF CallMove, Waiting
    <2>2. task'[i].pc \in Deciding => task'[i].other = task[i].other
      BY <1>4, HeldByMatch DEF Held, Deciding
    <2>3. CASE trades' = trades
      <3>1. ASSUME task'[i].pc \in Deciding, task[i].pc \notin Deciding
            PROVE  {i, task[i].other} \subseteq sealed
        <4>1. \/ task[i].pc \in Held
              \/ task[i].pc = "evaluate" /\ Matched(i)
          BY <1>4, <3>1, HeldByMatch DEF Held, Deciding
        <4>2. task[i].pc # "fill"
          <5>1. CASE task[i].pc = "fill"
            <6>1. ApplyFill(i)
              BY <1>4, <5>1 DEF CallStep, NoMatch, Match, EvaluateFails, CheckBuyer,
                 CheckSeller, CheckFails, BuildCommand, PersistSettlement,
                 PersistFails
            <6>2. task'[i].pc = "done"
              BY <6>1, FinishMoves DEF ApplyFill
            <6>3. QED  BY <3>1, <6>2 DEF Deciding
          <5>2. QED  BY <5>1
        <4>3. task[i].pc = "evaluate" /\ Matched(i)
          BY <3>1, <4>1, <4>2 DEF Held, Deciding
        <4>4. {B(i), S(i)} = {i, task[i].other}
          BY <4>3, HeldPair
        <4>5. QED  BY <4>3, <4>4 DEF Matched
      <3>2. QED  BY <2>1, <2>2, <2>3, <3>1, TradedKept
    <2>4. CASE trades' # trades
      <3>1. /\ task[i].pc = "persist" /\ SettleTrade(i) /\ UNCHANGED sealed
            /\ task'[i].pc \notin Deciding
        BY <1>4, <2>4, CallKinds
      <3>2. QED  BY <2>1, <3>1, TradedSettles
    <2>5. QED  BY <2>3, <2>4
  <1>5. ASSUME NEW i \in Intents,
               CancelIntent(i) \/ TtlPasses(i) \/ ReleaseBalance(i) \/ DeleteRef(i)
        PROVE  TradedInv'
    BY <1>1, <1>5 DEF CancelIntent, TtlPasses, ReleaseBalance, DeleteRef
  <1>6. CASE EvictExpired \/ (\E g \in Agents : RevokeAgent(g))
    BY <1>1, <1>6 DEF EvictExpired, RevokeAgent
  <1>7. CASE UNCHANGED vars
    BY <1>1, <1>7 DEF vars
  <1>8. QED  BY <1>2, <1>3, <1>4, <1>5, <1>6, <1>7 DEF Next

\* No intent is settled twice, however many calls hold it as a counterpart,
\* where the contract's deletions succeed (onIntentSealed, evaluate_match).
THEOREM IntentsTradeOnce ==
  ASSUME ~DeletesFail
  PROVE  Spec => []Venue!OneTradePerOrder
  <1>1. TypeInv /\ OnceInv /\ [Next]_vars => OnceInv'
    BY OnceNext
  <1>2. Spec => []OnceInv
    BY TypeAlways, OnceInit, <1>1, PTL DEF Spec
  <1>3. TypeInv /\ OnceInv /\ TradedInv /\ [Next]_vars => TradedInv'
    BY TradedNext
  <1>4. TradedInv => Venue!OneTradePerOrder
    BY DEF TradedInv
  <1>5. QED  BY TypeAlways, <1>2, TradedInit, <1>3, <1>4, PTL DEF Spec

\* The midpoint of an ask and a bid lies between them, the odd unit included.
LEMMA MidpointBetween ==
  ASSUME NEW a \in Nat, NEW b \in Nat, a <= b
  PROVE  /\ Midpoint(b, a) \in Nat
         /\ a <= Midpoint(b, a)
         /\ Midpoint(b, a) <= b
  BY DEF Midpoint

LEMMA ProductMonotone ==
  ASSUME NEW q \in Nat, NEW r \in Nat, NEW p \in Nat, NEW l \in Nat,
         q <= r, p <= l
  PROVE  q * p <= r * l
  <1>1. PICK d \in Nat : r = q + d
    <2>1. r - q \in Nat /\ r = q + (r - q)
      OBVIOUS
    <2>2. QED  BY <2>1
  <1>2. PICK e \in Nat : l = p + e
    <2>1. l - p \in Nat /\ l = p + (l - p)
      OBVIOUS
    <2>2. QED  BY <2>1
  <1>3. r * l = q * p + q * e + d * p + d * e
    BY <1>1, <1>2
  <1>4. q * e \in Nat /\ d * p \in Nat /\ d * e \in Nat /\ q * p \in Nat
    OBVIOUS
  <1>5. QED  BY <1>3, <1>4

\* What the contract decides on a crossing pair stays inside what each side
\* sealed, and within a wire unit of what it reserved.
LEMMA CrossedWithin ==
  ASSUME NEW p \in Pairs, PairCrosses(p[1], p[2])
  PROVE  /\ Limit[p[2]] <= Venue!Price(p[1], p[2])
         /\ Venue!Price(p[1], p[2]) <= Limit[p[1]]
         /\ Venue!Cost(p[1], p[2]) < Venue!Reservation(p[1]) + WireScale
         /\ Venue!Fill(p[1], p[2]) <= Venue!Reservation(p[2])
  <1>1. PICK b \in Intents, s \in Intents :
          /\ b = p[1] /\ s = p[2] /\ SideOf[b] = "buy" /\ SideOf[s] # "buy"
          /\ PairCrosses(b, s)
    BY DEF Pairs, Counterparts
  <1>2. /\ Limit[b] \in Nat /\ Limit[s] \in Nat
        /\ Quantity[b] \in Nat /\ Quantity[s] \in Nat
    BY OrdersAssumption
  <1>3. Limit[s] <= Limit[b]
    BY <1>1, <1>2 DEF PairCrosses, Crosses
  <1>4. PICK price \in Nat :
          price = Price(b, s) /\ Limit[s] <= price /\ price <= Limit[b]
    BY <1>2, <1>3, MidpointBetween DEF Price
  <1>5. PICK fill \in Nat :
          fill = Fill(b, s) /\ fill <= Quantity[b] /\ fill <= Quantity[s]
    BY <1>2 DEF Fill, MatchedQuantity
  <1>6. fill * price <= Quantity[b] * Limit[b]
    BY <1>2, <1>4, <1>5, ProductMonotone
  <1>7. /\ Venue!Price(b, s) = price /\ Venue!Fill(b, s) = fill
        /\ Venue!Cost(b, s) = fill * price
    <2>1. Venue!Price(b, s) = price
      BY <1>4 DEF Venue!Price, Price, Venue!Midpoint, Midpoint
    <2>2. Venue!Fill(b, s) = fill
      BY <1>5, SameOrders
    <2>3. QED  BY <2>1, <2>2 DEF Venue!Cost
  <1>8. PICK bid \in Nat : bid = Quantity[b] * Limit[b]
    BY <1>2
  <1>9. PICK reserved \in Nat :
          reserved = Venue!Reservation(b) /\ bid < reserved + WireScale
    BY <1>1, <1>8, TruncatedBounds
       DEF Venue!Reservation, Venue!Truncated, Truncated
  <1>10. Venue!Reservation(s) = Quantity[s]
    BY <1>1 DEF Venue!Reservation
  <1>11. fill * price \in Nat /\ WireScale \in Nat
    BY OrdersAssumption
  <1>12. fill * price < reserved + WireScale
    BY <1>6, <1>8, <1>9, <1>11
  <1>13. QED  BY <1>1, <1>4, <1>5, <1>7, <1>9, <1>10, <1>12

\* Whatever a call holds past the enclave has crossed there, and so has every
\* trade; a deletion that fails does not change that.
CrossedInv ==
  /\ \A i \in Intents : task[i].pc \in Held => PairCrosses(B(i), S(i))
  /\ \A p \in trades : PairCrosses(p[1], p[2])

LEMMA CrossedInit == Init => CrossedInv
  BY DEF Init, CrossedInv, Held, NewTask

\* A step of a call that goes on only with a pair that crossed.
LEMMA CrossedKept ==
  ASSUME TypeOK, CrossedInv, NEW i \in Intents,
         task' = [task EXCEPT ![i] = task'[i]],
         task'[i].pc \in Held =>
           task'[i].other = task[i].other /\ PairCrosses(B(i), S(i)),
         \/ trades' = trades
         \/ trades' = trades \cup {<<B(i), S(i)>>} /\ PairCrosses(B(i), S(i))
  PROVE  CrossedInv'
  <1>0. task \in [Intents -> Tasks]
    BY DEF TypeOK, Tasks
  <1>1. ASSUME NEW j \in Intents, task'[j].pc \in Held
        PROVE  PairCrosses(B(j)', S(j)')
    <2>1. CASE j = i
      BY <1>1, <2>1 DEF B, S
    <2>2. CASE j # i
      <3>1. task'[j] = task[j]
        BY <1>0, <2>2
      <3>2. B(j)' = B(j) /\ S(j)' = S(j)
        BY <3>1 DEF B, S
      <3>3. QED  BY <1>1, <3>1, <3>2 DEF CrossedInv
    <2>3. QED  BY <2>1, <2>2
  <1>2. \A p \in trades' : PairCrosses(p[1], p[2])
    BY DEF CrossedInv
  <1>3. QED  BY <1>1, <1>2 DEF CrossedInv

LEMMA CrossedNext ==
  ASSUME TypeInv, CrossedInv, [Next]_vars
  PROVE  CrossedInv'
  <1> USE DEF TypeInv
  <1>0. task \in [Intents -> Tasks]
    BY DEF TypeOK, Tasks
  <1>1. ASSUME UNCHANGED <<task, trades>>
        PROVE  CrossedInv'
    BY <1>1 DEF CrossedInv, B, S
  <1>2. ASSUME NEW i \in Intents, SubmitIntent(i) \/ OnIntentSealed(i)
        PROVE  CrossedInv'
    <2>1. CASE SubmitIntent(i)
      <3>1. /\ trades' = trades
            /\ Goto(i, "push") \/ Goto(i, "refused")
        BY <2>1 DEF SubmitIntent
      <3>2. /\ task' = [task EXCEPT ![i] = task'[i]]
            /\ task'[i].pc \in {"push", "refused"}
        <4>1. "push" \in TaskStates /\ "refused" \in TaskStates
          BY DEF TaskStates
        <4>2. QED  BY <3>1, <4>1, GotoMoves
      <3>3. QED  BY <3>1, <3>2, CrossedKept DEF Held
    <2>2. CASE OnIntentSealed(i)
      <3>1. /\ trades' = trades
            /\ task' = [task EXCEPT ![i] = task'[i]]
            /\ task'[i].pc \in {"done", "evaluate"}
        BY <1>0, <2>2, PushTyped DEF OnIntentSealed
      <3>2. QED  BY <3>1, CrossedKept DEF Held
    <2>3. QED  BY <1>2, <2>1, <2>2
  <1>3. ASSUME NEW i \in Intents, CallStep(i), ~OnIntentSealed(i)
        PROVE  CrossedInv'
    <2>1. /\ task' = [task EXCEPT ![i] = task'[i]]
          /\ \/ trades' = trades
             \/ task[i].pc = "persist" /\ SettleTrade(i)
      BY <1>3, CallMoves DEF CallMove
    <2>2. task[i].pc \in Held => PairCrosses(B(i), S(i))
      BY DEF CrossedInv
    <2>3. task'[i].pc \in Held =>
            task'[i].other = task[i].other /\ PairCrosses(B(i), S(i))
      BY <1>3, <2>2, HeldByMatch DEF Matched
    <2>4. \/ trades' = trades
          \/ trades' = trades \cup {<<B(i), S(i)>>} /\ PairCrosses(B(i), S(i))
      BY <2>1, <2>2 DEF SettleTrade, Held
    <2>5. QED  BY <2>1, <2>3, <2>4, CrossedKept
  <1>4. ASSUME NEW i \in Intents,
               CancelIntent(i) \/ TtlPasses(i) \/ ReleaseBalance(i) \/ DeleteRef(i)
        PROVE  CrossedInv'
    BY <1>1, <1>4 DEF CancelIntent, TtlPasses, ReleaseBalance, DeleteRef
  <1>5. CASE EvictExpired \/ (\E g \in Agents : RevokeAgent(g))
    BY <1>1, <1>5 DEF EvictExpired, RevokeAgent
  <1>6. CASE UNCHANGED vars
    BY <1>1, <1>6 DEF vars
  <1>7. QED  BY <1>2, <1>3, <1>4, <1>5, <1>6 DEF Next

\* Every pair that calls hold past the enclave and every trade is priced between
\* both limits, takes no more of the asset than the seller reserved and charges
\* the buyer less than one wire unit above its truncated reservation, also where
\* the contract fails to delete an entry and an order matches again
\* (cross_verdict, onIntentSealed, persist_completed_settlement).
THEOREM TradesWithinLimits == Spec => []Venue!WithinReservation
  <1>1. TypeInv /\ CrossedInv /\ [Next]_vars => CrossedInv'
    BY CrossedNext
  <1>2. TypeInv /\ CrossedInv => Venue!WithinReservation
    <2> SUFFICES ASSUME TypeInv, CrossedInv, NEW p \in InHand \cup trades
                 PROVE  p \in Pairs /\ PairCrosses(p[1], p[2])
      BY CrossedWithin DEF Venue!WithinReservation
    <2>1. CASE p \in trades
      BY <2>1 DEF TypeInv, TypeOK, CrossedInv
    <2>2. CASE p \in InHand
      <3>1. PICK i \in Intents : p = <<B(i), S(i)>> /\ task[i].pc \in Held
        BY <2>2 DEF InHand, Held
      <3>2. <<B(i), S(i)>> \in Pairs /\ PairCrosses(B(i), S(i))
        BY <3>1, HeldPair DEF TypeInv, CrossedInv
      <3>3. QED  BY <3>1, <3>2
    <2>3. QED  BY <2>1, <2>2
  <1>3. QED  BY TypeAlways, CrossedInit, <1>1, <1>2, PTL DEF Spec

-----------------------------------------------------------------------------
(* completed_trades explains the balances.                                 *)

TradeUnits(ps, f) == UNION {UnitsOf(p, f[p]) : p \in ps}
DebitsOf(a) == [p \in Pairs |-> Venue!Debit(p, a)]
CreditsOf(a) == [p \in Pairs |-> Venue!Credit(p, a)]

\* One trade more adds its own amount.
LEMMA UnitsGrow ==
  ASSUME NEW ps, NEW p, p \notin ps, NEW f, f[p] \in Nat,
         IsFiniteSet(TradeUnits(ps, f))
  PROVE  /\ IsFiniteSet(TradeUnits(ps \cup {p}, f))
         /\ Cardinality(TradeUnits(ps \cup {p}, f))
              = Cardinality(TradeUnits(ps, f)) + f[p]
  <1> DEFINE old == TradeUnits(ps, f)
             new == UnitsOf(p, f[p])
  <1>1. IsFiniteSet(new) /\ Cardinality(new) = f[p]
    BY UnitsOfSize
  <1>2. TradeUnits(ps \cup {p}, f) = old \cup new
    BY DEF TradeUnits
  <1>3. old \cap new = {}
    BY DEF TradeUnits, UnitsOf
  <1>4. Cardinality(old) \in Nat
    BY FS_CardinalityType
  <1> HIDE DEF old, new
  <1>5. IsFiniteSet(old)
    BY DEF old
  <1>6. /\ IsFiniteSet(old \cup new)
        /\ Cardinality(old \cup new)
             = Cardinality(old) + Cardinality(new) - Cardinality(old \cap new)
    BY <1>1, <1>5, FS_Union, Zenon
  <1>7. Cardinality(old \cap new) = 0
    BY <1>3, FS_EmptySet
  <1>8. Cardinality(old \cup new) = Cardinality(old) + f[p]
    BY <1>1, <1>4, <1>6, <1>7
  <1>9. QED  BY <1>2, <1>6, <1>8 DEF old

LEMMA UnitsOfTrades ==
  ASSUME NEW ps \in SUBSET Pairs, NEW a
  PROVE  /\ Venue!UnitsPaid(ps, a) = TradeUnits(ps, DebitsOf(a))
         /\ Venue!UnitsReceived(ps, a) = TradeUnits(ps, CreditsOf(a))
  <1>1. \A p \in ps : /\ DebitsOf(a)[p] = Venue!Debit(p, a)
                      /\ CreditsOf(a)[p] = Venue!Credit(p, a)
    BY DEF DebitsOf, CreditsOf
  <1>2. QED
    BY <1>1 DEF Venue!UnitsPaid, Venue!UnitsReceived, TradeUnits, UnitsOf

\* What a trade not yet in the books adds to both of an account's sums.
LEMMA BooksGrow ==
  ASSUME NEW ps \in SUBSET Pairs, NEW p \in Pairs \ ps, NEW a,
         IsFiniteSet(Venue!UnitsPaid(ps, a)),
         IsFiniteSet(Venue!UnitsReceived(ps, a))
  PROVE  /\ Venue!Debit(p, a) \in Nat /\ Venue!Credit(p, a) \in Nat
         /\ IsFiniteSet(Venue!UnitsPaid(ps \cup {p}, a))
         /\ Cardinality(Venue!UnitsPaid(ps \cup {p}, a))
              = Cardinality(Venue!UnitsPaid(ps, a)) + Venue!Debit(p, a)
         /\ IsFiniteSet(Venue!UnitsReceived(ps \cup {p}, a))
         /\ Cardinality(Venue!UnitsReceived(ps \cup {p}, a))
              = Cardinality(Venue!UnitsReceived(ps, a)) + Venue!Credit(p, a)
  <1>1. Venue!Debit(p, a) \in Nat /\ Venue!Credit(p, a) \in Nat
    <2>1. p = <<p[1], p[2]>>
      BY DEF Pairs
    <2>2. Cost(p[1], p[2]) \in Nat /\ Fill(p[1], p[2]) \in Nat
      BY <2>1, PairFacts
    <2>3. Venue!Cost(p[1], p[2]) \in Nat /\ Venue!Fill(p[1], p[2]) \in Nat
      BY <2>2, SameOrders
    <2>4. QED  BY <2>3 DEF Venue!Debit, Venue!Credit
  <1>2. /\ DebitsOf(a)[p] = Venue!Debit(p, a)
        /\ CreditsOf(a)[p] = Venue!Credit(p, a)
    BY DEF DebitsOf, CreditsOf
  <1>3. /\ Venue!UnitsPaid(ps, a) = TradeUnits(ps, DebitsOf(a))
        /\ Venue!UnitsReceived(ps, a) = TradeUnits(ps, CreditsOf(a))
        /\ Venue!UnitsPaid(ps \cup {p}, a) = TradeUnits(ps \cup {p}, DebitsOf(a))
        /\ Venue!UnitsReceived(ps \cup {p}, a)
             = TradeUnits(ps \cup {p}, CreditsOf(a))
    BY UnitsOfTrades
  <1>4. PICK d : d = DebitsOf(a)
    OBVIOUS
  <1>5. PICK c : c = CreditsOf(a)
    OBVIOUS
  <1>6. /\ IsFiniteSet(TradeUnits(ps \cup {p}, d))
        /\ Cardinality(TradeUnits(ps \cup {p}, d))
             = Cardinality(TradeUnits(ps, d)) + d[p]
    BY <1>1, <1>2, <1>3, <1>4, UnitsGrow
  <1>7. /\ IsFiniteSet(TradeUnits(ps \cup {p}, c))
        /\ Cardinality(TradeUnits(ps \cup {p}, c))
             = Cardinality(TradeUnits(ps, c)) + c[p]
    BY <1>1, <1>2, <1>3, <1>5, UnitsGrow
  <1>8. QED  BY <1>1, <1>2, <1>3, <1>4, <1>5, <1>6, <1>7

BooksInv ==
  \A a \in Accounts :
    /\ IsFiniteSet(Venue!UnitsPaid(trades, a))
    /\ IsFiniteSet(Venue!UnitsReceived(trades, a))
    /\ portfolio[a].balance + Cardinality(Venue!UnitsPaid(trades, a))
         = Deposit[a] + Cardinality(Venue!UnitsReceived(trades, a))

LEMMA BooksInit == Init => BooksInv
  <1> SUFFICES ASSUME Init PROVE BooksInv
    OBVIOUS
  <1>1. trades = {} /\ \A a \in Accounts : portfolio[a].balance = Deposit[a]
    BY DEF Init
  <1>2. \A a : Venue!UnitsPaid({}, a) = {} /\ Venue!UnitsReceived({}, a) = {}
    BY DEF Venue!UnitsPaid, Venue!UnitsReceived
  <1>3. IsFiniteSet({}) /\ Cardinality({}) = 0
    BY FS_EmptySet
  <1>4. QED  BY <1>1, <1>2, <1>3 DEF BooksInv

\* A settlement of a pair that had not traded is booked once.
LEMMA BooksSettle ==
  ASSUME TypeInv, BooksInv, NEW b, NEW s, <<b, s>> \in Pairs \ trades,
         trades' = trades \cup {<<b, s>>}, Balances' = Venue!Transfer(b, s)
  PROVE  BooksInv'
  <1>1. PICK p \in Pairs \ trades : p = <<b, s>> /\ p[1] = b /\ p[2] = s
    OBVIOUS
  <1>2. PICK ts \in SUBSET Pairs : ts = trades
    BY DEF TypeInv, TypeOK
  <1>3. PICK cost \in Nat, fill \in Nat : cost = Cost(b, s) /\ fill = Fill(b, s)
    BY PairFacts
  <1>4. /\ {CashOf(b), HoldingOf(b), CashOf(s), HoldingOf(s)} \subseteq Accounts
        /\ CashOf(b) # HoldingOf(b) /\ CashOf(s) # HoldingOf(s)
        /\ CashOf(b) # CashOf(s) /\ HoldingOf(b) # HoldingOf(s)
        /\ CashOf(b) # HoldingOf(s) /\ CashOf(s) # HoldingOf(b)
    BY PairFacts
  <1>5. Balances' = [Balances EXCEPT
          ![CashOf(b)]    = @ - cost,
          ![HoldingOf(b)] = @ + fill,
          ![HoldingOf(s)] = @ - fill,
          ![CashOf(s)]    = @ + cost]
    BY <1>3, SameOrders DEF Venue!Transfer, Balances
  <1>6. ASSUME NEW a \in Accounts
        PROVE  /\ IsFiniteSet(Venue!UnitsPaid(trades', a))
               /\ IsFiniteSet(Venue!UnitsReceived(trades', a))
               /\ portfolio'[a].balance + Cardinality(Venue!UnitsPaid(trades', a))
                    = Deposit[a] + Cardinality(Venue!UnitsReceived(trades', a))
    <2>1. PICK bal \in Nat : bal = portfolio[a].balance
      BY DEF TypeInv, TypeOK, PortfolioRow
    <2>2. portfolio'[a].balance =
            IF a = CashOf(b) THEN bal - cost
            ELSE IF a = HoldingOf(b) THEN bal + fill
            ELSE IF a = HoldingOf(s) THEN bal - fill
            ELSE IF a = CashOf(s) THEN bal + cost
            ELSE bal
      <3>1. Balances'[a] = portfolio'[a].balance /\ Balances[a] = bal
        BY <2>1 DEF Balances
      <3>2. Balances \in [Accounts -> {portfolio[c].balance : c \in Accounts}]
        BY DEF Balances
      <3>3. QED  BY <1>4, <1>5, <3>1, <3>2
    <2>3. /\ Venue!Debit(p, a) = IF a = CashOf(b) THEN cost
                                 ELSE IF a = HoldingOf(s) THEN fill ELSE 0
          /\ Venue!Credit(p, a) = IF a = CashOf(s) THEN cost
                                  ELSE IF a = HoldingOf(b) THEN fill ELSE 0
      BY <1>1, <1>3, SameOrders DEF Venue!Debit, Venue!Credit
    <2>4. portfolio'[a].balance = bal - Venue!Debit(p, a) + Venue!Credit(p, a)
      BY <1>4, <2>2, <2>3
    <2>5. /\ IsFiniteSet(Venue!UnitsPaid(ts, a))
          /\ IsFiniteSet(Venue!UnitsReceived(ts, a))
          /\ bal + Cardinality(Venue!UnitsPaid(ts, a))
               = Deposit[a] + Cardinality(Venue!UnitsReceived(ts, a))
      BY <1>2, <2>1 DEF BooksInv
    <2>6. /\ Venue!Debit(p, a) \in Nat /\ Venue!Credit(p, a) \in Nat
          /\ IsFiniteSet(Venue!UnitsPaid(ts \cup {p}, a))
          /\ Cardinality(Venue!UnitsPaid(ts \cup {p}, a))
               = Cardinality(Venue!UnitsPaid(ts, a)) + Venue!Debit(p, a)
          /\ IsFiniteSet(Venue!UnitsReceived(ts \cup {p}, a))
          /\ Cardinality(Venue!UnitsReceived(ts \cup {p}, a))
               = Cardinality(Venue!UnitsReceived(ts, a)) + Venue!Credit(p, a)
      <3>1. p \in Pairs \ ts
        BY <1>2
      <3>2. QED  BY <2>5, <3>1, BooksGrow
    <2>7. /\ Cardinality(Venue!UnitsPaid(ts, a)) \in Nat
          /\ Cardinality(Venue!UnitsReceived(ts, a)) \in Nat
          /\ Deposit[a] \in Nat
      BY <2>5, FS_CardinalityType, OrchestratorAssumption
    <2>8. trades' = ts \cup {p}
      BY <1>1, <1>2
    <2>9. PICK debit \in Nat, credit \in Nat :
            debit = Venue!Debit(p, a) /\ credit = Venue!Credit(p, a)
      BY <2>6
    <2>10. PICK paid \in Nat, got \in Nat :
             /\ paid = Cardinality(Venue!UnitsPaid(ts, a))
             /\ got = Cardinality(Venue!UnitsReceived(ts, a))
      BY <2>7
    <2>11. /\ Cardinality(Venue!UnitsPaid(trades', a)) = paid + debit
           /\ Cardinality(Venue!UnitsReceived(trades', a)) = got + credit
           /\ IsFiniteSet(Venue!UnitsPaid(trades', a))
           /\ IsFiniteSet(Venue!UnitsReceived(trades', a))
      BY <2>6, <2>8, <2>9, <2>10
    <2>12. (bal - debit + credit) + (paid + debit) = Deposit[a] + (got + credit)
      BY <2>5, <2>7, <2>10
    <2>13. portfolio'[a].balance = bal - debit + credit
      BY <2>4, <2>9
    <2>14. QED  BY <2>11, <2>12, <2>13
  <1>7. QED  BY <1>6 DEF BooksInv

LEMMA BooksNext ==
  ASSUME TypeInv, OnceInv, TradedInv, BooksInv, ~DeletesFail, [Next]_vars
  PROVE  BooksInv'
  <1>1. ASSUME Balances' = Balances, trades' = trades
        PROVE  BooksInv'
    <2>1. \A a \in Accounts : portfolio'[a].balance = portfolio[a].balance
      <3>1. \A a \in Accounts : Balances'[a] = Balances[a]
        BY <1>1
      <3>2. QED  BY <3>1 DEF Balances
    <2>2. QED  BY <1>1, <2>1 DEF BooksInv
  <1>2. CASE UNCHANGED Venue!evars
    BY <1>1, <1>2 DEF Venue!evars, Balances
  <1>3. ASSUME NEW i \in Intents, Venue!Open(i)
        PROVE  BooksInv'
    BY <1>1, <1>3 DEF Venue!Open, Balances
  <1>4. ASSUME NEW p \in Pairs,
               \/ Venue!Match(p[1], p[2]) \/ Venue!MatchInVain(p[1], p[2])
               \/ Venue!Abandon(p[1], p[2])
        PROVE  BooksInv'
    BY <1>1, <1>4 DEF Venue!Match, Venue!MatchInVain, Venue!Abandon, Balances
  <1>5. ASSUME NEW p \in Pairs, Venue!Settle(p[1], p[2])
        PROVE  BooksInv'
    <2>1. p = <<p[1], p[2]>>
      BY DEF Pairs
    <2>2. /\ <<p[1], p[2]>> \in InHand
          /\ trades' = trades \cup {<<p[1], p[2]>>}
          /\ Balances' = Venue!Transfer(p[1], p[2])
      BY <1>5 DEF Venue!Settle, Balances
    <2>3. p \notin trades
      <3>1. PICK i \in Intents : p = <<B(i), S(i)>> /\ task[i].pc \in Deciding
        BY <2>1, <2>2 DEF InHand, Deciding
      <3>2. {B(i), S(i)} = {i, task[i].other}
        BY <3>1, HeldPair DEF TypeInv, Deciding, Held
      <3>3. p[1] \in {i, task[i].other}
        BY <3>1, <3>2
      <3>4. QED  BY <3>1, <3>3 DEF TradedInv
    <2>4. <<p[1], p[2]>> \in Pairs \ trades
      BY <2>1, <2>3
    <2>5. QED  BY <2>2, <2>4, BooksSettle
  <1>6. Venue!Pairs = Pairs
    BY SameOrders
  <1>7. [Venue!Next]_(Venue!evars)
    BY VenueNext
  <1>8. QED
    BY <1>2, <1>3, <1>4, <1>5, <1>6, <1>7, Zenon DEF Venue!Next

\* Every balance is the deposit less what the recorded trades took from the
\* account, plus what they brought it, where the contract's deletions succeed:
\* no lost answer, retry or overlap moves a trade's assets twice
\* (persist_completed_settlement).
THEOREM BalancesExplained ==
  ASSUME ~DeletesFail
  PROVE  Spec => []Venue!BooksBalance
  <1>1. TypeInv /\ OnceInv /\ [Next]_vars => OnceInv'
    BY OnceNext
  <1>2. Spec => []OnceInv
    BY TypeAlways, OnceInit, <1>1, PTL DEF Spec
  <1>3. TypeInv /\ OnceInv /\ TradedInv /\ [Next]_vars => TradedInv'
    BY TradedNext
  <1>4. Spec => []TradedInv
    BY TypeAlways, <1>2, TradedInit, <1>3, PTL DEF Spec
  <1>5. TypeInv /\ OnceInv /\ TradedInv /\ BooksInv /\ [Next]_vars => BooksInv'
    BY BooksNext
  <1>6. BooksInv => Venue!BooksBalance
    <2> SUFFICES ASSUME BooksInv PROVE Venue!BooksBalance
      OBVIOUS
    <2>1. \A T : Venue!Cardinality(T) = Cardinality(T)
      BY DEF Venue!Cardinality, Cardinality
    <2>2. \A a \in Accounts :
            [c \in Accounts |-> portfolio[c].balance][a]
              + Cardinality(Venue!UnitsPaid(trades, a))
              = Deposit[a] + Cardinality(Venue!UnitsReceived(trades, a))
      BY DEF BooksInv
    <2>3. Venue!Accounts = Accounts
      BY SameOrders
    <2>4. QED  BY <2>1, <2>2, <2>3 DEF Venue!BooksBalance
  <1>7. QED
    BY TypeAlways, <1>2, <1>4, BooksInit, <1>5, <1>6, PTL DEF Spec

-----------------------------------------------------------------------------
(* No pair is left untried.                                                *)

\* Nobody has left the array and no call has failed.
Calm ==
  /\ faults = 0
  /\ \A i \in Intents : task[i].pc \in Waiting \/ i \in Queued

\* The enclave cannot match i with j any more, or never could.
Tried(i, j) ==
  Counterparts(i, j) /\ {i, j} \subseteq sealed
    => ~PairCrosses(BuyerOf(i, j), SellerOf(i, j))

\* The call of the l-th intent has tried what is before its index, and once it
\* has ended what is before the intent itself.
TriedAt(l) ==
  LET i == queue[l] IN
  /\ task[i].pc = "evaluate" =>
       /\ task[i].at \in DOMAIN queue
       /\ task[i].other = queue[task[i].at]
       /\ \A k \in DOMAIN queue : k < task[i].at => Tried(i, queue[k])
  /\ task[i].pc = "done" =>
       \A k \in DOMAIN queue : k < l => Tried(i, queue[k])

TriedInv == Calm => \A l \in DOMAIN queue : TriedAt(l)

\* Of two queued counterparts the later one's call has tried the pair.
LEMMA TriedInvStated ==
  ASSUME TypeInv, TriedInv
  PROVE  EveryPairTried
  <1> USE DEF TypeInv
  <1>1. SUFFICES ASSUME Calm, NEW b \in Queued, NEW s \in Queued,
                        Counterparts(b, s), SideOf[b] = "buy",
                        task[b].pc = "done", task[s].pc = "done",
                        {b, s} \subseteq sealed
                 PROVE  ~PairCrosses(b, s)
    BY Zenon DEF EveryPairTried, Calm, Waiting
  <1>2. /\ queue \in Seq(Intents) /\ b \in Intents /\ s \in Intents
        /\ DOMAIN queue \subseteq Nat
    <2>1. queue \in Seq(Intents)
      BY DEF TypeOK
    <2>2. Len(queue) \in Nat /\ DOMAIN queue = 1 .. Len(queue)
      BY <2>1, LenProperties
    <2>3. \A k \in DOMAIN queue : queue[k] \in Intents
      BY <2>1, <2>2, ElementOfSeq
    <2>4. QED  BY <2>1, <2>2, <2>3 DEF Queued
  <1>3. SideOf[s] = "sell" /\ Counterparts(s, b)
    BY <1>1, <1>2, OrdersAssumption DEF Counterparts
  <1>4. PICK m \in DOMAIN queue, n \in DOMAIN queue : queue[m] = b /\ queue[n] = s
    BY DEF Queued
  <1>5. m # n /\ m \in Nat /\ n \in Nat
    BY <1>1, <1>2, <1>3, <1>4
  <1>6. TriedAt(m) /\ TriedAt(n)
    BY <1>1, <1>4 DEF TriedInv
  <1>7. CASE m < n
    <2>1. Tried(s, b)
      BY <1>1, <1>4, <1>6, <1>7 DEF TriedAt
    <2>2. BuyerOf(s, b) = b /\ SellerOf(s, b) = s
      BY <1>3 DEF BuyerOf, SellerOf
    <2>3. QED  BY <1>1, <1>3, <2>1, <2>2 DEF Tried
  <1>8. CASE n < m
    <2>1. Tried(b, s)
      BY <1>1, <1>4, <1>6, <1>8 DEF TriedAt
    <2>2. BuyerOf(b, s) = b /\ SellerOf(b, s) = s
      BY <1>1, <1>3 DEF BuyerOf, SellerOf
    <2>3. QED  BY <1>1, <2>1, <2>2 DEF Tried
  <1>9. QED  BY <1>5, <1>7, <1>8

\* The enclave's store gains the entries of submits alone.
LEMMA SealedBySubmit ==
  ASSUME TypeInv, ~DeletesFail, Next
  PROVE  \A x \in sealed' : x \in sealed \/ task[x].pc = "idle"
  <1>1. ASSUME NEW i \in Intents, SubmitIntent(i)
        PROVE  \A x \in sealed' : x \in sealed \/ task[x].pc = "idle"
    BY <1>1 DEF SubmitIntent
  <1>2. ASSUME NEW i \in Intents, CallStep(i)
        PROVE  sealed' \subseteq sealed
    <2>1. OnIntentSealed(i) => sealed' = sealed
      BY DEF OnIntentSealed
    <2>2. QED  BY <1>2, <2>1, CallMoves DEF CallMove, TypeInv
  <1>3. ASSUME NEW i \in Intents,
               CancelIntent(i) \/ TtlPasses(i) \/ ReleaseBalance(i) \/ DeleteRef(i)
        PROVE  sealed' = sealed
    BY <1>3 DEF CancelIntent, TtlPasses, ReleaseBalance, DeleteRef
  <1>4. CASE EvictExpired \/ (\E g \in Agents : RevokeAgent(g))
    BY <1>4 DEF EvictExpired, RevokeAgent
  <1>5. QED  BY <1>1, <1>2, <1>3, <1>4 DEF Next

\* So a pair in the array that was tried stays tried.
LEMMA TriedStays ==
  ASSUME TypeInv, ~DeletesFail, Next, NEW i, NEW j,
         task[i].pc \notin Waiting, task[j].pc \notin Waiting, Tried(i, j)
  PROVE  Tried(i, j)'
  <1>1. {i, j} \cap sealed' \subseteq sealed
    BY SealedBySubmit DEF Waiting
  <1>2. QED  BY <1>1 DEF Tried

\* What a call's step that failed nothing does for its own intent.
LEMMA CallTries ==
  ASSUME TypeInv, OnceInv, ~DeletesFail, NEW i \in Intents, CallStep(i),
         ~OnIntentSealed(i), faults' = 0
  PROVE  NoMatch(i) \/ (i \notin sealed' /\ task'[i].pc # "evaluate")
  <1> USE DEF TypeInv
  <1>1. task \in [Intents -> Tasks] /\ faults \in Nat
    BY OrchestratorAssumption DEF TypeOK, Tasks
  <1>2. ~Fault
    BY <1>1 DEF Fault
  <1>3. task[i].pc \in Held => i \notin sealed
    BY DEF OnceInv
  <1>4. \A pc \in TaskStates : Goto(i, pc) => task'[i].pc = pc
    BY GotoMoves
  <1>5. Finish(i) => task'[i].pc = "done"
    BY FinishMoves
  <1>6. CASE Match(i)
    <2>1. /\ task[i].pc = "evaluate" /\ sealed' = sealed \ {B(i), S(i)}
      BY <1>6 DEF Match
    <2>2. i \notin sealed'
      BY <2>1, HeldPair
    <2>3. task'[i].pc # "evaluate"
      <3>1. CASE ~Finish(i)
        BY <1>1, <1>6, <3>1 DEF Match, ActOn, Tasks
      <3>2. CASE Finish(i)
        BY <1>5, <3>2
      <3>3. QED  BY <3>1, <3>2
    <2>4. QED  BY <2>2, <2>3
  <1>7. CASE EvaluateFails(i) \/ CheckFails(i) \/ PersistFails(i)
    BY <1>2, <1>7 DEF EvaluateFails, CheckFails, PersistFails
  <1>8. CASE CheckBuyer(i) \/ CheckSeller(i)
    <2>1. \/ Goto(i, "checkSeller") \/ Goto(i, "settle") \/ Finish(i)
      BY <1>8 DEF CheckBuyer, CheckSeller, Proceed, RejectOther
    <2>2. task[i].pc \in Held /\ UNCHANGED sealed
      BY <1>8 DEF CheckBuyer, CheckSeller, Held
    <2>3. QED  BY <1>3, <1>4, <1>5, <2>1, <2>2 DEF TaskStates
  <1>9. CASE BuildCommand(i) \/ PersistSettlement(i) \/ ApplyFill(i)
    <2>1. \/ Goto(i, "persist") \/ Goto(i, "fill") \/ Finish(i)
      BY <1>9 DEF BuildCommand, PersistSettlement, ApplyFill, GiveUp
    <2>2. task[i].pc \in Held /\ UNCHANGED sealed
      BY <1>9 DEF BuildCommand, PersistSettlement, ApplyFill, Held
    <2>3. QED  BY <1>3, <1>4, <1>5, <2>1, <2>2 DEF TaskStates
  <1>10. QED  BY <1>6, <1>7, <1>8, <1>9 DEF CallStep

LEMMA FaultsGrow ==
  ASSUME TypeInv, Next
  PROVE  faults' \in {faults, faults + 1}
  <1>1. ASSUME NEW i \in Intents, SubmitIntent(i) \/ CallStep(i)
        PROVE  faults' \in {faults, faults + 1}
    BY <1>1
       DEF SubmitIntent, CallStep, OnIntentSealed, NoMatch, Match, EvaluateFails,
           CheckBuyer, CheckSeller, CheckFails, BuildCommand, PersistSettlement,
           PersistFails, ApplyFill, Fault
  <1>2. ASSUME NEW i \in Intents,
               CancelIntent(i) \/ TtlPasses(i) \/ ReleaseBalance(i) \/ DeleteRef(i)
        PROVE  faults' \in {faults, faults + 1}
    BY <1>2 DEF CancelIntent, TtlPasses, ReleaseBalance, DeleteRef, Fault
  <1>3. CASE EvictExpired \/ (\E g \in Agents : RevokeAgent(g))
    BY <1>3 DEF EvictExpired, RevokeAgent
  <1>4. QED  BY <1>1, <1>2, <1>3 DEF Next

\* A call that has started does not go back.
LEMMA StartedStays ==
  ASSUME TypeInv, Next, NEW j \in Intents, task[j].pc \notin Waiting
  PROVE  task'[j].pc \notin Waiting
  <1>0. task \in [Intents -> Tasks]
    BY DEF TypeInv, TypeOK, Tasks
  <1>1. ASSUME NEW i \in Intents, SubmitIntent(i)
        PROVE  task'[j] = task[j]
    BY <1>0, <1>1 DEF SubmitIntent, Goto, Waiting
  <1>2. ASSUME NEW i \in Intents, CallStep(i)
        PROVE  task'[j].pc \notin Waiting
    <2>1. OnIntentSealed(i) => task'[j] = task[j]
      BY <1>0 DEF OnIntentSealed, Waiting
    <2>2. CASE ~OnIntentSealed(i)
      <3>1. /\ task' = [task EXCEPT ![i] = task'[i]]
            /\ task'[i].pc \notin Waiting
        BY <1>2, <2>2, CallMoves DEF CallMove, TypeInv
      <3>2. QED  BY <1>0, <3>1
    <2>3. QED  BY <2>1, <2>2
  <1>3. ASSUME NEW i \in Intents,
               CancelIntent(i) \/ TtlPasses(i) \/ ReleaseBalance(i) \/ DeleteRef(i)
        PROVE  task' = task
    BY <1>3 DEF CancelIntent, TtlPasses, ReleaseBalance, DeleteRef
  <1>4. CASE EvictExpired \/ (\E g \in Agents : RevokeAgent(g))
    BY <1>4 DEF EvictExpired, RevokeAgent
  <1>5. QED  BY <1>1, <1>2, <1>3, <1>4 DEF Next

\* While it is calm the array is only pushed to.
LEMMA CalmQueue ==
  ASSUME TypeInv, Next, Calm'
  PROVE  /\ Calm
         /\ \/ UNCHANGED queue
            \/ \E i \in Intents : OnIntentSealed(i) /\ queue' = Append(queue, i)
  <1> USE DEF TypeInv
  <1>0. /\ queue \in Seq(Intents) /\ IsInjective(queue) /\ faults \in Nat
        /\ \A k \in DOMAIN queue : queue[k] \in Intents
    <2>1. queue \in Seq(Intents)
      BY DEF TypeOK
    <2>2. \A k \in DOMAIN queue : queue[k] \in Intents
      BY <2>1, ElementOfSeq, LenProperties
    <2>3. QED  BY <2>2, OrchestratorAssumption DEF TypeOK
  <1>1. \A j \in Intents : task[j].pc \notin Waiting => j \in Queued'
    BY StartedStays DEF Calm
  <1>2. \A k \in DOMAIN queue : queue[k] \in Queued' /\ task[queue[k]].pc \notin Waiting
    BY <1>0, <1>1 DEF CallInv
  <1>3. ASSUME NEW gone, queue' = Without(queue, gone)
        PROVE  queue' = queue
    <2>1. \A n \in DOMAIN queue' : queue'[n] \notin gone
      BY <1>0, <1>3, WithoutShrinks
    <2>2. \A k \in DOMAIN queue : queue[k] \notin gone
      BY <1>2, <2>1 DEF Queued
    <2>3. QED  BY <1>0, <1>3, <2>2, WithoutShrinks
  <1>4. ASSUME NEW i \in Intents, OnIntentSealed(i)
        PROVE  queue' = Append(queue, i) /\ task[i].pc = "push"
    <2> DEFINE rest == Without(queue, expired)
    <2>1. /\ Subarray(rest, queue) /\ \A n \in DOMAIN rest : rest[n] \notin expired
          /\ (\A k \in DOMAIN queue : queue[k] \notin expired) => rest = queue
      BY <1>0, WithoutShrinks
    <2>2. /\ queue' = Append(rest, i) /\ task[i].pc = "push"
          /\ \A k \in DOMAIN rest : rest[k] # i
      BY <1>4, PushTyped DEF OnIntentSealed
    <2> HIDE DEF rest
    <2>3. \A x \in Queued' : x = i \/ x \notin expired
      <3>1. rest \in Seq(Intents) /\ IsInjective(rest)
        BY <2>1 DEF Subarray
      <3>2. /\ \A k \in DOMAIN rest : Append(rest, i)[k] = rest[k]
            /\ \A k \in DOMAIN Append(rest, i) :
                 k \in DOMAIN rest \/ Append(rest, i)[k] = i
        BY <2>2, <3>1, AppendProperties, LenProperties
      <3>3. QED  BY <2>1, <2>2, <3>2 DEF Queued
    <2>4. \A k \in DOMAIN queue : queue[k] # i
      BY <1>2, <2>2 DEF Waiting
    <2>5. QED  BY <1>2, <2>1, <2>2, <2>3, <2>4
  <1>5. ASSUME NEW i \in Intents, CallStep(i), ~OnIntentSealed(i)
        PROVE  queue' = queue
    <2>1. CASE NoMatch(i) \/ Match(i) \/ EvaluateFails(i) \/ BuildCommand(i)
               \/ PersistSettlement(i) \/ PersistFails(i)
      BY <2>1 DEF NoMatch, Match, EvaluateFails, BuildCommand, PersistSettlement,
                  PersistFails
    <2>2. CASE CheckBuyer(i) \/ CheckSeller(i) \/ CheckFails(i)
      <3>1. task[i].other \in Intents /\ task[task[i].other].pc \notin Waiting
        BY <2>2 DEF CheckBuyer, CheckSeller, CheckFails, CallInv, TypeOK, Held
      <3>2. ~RejectOther(i)
        <4>1. task[i].other \in Queued'
          BY <1>1, <3>1
        <4>2. RejectOther(i) => \A k \in DOMAIN queue' : queue'[k] # task[i].other
          BY RejectMoves
        <4>3. QED  BY <4>1, <4>2 DEF Queued
      <3>3. QED
        BY <2>2, <3>2 DEF CheckBuyer, CheckSeller, CheckFails, Proceed
    <2>3. CASE ApplyFill(i)
      <3>1. PICK gone : queue' = Without(queue, gone)
        BY <2>3 DEF ApplyFill
      <3>2. QED  BY <1>3, <3>1
    <2>4. QED  BY <1>5, <2>1, <2>2, <2>3 DEF CallStep
  <1>6. \/ UNCHANGED queue
        \/ \E i \in Intents : OnIntentSealed(i) /\ queue' = Append(queue, i)
    <2>1. ASSUME NEW i \in Intents, CancelIntent(i)
          PROVE  queue' = queue
      BY <1>3, <2>1 DEF CancelIntent
    <2>2. CASE EvictExpired \/ (\E g \in Agents : RevokeAgent(g))
      BY <1>3, <2>2 DEF EvictExpired, RevokeAgent
    <2>3. ASSUME NEW i \in Intents,
                 SubmitIntent(i) \/ TtlPasses(i) \/ ReleaseBalance(i) \/ DeleteRef(i)
          PROVE  queue' = queue
      BY <2>3 DEF SubmitIntent, TtlPasses, ReleaseBalance, DeleteRef
    <2>4. QED  BY <1>4, <1>5, <2>1, <2>2, <2>3 DEF Next
  <1>7. ASSUME NEW j \in Intents, task[j].pc \notin Waiting
        PROVE  j \in Queued
    <2>1. j \in Queued'
      BY <1>1, <1>7
    <2>2. CASE UNCHANGED queue
      BY <2>1, <2>2 DEF Queued
    <2>3. ASSUME NEW i \in Intents, OnIntentSealed(i), queue' = Append(queue, i)
          PROVE  j \in Queued
      <3>1. j # i
        BY <1>7, <2>3 DEF OnIntentSealed, Waiting
      <3>2. /\ \A k \in DOMAIN queue : Append(queue, i)[k] = queue[k]
            /\ \A k \in DOMAIN Append(queue, i) :
                 k \in DOMAIN queue \/ Append(queue, i)[k] = i
        BY <1>0, AppendProperties, LenProperties
      <3>3. QED  BY <2>1, <2>3, <3>1, <3>2 DEF Queued
    <2>4. QED  BY <1>6, <2>2, <2>3
  <1>8. faults = 0
    BY <1>0, FaultsGrow DEF Calm
  <1>9. QED  BY <1>6, <1>7, <1>8 DEF Calm

LEMMA QueuedStarted ==
  ASSUME TypeInv, NEW l \in DOMAIN queue
  PROVE  /\ queue[l] \in Intents /\ task[queue[l]].pc \notin Waiting
         /\ Len(queue) \in Nat /\ DOMAIN queue = 1 .. Len(queue)
  <1>1. queue \in Seq(Intents)
    BY DEF TypeInv, TypeOK
  <1>2. Len(queue) \in Nat /\ DOMAIN queue = 1 .. Len(queue)
    BY <1>1, LenProperties
  <1>3. queue[l] \in Intents
    BY <1>1, <1>2, ElementOfSeq
  <1>4. QED  BY <1>2, <1>3 DEF TypeInv, CallInv

\* A push, and any step of another intent's call, keeps what was tried.
LEMMA TriedKept ==
  ASSUME TypeInv, ~DeletesFail, Next, NEW l \in DOMAIN queue, TriedAt(l),
         DOMAIN queue \subseteq DOMAIN queue', DOMAIN queue' \subseteq Nat,
         \A k \in DOMAIN queue : queue'[k] = queue[k],
         \A k \in DOMAIN queue' \ DOMAIN queue : \A n \in DOMAIN queue : n < k,
         task'[queue[l]] = task[queue[l]]
  PROVE  TriedAt(l)'
  <1> DEFINE i == queue[l]
  <1>1. \A k \in DOMAIN queue : Tried(i, queue[k]) => Tried(queue[l], queue[k])'
    <2> SUFFICES ASSUME NEW k \in DOMAIN queue, Tried(queue[l], queue[k])
                 PROVE  Tried(queue[l], queue[k])'
      OBVIOUS
    <2>1. PICK x, y : x = queue[l] /\ y = queue[k]
      OBVIOUS
    <2>2. task[x].pc \notin Waiting /\ task[y].pc \notin Waiting
      BY <2>1, QueuedStarted
    <2>3. Tried(x, y)
      BY <2>1 DEF Tried
    <2>4. Tried(x, y)'
      BY <2>2, <2>3, TriedStays
    <2>5. queue'[l] = x /\ queue'[k] = y
      BY <2>1
    <2>6. QED  BY <2>4, <2>5 DEF Tried
  <1>2. \A k \in DOMAIN queue', n \in DOMAIN queue : k < n => k \in DOMAIN queue
    <2>1. \A k \in DOMAIN queue', n \in DOMAIN queue' : ~(k < n /\ n < k)
      OBVIOUS
    <2>2. QED  BY <2>1
  <1>3. queue'[l] = i /\ task'[i] = task[i]
    OBVIOUS
  <1>4. QED  BY <1>1, <1>2, <1>3 DEF TriedAt

LEMMA TriedNext ==
  ASSUME TypeInv, TypeInv', OnceInv, TriedInv, ~DeletesFail, Next
  PROVE  TriedInv'
  <1> SUFFICES ASSUME Calm', NEW l \in DOMAIN queue'
               PROVE  TriedAt(l)'
    BY DEF TriedInv
  <1>0. task \in [Intents -> Tasks] /\ queue \in Seq(Intents) /\ queue' \in Seq(Intents)
    BY DEF TypeInv, TypeOK, Tasks
  <1>1. /\ \A k \in DOMAIN queue : TriedAt(k)
        /\ \/ UNCHANGED queue
           \/ \E i \in Intents : OnIntentSealed(i) /\ queue' = Append(queue, i)
    BY CalmQueue DEF TriedInv
  <1>2. /\ Len(queue) \in Nat /\ DOMAIN queue = 1 .. Len(queue)
        /\ DOMAIN queue' = 1 .. Len(queue') /\ DOMAIN queue' \subseteq Nat
    BY <1>0, LenProperties
  <1>3. ASSUME UNCHANGED queue, task'[queue[l]] = task[queue[l]]
        PROVE  TriedAt(l)'
    BY <1>1, <1>2, <1>3, TriedKept
  <1>4. ASSUME NEW i \in Intents, OnIntentSealed(i), queue' = Append(queue, i)
        PROVE  TriedAt(l)'
    <2>1. /\ \A k \in DOMAIN queue : queue'[k] = queue[k]
          /\ Len(queue') = Len(queue) + 1 /\ queue'[Len(queue) + 1] = i
      BY <1>0, <1>2, <1>4, AppendProperties
    <2>2. /\ task' = [task EXCEPT ![i] = Scan(i, 1, queue')] /\ task[i].pc = "push"
      BY <1>4 DEF OnIntentSealed
    <2>3. CASE l \in DOMAIN queue
      <3>1. task'[queue[l]] = task[queue[l]]
        BY <1>0, <2>2, <2>3, QueuedStarted DEF Waiting
      <3>2. /\ DOMAIN queue \subseteq DOMAIN queue'
            /\ \A k \in DOMAIN queue' \ DOMAIN queue : \A n \in DOMAIN queue : n < k
        BY <1>2, <2>1
      <3>3. TriedAt(l)
        BY <1>1, <2>3
      <3>4. QED  BY <1>2, <2>1, <2>3, <3>1, <3>2, <3>3, TriedKept
    <2>4. CASE l \notin DOMAIN queue
      <3>1. l = Len(queue) + 1 /\ queue'[l] = i /\ task'[i] = Scan(i, 1, queue')
        BY <1>0, <1>2, <2>1, <2>2, <2>4
      <3>2. \/ /\ task'[i].pc = "done"
               /\ \A j \in 1 .. Len(queue') : ~Counterparts(i, queue'[j])
            \/ /\ task'[i].pc = "evaluate" /\ task'[i].at \in 1 .. Len(queue')
               /\ task'[i].other = queue'[task'[i].at]
               /\ \A j \in 1 .. task'[i].at - 1 : ~Counterparts(i, queue'[j])
        <4>1. PICK q \in Seq(Intents) : q = queue'
          BY <1>0
        <4>2. task'[i] = Scan(i, 1, q)
          BY <3>1, <4>1
        <4>3. PICK n \in Nat \ {0} : n = 1
          OBVIOUS
        <4>4. task'[i] = Scan(i, n, q)
          BY <4>2, <4>3
        <4>5. \/ /\ Scan(i, n, q).pc = "done"
                 /\ \A j \in n .. Len(q) : ~Counterparts(i, q[j])
              \/ /\ Scan(i, n, q).pc = "evaluate" /\ Scan(i, n, q).at \in n .. Len(q)
                 /\ Scan(i, n, q).other = q[Scan(i, n, q).at]
                 /\ \A j \in n .. Scan(i, n, q).at - 1 : ~Counterparts(i, q[j])
          BY ScanFinds, Zenon
        <4>6. QED  BY <4>1, <4>3, <4>4, <4>5
      <3>3. \A j : ~Counterparts(i, j) => Tried(i, j)'
        BY DEF Tried
      <3>4. task'[i].pc = "evaluate" =>
              /\ task'[i].at \in DOMAIN queue'
              /\ task'[i].other = queue'[task'[i].at]
              /\ \A k \in DOMAIN queue' : k < task'[i].at => ~Counterparts(i, queue'[k])
        BY <1>2, <2>1, <3>2
      <3>5. task'[i].pc = "done" => \A k \in DOMAIN queue' : ~Counterparts(i, queue'[k])
        BY <1>2, <3>2
      <3>6. QED  BY <3>1, <3>4, <3>5 DEF TriedAt, Tried
    <2>5. QED  BY <2>3, <2>4
  <1>5. ASSUME UNCHANGED queue, NEW i \in Intents, CallStep(i), ~OnIntentSealed(i)
        PROVE  TriedAt(l)'
    <2>1. /\ task' = [task EXCEPT ![i] = task'[i]] /\ queue'[l] = queue[l]
      BY <1>5, CallMoves DEF CallMove, TypeInv
    <2>2. CASE queue[l] # i
      <3>1. queue[l] \in Intents
        BY <1>5, QueuedStarted
      <3>2. task'[queue[l]] = task[queue[l]]
        BY <1>0, <2>1, <2>2, <3>1
      <3>3. QED  BY <1>3, <1>5, <3>2
    <2>3. CASE queue[l] = i /\ i \notin sealed' /\ task'[i].pc # "evaluate"
      <3>1. \A j : Tried(i, j)'
        BY <2>3 DEF Tried
      <3>2. queue'[l] = i /\ task'[i].pc # "evaluate"
        BY <2>1, <2>3
      <3>3. QED  BY <2>3, <3>2 DEF TriedAt, Tried
    <2>4. CASE queue[l] = i /\ NoMatch(i)
      <3> DEFINE at == task[i].at
      <3>1. /\ task[i].pc = "evaluate" /\ ~Matched(i) /\ UNCHANGED <<sealed, queue>>
            /\ task' = [task EXCEPT ![i] = Scan(i, at + 1, queue)]
        BY <2>4 DEF NoMatch
      <3>2. /\ at \in DOMAIN queue /\ task[i].other = queue[at]
            /\ \A k \in DOMAIN queue : k < at => Tried(i, queue[k])
        BY <1>1, <1>5, <2>4, <3>1 DEF TriedAt
      <3>3. Tried(i, queue[at])
        <4>1. {B(i), S(i)} = {i, task[i].other}
          BY <3>1, HeldPair DEF TypeInv
        <4>2. ~({i, task[i].other} \subseteq sealed /\ PairCrosses(B(i), S(i)))
          BY <3>1, <4>1 DEF Matched
        <4>3. /\ B(i) = BuyerOf(i, task[i].other)
              /\ S(i) = SellerOf(i, task[i].other)
          BY DEF B, S
        <4>4. Tried(i, task[i].other)
          BY <4>2, <4>3 DEF Tried
        <4>5. QED  BY <3>2, <4>4 DEF Tried
      <3> HIDE DEF at
      <3>4. at \in Nat /\ at + 1 \in Nat \ {0} /\ at \in 1 .. Len(queue)
        BY <1>2, <3>2
      <3>5. \A k \in DOMAIN queue : k < at + 1 => Tried(i, queue[k])
        <4>1. \A k \in DOMAIN queue : k < at + 1 => k < at \/ k = at
          BY <1>2, <3>4
        <4>2. QED  BY <3>2, <3>3, <4>1
      <3>6. task'[i] = Scan(i, at + 1, queue)
        BY <1>0, <3>1
      <3>7. \/ /\ task'[i].pc = "done"
               /\ \A j \in at + 1 .. Len(queue) : ~Counterparts(i, queue[j])
            \/ /\ task'[i].pc = "evaluate" /\ task'[i].at \in at + 1 .. Len(queue)
               /\ task'[i].other = queue[task'[i].at]
               /\ \A j \in at + 1 .. task'[i].at - 1 : ~Counterparts(i, queue[j])
        BY <1>0, <3>4, <3>6, ScanFinds
      <3>8. \A j : ~Counterparts(i, j) => Tried(i, j)
        BY DEF Tried
      <3>9. task'[i].pc = "evaluate" =>
              /\ task'[i].at \in DOMAIN queue
              /\ task'[i].other = queue[task'[i].at]
              /\ \A k \in DOMAIN queue : k < task'[i].at => Tried(i, queue[k])
        <4>1. SUFFICES ASSUME task'[i].pc = "evaluate"
                       PROVE  /\ task'[i].at \in DOMAIN queue
                              /\ task'[i].other = queue[task'[i].at]
                              /\ \A k \in DOMAIN queue :
                                   k < task'[i].at => Tried(i, queue[k])
          OBVIOUS
        <4>2. /\ task'[i].at \in at + 1 .. Len(queue)
              /\ task'[i].other = queue[task'[i].at]
              /\ \A j \in at + 1 .. task'[i].at - 1 : ~Counterparts(i, queue[j])
          BY <3>7, <4>1
        <4>3. \A k \in DOMAIN queue : k < task'[i].at =>
                k < at + 1 \/ k \in at + 1 .. task'[i].at - 1
          BY <1>2, <3>4, <4>2
        <4>4. task'[i].at \in DOMAIN queue
          BY <1>2, <3>4, <4>2
        <4>5. QED  BY <3>5, <3>8, <4>2, <4>3, <4>4
      <3>10. task'[i].pc = "done" => \A k \in DOMAIN queue : Tried(i, queue[k])
        <4>1. \A k \in DOMAIN queue : k < at + 1 \/ k \in at + 1 .. Len(queue)
          BY <1>2, <3>4
        <4>2. QED  BY <3>5, <3>7, <3>8, <4>1
      <3>11. QED  BY <2>4, <3>1, <3>9, <3>10 DEF TriedAt, Tried
    <2>5. NoMatch(i) \/ (i \notin sealed' /\ task'[i].pc # "evaluate")
      BY <1>5, CallTries DEF Calm
    <2>6. QED  BY <2>2, <2>3, <2>4, <2>5
  <1>6. ASSUME NEW i \in Intents, OnIntentSealed(i), UNCHANGED queue
        PROVE  FALSE
    <2>1. task'[i].pc \in {"done", "evaluate"}
      BY <1>6, PushTyped
    <2>2. i \in Queued' /\ task[i].pc = "push"
      BY <1>6, <2>1 DEF Calm, Waiting, OnIntentSealed
    <2>3. i \in Queued
      BY <1>6, <2>2 DEF Queued
    <2>4. QED  BY <2>2, <2>3, QueuedStarted DEF Queued, Waiting
  <1>7. ASSUME UNCHANGED queue, NEW i \in Intents,
               SubmitIntent(i) \/ CancelIntent(i) \/ TtlPasses(i)
                 \/ ReleaseBalance(i) \/ DeleteRef(i)
        PROVE  TriedAt(l)'
    <2>1. \/ UNCHANGED task
          \/ task[i].pc = "idle" /\ \A j \in Intents \ {i} : task'[j] = task[j]
      BY <1>0, <1>7
         DEF SubmitIntent, Goto, CancelIntent, TtlPasses, ReleaseBalance, DeleteRef
    <2>2. queue[l] \in Intents /\ task[queue[l]].pc \notin Waiting
      BY <1>7, QueuedStarted
    <2>3. task'[queue[l]] = task[queue[l]]
      BY <2>1, <2>2 DEF Waiting
    <2>4. QED  BY <1>3, <1>7, <2>3
  <1>8. ASSUME UNCHANGED queue, EvictExpired \/ (\E g \in Agents : RevokeAgent(g))
        PROVE  TriedAt(l)'
    <2>1. UNCHANGED task
      BY <1>8 DEF EvictExpired, RevokeAgent
    <2>2. QED  BY <1>3, <1>8, <2>1
  <1>9. CASE UNCHANGED queue
    BY <1>5, <1>6, <1>7, <1>8, <1>9 DEF Next
  <1>10. QED  BY <1>1, <1>4, <1>9

\* Concurrent submits leave no crossing pair untried, where the contract's
\* deletions succeed: each call has gone through all that was pushed before it.
THEOREM PairsTried ==
  ASSUME ~DeletesFail
  PROVE  Spec => []EveryPairTried
  <1>1. TypeInv /\ OnceInv /\ [Next]_vars => OnceInv'
    BY OnceNext
  <1>2. Spec => []OnceInv
    BY TypeAlways, OnceInit, <1>1, PTL DEF Spec
  <1>3. Init => TriedInv
    BY DEF Init, TriedInv
  <1>4. TypeInv /\ TypeInv' /\ OnceInv /\ TriedInv /\ [Next]_vars => TriedInv'
    <2>1. UNCHANGED vars /\ TriedInv => TriedInv'
      BY DEF vars, TriedInv, Calm, Queued, TriedAt, Tried
    <2>2. QED  BY <2>1, TriedNext
  <1>5. Spec => []TriedInv
    BY TypeAlways, <1>2, <1>3, <1>4, PTL DEF Spec
  <1>6. QED  BY TypeAlways, <1>5, TriedInvStated, PTL

-----------------------------------------------------------------------------
(* A revoked agent does not trade.                                         *)

\* Only the command builder takes a call to the settlement RPC, and it has seen
\* both agents' authority.
LEMMA OrderedByBuild ==
  ASSUME TypeInv, NEW i \in Intents, CallStep(i), task'[i].pc = "persist"
  PROVE  /\ task'[i].other = task[i].other
         /\ {AgentOf[B(i)], AgentOf[S(i)]} \cap revoked = {}
  <1> USE DEF TypeInv
  <1>0. task \in [Intents -> Tasks]
    BY DEF TypeOK, Tasks
  <1>1. Finish(i) => task'[i].pc = "done"
    BY FinishMoves
  <1>2. \A pc \in TaskStates : Goto(i, pc) => task'[i].pc = pc
    BY GotoMoves
  <1>3. CASE OnIntentSealed(i)
    BY <1>3, PushTyped
  <1>4. CASE NoMatch(i)
    <2>1. /\ task[i].at + 1 \in Nat \ {0}
          /\ task' = [task EXCEPT ![i] = Scan(i, task[i].at + 1, queue)]
      BY <1>0, <1>4 DEF NoMatch, Tasks
    <2>2. task'[i].pc \in {"done", "evaluate"}
      BY <2>1, ScanMoves
    <2>3. QED  BY <2>2
  <1>5. CASE Match(i) \/ EvaluateFails(i)
    <2>1. CASE Finish(i)
      BY <1>1, <2>1
    <2>2. CASE ~Finish(i)
      <3>1. PICK locked : task' = [task EXCEPT ![i].pc = "checkBuyer",
                                               ![i].locked = locked]
        BY <1>5, <2>2 DEF Match, ActOn, EvaluateFails
      <3>2. task'[i].pc = "checkBuyer"
        BY <1>0, <3>1 DEF Tasks
      <3>3. QED  BY <3>2
    <2>3. QED  BY <2>1, <2>2
  <1>6. CASE CheckBuyer(i) \/ CheckSeller(i) \/ CheckFails(i)
    <2>1. \/ Goto(i, "checkSeller") \/ Goto(i, "settle") \/ Finish(i)
      BY <1>6 DEF CheckBuyer, CheckSeller, CheckFails, Proceed, RejectOther
    <2>2. QED  BY <1>1, <1>2, <2>1 DEF TaskStates
  <1>7. CASE PersistSettlement(i) \/ PersistFails(i) \/ ApplyFill(i)
    <2>1. Goto(i, "fill") \/ Finish(i)
      BY <1>7 DEF PersistSettlement, PersistFails, ApplyFill, GiveUp
    <2>2. QED  BY <1>1, <1>2, <2>1 DEF TaskStates
  <1>8. CASE BuildCommand(i)
    <2>1. \/ /\ {AgentOf[B(i)], AgentOf[S(i)]} \cap revoked = {}
             /\ Goto(i, "persist")
          \/ Finish(i)
      BY <1>8 DEF BuildCommand, GiveUp
    <2>2. /\ {AgentOf[B(i)], AgentOf[S(i)]} \cap revoked = {}
          /\ Goto(i, "persist")
      BY <1>1, <2>1
    <2>3. "persist" \in TaskStates
      BY DEF TaskStates
    <2>4. QED  BY <2>2, <2>3, GotoMoves
  <1>9. QED  BY <1>3, <1>4, <1>5, <1>6, <1>7, <1>8 DEF CallStep

\* One call moves: what was ordered for g stays nothing if the call goes to the
\* RPC for others only.
LEMMA OrderedByOthers ==
  ASSUME TypeOK, NEW g, Ordered(g) = {}, NEW i \in Intents,
         task' = [task EXCEPT ![i] = task'[i]],
         task'[i].pc = "persist" =>
           /\ task'[i].other = task[i].other
           /\ g \notin {AgentOf[B(i)], AgentOf[S(i)]}
  PROVE  Ordered(g)' = {}
  <1>0. task \in [Intents -> Tasks]
    BY DEF TypeOK, Tasks
  <1>1. SUFFICES ASSUME NEW j \in Intents, task'[j].pc = "persist"
                 PROVE  g \notin {AgentOf[B(j)'], AgentOf[S(j)']}
    BY DEF Ordered
  <1>2. CASE j = i
    BY <1>1, <1>2 DEF B, S
  <1>3. CASE j # i
    <2>1. task'[j] = task[j]
      BY <1>0, <1>3
    <2>2. B(j)' = B(j) /\ S(j)' = S(j) /\ task[j].pc = "persist"
      BY <1>1, <2>1 DEF B, S
    <2>3. QED  BY <2>2 DEF Ordered
  <1>4. QED  BY <1>2, <1>3

LEMMA RevokedCall ==
  ASSUME TypeInv, NEW i \in Intents, CallStep(i), NEW g \in revoked,
         Ordered(g) = {}
  PROVE  StaysOut(g)
  <1> USE DEF TypeInv
  <1>1. task' = [task EXCEPT ![i] = task'[i]] /\ revoked' = revoked
    <2>1. CASE OnIntentSealed(i)
      BY <2>1 DEF OnIntentSealed, agentVars, TypeOK
    <2>2. CASE ~OnIntentSealed(i)
      BY <2>2, CallMoves DEF CallMove, agentVars
    <2>3. QED  BY <2>1, <2>2
  <1>2. Ordered(g)' = {}
    BY <1>1, OrderedByBuild, OrderedByOthers
  <1>3. TradesOf(g)' = TradesOf(g)
    <2>1. CASE trades' = trades
      BY <2>1 DEF TradesOf
    <2>2. CASE trades' # trades
      <3>1. task[i].pc = "persist" /\ SettleTrade(i)
        <4>1. ~OnIntentSealed(i)
          BY <2>2 DEF OnIntentSealed
        <4>2. QED  BY <2>2, <4>1, CallMoves DEF CallMove
      <3>2. trades' = trades \cup {<<B(i), S(i)>>}
        BY <3>1 DEF SettleTrade
      <3>3. g \notin {AgentOf[B(i)], AgentOf[S(i)]}
        BY <3>1 DEF Ordered
      <3>4. QED  BY <3>2, <3>3 DEF TradesOf
    <2>3. QED  BY <2>1, <2>2
  <1>4. QED  BY <1>1, <1>2, <1>3 DEF StaysOut

LEMMA RevokedNext ==
  ASSUME TypeInv, [Next]_vars, NEW g \in revoked, Ordered(g) = {}
  PROVE  StaysOut(g)
  <1> USE DEF TypeInv
  <1>1. ASSUME UNCHANGED <<task, trades>>, revoked \subseteq revoked'
        PROVE  StaysOut(g)
    BY <1>1 DEF StaysOut, Ordered, TradesOf, B, S
  <1>2. ASSUME NEW i \in Intents, SubmitIntent(i)
        PROVE  StaysOut(g)
    <2>1. /\ Goto(i, "push") \/ Goto(i, "refused")
          /\ trades' = trades /\ revoked' = revoked
      BY <1>2 DEF SubmitIntent, agentVars
    <2>2. /\ task' = [task EXCEPT ![i] = task'[i]]
          /\ task'[i].pc \in {"push", "refused"}
      <3>1. "push" \in TaskStates /\ "refused" \in TaskStates
        BY DEF TaskStates
      <3>2. QED  BY <2>1, <3>1, GotoMoves
    <2>3. Ordered(g)' = {}
      BY <2>2, OrderedByOthers
    <2>4. QED  BY <2>1, <2>3 DEF StaysOut, TradesOf
  <1>3. ASSUME NEW i \in Intents,
               CancelIntent(i) \/ TtlPasses(i) \/ ReleaseBalance(i) \/ DeleteRef(i)
        PROVE  StaysOut(g)
    BY <1>1, <1>3 DEF CancelIntent, TtlPasses, ReleaseBalance, DeleteRef, agentVars
  <1>4. CASE EvictExpired \/ (\E h \in Agents : RevokeAgent(h))
    BY <1>1, <1>4 DEF EvictExpired, RevokeAgent, agentVars
  <1>5. CASE UNCHANGED vars
    BY <1>1, <1>5 DEF vars, agentVars
  <1>6. QED  BY <1>2, <1>3, <1>4, <1>5, RevokedCall DEF Next

\* The action property of the run: once an agent is revoked and no settlement
\* is on its way for it, none of its intents trades again, whatever was pushed,
\* held or matched meanwhile (SettlementCommandBuilder.build).
THEOREM RevokedOut == Spec => RevokedNeverTrades
  <1>1. TypeInv /\ [Next]_vars =>
          [\A g \in revoked : Ordered(g) = {} => StaysOut(g)]_vars
    BY RevokedNext
  <1>2. QED  BY TypeAlways, <1>1, PTL DEF Spec, RevokedNeverTrades

-----------------------------------------------------------------------------
(* Every step of a call brings its end closer.                             *)

\* What a splice or a filter leaves is no longer than the array.
LEMMA SubarrayShorter ==
  ASSUME NEW q \in Seq(Intents), NEW r, Subarray(r, q)
  PROVE  Len(r) \in Nat /\ Len(q) \in Nat /\ Len(r) <= Len(q)
  <1>1. /\ Len(q) \in Nat /\ DOMAIN q = 1 .. Len(q)
        /\ Len(r) \in Nat /\ DOMAIN r = 1 .. Len(r)
    BY LenProperties DEF Subarray
  <1>2. SUFFICES ASSUME Len(q) < Len(r) PROVE FALSE
    BY <1>1
  <1> DEFINE from == [n \in 1 .. Len(r) |-> CHOOSE k \in 1 .. Len(q) : r[n] = q[k]]
  <1>3. \A n \in 1 .. Len(r) : from[n] \in 1 .. Len(q) /\ r[n] = q[from[n]]
    BY <1>1 DEF Subarray
  <1>4. from \in [1 .. Len(r) -> 1 .. Len(q)]
    BY <1>3
  <1> HIDE DEF from
  <1>5. /\ IsFiniteSet(1 .. Len(q)) /\ Cardinality(1 .. Len(q)) = Len(q)
        /\ IsFiniteSet(1 .. Len(r)) /\ Cardinality(1 .. Len(r)) = Len(r)
    BY <1>1, IntervalSize
  <1>6. Cardinality(1 .. Len(q)) < Cardinality(1 .. Len(r))
    BY <1>2, <1>5
  <1>7. \E m, n \in 1 .. Len(r) : m # n /\ from[m] = from[n]
    BY <1>4, <1>5, <1>6, FS_PigeonHole, Zenon
  <1>8. PICK m \in 1 .. Len(r), n \in 1 .. Len(r) : m # n /\ from[m] = from[n]
    BY <1>7
  <1>9. r[m] = r[n]
    BY <1>3, <1>8
  <1>10. QED  BY <1>1, <1>8, <1>9 DEF Subarray, IsInjective

\* What every scan in progress may still meet.
Supply == Len(queue) + Cardinality(Unpushed)

LEMMA SupplyType ==
  ASSUME TypeOK, IsFiniteSet(Intents)
  PROVE  /\ IsFiniteSet(Unpushed) /\ Cardinality(Unpushed) \in Nat
         /\ Len(queue) \in Nat /\ Supply \in Nat
         /\ Len(queue) <= Supply
  <1>1. IsFiniteSet(Unpushed) /\ Cardinality(Unpushed) \in Nat
    BY FS_Subset, FS_CardinalityType DEF Unpushed
  <1>2. Len(queue) \in Nat
    BY LenProperties DEF TypeOK
  <1>3. QED  BY <1>1, <1>2 DEF Supply

\* A step that takes nobody into the array does not add to it.
LEMMA SupplyKept ==
  ASSUME TypeOK, IsFiniteSet(Intents), Subarray(queue', queue),
         Unpushed' \subseteq Unpushed
  PROVE  Supply' \in Nat /\ Supply' <= Supply
  <1>1. /\ IsFiniteSet(Unpushed) /\ Cardinality(Unpushed) \in Nat
        /\ Len(queue) \in Nat
    BY SupplyType
  <1>2. PICK before : before = Unpushed
    OBVIOUS
  <1>3. PICK after : after = Unpushed'
    OBVIOUS
  <1>4. after \in SUBSET before /\ IsFiniteSet(before)
    BY <1>1, <1>2, <1>3
  <1>5. Cardinality(after) \in Nat /\ Cardinality(after) <= Cardinality(before)
    BY <1>4, FS_Subset, FS_CardinalityType
  <1>6. Len(queue') \in Nat /\ Len(queue') <= Len(queue)
    <2>1. PICK q \in Seq(Intents) : q = queue
      BY DEF TypeOK
    <2>2. QED  BY <2>1, SubarrayShorter
  <1>7. QED  BY <1>1, <1>2, <1>3, <1>5, <1>6 DEF Supply

\* A push takes its intent out of those not pushed yet, into the array.
LEMMA SupplyPushed ==
  ASSUME TypeInv, IsFiniteSet(Intents), NEW i \in Intents, OnIntentSealed(i)
  PROVE  Supply' \in Nat /\ Supply' <= Supply
  <1>1. /\ queue \in Seq(Intents) /\ IsInjective(queue)
        /\ task \in [Intents -> Tasks]
    BY DEF TypeInv, TypeOK, Tasks
  <1>2. PICK rest : rest = Without(queue, expired)
    OBVIOUS
  <1>3. Subarray(rest, queue)
    BY <1>1, <1>2, WithoutShrinks
  <1>4. /\ rest \in Seq(Intents) /\ Len(rest) \in Nat
        /\ Len(queue) \in Nat /\ Len(rest) <= Len(queue)
    BY <1>1, <1>3, SubarrayShorter DEF Subarray
  <1>5. Len(queue') = Len(rest) + 1
    <2>1. queue' = Append(rest, i)
      BY <1>2 DEF OnIntentSealed
    <2>2. Len(Append(rest, i)) = Len(rest) + 1
      BY <1>4, AppendProperties
    <2>3. QED  BY <2>1, <2>2
  <1>6. PICK before : before = Unpushed
    OBVIOUS
  <1>7. /\ task[i].pc = "push" /\ task'[i].pc \in {"done", "evaluate"}
        /\ task' = [task EXCEPT ![i] = Scan(i, 1, queue')]
    BY PushTyped, <1>1 DEF OnIntentSealed
  <1>8. Unpushed' = before \ {i} /\ i \in before
    BY <1>1, <1>6, <1>7 DEF Unpushed
  <1>9. IsFiniteSet(before) /\ Cardinality(before) \in Nat
    BY <1>6, SupplyType DEF TypeInv
  <1>10. Cardinality(before \ {i}) = Cardinality(before) - 1
    BY <1>8, <1>9, FS_RemoveElement
  <1>11. PICK n \in Nat : n = Cardinality(before)
    BY <1>9
  <1>12. n - 1 \in Nat
    <2>1. Cardinality(before \ {i}) \in Nat
      BY <1>9, FS_Subset, FS_CardinalityType
    <2>2. QED  BY <1>10, <1>11, <2>1
  <1>13. Supply' = Len(rest) + 1 + (n - 1)
    BY <1>5, <1>8, <1>10, <1>11 DEF Supply
  <1>14. Supply = Len(queue) + n
    BY <1>6, <1>11 DEF Supply
  <1>15. QED  BY <1>4, <1>12, <1>13, <1>14

LEMMA SupplyNext ==
  ASSUME TypeInv, IsFiniteSet(Intents), [Next]_vars
  PROVE  Supply' \in Nat /\ Supply' <= Supply
  <1> USE DEF TypeInv
  <1>0. task \in [Intents -> Tasks] /\ Subarray(queue, queue)
    BY SubarrayItself DEF TypeOK, Tasks
  <1>1. ASSUME NEW gone, queue' = Without(queue, gone), task' = task
        PROVE  Supply' \in Nat /\ Supply' <= Supply
    <2>1. Subarray(queue', queue)
      BY <1>1, WithoutShrinks DEF TypeOK
    <2>2. Unpushed' \subseteq Unpushed
      BY <1>1 DEF Unpushed
    <2>3. QED  BY <2>1, <2>2, SupplyKept
  <1>2. ASSUME UNCHANGED <<queue, task>>
        PROVE  Supply' \in Nat /\ Supply' <= Supply
    BY <1>0, <1>2, SupplyKept DEF Unpushed
  <1>3. ASSUME NEW i \in Intents, SubmitIntent(i)
        PROVE  Supply' \in Nat /\ Supply' <= Supply
    <2>1. /\ Goto(i, "push") \/ Goto(i, "refused")
          /\ queue' = queue /\ task[i].pc = "idle"
      BY <1>3 DEF SubmitIntent
    <2>2. \A j \in Intents \ {i} : task'[j] = task[j]
      BY <1>0, <2>1 DEF Goto
    <2>3. Unpushed' \subseteq Unpushed
      BY <2>1, <2>2 DEF Unpushed
    <2>4. QED  BY <1>0, <2>1, <2>3, SupplyKept
  <1>4. ASSUME NEW i \in Intents, CallStep(i), ~OnIntentSealed(i)
        PROVE  Supply' \in Nat /\ Supply' <= Supply
    <2>1. CallMove(i)
      BY <1>4, CallMoves
    <2>2. Unpushed' \subseteq Unpushed
      BY <1>0, <2>1 DEF CallMove, Unpushed, Waiting
    <2>3. QED  BY <2>1, <2>2, SupplyKept DEF CallMove
  <1>5. ASSUME NEW i \in Intents,
               CancelIntent(i) \/ TtlPasses(i) \/ ReleaseBalance(i) \/ DeleteRef(i)
        PROVE  Supply' \in Nat /\ Supply' <= Supply
    BY <1>1, <1>2, <1>5 DEF CancelIntent, TtlPasses, ReleaseBalance, DeleteRef
  <1>6. CASE EvictExpired \/ (\E g \in Agents : RevokeAgent(g))
    BY <1>1, <1>6 DEF EvictExpired, RevokeAgent
  <1>7. CASE UNCHANGED vars
    BY <1>2, <1>7 DEF vars
  <1>8. QED
    BY <1>3, <1>4, <1>5, <1>6, <1>7, SupplyPushed DEF Next

\* A step of a call takes it to a later stage, or its scan to a later index.
LEMMA CallStage ==
  ASSUME TypeInv, NEW i \in Intents, CallStep(i)
  PROVE  /\ task' = [task EXCEPT ![i] = task'[i]]
         /\ \/ Stage(task'[i].pc) < Stage(task[i].pc)
            \/ /\ task[i].pc = "evaluate" /\ task'[i].pc = "evaluate"
               /\ task'[i].at \in (task[i].at + 1) .. Len(queue')
  <1> USE DEF TypeInv
  <1>0. task \in [Intents -> Tasks] /\ queue \in Seq(Intents)
    BY DEF TypeOK, Tasks
  <1>1. task' = [task EXCEPT ![i] = task'[i]]
    <2>1. CASE OnIntentSealed(i)
      BY <2>1 DEF OnIntentSealed, TypeOK
    <2>2. CASE ~OnIntentSealed(i)
      BY <2>2, CallMoves DEF CallMove
    <2>3. QED  BY <2>1, <2>2
  <1>2. Finish(i) => task'[i].pc = "done"
    BY FinishMoves
  <1>3. \A pc \in TaskStates : Goto(i, pc) => task'[i].pc = pc
    BY GotoMoves
  <1>4. CASE OnIntentSealed(i)
    <2>1. task[i].pc = "push" /\ task'[i].pc \in {"done", "evaluate"}
      BY <1>4, PushTyped DEF OnIntentSealed
    <2>2. QED  BY <1>1, <2>1 DEF Stage
  <1>5. CASE NoMatch(i)
    <2>1. PICK k \in Nat : k = task[i].at
      BY <1>0 DEF Tasks
    <2>2. /\ task[i].pc = "evaluate" /\ queue' = queue
          /\ task'[i] = Scan(i, k + 1, queue)
      BY <1>0, <1>5, <2>1 DEF NoMatch
    <2>3. \/ Scan(i, k + 1, queue).pc = "done"
          \/ /\ Scan(i, k + 1, queue).pc = "evaluate"
             /\ Scan(i, k + 1, queue).at \in (k + 1) .. Len(queue)
      <3>1. k + 1 \in Nat \ {0}
        OBVIOUS
      <3>2. QED  BY <1>0, <3>1, ScanFinds
    <2>4. CASE task'[i].pc = "done"
      BY <1>1, <2>2, <2>4 DEF Stage
    <2>5. CASE task'[i].pc # "done"
      BY <1>1, <2>1, <2>2, <2>3, <2>5
    <2>6. QED  BY <2>4, <2>5
  <1>6. CASE Match(i) \/ EvaluateFails(i)
    <2>1. task[i].pc = "evaluate"
      BY <1>6 DEF Match, EvaluateFails
    <2>2. task'[i].pc \in {"done", "checkBuyer"}
      <3>1. CASE Finish(i)
        BY <1>2, <3>1
      <3>2. CASE ~Finish(i)
        <4>1. PICK locked : task' = [task EXCEPT ![i].pc = "checkBuyer",
                                                 ![i].locked = locked]
          BY <1>6, <3>2 DEF Match, ActOn, EvaluateFails
        <4>2. QED  BY <1>0, <4>1 DEF Tasks
      <3>3. QED  BY <3>1, <3>2
    <2>3. QED  BY <1>1, <2>1, <2>2 DEF Stage
  <1>7. CASE CheckBuyer(i)
    <2>1. /\ task[i].pc = "checkBuyer"
          /\ Goto(i, "checkSeller") \/ Finish(i)
      BY <1>7 DEF CheckBuyer, Proceed, RejectOther
    <2>2. task'[i].pc \in {"checkSeller", "done"}
      BY <1>2, <1>3, <2>1 DEF TaskStates
    <2>3. QED  BY <1>1, <2>1, <2>2 DEF Stage
  <1>8. CASE CheckSeller(i) \/ CheckFails(i)
    <2>1. /\ task[i].pc \in {"checkBuyer", "checkSeller"}
          /\ Goto(i, "settle") \/ Finish(i)
      BY <1>8 DEF CheckSeller, CheckFails, Proceed, RejectOther
    <2>2. task'[i].pc \in {"settle", "done"}
      BY <1>2, <1>3, <2>1 DEF TaskStates
    <2>3. QED  BY <1>1, <2>1, <2>2 DEF Stage
  <1>9. CASE BuildCommand(i)
    <2>1. /\ task[i].pc = "settle"
          /\ Goto(i, "persist") \/ Finish(i)
      BY <1>9 DEF BuildCommand, GiveUp
    <2>2. task'[i].pc \in {"persist", "done"}
      BY <1>2, <1>3, <2>1 DEF TaskStates
    <2>3. QED  BY <1>1, <2>1, <2>2 DEF Stage
  <1>10. CASE PersistSettlement(i) \/ PersistFails(i)
    <2>1. /\ task[i].pc = "persist"
          /\ Goto(i, "fill") \/ Finish(i)
      BY <1>10 DEF PersistSettlement, PersistFails, GiveUp
    <2>2. task'[i].pc \in {"fill", "done"}
      BY <1>2, <1>3, <2>1 DEF TaskStates
    <2>3. QED  BY <1>1, <2>1, <2>2 DEF Stage
  <1>11. CASE ApplyFill(i)
    <2>1. task[i].pc = "fill" /\ Finish(i)
      BY <1>11 DEF ApplyFill
    <2>2. QED  BY <1>1, <1>2, <2>1 DEF Stage
  <1>12. QED
    BY <1>4, <1>5, <1>6, <1>7, <1>8, <1>9, <1>10, <1>11 DEF CallStep

\* Only its own submit and its own call move a call.
LEMMA OwnSteps ==
  ASSUME TypeInv, [Next]_vars, NEW i \in Intents, task[i].pc # "idle",
         ~CallStep(i)
  PROVE  task'[i] = task[i]
  <1> USE DEF TypeInv
  <1>0. task \in [Intents -> Tasks]
    BY DEF TypeOK, Tasks
  <1>1. ASSUME NEW j \in Intents, SubmitIntent(j)
        PROVE  task'[i] = task[i]
    <2>1. j # i /\ (Goto(j, "push") \/ Goto(j, "refused"))
      BY <1>1 DEF SubmitIntent
    <2>2. QED  BY <1>0, <2>1 DEF Goto
  <1>2. ASSUME NEW j \in Intents, CallStep(j)
        PROVE  task'[i] = task[i]
    <2>1. j # i /\ task' = [task EXCEPT ![j] = task'[j]]
      BY <1>2, CallStage
    <2>2. QED  BY <1>0, <2>1
  <1>3. ASSUME NEW j \in Intents,
               CancelIntent(j) \/ TtlPasses(j) \/ ReleaseBalance(j) \/ DeleteRef(j)
        PROVE  task'[i] = task[i]
    BY <1>3 DEF CancelIntent, TtlPasses, ReleaseBalance, DeleteRef
  <1>4. CASE EvictExpired \/ (\E g \in Agents : RevokeAgent(g))
    BY <1>4 DEF EvictExpired, RevokeAgent
  <1>5. CASE UNCHANGED vars
    BY <1>5 DEF vars
  <1>6. QED  BY <1>1, <1>2, <1>3, <1>4, <1>5 DEF Next

LEMMA AdvanceNext ==
  ASSUME TypeInv, TypeInv', IsFiniteSet(Intents), [Next]_vars, NEW i \in Intents
  PROVE  /\ CallStep(i) => Closer(i)
         /\ task[i].pc # "idle" => Closer(i) \/ AsFar(i)
  <1>1. PICK old \in Nat : old = Supply
    BY SupplyType DEF TypeInv
  <1>2. PICK new \in Nat : new = Supply' /\ new <= old
    BY <1>1, SupplyNext
  <1>3. PICK at \in Nat : at = task[i].at
    BY DEF TypeInv, TypeOK
  <1>4. PICK next \in Nat : next = task'[i].at
    BY DEF TypeInv, TypeOK
  <1>5. PICK len \in Nat, left \in Nat :
          len = Len(queue') /\ left = Cardinality(Unpushed') /\ new = len + left
    <2>1. Len(queue') \in Nat /\ Cardinality(Unpushed') \in Nat
      <3>1. PICK q \in Seq(Intents) : q = queue'
        BY DEF TypeInv, TypeOK
      <3>2. PICK after : after = Unpushed'
        OBVIOUS
      <3>3. IsFiniteSet(after)
        <4>1. after \in SUBSET Intents
          BY <3>2 DEF Unpushed
        <4>2. QED  BY <4>1, FS_Subset
      <3>4. QED  BY <3>1, <3>2, <3>3, LenProperties, FS_CardinalityType
    <2>2. QED  BY <1>2, <2>1 DEF Supply
  <1>6. Ahead(i) = Greatest(old - at, 0) /\ Ahead(i)' = Greatest(new - next, 0)
    <2>1. Len(queue) \in Nat /\ Cardinality(Unpushed) \in Nat
      BY SupplyType DEF TypeInv
    <2>2. Ahead(i) = Greatest(old - at, 0)
      BY <1>1, <1>3, <2>1 DEF Ahead, Supply, Greatest
    <2>3. Ahead(i)' = Greatest(new - next, 0)
      <3>1. Ahead(i)' =
              Greatest(Len(queue') + Cardinality(Unpushed') - task'[i].at, 0)
        BY DEF Ahead
      <3>2. Len(queue') + Cardinality(Unpushed') - task'[i].at = new - next
        BY <1>4, <1>5
      <3>3. QED  BY <3>1, <3>2
    <2>4. QED  BY <2>2, <2>3
  <1>7. ASSUME CallStep(i)
        PROVE  Closer(i)
    <2>1. CASE Stage(task'[i].pc) < Stage(task[i].pc)
      BY <2>1 DEF Closer
    <2>2. CASE /\ task[i].pc = "evaluate" /\ task'[i].pc = "evaluate"
               /\ next \in (at + 1) .. len
      <3>1. Greatest(new - next, 0) < Greatest(old - at, 0)
        BY <1>2, <1>5, <2>2 DEF Greatest
      <3>2. QED  BY <1>6, <2>2, <3>1 DEF Closer
    <2>3. QED  BY <1>3, <1>4, <1>5, <1>7, <2>1, <2>2, CallStage
  <1>8. ASSUME task[i].pc # "idle", ~CallStep(i)
        PROVE  Closer(i) \/ AsFar(i)
    <2>1. task'[i] = task[i]
      BY <1>8, OwnSteps
    <2>2. Greatest(new - next, 0) <= Greatest(old - at, 0)
      BY <1>2, <1>3, <1>4, <2>1 DEF Greatest
    <2>3. QED
      <3>1. Greatest(new - next, 0) \in Nat /\ Greatest(old - at, 0) \in Nat
        BY DEF Greatest
      <3>2. \/ Greatest(new - next, 0) < Greatest(old - at, 0)
            \/ Greatest(new - next, 0) = Greatest(old - at, 0)
        BY <2>2, <3>1
      <3>3. QED  BY <1>6, <2>1, <3>2 DEF Closer, AsFar
  <1>9. QED  BY <1>7, <1>8

\* A measure that every step of a call lowers and no step of anyone else raises,
\* for finitely many intents: what is left of CallReturns is that calls go on
\* (the for loop of onIntentSealed over an array that others shift).
THEOREM CallsAdvance ==
  ASSUME IsFiniteSet(Intents)
  PROVE  Spec => CallAdvances
  <1>1. TypeInv /\ TypeInv' /\ [Next]_vars =>
          [\A i \in Intents :
             /\ CallStep(i) => Closer(i)
             /\ task[i].pc # "idle" => Closer(i) \/ AsFar(i)]_vars
    BY AdvanceNext
  <1>2. QED  BY TypeAlways, <1>1, PTL DEF Spec, CallAdvances
=============================================================================
