-------------------------- MODULE IntentLocksProofs --------------------------
(***************************************************************************)
(* Proofs about IntentLocks, for any sets of intents, agents and accounts, *)
(* any amounts, any number of failures, restarts, syncs and sweeps:        *)
(*                                                                         *)
(*   TypeCorrect       the type invariant, which contains the CHECK        *)
(*                     constraints of the portfolios table;                *)
(*   PhantomFree       `locked` never exceeds the reservations held;       *)
(*   StrandedFree      without failures, the orchestrator still has to     *)
(*                     deal with every reservation that is held;           *)
(*   ExactAccounting   without failures and with timely eviction, `locked` *)
(*                     is the sum of the reservations held.                *)
(***************************************************************************)
EXTENDS IntentLocks, FiniteSetTheorems, TLAPS

-----------------------------------------------------------------------------
(* The stored procedures on a row.                                         *)

\* portfolio_lock_balance keeps the row within its constraints when the check
\* passes.
LEMMA LockRowOK ==
  ASSUME NEW row, RowOK(row), NEW amount \in Nat, CanLock(row, amount)
  PROVE  /\ RowOK(LockRow(row, amount))
         /\ LockRow(row, amount).locked = row.locked + amount
BY DEF RowOK, PortfolioRow, CanLock, Available, LockRow

\* portfolio_release_balance always does, and gives back at most the amount.
LEMMA ReleaseRowOK ==
  ASSUME NEW row, RowOK(row), NEW amount \in Nat
  PROVE  /\ RowOK(ReleaseRow(row, amount))
         /\ ReleaseRow(row, amount).locked =
              IF row.locked >= amount THEN row.locked - amount ELSE 0
BY DEF RowOK, PortfolioRow, ReleaseRow, Greatest

\* portfolio_sync_balance always does, and never locks more.
LEMMA SyncRowOK ==
  ASSUME NEW row, RowOK(row), NEW balance \in Nat
  PROVE  /\ RowOK(SyncRow(row, balance))
         /\ SyncRow(row, balance).locked <= row.locked
BY DEF RowOK, PortfolioRow, SyncRow, Greatest, Least

-----------------------------------------------------------------------------
(* Sums of held amounts, as cardinalities of sets of units.                *)

LEMMA UnitsOfCard ==
  ASSUME NEW i \in Intents
  PROVE  /\ IsFiniteSet(UnitsOf(i))
         /\ Cardinality(UnitsOf(i)) = Amount[i]
<1>1. Amount[i] \in Nat \ {0}
  BY AmountAssumption
<1>2. IsFiniteSet(1 .. Amount[i]) /\ Cardinality(1 .. Amount[i]) = Amount[i]
  BY <1>1, FS_Interval
<1>3. IsFiniteSet({i}) /\ Cardinality({i}) = 1
  BY FS_Singleton
<1>4. /\ IsFiniteSet({i} \X (1 .. Amount[i]))
      /\ Cardinality({i} \X (1 .. Amount[i])) = 1 * Amount[i]
  BY <1>2, <1>3, FS_Product
<1> QED
  BY <1>1, <1>4 DEF UnitsOf

\* Taking a new reservation adds its amount to its account's sum.
LEMMA HoldAdds ==
  ASSUME NEW a, NEW held, NEW i \in Intents \ held,
         IsFiniteSet(UnitsHeld(a, held))
  PROVE  /\ IsFiniteSet(UnitsHeld(a, held \cup {i}))
         /\ Cardinality(UnitsHeld(a, held \cup {i})) =
              IF AccountOf[i] = a
              THEN Cardinality(UnitsHeld(a, held)) + Amount[i]
              ELSE Cardinality(UnitsHeld(a, held))
<1>1. CASE AccountOf[i] = a
  <2>1. UnitsHeld(a, held \cup {i}) = UnitsHeld(a, held) \cup UnitsOf(i)
    BY <1>1 DEF UnitsHeld
  <2>2. UnitsHeld(a, held) \cap UnitsOf(i) = {}
    BY DEF UnitsHeld, UnitsOf
  <2>3. Cardinality(UnitsHeld(a, held)) \in Nat /\ Amount[i] \in Nat
    BY FS_CardinalityType, AmountAssumption
  <2>4. IsFiniteSet(UnitsOf(i)) /\ Cardinality(UnitsOf(i)) = Amount[i]
    BY UnitsOfCard
  <2>5. /\ IsFiniteSet(UnitsHeld(a, held) \cup UnitsOf(i))
        /\ Cardinality(UnitsHeld(a, held) \cup UnitsOf(i)) =
             Cardinality(UnitsHeld(a, held)) + Cardinality(UnitsOf(i))
               - Cardinality(UnitsHeld(a, held) \cap UnitsOf(i))
    BY <2>4, FS_Union
  <2>6. Cardinality({}) = 0
    BY FS_EmptySet
  <2> QED
    BY <1>1, <2>1, <2>2, <2>3, <2>4, <2>5, <2>6
<1>2. CASE AccountOf[i] # a
  <2>1. UnitsHeld(a, held \cup {i}) = UnitsHeld(a, held)
    BY <1>2 DEF UnitsHeld
  <2> QED BY <1>2, <2>1
<1> QED BY <1>1, <1>2

\* Giving one back subtracts its amount, which the sum covers.
LEMMA UnholdSubtracts ==
  ASSUME NEW a, NEW held, NEW i \in Intents,
         IsFiniteSet(UnitsHeld(a, held))
  PROVE  /\ IsFiniteSet(UnitsHeld(a, held \ {i}))
         /\ i \in held /\ AccountOf[i] = a =>
              /\ Cardinality(UnitsHeld(a, held)) >= Amount[i]
              /\ Cardinality(UnitsHeld(a, held \ {i})) =
                   Cardinality(UnitsHeld(a, held)) - Amount[i]
         /\ ~(i \in held /\ AccountOf[i] = a) =>
              UnitsHeld(a, held \ {i}) = UnitsHeld(a, held)
<1>1. CASE i \in held /\ AccountOf[i] = a
  <2>1. UnitsHeld(a, held \ {i}) = UnitsHeld(a, held) \ UnitsOf(i)
    BY <1>1 DEF UnitsHeld, UnitsOf
  <2>2. UnitsHeld(a, held) \cap UnitsOf(i) = UnitsOf(i)
    BY <1>1 DEF UnitsHeld
  <2>3. UnitsOf(i) \in SUBSET UnitsHeld(a, held)
    BY <2>2
  <2>4. Cardinality(UnitsOf(i)) <= Cardinality(UnitsHeld(a, held))
    BY <2>3, FS_Subset
  <2>5. /\ IsFiniteSet(UnitsHeld(a, held) \ UnitsOf(i))
        /\ Cardinality(UnitsHeld(a, held) \ UnitsOf(i)) =
             Cardinality(UnitsHeld(a, held)) - Cardinality(UnitsOf(i))
    BY <2>2, FS_Difference
  <2>6. Cardinality(UnitsHeld(a, held)) \in Nat /\ Amount[i] \in Nat
    BY FS_CardinalityType, AmountAssumption
  <2> QED
    BY <1>1, <2>1, <2>4, <2>5, <2>6, UnitsOfCard
<1>2. CASE ~(i \in held /\ AccountOf[i] = a)
  <2>1. UnitsHeld(a, held \ {i}) = UnitsHeld(a, held)
    BY <1>2 DEF UnitsHeld
  <2> QED BY <1>2, <2>1
<1> QED BY <1>1, <1>2

-----------------------------------------------------------------------------
(* The two effects on the ledger, on a typed state.                        *)

LEMMA LockForEffect ==
  ASSUME TypeOK, NEW i \in Intents, LockFor(i),
         CanLock(portfolio[AccountOf[i]], Amount[i])
  PROVE  /\ portfolio' \in [Accounts -> PortfolioRow]
         /\ \A a \in Accounts : RowOK(portfolio'[a])
         /\ \A a \in Accounts : portfolio'[a].locked =
              IF AccountOf[i] = a THEN portfolio[a].locked + Amount[i]
                                  ELSE portfolio[a].locked
         /\ holding' = holding \cup {i}
<1>1. AccountOf[i] \in Accounts /\ Amount[i] \in Nat
  BY AmountAssumption
<1>2. RowOK(portfolio[AccountOf[i]])
  BY <1>1 DEF TypeOK
<1>3. /\ RowOK(LockRow(portfolio[AccountOf[i]], Amount[i]))
      /\ LockRow(portfolio[AccountOf[i]], Amount[i]).locked =
           portfolio[AccountOf[i]].locked + Amount[i]
  BY <1>1, <1>2, LockRowOK
<1>4. LockRow(portfolio[AccountOf[i]], Amount[i]) \in PortfolioRow
  BY <1>3 DEF RowOK
<1> QED
  BY <1>1, <1>3, <1>4 DEF LockFor, TypeOK

LEMMA ReleaseForEffect ==
  ASSUME TypeOK, NEW i \in Intents, ReleaseFor(i)
  PROVE  /\ portfolio' \in [Accounts -> PortfolioRow]
         /\ \A a \in Accounts : RowOK(portfolio'[a])
         /\ \A a \in Accounts : portfolio'[a].locked =
              IF AccountOf[i] # a THEN portfolio[a].locked
              ELSE IF portfolio[a].locked >= Amount[i]
                   THEN portfolio[a].locked - Amount[i] ELSE 0
         /\ holding' = holding \ {i}
<1>1. AccountOf[i] \in Accounts /\ Amount[i] \in Nat
  BY AmountAssumption
<1>2. RowOK(portfolio[AccountOf[i]])
  BY <1>1 DEF TypeOK
<1>3. /\ RowOK(ReleaseRow(portfolio[AccountOf[i]], Amount[i]))
      /\ ReleaseRow(portfolio[AccountOf[i]], Amount[i]).locked =
           IF portfolio[AccountOf[i]].locked >= Amount[i]
           THEN portfolio[AccountOf[i]].locked - Amount[i] ELSE 0
  BY <1>1, <1>2, ReleaseRowOK
<1>4. ReleaseRow(portfolio[AccountOf[i]], Amount[i]) \in PortfolioRow
  BY <1>3 DEF RowOK
<1> QED
  BY <1>1, <1>3, <1>4 DEF ReleaseFor, TypeOK

-----------------------------------------------------------------------------
(* Type correctness.                                                       *)

LEMMA TypeInit == Init => TypeOK
BY DepositAssumption, BoundAssumption
   DEF Init, TypeOK, PortfolioRow, RowOK, SubmitStates, IdleSweep

LEMMA TypeSubmit ==
  ASSUME TypeOK, NEW i \in Intents, SubmitStep(i)
  PROVE  TypeOK'
<1>1. CASE Verify(i)
  BY <1>1 DEF TypeOK, Verify, SubmitStates, queueVars, agentVars, clockVars,
              ledgerVars, budgetVars
<1>2. CASE Seal(i)
  BY <1>2 DEF TypeOK, Seal, SubmitStates, queueVars, agentVars, clockVars,
              ledgerVars, budgetVars
<1>3. CASE LockBalance(i)
  <2>1. CASE CanLock(portfolio[AccountOf[i]], Amount[i])
    BY <1>3, <2>1, LockForEffect
       DEF TypeOK, LockBalance, SubmitStates, queueVars, agentVars, clockVars,
           budgetVars
  <2>2. CASE ~CanLock(portfolio[AccountOf[i]], Amount[i])
    BY <1>3, <2>2
       DEF TypeOK, LockBalance, SubmitStates, queueVars, agentVars, clockVars,
           ledgerVars, budgetVars
  <2> QED BY <2>1, <2>2
<1>4. CASE LockBalanceFails(i)
  <2>1. CASE UNCHANGED ledgerVars
    BY <1>4, <2>1, BoundAssumption
       DEF TypeOK, LockBalanceFails, Fault, BudgetLeft, SubmitStates, queueVars, agentVars,
           clockVars, ledgerVars
  <2>2. CASE CanLock(portfolio[AccountOf[i]], Amount[i]) /\ LockFor(i)
    BY <1>4, <2>2, LockForEffect, BoundAssumption
       DEF TypeOK, LockBalanceFails, Fault, BudgetLeft, SubmitStates, queueVars, agentVars,
           clockVars
  <2> QED BY <1>4, <2>1, <2>2 DEF LockBalanceFails
<1>5. CASE CreateRef(i)
  BY <1>5 DEF TypeOK, CreateRef, SubmitStates, queueVars, agentVars, clockVars,
              ledgerVars, budgetVars
<1>6. CASE CreateRefFails(i)
  BY <1>6, BoundAssumption
     DEF TypeOK, CreateRefFails, Fault, BudgetLeft, SubmitStates, queueVars, agentVars,
         clockVars, ledgerVars
<1>7. CASE Enqueue(i)
  BY <1>7 DEF TypeOK, Enqueue, Drop, SubmitStates, agentVars, clockVars,
              ledgerVars, budgetVars
<1> QED
  BY <1>1, <1>2, <1>3, <1>4, <1>5, <1>6, <1>7 DEF SubmitStep

LEMMA TypeCall ==
  ASSUME TypeOK, NEW i \in Intents, CallStep(i)
  PROVE  TypeOK'
<1>1. CASE ReleaseBalance(i)
  <2>1. CASE ReleaseFor(i) /\ UNCHANGED budgetVars
    BY <1>1, <2>1, ReleaseForEffect
       DEF TypeOK, ReleaseBalance, agentVars, clockVars, budgetVars
  <2>2. CASE Fault /\ UNCHANGED ledgerVars
    BY <1>1, <2>2, BoundAssumption
       DEF TypeOK, ReleaseBalance, Fault, BudgetLeft, agentVars, clockVars, ledgerVars
  <2> QED BY <1>1, <2>1, <2>2 DEF ReleaseBalance
<1>2. CASE DeleteRef(i)
  BY <1>2, BoundAssumption
     DEF TypeOK, DeleteRef, Fault, BudgetLeft, agentVars, clockVars, ledgerVars, budgetVars
<1>3. CASE CancelDelete(i)
  BY <1>3, BoundAssumption
     DEF TypeOK, CancelDelete, Fault, BudgetLeft, queueVars, agentVars, clockVars,
         ledgerVars, budgetVars
<1> QED BY <1>1, <1>2, <1>3 DEF CallStep

LEMMA TypeSweep ==
  ASSUME TypeOK, NEW s \in Sweeps, SweepStep(s)
  PROVE  TypeOK'
<1>1. CASE SweepStart(s)
  BY <1>1 DEF TypeOK, SweepStart, queueVars, agentVars, clockVars, ledgerVars,
              budgetVars
<1>2. ASSUME NEW i \in Intents, SweepRelease(s, i) PROVE TypeOK'
  <2>1. sweep' \in [Sweeps -> [todo : SUBSET Intents, released : SUBSET Intents]]
    BY <1>2 DEF TypeOK, SweepRelease
  <2>2. CASE ReleaseFor(i) /\ UNCHANGED budgetVars
    BY <1>2, <2>1, <2>2, ReleaseForEffect
       DEF TypeOK, SweepRelease, queueVars, agentVars, clockVars, budgetVars
  <2>3. CASE Fault /\ UNCHANGED ledgerVars
    BY <1>2, <2>1, <2>3, BoundAssumption
       DEF TypeOK, SweepRelease, Fault, BudgetLeft, queueVars, agentVars, clockVars,
           ledgerVars
  <2> QED BY <1>2, <2>2, <2>3 DEF SweepRelease
<1>3. ASSUME NEW i \in Intents, SweepDelete(s, i) PROVE TypeOK'
  <2>1. sweep' \in [Sweeps -> [todo : SUBSET Intents, released : SUBSET Intents]]
    BY <1>3 DEF TypeOK, SweepDelete
  <2> QED
    BY <1>3, <2>1, BoundAssumption
       DEF TypeOK, SweepDelete, Fault, BudgetLeft, queueVars, agentVars, clockVars,
           ledgerVars, budgetVars
<1> QED BY <1>1, <1>2, <1>3 DEF SweepStep

LEMMA TypeRestart == TypeOK /\ Restart => TypeOK'
BY BoundAssumption
   DEF TypeOK, Restart, BudgetLeft, SubmitStates, IdleSweep, clockVars, ledgerVars

LEMMA TypeSync ==
  ASSUME TypeOK, NEW a \in Accounts, NEW b \in SyncBalances,
         SyncPortfolio(a, b)
  PROVE  TypeOK'
<1>1. RowOK(SyncRow(portfolio[a], b))
  BY SyncRowOK, DepositAssumption DEF TypeOK
<1>2. SyncRow(portfolio[a], b) \in PortfolioRow
  BY <1>1 DEF RowOK
<1> QED
  BY <1>1, <1>2, BoundAssumption
     DEF TypeOK, SyncPortfolio, BudgetLeft, queueVars, agentVars, clockVars

LEMMA TypeStep == TypeOK /\ [Next]_vars => TypeOK'
<1> SUFFICES ASSUME TypeOK, [Next]_vars PROVE TypeOK'
  OBVIOUS
<1>1. ASSUME NEW i \in Intents, CancelIntent(i) PROVE TypeOK'
  BY <1>1 DEF TypeOK, CancelIntent, Drop, agentVars, clockVars, ledgerVars,
              budgetVars
<1>2. CASE EvictExpired
  BY <1>2 DEF TypeOK, EvictExpired, Drop, agentVars, clockVars, ledgerVars,
              budgetVars
<1>3. ASSUME NEW g \in Agents, RevokeAuthority(g) PROVE TypeOK'
  BY <1>3 DEF TypeOK, RevokeAuthority, queueVars, clockVars, ledgerVars,
              budgetVars
<1>4. ASSUME NEW g \in Agents, RevokeCascade(g) PROVE TypeOK'
  BY <1>4 DEF TypeOK, RevokeCascade, Drop, clockVars, ledgerVars, budgetVars
<1>5. ASSUME NEW i \in Intents, TtlPasses(i) PROVE TypeOK'
  BY <1>5 DEF TypeOK, TtlPasses, queueVars, agentVars, ledgerVars, budgetVars
<1>6. ASSUME NEW i \in Intents, RowPassesCutoff(i) PROVE TypeOK'
  BY <1>6 DEF TypeOK, RowPassesCutoff, queueVars, agentVars, ledgerVars,
              budgetVars
<1>7. CASE UNCHANGED vars
  BY <1>7 DEF TypeOK, vars
<1> QED
  BY <1>1, <1>2, <1>3, <1>4, <1>5, <1>6, <1>7, TypeSubmit, TypeCall, TypeSweep,
     TypeRestart, TypeSync DEF Next

\* Every reachable state is well typed; in particular every portfolio row
\* satisfies the table's CHECK constraints (migration 005), so no release,
\* lock or sync is ever refused by them.
THEOREM TypeCorrect == Spec => []TypeOK
BY TypeInit, TypeStep, PTL DEF Spec

-----------------------------------------------------------------------------
(* No phantom lock.                                                        *)

\* A reservation is held only once its lockBalance has returned: a handle is
\* never locked for twice.
HeldAfterLock ==
  \A i \in holding : submit[i] \in {"ref", "enqueue", "accepted", "lost"}

LedgerInv ==
  /\ HeldAfterLock
  /\ \A a \in Accounts : IsFiniteSet(UnitsHeld(a, holding))
  /\ NoPhantomLock

\* The only steps that touch the ledger.
LEMMA LedgerSteps ==
  ASSUME [Next]_vars
  PROVE  \/ UNCHANGED ledgerVars
         \/ \E i \in Intents : /\ submit[i] = "lock"
                               /\ submit' = [submit EXCEPT ![i] = "ref"]
                               /\ CanLock(portfolio[AccountOf[i]], Amount[i])
                               /\ LockFor(i)
         \/ \E i \in Intents : ReleaseFor(i) /\ UNCHANGED submit
         \/ \E a \in Accounts, b \in SyncBalances : SyncPortfolio(a, b)
<1>1. ASSUME NEW i \in Intents, SubmitStep(i)
      PROVE  \/ UNCHANGED ledgerVars
             \/ /\ submit[i] = "lock"
                /\ submit' = [submit EXCEPT ![i] = "ref"]
                /\ CanLock(portfolio[AccountOf[i]], Amount[i])
                /\ LockFor(i)
  BY <1>1 DEF SubmitStep, Verify, Seal, LockBalance, LockBalanceFails,
              CreateRef, CreateRefFails, Enqueue
<1>2. ASSUME NEW i \in Intents, CallStep(i) \/ CancelIntent(i)
      PROVE  UNCHANGED ledgerVars \/ (ReleaseFor(i) /\ UNCHANGED submit)
  BY <1>2 DEF CallStep, ReleaseBalance, DeleteRef, CancelDelete, CancelIntent
<1>3. ASSUME NEW s \in Sweeps, SweepStep(s)
      PROVE  \/ UNCHANGED ledgerVars
             \/ \E i \in Intents : ReleaseFor(i) /\ UNCHANGED submit
  BY <1>3 DEF SweepStep, SweepStart, SweepRelease, SweepDelete
<1>4. CASE UNCHANGED vars
  BY <1>4 DEF vars, ledgerVars
<1> QED
  BY <1>1, <1>2, <1>3, <1>4
     DEF Next, EvictExpired, RevokeAuthority, RevokeCascade, TtlPasses,
         RowPassesCutoff, Restart

LEMMA HeldStep ==
  ASSUME TypeOK, HeldAfterLock, [Next]_vars
  PROVE  HeldAfterLock'
<1>1. ASSUME NEW i \in Intents, SubmitStep(i) PROVE HeldAfterLock'
  BY <1>1 DEF TypeOK, HeldAfterLock, SubmitStep, Verify, Seal, LockBalance,
              LockBalanceFails, LockFor, CreateRef, CreateRefFails, Enqueue,
              ledgerVars
<1>2. ASSUME NEW i \in Intents, CallStep(i) \/ CancelIntent(i)
      PROVE HeldAfterLock'
  BY <1>2 DEF HeldAfterLock, CallStep, ReleaseBalance, ReleaseFor, DeleteRef,
              CancelDelete, CancelIntent, ledgerVars
<1>3. ASSUME NEW s \in Sweeps, SweepStep(s) PROVE HeldAfterLock'
  BY <1>3 DEF HeldAfterLock, SweepStep, SweepStart, SweepRelease, ReleaseFor,
              SweepDelete, ledgerVars
<1>4. CASE Restart
  BY <1>4 DEF TypeOK, HeldAfterLock, Restart, ledgerVars
<1>5. CASE UNCHANGED vars
  BY <1>5 DEF HeldAfterLock, vars
<1> QED
  BY <1>1, <1>2, <1>3, <1>4, <1>5
     DEF Next, HeldAfterLock, EvictExpired, RevokeAuthority, RevokeCascade,
         TtlPasses, RowPassesCutoff, SyncPortfolio, ledgerVars

LEMMA ReservedType ==
  ASSUME LedgerInv, NEW a \in Accounts
  PROVE  Reserved(a) \in Nat
BY FS_CardinalityType DEF LedgerInv, Reserved

LEMMA LedgerStep ==
  ASSUME TypeOK, LedgerInv, [Next]_vars
  PROVE  LedgerInv'
<1>0. HeldAfterLock'
  BY HeldStep DEF LedgerInv
<1>1. CASE UNCHANGED ledgerVars
  BY <1>0, <1>1 DEF LedgerInv, NoPhantomLock, Reserved, ledgerVars
<1>2. ASSUME NEW i \in Intents, submit[i] = "lock",
             CanLock(portfolio[AccountOf[i]], Amount[i]), LockFor(i)
      PROVE  LedgerInv'
  <2>1. i \notin holding
    BY <1>2 DEF LedgerInv, HeldAfterLock
  <2>2. SUFFICES ASSUME NEW a \in Accounts
                 PROVE  /\ IsFiniteSet(UnitsHeld(a, holding'))
                        /\ portfolio'[a].locked <=
                             Cardinality(UnitsHeld(a, holding'))
    BY <1>0 DEF LedgerInv, NoPhantomLock, Reserved
  <2>3. /\ IsFiniteSet(UnitsHeld(a, holding \cup {i}))
        /\ Cardinality(UnitsHeld(a, holding \cup {i})) =
             IF AccountOf[i] = a
             THEN Cardinality(UnitsHeld(a, holding)) + Amount[i]
             ELSE Cardinality(UnitsHeld(a, holding))
    BY <2>1, HoldAdds DEF LedgerInv
  <2>4. /\ portfolio'[a].locked =
             IF AccountOf[i] = a THEN portfolio[a].locked + Amount[i]
                                 ELSE portfolio[a].locked
        /\ holding' = holding \cup {i}
    BY <1>2, LockForEffect
  <2>5. portfolio[a].locked <= Cardinality(UnitsHeld(a, holding))
    BY DEF LedgerInv, NoPhantomLock, Reserved
  <2>6. /\ portfolio[a].locked \in Nat /\ Amount[i] \in Nat
        /\ Cardinality(UnitsHeld(a, holding)) \in Nat
    BY ReservedType, AmountAssumption DEF TypeOK, PortfolioRow, Reserved
  <2> QED BY <2>3, <2>4, <2>5, <2>6
<1>3. ASSUME NEW i \in Intents, ReleaseFor(i)
      PROVE  LedgerInv'
  <2>1. SUFFICES ASSUME NEW a \in Accounts
                 PROVE  /\ IsFiniteSet(UnitsHeld(a, holding'))
                        /\ portfolio'[a].locked <=
                             Cardinality(UnitsHeld(a, holding'))
    BY <1>0 DEF LedgerInv, NoPhantomLock, Reserved
  <2>2. /\ IsFiniteSet(UnitsHeld(a, holding \ {i}))
        /\ i \in holding /\ AccountOf[i] = a =>
             /\ Cardinality(UnitsHeld(a, holding)) >= Amount[i]
             /\ Cardinality(UnitsHeld(a, holding \ {i})) =
                  Cardinality(UnitsHeld(a, holding)) - Amount[i]
        /\ ~(i \in holding /\ AccountOf[i] = a) =>
             UnitsHeld(a, holding \ {i}) = UnitsHeld(a, holding)
    BY UnholdSubtracts DEF LedgerInv
  <2>3. /\ portfolio'[a].locked =
             IF AccountOf[i] # a THEN portfolio[a].locked
             ELSE IF portfolio[a].locked >= Amount[i]
                  THEN portfolio[a].locked - Amount[i] ELSE 0
        /\ holding' = holding \ {i}
    BY <1>3, ReleaseForEffect
  <2>4. portfolio[a].locked <= Cardinality(UnitsHeld(a, holding))
    BY DEF LedgerInv, NoPhantomLock, Reserved
  <2>5. /\ portfolio[a].locked \in Nat /\ Amount[i] \in Nat
        /\ Cardinality(UnitsHeld(a, holding)) \in Nat
    BY ReservedType, AmountAssumption DEF TypeOK, PortfolioRow, Reserved
  <2>6. CASE i \in holding /\ AccountOf[i] = a
    BY <2>2, <2>3, <2>4, <2>5, <2>6
  <2>7. CASE ~(i \in holding /\ AccountOf[i] = a)
    <3>1. Cardinality(UnitsHeld(a, holding')) = Cardinality(UnitsHeld(a, holding))
      BY <2>2, <2>3, <2>7
    <3> QED BY <2>2, <2>3, <2>4, <2>5, <3>1
  <2> QED BY <2>6, <2>7
<1>4. ASSUME NEW a \in Accounts, NEW b \in SyncBalances, SyncPortfolio(a, b)
      PROVE  LedgerInv'
  <2>1. /\ holding' = holding
        /\ portfolio' = [portfolio EXCEPT ![a] = SyncRow(@, b)]
    BY <1>4 DEF SyncPortfolio
  <2>2. SyncRow(portfolio[a], b).locked <= portfolio[a].locked
    BY SyncRowOK, DepositAssumption DEF TypeOK
  <2>3. SyncRow(portfolio[a], b).locked \in Nat
    BY SyncRowOK, DepositAssumption DEF TypeOK, RowOK, PortfolioRow
  <2>4. \A c \in Accounts : /\ portfolio[c].locked \in Nat
                            /\ Reserved(c) \in Nat
                            /\ portfolio[c].locked <= Reserved(c)
    BY ReservedType DEF TypeOK, PortfolioRow, LedgerInv, NoPhantomLock
  <2>5. \A c \in Accounts : portfolio'[c].locked <= portfolio[c].locked
    BY <2>1, <2>2, <2>4 DEF TypeOK
  <2>6. \A c \in Accounts : portfolio'[c].locked \in Nat
    BY <2>1, <2>3, <2>4 DEF TypeOK
  <2>7. \A c \in Accounts : portfolio'[c].locked <= Reserved(c)
    BY <2>4, <2>5, <2>6
  <2> QED
    BY <1>0, <2>1, <2>7 DEF LedgerInv, NoPhantomLock, Reserved
<1> QED
  BY <1>1, <1>2, <1>3, <1>4, LedgerSteps

LEMMA LedgerInit == Init => LedgerInv
<1> SUFFICES ASSUME Init PROVE LedgerInv
  OBVIOUS
<1>1. \A a \in Accounts : UnitsHeld(a, holding) = {}
  BY DEF Init, UnitsHeld
<1>2. IsFiniteSet({}) /\ Cardinality({}) = 0
  BY FS_EmptySet
<1>3. \A a \in Accounts : portfolio[a].locked = 0
  BY DEF Init
<1>4. NoPhantomLock
  BY <1>1, <1>2, <1>3 DEF NoPhantomLock, Reserved
<1>5. HeldAfterLock
  BY DEF Init, HeldAfterLock
<1> QED
  BY <1>1, <1>2, <1>4, <1>5 DEF LedgerInv

\* Whatever fails, restarts or is released twice, the amount locked on an
\* account never exceeds the reservations that no release has run for.
THEOREM PhantomFree == Spec => []NoPhantomLock
<1>1. Init => TypeOK /\ LedgerInv
  BY TypeInit, LedgerInit
<1>2. TypeOK /\ LedgerInv /\ [Next]_vars => TypeOK' /\ LedgerInv'
  BY TypeStep, LedgerStep
<1>3. LedgerInv => NoPhantomLock
  BY DEF LedgerInv
<1> QED BY <1>1, <1>2, <1>3, PTL DEF Spec

-----------------------------------------------------------------------------
(* No stranded reservation.                                                *)

\* What the orchestrator has left to do for a held reservation ends in a
\* release: deletes and cancels alone would not do.
OwedRelease(i) == submit[i] \in {"ref", "enqueue"} \/ i \in pending \cup releases

OwedInv == faults = 0 /\ restarts = 0 => \A i \in holding : OwedRelease(i)

LEMMA OwedStep ==
  ASSUME TypeOK, OwedInv, [Next]_vars
  PROVE  OwedInv'
<1>1. ASSUME NEW i \in Intents, SubmitStep(i) PROVE OwedInv'
  <2>1. CASE LockBalance(i)
    BY <2>1 DEF TypeOK, OwedInv, OwedRelease, LockBalance, LockFor, ledgerVars,
                queueVars, budgetVars
  <2>2. CASE LockBalanceFails(i) \/ CreateRefFails(i)
    BY <2>2 DEF TypeOK, OwedInv, LockBalanceFails, CreateRefFails, Fault
  <2>3. CASE Enqueue(i)
    BY <2>3 DEF TypeOK, OwedInv, OwedRelease, Enqueue, Drop, ledgerVars,
                budgetVars
  <2>4. CASE Verify(i) \/ Seal(i) \/ CreateRef(i)
    BY <2>4 DEF TypeOK, OwedInv, OwedRelease, Verify, Seal, CreateRef,
                ledgerVars, queueVars, budgetVars
  <2> QED BY <1>1, <2>1, <2>2, <2>3, <2>4 DEF SubmitStep
<1>2. ASSUME NEW i \in Intents, CallStep(i) PROVE OwedInv'
  <2>1. CASE ReleaseBalance(i)
    BY <2>1 DEF TypeOK, OwedInv, OwedRelease, ReleaseBalance, ReleaseFor, Fault,
                ledgerVars, budgetVars
  <2>2. CASE DeleteRef(i) \/ CancelDelete(i)
    BY <2>2 DEF TypeOK, OwedInv, OwedRelease, DeleteRef, CancelDelete, Fault,
                ledgerVars, queueVars, budgetVars
  <2> QED BY <1>2, <2>1, <2>2 DEF CallStep
<1>3. ASSUME NEW i \in Intents, CancelIntent(i) PROVE OwedInv'
  BY <1>3 DEF OwedInv, OwedRelease, CancelIntent, Drop, ledgerVars, budgetVars
<1>4. CASE EvictExpired
  BY <1>4 DEF TypeOK, OwedInv, OwedRelease, EvictExpired, Drop, ledgerVars,
              budgetVars
<1>5. ASSUME NEW g \in Agents, RevokeAuthority(g) \/ RevokeCascade(g)
      PROVE OwedInv'
  BY <1>5 DEF TypeOK, OwedInv, OwedRelease, RevokeAuthority, RevokeCascade,
              Drop, ledgerVars, queueVars, budgetVars
<1>6. ASSUME NEW s \in Sweeps, SweepStep(s) PROVE OwedInv'
  BY <1>6 DEF TypeOK, OwedInv, OwedRelease, SweepStep, SweepStart, SweepRelease,
              SweepDelete, ReleaseFor, Fault, ledgerVars, queueVars, budgetVars
<1>7. ASSUME NEW i \in Intents, TtlPasses(i) \/ RowPassesCutoff(i)
      PROVE OwedInv'
  BY <1>7 DEF OwedInv, OwedRelease, TtlPasses, RowPassesCutoff, ledgerVars,
              queueVars, budgetVars
<1>8. CASE Restart
  BY <1>8 DEF TypeOK, OwedInv, Restart
<1>9. ASSUME NEW a \in Accounts, NEW b \in SyncBalances, SyncPortfolio(a, b)
      PROVE OwedInv'
  BY <1>9 DEF OwedInv, OwedRelease, SyncPortfolio, queueVars
<1>10. CASE UNCHANGED vars
  BY <1>10 DEF OwedInv, OwedRelease, vars
<1> QED
  BY <1>1, <1>2, <1>3, <1>4, <1>5, <1>6, <1>7, <1>8, <1>9, <1>10 DEF Next

\* While no call fails and the process stays up, every reservation held is one
\* the orchestrator still has to deal with, however the janitor interferes.
THEOREM StrandedFree == Spec => []NoneStranded
<1>1. Init => TypeOK /\ OwedInv
  BY TypeInit DEF Init, OwedInv
<1>2. TypeOK /\ OwedInv /\ [Next]_vars => TypeOK' /\ OwedInv'
  BY TypeStep, OwedStep
<1>3. OwedInv => NoneStranded
  BY DEF OwedInv, OwedRelease, NoneStranded, InOrchestrator
<1> QED BY <1>1, <1>2, <1>3, PTL DEF Spec

-----------------------------------------------------------------------------
(* Exact accounting.                                                       *)

\* While all is calm: the janitor finds no row, what is queued or about to be
\* released is held and accepted, nothing is both, and every row has an owner
\* that will delete it.
CalmInv ==
  Calm =>
    /\ \A s \in Sweeps : sweep[s].todo = {} /\ sweep[s].released = {}
    /\ \A i \in pending \cup releases : i \in holding /\ submit[i] = "accepted"
    /\ pending \cap releases = {}
    /\ \A i \in Intents : submit[i] \in {"ref", "enqueue"} => i \in holding
    /\ \A i \in lockRefs : submit[i] = "enqueue" \/ i \in pending \cup deletes

\* The fault, restart and sync counters never go back to zero, and a row that
\* has passed its cutoff stays past it.
LEMMA CalmBefore ==
  ASSUME TypeOK, [Next]_vars, Calm'
  PROVE  Calm
<1> USE DEF TypeOK, Calm, budgetVars, clockVars, Fault
<1>1. ASSUME NEW i \in Intents, SubmitStep(i) PROVE Calm
  BY <1>1 DEF SubmitStep, Verify, Seal, LockBalance, LockBalanceFails,
              CreateRef, CreateRefFails, Enqueue
<1>2. ASSUME NEW i \in Intents, CallStep(i) \/ CancelIntent(i) PROVE Calm
  BY <1>2 DEF CallStep, ReleaseBalance, DeleteRef, CancelDelete, CancelIntent
<1>3. ASSUME NEW s \in Sweeps, SweepStep(s) PROVE Calm
  <2>1. CASE SweepStart(s)
    BY <2>1 DEF SweepStart
  <2>2. ASSUME NEW i \in Intents, SweepRelease(s, i) PROVE Calm
    BY <2>2 DEF SweepRelease
  <2>3. ASSUME NEW i \in Intents, SweepDelete(s, i) PROVE Calm
    BY <2>3 DEF SweepDelete
  <2> QED BY <1>3, <2>1, <2>2, <2>3 DEF SweepStep
<1>4. ASSUME NEW a \in Accounts, NEW b \in SyncBalances, SyncPortfolio(a, b)
      PROVE Calm
  BY <1>4 DEF SyncPortfolio
<1>5. CASE EvictExpired \/ Restart \/ UNCHANGED vars
  BY <1>5 DEF EvictExpired, Restart, vars
<1>6. ASSUME NEW g \in Agents, RevokeAuthority(g) \/ RevokeCascade(g) PROVE Calm
  BY <1>6 DEF RevokeAuthority, RevokeCascade
<1>7. ASSUME NEW i \in Intents, TtlPasses(i) \/ RowPassesCutoff(i) PROVE Calm
  BY <1>7 DEF TtlPasses, RowPassesCutoff
<1> QED BY <1>1, <1>2, <1>3, <1>4, <1>5, <1>6, <1>7 DEF Next

LEMMA CalmStep ==
  ASSUME TypeOK, LedgerInv, CalmInv, [Next]_vars
  PROVE  CalmInv'
<1> SUFFICES ASSUME Calm' PROVE CalmInv'
  BY DEF CalmInv
<1>0. Calm
  BY CalmBefore
<1> USE <1>0 DEF CalmInv
<1>1. ASSUME NEW i \in Intents, SubmitStep(i) PROVE CalmInv'
  <2>1. CASE LockBalance(i)
    BY <2>1 DEF TypeOK, LedgerInv, HeldAfterLock, LockBalance, LockFor,
                ledgerVars, queueVars, clockVars
  <2>2. CASE LockBalanceFails(i) \/ CreateRefFails(i)
    BY <2>2 DEF TypeOK, Calm, LockBalanceFails, CreateRefFails, Fault
  <2>3. CASE Enqueue(i)
    BY <2>3 DEF TypeOK, Enqueue, Drop, ledgerVars, clockVars
  <2>4. CASE Verify(i) \/ Seal(i)
    BY <2>4 DEF TypeOK, Verify, Seal, ledgerVars, queueVars, clockVars
  <2>5. CASE CreateRef(i)
    BY <2>5 DEF TypeOK, CreateRef, ledgerVars, queueVars, clockVars
  <2> QED BY <1>1, <2>1, <2>2, <2>3, <2>4, <2>5 DEF SubmitStep
<1>2. ASSUME NEW i \in Intents, CallStep(i) PROVE CalmInv'
  <2>1. CASE ReleaseBalance(i)
    BY <2>1 DEF TypeOK, Calm, ReleaseBalance, ReleaseFor, Fault, clockVars
  <2>2. CASE DeleteRef(i)
    BY <2>2 DEF TypeOK, Calm, DeleteRef, Fault, ledgerVars, clockVars
  <2>3. CASE CancelDelete(i)
    BY <2>3 DEF TypeOK, Calm, CancelDelete, Fault, ledgerVars, queueVars,
                clockVars
  <2> QED BY <1>2, <2>1, <2>2, <2>3 DEF CallStep
<1>3. ASSUME NEW i \in Intents, CancelIntent(i) PROVE CalmInv'
  BY <1>3 DEF TypeOK, CancelIntent, Drop, ledgerVars, clockVars
<1>4. CASE EvictExpired
  BY <1>4 DEF TypeOK, EvictExpired, Drop, ledgerVars, clockVars
<1>5. ASSUME NEW g \in Agents, RevokeAuthority(g) PROVE CalmInv'
  BY <1>5 DEF RevokeAuthority, ledgerVars, queueVars, clockVars
<1>6. ASSUME NEW g \in Agents, RevokeCascade(g) PROVE CalmInv'
  BY <1>6 DEF TypeOK, RevokeCascade, Drop, ledgerVars, clockVars
<1>7. ASSUME NEW s \in Sweeps, SweepStep(s) PROVE FALSE
  BY <1>7 DEF Calm, SweepStep, SweepStart, SweepRelease, SweepDelete
<1>8. ASSUME NEW i \in Intents, TtlPasses(i) PROVE CalmInv'
  BY <1>8 DEF TtlPasses, ledgerVars, queueVars
<1>9. ASSUME NEW i \in Intents, RowPassesCutoff(i) PROVE FALSE
  BY <1>9 DEF Calm, RowPassesCutoff
<1>10. CASE Restart
  BY <1>10 DEF TypeOK, Calm, Restart
<1>11. ASSUME NEW a \in Accounts, NEW b \in SyncBalances, SyncPortfolio(a, b)
       PROVE CalmInv'
  BY <1>11 DEF TypeOK, Calm, SyncPortfolio
<1>12. CASE UNCHANGED vars
  BY <1>12 DEF vars
<1> QED
  BY <1>1, <1>2, <1>3, <1>4, <1>5, <1>6, <1>7, <1>8, <1>9, <1>10, <1>11, <1>12
     DEF Next

\* What a calm step does to the ledger: the only release is of a reservation
\* that is held.
LEMMA CalmLedgerSteps ==
  ASSUME TypeOK, CalmInv, Calm, Calm', [Next]_vars
  PROVE  \/ UNCHANGED ledgerVars
         \/ \E i \in Intents : /\ submit[i] = "lock"
                               /\ CanLock(portfolio[AccountOf[i]], Amount[i])
                               /\ LockFor(i)
         \/ \E i \in Intents : i \in holding /\ ReleaseFor(i)
<1>1. ASSUME NEW i \in Intents, SubmitStep(i)
      PROVE  \/ UNCHANGED ledgerVars
             \/ /\ submit[i] = "lock"
                /\ CanLock(portfolio[AccountOf[i]], Amount[i])
                /\ LockFor(i)
  BY <1>1 DEF SubmitStep, Verify, Seal, LockBalance, LockBalanceFails,
              CreateRef, CreateRefFails, Enqueue
<1>2. ASSUME NEW i \in Intents, CallStep(i) \/ CancelIntent(i)
      PROVE  UNCHANGED ledgerVars \/ (i \in holding /\ ReleaseFor(i))
  BY <1>2 DEF CalmInv, CallStep, ReleaseBalance, DeleteRef, CancelDelete,
              CancelIntent
<1>3. ASSUME NEW s \in Sweeps, SweepStep(s)
      PROVE  UNCHANGED ledgerVars
  BY <1>3 DEF CalmInv, SweepStep, SweepStart, SweepRelease, SweepDelete
<1>4. ASSUME NEW a \in Accounts, NEW b \in SyncBalances, SyncPortfolio(a, b)
      PROVE  FALSE
  BY <1>4 DEF TypeOK, Calm, SyncPortfolio
<1>5. CASE UNCHANGED vars
  BY <1>5 DEF vars, ledgerVars
<1> QED
  BY <1>1, <1>2, <1>3, <1>4, <1>5
     DEF Next, EvictExpired, RevokeAuthority, RevokeCascade, TtlPasses,
         RowPassesCutoff, Restart

LEMMA ExactStep ==
  ASSUME TypeOK, LedgerInv, CalmInv, LockedIsReserved, [Next]_vars
  PROVE  LockedIsReserved'
<1> SUFFICES ASSUME Calm', NEW a \in Accounts
             PROVE  portfolio'[a].locked = Cardinality(UnitsHeld(a, holding'))
  BY DEF LockedIsReserved, Reserved
<1>1. Calm
  BY CalmBefore
<1>2. /\ portfolio[a].locked = Cardinality(UnitsHeld(a, holding))
      /\ portfolio[a].locked \in Nat
      /\ IsFiniteSet(UnitsHeld(a, holding))
  BY <1>1 DEF LockedIsReserved, Reserved, TypeOK, PortfolioRow, LedgerInv
<1>3. CASE UNCHANGED ledgerVars
  BY <1>2, <1>3 DEF ledgerVars
<1>4. ASSUME NEW i \in Intents, submit[i] = "lock",
             CanLock(portfolio[AccountOf[i]], Amount[i]), LockFor(i)
      PROVE  portfolio'[a].locked = Cardinality(UnitsHeld(a, holding'))
  <2>1. i \notin holding
    BY <1>4 DEF LedgerInv, HeldAfterLock
  <2>2. Cardinality(UnitsHeld(a, holding \cup {i})) =
          IF AccountOf[i] = a
          THEN Cardinality(UnitsHeld(a, holding)) + Amount[i]
          ELSE Cardinality(UnitsHeld(a, holding))
    BY <1>2, <2>1, HoldAdds
  <2>3. /\ portfolio'[a].locked =
             IF AccountOf[i] = a THEN portfolio[a].locked + Amount[i]
                                 ELSE portfolio[a].locked
        /\ holding' = holding \cup {i}
    BY <1>4, LockForEffect
  <2> QED
    BY <1>2, <2>2, <2>3
<1>5. ASSUME NEW i \in Intents, i \in holding, ReleaseFor(i)
      PROVE  portfolio'[a].locked = Cardinality(UnitsHeld(a, holding'))
  <2>1. /\ AccountOf[i] = a =>
             /\ Cardinality(UnitsHeld(a, holding)) >= Amount[i]
             /\ Cardinality(UnitsHeld(a, holding \ {i})) =
                  Cardinality(UnitsHeld(a, holding)) - Amount[i]
        /\ AccountOf[i] # a => UnitsHeld(a, holding \ {i}) = UnitsHeld(a, holding)
    BY <1>2, <1>5, UnholdSubtracts
  <2>2. /\ portfolio'[a].locked =
             IF AccountOf[i] # a THEN portfolio[a].locked
             ELSE IF portfolio[a].locked >= Amount[i]
                  THEN portfolio[a].locked - Amount[i] ELSE 0
        /\ holding' = holding \ {i}
    BY <1>5, ReleaseForEffect
  <2>3. CASE AccountOf[i] = a
    BY <1>2, <2>1, <2>2, <2>3
  <2>4. CASE AccountOf[i] # a
    BY <1>2, <2>1, <2>2, <2>4
  <2> QED BY <2>3, <2>4
<1> QED
  BY <1>1, <1>3, <1>4, <1>5, CalmLedgerSteps

\* While no call fails, the process stays up, no snapshot is imported and the
\* orchestrator evicts before the janitor looks, the amount locked is exactly
\* the sum of the reservations held.
THEOREM ExactAccounting == Spec => []LockedIsReserved
<1>1. Init => TypeOK /\ LedgerInv /\ CalmInv /\ LockedIsReserved
  <2> SUFFICES ASSUME Init
               PROVE  TypeOK /\ LedgerInv /\ CalmInv /\ LockedIsReserved
    OBVIOUS
  <2>1. CalmInv
    BY DEF Init, CalmInv, IdleSweep
  <2>2. \A a \in Accounts : UnitsHeld(a, holding) = {}
    BY DEF Init, UnitsHeld
  <2>3. \A a \in Accounts : portfolio[a].locked = 0
    BY DEF Init
  <2>4. LockedIsReserved
    BY <2>2, <2>3, FS_EmptySet DEF LockedIsReserved, Reserved
  <2> QED BY <2>1, <2>4, TypeInit, LedgerInit
<1>2. TypeOK /\ LedgerInv /\ CalmInv /\ LockedIsReserved /\ [Next]_vars
        => TypeOK' /\ LedgerInv' /\ CalmInv' /\ LockedIsReserved'
  BY TypeStep, LedgerStep, CalmStep, ExactStep
<1> QED BY <1>1, <1>2, PTL DEF Spec
=============================================================================
