-------------------------- MODULE SettlementProofs --------------------------
(* Type correctness of Settlement, and what it promises while no call      *)
(* fails, for any set of outcomes and sweeps.                              *)
EXTENDS Settlement, FiniteSetTheorems, TLAPS

\* What the calls in progress know while nothing fails: no transaction before
\* the broadcast or after a refused one, a row only where the call returned,
\* no reversal but of a call whose persist was refused.
PhaseInv ==
  Calm => \A o \in Outcomes :
    /\ call[o] \in {"idle", "build", "dispatch", "failed"} =>
         settleTx[o] = "none"
    /\ o \in rows => call[o] = "settled"
    /\ call[o] \notin {"undo", "reversed", "uncompensated"} =>
         reverseTx[o] = "none"
    /\ call[o] # "lost"

\* Every call that answered "settled" has its row.
AnswerInv == \A o \in Outcomes : call[o] = "settled" => o \in rows

SettleInv == TypeOK /\ PhaseInv /\ AnswerInv

\* The settled_at ranks are naturals: Outcomes is finite (Settlement's
\* executeSettlement).
LEMMA RankIsNat ==
  \A S \in SUBSET Outcomes : Cardinality(S) \in Nat
  BY SettlementAssumption, FS_Subset, FS_CardinalityType

-----------------------------------------------------------------------------
(* Type correctness.                                                       *)

LEMMA TypeInit == Init => TypeOK
  BY SettlementAssumption
     DEF Init, TypeOK, CallStates, TxStates, Views, IdleSweep

LEMMA FaultType ==
  ASSUME TypeOK, Fault
  PROVE  faults' \in 0 .. MaxFaults
  BY SettlementAssumption DEF TypeOK, Fault

\* The steps of a call keep the types.
LEMMA CallType ==
  ASSUME TypeOK, NEW o \in Outcomes, ExecuteSettlement(o) \/ CallStep(o)
  PROVE  TypeOK'
  <1> USE DEF TypeOK, Goto, CallStates, Running, TxStates, chainVars, tableVars,
              sweepVars
  <1>1. CASE ExecuteSettlement(o)
    <2>1. Cardinality({p \in Outcomes : call[p] # "idle"}) \in Nat
      BY RankIsNat
    <2>2. QED  BY <1>1, <2>1 DEF ExecuteSettlement
  <1>2. CASE BuildCommand(o)
    BY <1>2 DEF BuildCommand
  <1>3. CASE Dispatch(o)
    BY <1>3 DEF Dispatch
  <1>4. CASE DispatchFails(o)
    BY <1>4, FaultType DEF DispatchFails
  <1>5. CASE Confirm(o)
    BY <1>5, FaultType DEF Confirm
  <1>6. CASE Persist(o)
    BY <1>6 DEF Persist
  <1>7. CASE PersistFails(o)
    BY <1>7, FaultType DEF PersistFails
  <1>8. CASE Reverse(o)
    BY <1>8 DEF Reverse
  <1>9. CASE ReverseFails(o)
    BY <1>9, FaultType DEF ReverseFails
  <1>10. CASE ConfirmReverse(o)
    BY <1>10, FaultType DEF ConfirmReverse
  <1>11. QED
    BY <1>1, <1>2, <1>3, <1>4, <1>5, <1>6, <1>7, <1>8, <1>9, <1>10 DEF CallStep

\* The steps of a sweep keep the types: it only ever holds rows.
LEMMA SweepType ==
  ASSUME TypeOK, NEW s \in Sweeps, SweepStep(s)
  PROVE  TypeOK'
  <1> USE DEF TypeOK, chainVars, tableVars, Views, IdleSweep
  <1>1. CASE SweepStart(s)
    BY <1>1 DEF SweepStart, Unreconciled
  <1>2. CASE Status(s)
    <2>1. \A o \in Outcomes : StatusOf(o) \in Views
      BY DEF StatusOf
    <2>2. QED  BY <1>2, <2>1, FaultType DEF Status
  <1>3. CASE MarkReconciled(s)
    BY <1>3 DEF MarkReconciled, IsOldest
  <1>4. CASE MarkFails(s)
    BY <1>4, FaultType DEF MarkFails, IsOldest
  <1>5. QED  BY <1>1, <1>2, <1>3, <1>4 DEF SweepStep

LEMMA TypeNext ==
  ASSUME TypeOK, [Next]_vars
  PROVE  TypeOK'
  <1>1. CASE \E o \in Outcomes : ExecuteSettlement(o) \/ CallStep(o)
    BY <1>1, CallType
  <1>2. CASE \E o \in Outcomes : ChainStep(o)
    BY <1>2 DEF ChainStep, SettleOnChain, ReverseOnChain, TypeOK, TxStates,
                tableVars, sweepVars
  <1>3. CASE \E s \in Sweeps : SweepStep(s)
    BY <1>3, SweepType
  <1>4. CASE Restart
    <2>1. \A s \in Sweeps : sweep[s].todo \subseteq rows
      BY DEF TypeOK
    <2>2. reconciled' \subseteq rows
      BY <1>4, <2>1 DEF Restart, IsOldest, TypeOK
    <2>3. call' \in [Outcomes -> CallStates]
      BY <1>4 DEF Restart, TypeOK, CallStates
    <2>4. QED
      BY <1>4, <2>2, <2>3, FaultType
         DEF Restart, TypeOK, Views, IdleSweep, chainVars
  <1>5. CASE UNCHANGED vars
    BY <1>5 DEF TypeOK, vars
  <1>6. QED  BY <1>1, <1>2, <1>3, <1>4, <1>5 DEF Next

\* Type correctness: whatever fails, only recorded trades are reconciled,
\* reported or swept.
THEOREM TypeCorrect == Spec => []TypeOK
  <1>1. TypeOK /\ [Next]_vars => TypeOK'
    BY TypeNext
  <1>2. QED  BY TypeInit, <1>1, PTL DEF Spec

-----------------------------------------------------------------------------
(* The phases of a call.                                                   *)

LEMMA PhaseInit == Init => PhaseInv /\ AnswerInv
  BY DEF Init, PhaseInv, AnswerInv

\* A failed call or a restart ends the calm, and nothing brings it back.
LEMMA CalmOver ==
  ASSUME TypeOK
  PROVE  /\ Fault => ~Calm'
         /\ faults' = faults => (Calm' => Calm)
  BY SettlementAssumption DEF TypeOK, Fault, Calm

\* One call's step disturbs only its own outcome.
LEMMA CallPhase ==
  ASSUME TypeOK, PhaseInv, AnswerInv,
         NEW o \in Outcomes, ExecuteSettlement(o) \/ CallStep(o)
  PROVE  PhaseInv' /\ AnswerInv'
  <1> USE CalmOver DEF TypeOK, PhaseInv, AnswerInv, Goto, Running, CallStates,
                       TxStates, chainVars, tableVars
  <1>1. CASE ExecuteSettlement(o)
    BY <1>1 DEF ExecuteSettlement
  <1>2. CASE BuildCommand(o)
    BY <1>2 DEF BuildCommand
  <1>3. CASE Dispatch(o)
    BY <1>3 DEF Dispatch
  <1>4. CASE DispatchFails(o)
    BY <1>4 DEF DispatchFails
  <1>5. CASE Confirm(o)
    BY <1>5 DEF Confirm
  <1>6. CASE Persist(o)
    BY <1>6 DEF Persist
  <1>7. CASE PersistFails(o)
    BY <1>7 DEF PersistFails
  <1>8. CASE Reverse(o)
    BY <1>8 DEF Reverse
  <1>9. CASE ReverseFails(o)
    BY <1>9 DEF ReverseFails
  <1>10. CASE ConfirmReverse(o)
    BY <1>10 DEF ConfirmReverse
  <1>11. QED
    BY <1>1, <1>2, <1>3, <1>4, <1>5, <1>6, <1>7, <1>8, <1>9, <1>10 DEF CallStep

LEMMA PhaseNext ==
  ASSUME TypeOK, PhaseInv, AnswerInv, [Next]_vars
  PROVE  PhaseInv' /\ AnswerInv'
  <1> USE CalmOver DEF PhaseInv, AnswerInv
  <1>1. CASE \E o \in Outcomes : ExecuteSettlement(o) \/ CallStep(o)
    BY <1>1, CallPhase
  <1>2. CASE \E o \in Outcomes : ChainStep(o)
    BY <1>2 DEF ChainStep, SettleOnChain, ReverseOnChain, TypeOK, tableVars
  <1>3. CASE \E s \in Sweeps : SweepStep(s)
    <2>1. UNCHANGED <<call, chainVars, rows>> /\ (Calm' => Calm)
      BY <1>3 DEF SweepStep, SweepStart, Status, MarkReconciled, MarkFails,
                  tableVars
    <2>2. QED  BY <2>1 DEF chainVars
  <1>4. CASE Restart
    BY <1>4 DEF Restart, Running
  <1>5. CASE UNCHANGED vars
    BY <1>5 DEF vars, Calm
  <1>6. QED  BY <1>1, <1>2, <1>3, <1>4, <1>5 DEF Next

LEMMA Invariant == Spec => []SettleInv
  <1>1. Init => SettleInv
    BY TypeInit, PhaseInit DEF SettleInv
  <1>2. SettleInv /\ [Next]_vars => SettleInv'
    BY TypeNext, PhaseNext DEF SettleInv
  <1>3. QED  BY <1>1, <1>2, PTL DEF Spec

\* No silent move: while no call fails, assets moved on chain belong to a
\* recorded trade, to a call in progress, or to one that broadcast or logged
\* its reversal (executeSettlement's catch).
THEOREM NeverSilent == Spec => []NoSilentMove
  <1>1. SettleInv => NoSilentMove
    BY DEF SettleInv, PhaseInv, AnswerInv, TypeOK, NoSilentMove, Moved,
           CallStates
  <1>2. QED  BY Invariant, <1>1, PTL

\* A recorded trade is not reversed while no answer is lost, and a call that
\* answered "settled" has its row (the order of persist and compensation).
THEOREM NeverReversed == Spec => []RecordedNotReversed
  <1>1. SettleInv => RecordedNotReversed
    BY DEF SettleInv, PhaseInv, AnswerInv, TypeOK, RecordedNotReversed
  <1>2. QED  BY Invariant, <1>1, PTL
=============================================================================
