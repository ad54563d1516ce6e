----------------------------- MODULE Settlement -----------------------------
(***************************************************************************)
(* SettlementService.executeSettlement with the Sepolia rail, and the      *)
(* reconciler that compares the trades it records with the chain.          *)
(*                                                                         *)
(* A settlement moves assets twice: on chain, by a transaction that the    *)
(* rail broadcasts and waits for, and in the database, by one RPC that     *)
(* records the trade and updates the portfolios.  Nothing spans the two.   *)
(* When the RPC fails the rail is asked to reverse.  An outcome is settled *)
(* by one call: the orchestrators mint a fresh outcome for every attempt.  *)
(***************************************************************************)
EXTENDS Naturals, FiniteSets

CONSTANTS
  Outcomes,    \* outcome refs, one call of executeSettlement each
  Sweeps,      \* runs of the reconciler that may overlap
  BatchSize,   \* rows a sweep reads
  MaxFaults    \* bound on failed calls and restarts

ASSUME SettlementAssumption ==
  /\ IsFiniteSet(Outcomes)
  /\ BatchSize \in Nat \ {0}
  /\ MaxFaults \in Nat

VARIABLES
  call,          \* where the outcome's call is
  settledAt,     \* the outcome's settled_at, the rank of its call's start
  settleTx,      \* the outcome's settle transaction
  reverseTx,     \* the outcome's reverse transaction
  reverseCache,  \* outcomes whose settle transaction the rail remembers
  rows,          \* outcomes with a row in completed_trades
  reconciled,    \* rows with reconciled_at
  drift,         \* outcomes rail_drift_detected was published for
  sweep,         \* the rows a sweep has left and the rail's view of the first
  faults         \* failed calls and restarts so far

vars == <<call, settledAt, settleTx, reverseTx, reverseCache, rows, reconciled,
          drift, sweep, faults>>

chainVars == <<settleTx, reverseTx>>
tableVars == <<rows, reconciled>>
sweepVars == <<sweep, drift>>

\* The next await of the call, or how it ended: "reversed" after the rail's
\* reversal, "uncompensated" when that was refused and logged, "failed" when
\* the call threw without a rail proof to reverse.
Running == {"build", "dispatch", "confirm", "persist", "reverse", "undo"}
CallStates == {"idle", "settled", "failed", "reversed", "uncompensated",
               "lost"} \cup Running

\* "dropped" is a transaction that left the mempool, "reverted" a mined one
\* whose transfers failed.
TxStates == {"none", "pending", "mined", "reverted", "dropped"}

Views == {"none", "settled", "missing", "reverted"}
IdleSweep == [todo |-> {}, view |-> "none"]

-----------------------------------------------------------------------------
Init ==
  /\ call = [o \in Outcomes |-> "idle"]
  /\ settledAt = [o \in Outcomes |-> 0]
  /\ settleTx = [o \in Outcomes |-> "none"]
  /\ reverseTx = [o \in Outcomes |-> "none"]
  /\ reverseCache = {}
  /\ rows = {}
  /\ reconciled = {}
  /\ drift = {}
  /\ sweep = [s \in Sweeps |-> IdleSweep]
  /\ faults = 0

Goto(o, pc) == call' = [call EXCEPT ![o] = pc]

Fault ==
  /\ faults < MaxFaults
  /\ faults' = faults + 1

-----------------------------------------------------------------------------
(* executeSettlement, one action per await.                                *)

ExecuteSettlement(o) ==
  /\ call[o] = "idle"
  /\ Goto(o, "build")
  /\ settledAt' = [settledAt EXCEPT
       ![o] = Cardinality({p \in Outcomes : call[p] # "idle"})]
  /\ UNCHANGED <<chainVars, reverseCache, tableVars, sweepVars, faults>>

\* The command builder, the profile and the rail's context: an expired
\* outcome, a revoked agent, a profile mismatch or a missing address throws.
BuildCommand(o) ==
  /\ call[o] = "build"
  /\ \E pc \in {"dispatch", "failed"} : Goto(o, pc)
  /\ UNCHANGED <<settledAt, chainVars, reverseCache, tableVars, sweepVars,
                 faults>>

\* signSettle broadcasts and the rail caches the transaction; or the node
\* refuses it, because its simulation reverts.
Dispatch(o) ==
  /\ call[o] = "dispatch"
  /\ \/ /\ settleTx' = [settleTx EXCEPT ![o] = "pending"]
        /\ reverseCache' = reverseCache \cup {o}
        /\ Goto(o, "confirm")
     \/ Goto(o, "failed") /\ UNCHANGED <<settleTx, reverseCache>>
  /\ UNCHANGED <<settledAt, reverseTx, tableVars, sweepVars, faults>>

\* The broadcast went out and its answer is lost.
DispatchFails(o) ==
  /\ call[o] = "dispatch"
  /\ Fault
  /\ settleTx' = [settleTx EXCEPT ![o] = "pending"]
  /\ Goto(o, "failed")
  /\ UNCHANGED <<settledAt, reverseTx, reverseCache, tableVars, sweepVars>>

\* waitForConfirmation: a receipt of any status ends it, and so does the
\* timeout; an error other than not-found throws, without a proof.
Confirm(o) ==
  /\ call[o] = "confirm"
  /\ \/ Goto(o, "persist") /\ UNCHANGED faults
     \/ Fault /\ Goto(o, "failed")
  /\ UNCHANGED <<settledAt, chainVars, reverseCache, tableVars, sweepVars>>

\* persist_completed_settlement commits, or raises without effect.
\* (Variants: the row is written before the balances are found short; a
\* refusal ends the call without compensation.)
PersistPartly(o) ==
  /\ call[o] = "persist"
  /\ rows' = rows \cup {o}
  /\ \E pc \in {"settled", "reverse"} : Goto(o, pc)
  /\ UNCHANGED <<settledAt, chainVars, reverseCache, reconciled, sweepVars,
                 faults>>
PersistOrFail(o) ==
  /\ call[o] = "persist"
  /\ \/ rows' = rows \cup {o} /\ Goto(o, "settled")
     \/ Goto(o, "failed") /\ UNCHANGED rows
  /\ UNCHANGED <<settledAt, chainVars, reverseCache, reconciled, sweepVars,
                 faults>>

Persist(o) ==
  /\ call[o] = "persist"
  /\ \/ rows' = rows \cup {o} /\ Goto(o, "settled")
     \/ Goto(o, "reverse") /\ UNCHANGED rows
  /\ UNCHANGED <<settledAt, chainVars, reverseCache, reconciled, sweepVars,
                 faults>>

\* It commits and the answer is lost.
PersistFails(o) ==
  /\ call[o] = "persist"
  /\ Fault
  /\ rows' = rows \cup {o}
  /\ Goto(o, "reverse")
  /\ UNCHANGED <<settledAt, chainVars, reverseCache, reconciled, sweepVars>>

\* compensateRailDispatch: the rail replays the cached settlement as a
\* reverse.  The contract refuses one that is not settled, and the transfers
\* back may be refused as well; the failure is logged.
Reverse(o) ==
  /\ call[o] = "reverse"
  /\ \/ /\ o \in reverseCache
        /\ settleTx[o] = "mined"
        /\ reverseTx' = [reverseTx EXCEPT ![o] = "pending"]
        /\ Goto(o, "undo")
     \/ Goto(o, "uncompensated") /\ UNCHANGED reverseTx
  /\ UNCHANGED <<settledAt, settleTx, reverseCache, tableVars, sweepVars,
                 faults>>

ReverseFails(o) ==
  /\ call[o] = "reverse"
  /\ o \in reverseCache
  /\ settleTx[o] = "mined"
  /\ Fault
  /\ reverseTx' = [reverseTx EXCEPT ![o] = "pending"]
  /\ Goto(o, "uncompensated")
  /\ UNCHANGED <<settledAt, settleTx, reverseCache, tableVars, sweepVars>>

\* The same wait for the reversal, whatever its receipt says.
ConfirmReverse(o) ==
  /\ call[o] = "undo"
  /\ \/ Goto(o, "reversed") /\ UNCHANGED faults
     \/ Fault /\ Goto(o, "uncompensated")
  /\ UNCHANGED <<settledAt, chainVars, reverseCache, tableVars, sweepVars>>

-----------------------------------------------------------------------------
(* The chain: a pending transaction is mined, reverts or is dropped.       *)

SettleOnChain(o) ==
  /\ settleTx[o] = "pending"
  /\ \E result \in {"mined", "reverted", "dropped"} :
       settleTx' = [settleTx EXCEPT ![o] = result]
  /\ UNCHANGED <<call, settledAt, reverseTx, reverseCache, tableVars, sweepVars,
                 faults>>

ReverseOnChain(o) ==
  /\ reverseTx[o] = "pending"
  /\ \E result \in {"mined", "reverted", "dropped"} :
       reverseTx' = [reverseTx EXCEPT ![o] = result]
  /\ UNCHANGED <<call, settledAt, settleTx, reverseCache, tableVars, sweepVars,
                 faults>>

-----------------------------------------------------------------------------
(* SettlementReconciler.runOnce.                                           *)

\* listUnreconciledTrades: the oldest rows, at most BatchSize of them.
Unreconciled == rows \ reconciled

IsBatch(batch) ==
  /\ Cardinality(batch) <= BatchSize
  /\ Cardinality(batch) = BatchSize \/ batch = Unreconciled
  /\ \A o \in batch, p \in Unreconciled \ batch : settledAt[o] < settledAt[p]

IsOldest(o, batch) ==
  o \in batch /\ \A p \in batch : settledAt[o] <= settledAt[p]

SweepStart(s) ==
  /\ sweep[s].todo = {}
  /\ Unreconciled # {}
  /\ \E batch \in SUBSET Unreconciled :
       /\ IsBatch(batch)
       /\ sweep' = [sweep EXCEPT ![s].todo = batch]
  /\ UNCHANGED <<call, settledAt, chainVars, reverseCache, tableVars, drift,
                 faults>>

\* rail.status reads the receipt of the settle transaction.
StatusOf(o) ==
  CASE settleTx[o] = "mined"    -> "settled"
    [] settleTx[o] = "reverted" -> "reverted"
    [] OTHER                    -> "missing"

\* An error ends the whole sweep, unless its name reads like not-found.
Status(s) ==
  /\ sweep[s].todo # {}
  /\ sweep[s].view = "none"
  /\ \/ /\ \E o \in Outcomes :
             /\ IsOldest(o, sweep[s].todo)
             /\ sweep' = [sweep EXCEPT ![s].view = StatusOf(o)]
        /\ UNCHANGED faults
     \/ /\ Fault
        /\ \/ sweep' = [sweep EXCEPT ![s] = IdleSweep]
           \/ sweep' = [sweep EXCEPT ![s].view = "missing"]
  /\ UNCHANGED <<call, settledAt, chainVars, reverseCache, tableVars, drift>>

\* markReconciled, then the event: rail_drift_detected unless the rail says
\* settled.  Either way the row is not read again.
\* (Variants: drift is left for the next sweep; the event is published
\* only for a revert.)
MarkSettledOnly(s) ==
  LET view == sweep[s].view IN
  /\ view # "none"
  /\ \E o \in Outcomes :
       /\ IsOldest(o, sweep[s].todo)
       /\ reconciled' = IF view = "settled" THEN reconciled \cup {o} ELSE reconciled
       /\ drift' = IF view = "settled" THEN drift ELSE drift \cup {o}
       /\ sweep' = [sweep EXCEPT ![s] = [todo |-> @.todo \ {o}, view |-> "none"]]
  /\ UNCHANGED <<call, settledAt, chainVars, reverseCache, rows, faults>>
MarkRevertOnly(s) ==
  LET view == sweep[s].view IN
  /\ view # "none"
  /\ \E o \in Outcomes :
       /\ IsOldest(o, sweep[s].todo)
       /\ reconciled' = reconciled \cup {o}
       /\ drift' = IF view = "reverted" THEN drift \cup {o} ELSE drift
       /\ sweep' = [sweep EXCEPT ![s] = [todo |-> @.todo \ {o}, view |-> "none"]]
  /\ UNCHANGED <<call, settledAt, chainVars, reverseCache, rows, faults>>

MarkReconciled(s) ==
  LET view == sweep[s].view IN
  /\ view # "none"
  /\ \E o \in Outcomes :
       /\ IsOldest(o, sweep[s].todo)
       /\ reconciled' = reconciled \cup {o}
       /\ drift' = IF view = "settled" THEN drift ELSE drift \cup {o}
       /\ sweep' = [sweep EXCEPT ![s] = [todo |-> @.todo \ {o}, view |-> "none"]]
  /\ UNCHANGED <<call, settledAt, chainVars, reverseCache, rows, faults>>

\* The update fails, with or without its effect; the sweep ends.
MarkFails(s) ==
  /\ sweep[s].view # "none"
  /\ Fault
  /\ \/ UNCHANGED reconciled
     \/ \E o \in Outcomes :
          IsOldest(o, sweep[s].todo) /\ reconciled' = reconciled \cup {o}
  /\ sweep' = [sweep EXCEPT ![s] = IdleSweep]
  /\ UNCHANGED <<call, settledAt, chainVars, reverseCache, rows, drift>>

-----------------------------------------------------------------------------
\* The process dies: calls, caches and sweeps are gone; an update of
\* reconciled_at in flight may still be applied.
Restart ==
  /\ Fault
  /\ call' = [o \in Outcomes |->
       IF call[o] \in Running THEN "lost" ELSE call[o]]
  /\ reverseCache' = {}
  /\ \E done \in SUBSET {s \in Sweeps : sweep[s].view # "none"} :
       reconciled' = reconciled \cup
         {o \in Outcomes : \E s \in done : IsOldest(o, sweep[s].todo)}
  /\ sweep' = [s \in Sweeps |-> IdleSweep]
  /\ UNCHANGED <<settledAt, chainVars, rows, drift>>

CallStep(o) ==
  \/ BuildCommand(o)
  \/ Dispatch(o) \/ DispatchFails(o) \/ Confirm(o)
  \/ Persist(o) \/ PersistFails(o)
  \/ Reverse(o) \/ ReverseFails(o) \/ ConfirmReverse(o)

ChainStep(o) == SettleOnChain(o) \/ ReverseOnChain(o)

SweepStep(s) ==
  SweepStart(s) \/ Status(s) \/ MarkReconciled(s) \/ MarkFails(s)

Next ==
  \/ \E o \in Outcomes : ExecuteSettlement(o) \/ CallStep(o) \/ ChainStep(o)
  \/ \E s \in Sweeps : SweepStep(s)
  \/ Restart

Spec == Init /\ [][Next]_vars

\* Calls return, transactions leave the mempool, the reconciler's timer fires.
FairSpec ==
  /\ Spec
  /\ \A o \in Outcomes : WF_vars(CallStep(o)) /\ WF_vars(ChainStep(o))
  /\ \A s \in Sweeps : WF_vars(SweepStep(s))

-----------------------------------------------------------------------------
(* Properties.                                                             *)

\* Type invariant; a row belongs to an outcome whose call has begun, and only
\* rows are reconciled.
TypeOK ==
  /\ call \in [Outcomes -> CallStates]
  /\ settledAt \in [Outcomes -> Nat]
  /\ settleTx \in [Outcomes -> TxStates]
  /\ reverseTx \in [Outcomes -> TxStates]
  /\ reverseCache \subseteq Outcomes
  /\ rows \subseteq Outcomes
  /\ reconciled \subseteq rows
  /\ drift \subseteq rows
  /\ sweep \in [Sweeps -> [todo : SUBSET rows, view : Views]]
  /\ faults \in 0 .. MaxFaults

Calm == faults = 0

\* Assets that moved on chain and did not move back.
Moved(o) == settleTx[o] = "mined" /\ reverseTx[o] # "mined"

\* No silent move: while no call fails and the process stays up, assets that
\* moved on chain belong to a recorded trade, to a call still in progress, or
\* to one that has broadcast the reversal or logged that it could not
\* (executeSettlement's catch and compensateRailDispatch).
NoSilentMove ==
  Calm => \A o \in Outcomes :
    Moved(o) /\ call[o] \notin Running =>
      \/ o \in rows
      \/ call[o] \in {"reversed", "uncompensated"}

\* A recorded trade is not reversed on chain, and a call that answered
\* "settled" has its row, while no answer is lost.
RecordedNotReversed ==
  /\ \A o \in Outcomes : call[o] = "settled" => o \in rows
  /\ Calm => \A o \in rows : reverseTx[o] = "none"

\* Every recorded trade is reconciled in the end, whatever fails and although
\* an error ends the sweep for all rows behind it (runOnce, its timer).
EveryRowReconciled ==
  \A o \in Outcomes : o \in rows ~> o \in reconciled

\* While nothing fails, a recorded trade whose transaction reverted or was
\* dropped is reported, however the sweeps overlap.
DriftReported ==
  \A o \in Outcomes :
    o \in rows /\ settleTx[o] \in {"reverted", "dropped"}
      ~> (o \in drift \/ ~Calm)
=============================================================================
