----------------------------- MODULE IntentLocks -----------------------------
(***************************************************************************)
(* The life of a balance reservation, from the submit that takes it to the *)
(* call that gives it back.                                                *)
(*                                                                         *)
(* HiddenIntentService.submitIntent locks the amount in portfolios.locked, *)
(* writes a row of intent_locks and pushes the intent on the orchestrator's*)
(* in-memory queue.  Cancel, TTL eviction and the revocation cascade take  *)
(* it off the queue and fire, without waiting, one call that releases the  *)
(* amount and one that deletes the row.  The janitor releases and deletes  *)
(* rows older than the TTL.  `locked` is one number per (institution,      *)
(* asset): no call can tell whose reservation it gives back.               *)
(*                                                                         *)
(* The process may restart (memory is lost, calls already sent may or may  *)
(* not have been applied) and a database call may fail with or without its *)
(* effect.  Matches are MatchingOrchestrator's business, not this one's.   *)
(***************************************************************************)
EXTENDS Portfolios, FiniteSets

CONSTANTS
  Intents,        \* intent handles the enclave may assign
  Agents,
  Accounts,       \* (institution, asset) pairs
  Sweeps,         \* concurrent runs of the janitor's sweep
  AgentOf,        \* the agent that submits the intent
  AccountOf,      \* the account its lock descriptor names
  Amount,         \* the amount its lock descriptor names
  Deposit,        \* initial balance of an account
  SyncBalances,   \* balances a custody snapshot may report
  MayRevoke,      \* bound: the agents that may be revoked
  MaxTroubles     \* bound on failed calls, restarts and syncs together

ASSUME AmountAssumption ==
  /\ Amount \in [Intents -> Nat \ {0}]
  /\ AccountOf \in [Intents -> Accounts]
  /\ AgentOf \in [Intents -> Agents]
ASSUME DepositAssumption ==
  /\ Deposit \in [Accounts -> Nat]
  /\ SyncBalances \subseteq Nat
ASSUME BoundAssumption ==
  /\ MayRevoke \subseteq Agents
  /\ MaxTroubles \in Nat

VARIABLES
  portfolio,  \* the portfolios table
  lockRefs,   \* handles with a row in intent_locks
  pending,    \* handles in MatchingOrchestrator.pendingIntents
  submit,     \* where the intent's submitIntent call is
  expired,    \* sealedAt + TTL has passed
  stale,      \* created_at + TTL of the handle's row has passed
  revoked,    \* agents whose authority is revoked
  cascading,  \* agents whose revokeAgent has yet to clear the queue
  releases,   \* releaseLockFor calls in flight
  deletes,    \* deleteLockRefFor calls in flight
  cancels,    \* cancelIntent calls waiting for their own delete of the row
  sweep,      \* the state of each janitor sweep
  holding,    \* history: reservations taken that no release has run for
  faults, restarts, syncs  \* bounded counters

vars == <<portfolio, lockRefs, pending, submit, expired, stale, revoked,
          cascading, releases, deletes, cancels, sweep, holding,
          faults, restarts, syncs>>

\* What the orchestrator does to its queue and the calls it sends.
queueVars == <<pending, releases, deletes>>
agentVars == <<revoked, cascading>>
clockVars == <<expired, stale>>
ledgerVars == <<portfolio, holding>>
budgetVars == <<faults, restarts, syncs>>

\* The next await of submitIntent, or how it ended.
SubmitStates ==
  {"idle", "seal", "lock", "ref", "enqueue", "accepted", "rejected", "lost"}

IdleSweep == [todo |-> {}, released |-> {}]

-----------------------------------------------------------------------------
Init ==
  /\ portfolio = [a \in Accounts |-> [balance |-> Deposit[a], locked |-> 0]]
  /\ lockRefs = {}
  /\ pending = {}
  /\ submit = [i \in Intents |-> "idle"]
  /\ expired = {}
  /\ stale = {}
  /\ revoked = {}
  /\ cascading = {}
  /\ releases = {}
  /\ deletes = {}
  /\ cancels = {}
  /\ sweep = [s \in Sweeps |-> IdleSweep]
  /\ holding = {}
  /\ faults = 0
  /\ restarts = 0
  /\ syncs = 0

-----------------------------------------------------------------------------
(* Effects of the two stored procedures on the ledger.                     *)

\* The row is locked for i; only a fresh handle is ever locked for.
LockFor(i) ==
  /\ portfolio' = [portfolio EXCEPT ![AccountOf[i]] = LockRow(@, Amount[i])]
  /\ holding' = holding \cup {i}

\* The row gives back i's amount, whether or not i still has it to give.
ReleaseFor(i) ==
  /\ portfolio' = [portfolio EXCEPT ![AccountOf[i]] = ReleaseRow(@, Amount[i])]
  /\ holding' = holding \ {i}

\* The budget that bounds what may go wrong.
BudgetLeft == faults + restarts + syncs < MaxTroubles

\* A database call goes wrong.
Fault ==
  /\ BudgetLeft
  /\ faults' = faults + 1
  /\ UNCHANGED <<restarts, syncs>>

\* The orchestrator drops intents from its queue and fires, for each, a
\* release and a delete it does not wait for.
\* (Variant: only the rows are deleted.)
DropRowsOnly(gone) ==
  /\ releases' = releases
  /\ deletes' = deletes \cup gone

Drop(gone) ==
  /\ releases' = releases \cup gone
  /\ deletes' = deletes \cup gone

-----------------------------------------------------------------------------
(* HiddenIntentService.submitIntent, one action per await.                 *)

\* loadAndVerify: a revoked agent is turned away.
Verify(i) ==
  /\ submit[i] = "idle"
  /\ submit' = [submit EXCEPT
       ![i] = IF AgentOf[i] \in revoked THEN "rejected" ELSE "seal"]
  /\ UNCHANGED <<lockRefs, queueVars, clockVars, agentVars, cancels, sweep,
                 ledgerVars, budgetVars>>

\* The enclave seals the envelope (the TTL starts) or rejects it.
Seal(i) ==
  /\ submit[i] = "seal"
  /\ \E answer \in {"lock", "rejected"} :
       submit' = [submit EXCEPT ![i] = answer]
  /\ UNCHANGED <<lockRefs, queueVars, clockVars, agentVars, cancels, sweep,
                 ledgerVars, budgetVars>>

\* lockBalance: InsufficientBalanceError goes back to the agent as a 403.
LockBalance(i) ==
  /\ submit[i] = "lock"
  /\ IF CanLock(portfolio[AccountOf[i]], Amount[i])
     THEN LockFor(i) /\ submit' = [submit EXCEPT ![i] = "ref"]
     ELSE UNCHANGED ledgerVars /\ submit' = [submit EXCEPT ![i] = "rejected"]
  /\ UNCHANGED <<lockRefs, queueVars, clockVars, agentVars, cancels, sweep,
                 budgetVars>>

\* Any other error of lockBalance is logged and the submit proceeds, whether
\* the lock was taken and only the answer lost, or never taken.
LockBalanceFails(i) ==
  /\ submit[i] = "lock"
  /\ Fault
  /\ \/ UNCHANGED ledgerVars
     \/ CanLock(portfolio[AccountOf[i]], Amount[i]) /\ LockFor(i)
  /\ submit' = [submit EXCEPT ![i] = "ref"]
  /\ UNCHANGED <<lockRefs, queueVars, clockVars, agentVars, cancels, sweep>>

\* intentLockRepository.create.
CreateRef(i) ==
  /\ submit[i] = "ref"
  /\ lockRefs' = lockRefs \cup {i}
  /\ submit' = [submit EXCEPT ![i] = "enqueue"]
  /\ UNCHANGED <<queueVars, clockVars, agentVars, cancels, sweep, ledgerVars,
                 budgetVars>>

\* A failed create is logged and the submit proceeds without a row.
CreateRefFails(i) ==
  /\ submit[i] = "ref"
  /\ Fault
  /\ submit' = [submit EXCEPT ![i] = "enqueue"]
  /\ UNCHANGED <<lockRefs, queueVars, clockVars, agentVars, cancels, sweep,
                 ledgerVars>>

\* The synchronous head of onIntentSealed: evictExpired, then push.
\* (Variant: what expired is dropped without its calls.)
EnqueueDroppingSilently(i) ==
  /\ submit[i] = "enqueue"
  /\ pending' = (pending \ expired) \cup {i}
  /\ UNCHANGED <<releases, deletes>>
  /\ submit' = [submit EXCEPT ![i] = "accepted"]
  /\ UNCHANGED <<lockRefs, clockVars, agentVars, cancels, sweep, ledgerVars,
                 budgetVars>>

Enqueue(i) ==
  /\ submit[i] = "enqueue"
  /\ pending' = (pending \ expired) \cup {i}
  /\ Drop(pending \cap expired)
  /\ submit' = [submit EXCEPT ![i] = "accepted"]
  /\ UNCHANGED <<lockRefs, clockVars, agentVars, cancels, sweep, ledgerVars,
                 budgetVars>>

-----------------------------------------------------------------------------
(* Ways off the queue.                                                     *)

\* HiddenIntentService.cancelIntent up to its own delete of the row.
CancelIntent(i) ==
  /\ i \in pending
  /\ AgentOf[i] \notin revoked
  /\ pending' = pending \ {i}
  /\ Drop({i})
  /\ cancels' = cancels \cup {i}
  /\ UNCHANGED <<lockRefs, submit, clockVars, agentVars, sweep, ledgerVars,
                 budgetVars>>

\* The awaited delete at the end of cancelIntent; its failure is logged.
CancelDelete(i) ==
  /\ i \in cancels
  /\ cancels' = cancels \ {i}
  /\ \/ lockRefs' = lockRefs \ {i} /\ UNCHANGED budgetVars
     \/ Fault /\ UNCHANGED lockRefs
  /\ UNCHANGED <<submit, queueVars, clockVars, agentVars, sweep, ledgerVars>>

\* The cleanup timer's evictExpired.
EvictExpired ==
  /\ pending \cap expired # {}
  /\ pending' = pending \ expired
  /\ Drop(pending \cap expired)
  /\ UNCHANGED <<lockRefs, submit, clockVars, agentVars, cancels, sweep,
                 ledgerVars, budgetVars>>

\* AgentService.revokeAgent: the records first ...
RevokeAuthority(g) ==
  /\ g \in MayRevoke \ revoked
  /\ revoked' = revoked \cup {g}
  /\ cascading' = cascading \cup {g}
  /\ UNCHANGED <<lockRefs, submit, queueVars, clockVars, cancels, sweep,
                 ledgerVars, budgetVars>>

\* ... then removeIntentsByAgent.
RevokeCascade(g) ==
  LET gone == {i \in pending : AgentOf[i] = g} IN
  /\ g \in cascading
  /\ cascading' = cascading \ {g}
  /\ pending' = pending \ gone
  /\ Drop(gone)
  /\ UNCHANGED <<lockRefs, submit, clockVars, revoked, cancels, sweep,
                 ledgerVars, budgetVars>>

-----------------------------------------------------------------------------
(* The calls the orchestrator does not wait for.  Failures are swallowed.  *)

ReleaseBalance(i) ==
  /\ i \in releases
  /\ releases' = releases \ {i}
  /\ \/ ReleaseFor(i) /\ UNCHANGED budgetVars
     \/ Fault /\ UNCHANGED ledgerVars
  /\ UNCHANGED <<lockRefs, pending, submit, clockVars, agentVars, deletes,
                 cancels, sweep>>

DeleteRef(i) ==
  /\ i \in deletes
  /\ deletes' = deletes \ {i}
  /\ \/ lockRefs' = lockRefs \ {i} /\ UNCHANGED budgetVars
     \/ Fault /\ UNCHANGED lockRefs
  /\ UNCHANGED <<pending, submit, clockVars, agentVars, releases, cancels,
                 sweep, ledgerVars>>

-----------------------------------------------------------------------------
(* IntentLockJanitor.sweep.                                                *)

\* findOlderThan: the rows are read once, then worked through one by one.
\* (Variant: rows of submits that never reached the queue are left alone.)
SweepStartQueuedOnly(s) ==
  LET rows == {i \in lockRefs \cap stale : submit[i] = "accepted"} IN
  /\ sweep[s].todo = {}
  /\ rows # {}
  /\ sweep' = [sweep EXCEPT ![s].todo = rows]
  /\ UNCHANGED <<lockRefs, submit, queueVars, clockVars, agentVars, cancels,
                 ledgerVars, budgetVars>>

SweepStart(s) ==
  /\ sweep[s].todo = {}
  /\ lockRefs \cap stale # {}
  /\ sweep' = [sweep EXCEPT ![s].todo = lockRefs \cap stale]
  /\ UNCHANGED <<lockRefs, submit, queueVars, clockVars, agentVars, cancels,
                 ledgerVars, budgetVars>>

\* releaseBalance of the row at hand; it swallows its errors, so the sweep
\* goes on to the delete either way.  Rows are taken in any order.
SweepRelease(s, i) ==
  /\ i \in sweep[s].todo
  /\ sweep[s].released = {}
  /\ sweep' = [sweep EXCEPT ![s].released = {i}]
  /\ \/ ReleaseFor(i) /\ UNCHANGED budgetVars
     \/ Fault /\ UNCHANGED ledgerVars
  /\ UNCHANGED <<lockRefs, submit, queueVars, clockVars, agentVars, cancels>>

\* The delete of the same row; a failure is logged and the sweep moves on.
SweepDelete(s, i) ==
  /\ i \in sweep[s].released
  /\ sweep' = [sweep EXCEPT ![s] = [todo |-> @.todo \ {i}, released |-> {}]]
  /\ \/ lockRefs' = lockRefs \ {i} /\ UNCHANGED budgetVars
     \/ Fault /\ UNCHANGED lockRefs
  /\ UNCHANGED <<submit, queueVars, clockVars, agentVars, cancels, ledgerVars>>

-----------------------------------------------------------------------------
(* The environment.                                                        *)

\* The TTL counts from sealedAt, which precedes the row's created_at.
TtlPasses(i) ==
  /\ i \notin expired
  /\ submit[i] \notin {"idle", "seal", "rejected"}
  /\ expired' = expired \cup {i}
  /\ UNCHANGED <<lockRefs, submit, queueVars, stale, agentVars, cancels, sweep,
                 ledgerVars, budgetVars>>

\* The orchestrator still has something to do about i.
InOrchestrator(i) ==
  \/ submit[i] \in {"lock", "ref", "enqueue"}
  \/ i \in pending \cup releases \cup deletes \cup cancels

\* The cleanup timer and the janitor's are independent and read different
\* clocks, so a row may pass its cutoff while its intent is still queued.
RowPassesCutoff(i) ==
  /\ i \in (lockRefs \cap expired) \ stale
  /\ stale' = stale \cup {i}
  /\ UNCHANGED <<lockRefs, submit, queueVars, expired, agentVars, cancels,
                 sweep, ledgerVars, budgetVars>>

\* The process dies and comes back: memory is lost, and so are those calls in
\* flight that had not reached the database.
Restart ==
  /\ BudgetLeft
  /\ restarts' = restarts + 1
  /\ pending' = {}
  /\ submit' = [i \in Intents |->
       IF submit[i] \in {"seal", "lock", "ref", "enqueue"}
       THEN "lost" ELSE submit[i]]
  /\ releases' \in SUBSET releases
  /\ deletes' \in SUBSET (deletes \cup cancels)
  /\ cancels' = {}
  /\ cascading' = {}
  /\ sweep' = [s \in Sweeps |-> IdleSweep]
  /\ UNCHANGED <<lockRefs, clockVars, revoked, ledgerVars, faults, syncs>>

\* syncPortfolioSnapshot: custody reports a balance.
SyncPortfolio(a, balance) ==
  /\ BudgetLeft
  /\ portfolio[a].balance # balance
  /\ syncs' = syncs + 1
  /\ portfolio' = [portfolio EXCEPT ![a] = SyncRow(@, balance)]
  /\ UNCHANGED <<lockRefs, submit, queueVars, clockVars, agentVars, cancels,
                 sweep, holding, faults, restarts>>

-----------------------------------------------------------------------------
SubmitStep(i) ==
  \/ Verify(i) \/ Seal(i)
  \/ LockBalance(i) \/ LockBalanceFails(i)
  \/ CreateRef(i) \/ CreateRefFails(i)
  \/ Enqueue(i)

CallStep(i) == ReleaseBalance(i) \/ DeleteRef(i) \/ CancelDelete(i)

SweepStep(s) ==
  \/ SweepStart(s)
  \/ \E i \in Intents : SweepRelease(s, i) \/ SweepDelete(s, i)

Next ==
  \/ \E i \in Intents : SubmitStep(i) \/ CallStep(i) \/ CancelIntent(i)
  \/ EvictExpired
  \/ \E g \in Agents : RevokeAuthority(g) \/ RevokeCascade(g)
  \/ \E s \in Sweeps : SweepStep(s)
  \/ \E i \in Intents : TtlPasses(i) \/ RowPassesCutoff(i)
  \/ Restart
  \/ \E a \in Accounts, b \in SyncBalances : SyncPortfolio(a, b)

Spec == Init /\ [][Next]_vars

\* A request in progress goes on, timers fire, time passes and calls return.
\* Nobody has to submit, cancel or revoke.
Fairness ==
  /\ \A i \in Intents :
       /\ WF_vars(submit[i] # "idle" /\ SubmitStep(i))
       /\ WF_vars(CallStep(i))
       /\ WF_vars(TtlPasses(i))
       /\ WF_vars(RowPassesCutoff(i))
  /\ WF_vars(EvictExpired)
  /\ \A g \in Agents : WF_vars(RevokeCascade(g))
  /\ \A s \in Sweeps : WF_vars(SweepStep(s))

FairSpec == Spec /\ Fairness

-----------------------------------------------------------------------------
(* Properties.                                                             *)

\* The sum of the amounts held on an account, counted unit by unit so that it
\* is a cardinality: each held intent contributes Amount[i] numbered units.
UnitsOf(i) == {i} \X (1 .. Amount[i])
UnitsHeld(a, held) == UNION {UnitsOf(i) : i \in {j \in held : AccountOf[j] = a}}
Reserved(a) == Cardinality(UnitsHeld(a, holding))

\* Type invariant.  Every row satisfies the CHECK constraints of migration
\* 005, whatever the janitor, the sync and the failures do.
TypeOK ==
  /\ portfolio \in [Accounts -> PortfolioRow]
  /\ \A a \in Accounts : RowOK(portfolio[a])
  /\ lockRefs \subseteq Intents
  /\ pending \subseteq Intents
  /\ submit \in [Intents -> SubmitStates]
  /\ expired \subseteq Intents
  /\ stale \subseteq Intents
  /\ revoked \subseteq Agents
  /\ cascading \subseteq Agents
  /\ releases \subseteq Intents
  /\ deletes \subseteq Intents
  /\ cancels \subseteq Intents
  /\ sweep \in [Sweeps -> [todo : SUBSET Intents, released : SUBSET Intents]]
  /\ holding \subseteq Intents
  /\ faults \in Nat /\ restarts \in Nat /\ syncs \in Nat
  /\ faults + restarts + syncs <= MaxTroubles

\* No phantom lock: the amount locked on an account is never more than the
\* reservations no release has run for yet, whatever fails, is lost in a
\* restart, is released twice or is clamped by a custody sync
\* (portfolio_lock_balance, portfolio_release_balance).
NoPhantomLock == \A a \in Accounts : portfolio[a].locked <= Reserved(a)

\* Nothing has gone wrong so far, and the janitor has found no row.
Calm == faults = 0 /\ restarts = 0 /\ syncs = 0 /\ stale = {}

\* Exact accounting: while no call fails, the process does not restart, no
\* snapshot is imported and eviction stays ahead of the janitor, `locked` is
\* exactly the sum of the reservations held: nobody's release frees another
\* intent's funds, so the available balance the next lock is checked against
\* (portfolio_lock_balance) is the true one.
LockedIsReserved ==
  Calm => \A a \in Accounts : portfolio[a].locked = Reserved(a)

\* No reservation is stranded: while no call fails and the process stays up,
\* a held reservation belongs to an intent the orchestrator still has to
\* deal with, even when the janitor races it (releaseLockFor is sent by
\* every way off the queue).
NoneStranded ==
  faults = 0 /\ restarts = 0 => \A i \in holding : InOrchestrator(i)

\* Every reservation is given back in the end, the janitor and the
\* orchestrator racing for it, unless a call fails or the process restarts
\* meanwhile (releaseLockFor, IntentLockJanitor.sweep).
ReservationReturned ==
  \A i \in Intents :
    i \in holding ~> (i \notin holding \/ faults > 0 \/ restarts > 0)

\* Whatever fails or restarts, every row of intent_locks is deleted in the end:
\* the janitor's retry is what makes the table self-cleaning.
RowsSwept == \A i \in Intents : i \in lockRefs ~> i \notin lockRefs

=============================================================================
