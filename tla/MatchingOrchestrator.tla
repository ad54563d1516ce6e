------------------------ MODULE MatchingOrchestrator ------------------------
(***************************************************************************)
(* MatchingOrchestrator.onIntentSealed and all that runs between its       *)
(* awaits.  Every accepted intent is pushed on one in-memory array and its *)
(* own call scans that array by index, asking the enclave about one        *)
(* counterpart at a time; a match is checked against the portfolios and    *)
(* the agents' limits and settled.  Calls of several intents are in        *)
(* progress at once, nothing marks a counterpart as taken, and cancel, TTL *)
(* eviction and revocation shift the array under them.                     *)
(*                                                                         *)
(* The enclave keeps an intent's price and quantity in its kv-store until  *)
(* a match consumes them.  The submit that precedes onIntentSealed is one  *)
(* step here (IntentLocks takes it apart), and so is what happens between  *)
(* the command builder and the settlement RPC.                             *)
(***************************************************************************)
EXTENDS SettlementRpc, SequencesExt

CONSTANTS
  Agents,
  AgentOf,
  Scoped,       \* intents inside their agent's direction and instrument scope
  MaxNotional,  \* the agent's limit on quantity * price
  Deposit,      \* initial balance of an account
  ReportsLocks, \* TRUE: a matched outcome carries the per-side lock amounts
  DeletesFail,  \* TRUE: the contract's kv_delete may fail
  MayExpire,    \* bound: the intents whose TTL may pass
  MayCancel,    \* bound: the intents that may be cancelled
  MayRevoke,    \* bound: the agents that may be revoked
  MaxFaults     \* bound on failed calls

ASSUME OrchestratorAssumption ==
  /\ AgentOf \in [Intents -> Agents]
  /\ Scoped \subseteq Intents
  /\ MaxNotional \in [Intents -> Nat]
  /\ Deposit \in [Accounts -> Nat]
  /\ ReportsLocks \in BOOLEAN
  /\ DeletesFail \in BOOLEAN
  /\ MayExpire \subseteq Intents
  /\ MayCancel \subseteq Intents
  /\ MayRevoke \subseteq Agents
  /\ MaxFaults \in Nat

VARIABLES
  portfolio,  \* the portfolios table
  trades,     \* completed_trades: <<bid, ask>>
  lockRefs,   \* handles with a row in intent_locks
  sealed,     \* handles with an entry in the enclave's kv-store
  queue,      \* pendingIntents
  task,       \* the onIntentSealed call of each intent
  releases,   \* how many releaseLockFor calls are in flight for the intent
  deletes,    \* deleteLockRefFor calls in flight
  expired,    \* sealedAt + TTL has passed
  revoked,    \* agents whose authority is revoked
  claim,      \* history: what is left of each intent's reservation
  faults

vars == <<portfolio, trades, lockRefs, sealed, queue, task, releases, deletes,
          expired, revoked, claim, faults>>

ledgerVars == <<portfolio, claim>>
agentVars == <<expired, revoked>>
callVars == <<releases, deletes>>

\* The next await of the call, or how it ended.
TaskStates == {"idle", "push", "evaluate", "checkBuyer", "checkSeller",
               "settle", "persist", "fill", "done", "refused"}

\* at: loop index; other: the counterpart at hand (the intent itself while
\* there is none); locked: buyerLockedAmount of the outcome.
NewTask(i, pc) == [pc |-> pc, at |-> 0, other |-> i, locked |-> 0]

B(i) == BuyerOf(i, task[i].other)
S(i) == SellerOf(i, task[i].other)

-----------------------------------------------------------------------------
Init ==
  /\ portfolio = [a \in Accounts |-> [balance |-> Deposit[a], locked |-> 0]]
  /\ trades = {}
  /\ lockRefs = {}
  /\ sealed = {}
  /\ queue = <<>>
  /\ task = [i \in Intents |-> NewTask(i, "idle")]
  /\ releases = [i \in Intents |-> 0]
  /\ deletes = {}
  /\ expired = {}
  /\ revoked = {}
  /\ claim = [i \in Intents |-> 0]
  /\ faults = 0

-----------------------------------------------------------------------------
Fault == faults < MaxFaults /\ faults' = faults + 1

\* releaseLockFor and deleteLockRefFor, whether or not they are due.
Drop(gone) ==
  /\ releases' = [i \in Intents |->
                    IF i \in gone THEN releases[i] + 1 ELSE releases[i]]
  /\ deletes' = deletes \cup gone

Queued == {queue[k] : k \in DOMAIN queue}

\* array.splice(k, 1): nothing happens beyond the end.
Splice(q, k) == IF k \in DOMAIN q THEN RemoveAt(q, k) ELSE q

\* The n-th of a set of indexes.
Nth(indexes, n) ==
  CHOOSE k \in indexes : Cardinality({j \in indexes : j < k}) = n - 1

\* array.filter, and splices one by one: what stays keeps its order.
Without(q, gone) ==
  LET kept == {k \in DOMAIN q : q[k] \notin gone} IN
  [n \in 1 .. Cardinality(kept) |-> q[Nth(kept, n)]]

\* The loop goes on at index k of q: the next counterpart is sent to the
\* enclave, or the call returns.  (Variant: the loop starts one index late.)
ScanLate(i, k, q) ==
  LET hits == {j \in (k + 1) .. Len(q) : Counterparts(i, q[j])} IN
  IF hits = {} THEN NewTask(i, "done")
  ELSE [pc |-> "evaluate", at |-> Min(hits), other |-> q[Min(hits)],
        locked |-> 0]

Scan(i, k, q) ==
  LET hits == {j \in k .. Len(q) : Counterparts(i, q[j])} IN
  IF hits = {} THEN NewTask(i, "done")
  ELSE [pc |-> "evaluate", at |-> Min(hits), other |-> q[Min(hits)],
        locked |-> 0]

Goto(i, pc) == task' = [task EXCEPT ![i].pc = pc]
Finish(i) == task' = [task EXCEPT ![i] = NewTask(i, "done")]

-----------------------------------------------------------------------------
(* HiddenIntentService.submitIntent up to onIntentSealed.                  *)

\* The client of the contract refuses a descriptor whose amount was truncated
\* to nothing, and the lock needs the balance.
Accepted(i) ==
  /\ Reservation(i) > 0
  /\ CanLock(portfolio[ReservedAccount(i)], Reservation(i))

\* The enclave refuses a bid whose quantity * price overflows a word; an
\* accepted envelope's entry outlives a refused descriptor or lock.  A lock
\* that fails for any other reason than the balance does not stop the submit.
SubmitIntent(i) ==
  /\ task[i].pc = "idle"
  /\ AgentOf[i] \notin revoked
  /\ Sealable(i)
  /\ sealed' = sealed \cup {i}
  /\ \/ /\ Accepted(i)
        /\ portfolio' = [portfolio EXCEPT
             ![ReservedAccount(i)] = LockRow(@, Reservation(i))]
        /\ claim' = [claim EXCEPT ![i] = Reservation(i)]
        /\ lockRefs' = lockRefs \cup {i}
        /\ Goto(i, "push")
        /\ UNCHANGED faults
     \/ /\ ~Accepted(i)
        /\ Goto(i, "refused")
        /\ UNCHANGED <<ledgerVars, lockRefs, faults>>
     \/ /\ Fault
        /\ Reservation(i) > 0
        /\ lockRefs' = lockRefs \cup {i}
        /\ Goto(i, "push")
        /\ UNCHANGED ledgerVars
  /\ UNCHANGED <<trades, queue, callVars, agentVars>>

-----------------------------------------------------------------------------
(* onIntentSealed, one action per await.                                   *)

\* evictExpired, push, and the scan up to the first counterpart.
OnIntentSealed(i) ==
  LET q == Append(Without(queue, expired), i) IN
  /\ task[i].pc = "push"
  /\ queue' = q
  /\ Drop(Queued \cap expired)
  /\ task' = [task EXCEPT ![i] = Scan(i, 1, q)]
  /\ UNCHANGED <<ledgerVars, trades, lockRefs, sealed, agentVars, faults>>

\* The contract fills a pair only if it still holds both entries.
Matched(i) == {B(i), S(i)} \subseteq sealed /\ PairCrosses(B(i), S(i))

\* No match: both stay queued and the scan goes on at the next index.
\* (Variant: the scan starts over.)
NoMatchAgain(i) ==
  /\ task[i].pc = "evaluate"
  /\ ~Matched(i)
  /\ task' = [task EXCEPT ![i] = Scan(i, 1, queue)]
  /\ UNCHANGED <<ledgerVars, trades, lockRefs, sealed, queue, callVars,
                 agentVars, faults>>

NoMatch(i) ==
  /\ task[i].pc = "evaluate"
  /\ ~Matched(i)
  /\ task' = [task EXCEPT ![i] = Scan(i, task[i].at + 1, queue)]
  /\ UNCHANGED <<ledgerVars, trades, lockRefs, sealed, queue, callVars,
                 agentVars, faults>>

\* What the outcome may report of the buyer's reservation, as the wire carries
\* it: the fill at the execution price, or at the bid's limit.
BuyerLockedAmounts(i) ==
  {Truncated(Cost(B(i), S(i))), Truncated(Fill(B(i), S(i)) * Limit[B(i)])}

\* The client rejects an outcome without the per-side lock amounts, or with
\* one that is not positive, and the call throws.
ActOn(i) ==
  \/ \E locked \in BuyerLockedAmounts(i) \ {0} :
       /\ ReportsLocks
       /\ task' = [task EXCEPT ![i].pc = "checkBuyer", ![i].locked = locked]
  \/ /\ ReportsLocks => 0 \in BuyerLockedAmounts(i)
     /\ Finish(i)

\* A match consumes both entries; a failed kv_delete is ignored.
\* (Variant: only the scanning intent's entry is consumed.)
MatchConsumingOne(i) ==
  /\ task[i].pc = "evaluate"
  /\ Matched(i)
  /\ sealed' = sealed \ {i}
  /\ ActOn(i)
  /\ UNCHANGED <<ledgerVars, trades, lockRefs, queue, callVars, agentVars,
                 faults>>

Match(i) ==
  /\ task[i].pc = "evaluate"
  /\ Matched(i)
  /\ \E kept \in IF DeletesFail THEN SUBSET {B(i), S(i)} ELSE {{}} :
       sealed' = (sealed \ {B(i), S(i)}) \cup kept
  /\ ActOn(i)
  /\ UNCHANGED <<ledgerVars, trades, lockRefs, queue, callVars, agentVars,
                 faults>>

\* The call of the enclave fails, before or after the contract ran.
EvaluateFails(i) ==
  /\ task[i].pc = "evaluate"
  /\ Fault
  /\ \/ UNCHANGED sealed
     \/ Matched(i) /\ sealed' = sealed \ {B(i), S(i)}
  /\ Finish(i)
  /\ UNCHANGED <<ledgerVars, trades, lockRefs, queue, callVars, agentVars>>

-----------------------------------------------------------------------------
\* checkDirectionScope, checkInstrumentScope and checkMaxNotional.
InLimits(b, s) ==
  /\ {b, s} \subseteq Scoped
  /\ Cost(b, s) <= MaxNotional[b]
  /\ Cost(b, s) <= MaxNotional[s]

\* Any failed check: the counterpart is released whoever offended, what now is
\* at its old index is spliced out, and then the counterpart itself.
RejectOther(i) ==
  /\ queue' = Without(Splice(queue, task[i].at), {task[i].other})
  /\ Drop({task[i].other})
  /\ Finish(i)

Proceed(i, pc) == Goto(i, pc) /\ UNCHANGED <<queue, callVars>>

\* checkBalance reads the buyer's portfolio, then the seller's.
CheckBuyer(i) ==
  /\ task[i].pc = "checkBuyer"
  /\ IF Available(portfolio[CashOf(B(i))]) >= Cost(B(i), S(i))
     THEN Proceed(i, "checkSeller")
     ELSE RejectOther(i)
  /\ UNCHANGED <<ledgerVars, trades, lockRefs, sealed, agentVars, faults>>

CheckSeller(i) ==
  /\ task[i].pc = "checkSeller"
  /\ IF /\ Available(portfolio[HoldingOf(S(i))]) >= Fill(B(i), S(i))
        /\ InLimits(B(i), S(i))
     THEN Proceed(i, "settle")
     ELSE RejectOther(i)
  /\ UNCHANGED <<ledgerVars, trades, lockRefs, sealed, agentVars, faults>>

\* A portfolio that cannot be read counts as sufficient.
CheckFails(i) ==
  /\ task[i].pc \in {"checkBuyer", "checkSeller"}
  /\ Fault
  /\ IF InLimits(B(i), S(i)) THEN Proceed(i, "settle") ELSE RejectOther(i)
  /\ UNCHANGED <<ledgerVars, trades, lockRefs, sealed, agentVars>>

-----------------------------------------------------------------------------
(* SettlementService.executeSettlement, up to its effect on the database.  *)

\* A settlement that throws ends the call and leaves both intents queued.
GiveUp(i) == Finish(i) /\ UNCHANGED <<ledgerVars, trades>>

\* The command builder verifies both agents; it, the profile lookup and the
\* rail may fail.  (Variant: it relies on the cascade of the revocation.)
BuildUnverified(i) ==
  /\ task[i].pc = "settle"
  /\ \/ Goto(i, "persist") /\ UNCHANGED <<ledgerVars, trades, faults>>
     \/ Fault /\ GiveUp(i)
  /\ UNCHANGED <<lockRefs, sealed, queue, callVars, agentVars>>

BuildCommand(i) ==
  /\ task[i].pc = "settle"
  /\ \/ /\ IF {AgentOf[B(i)], AgentOf[S(i)]} \cap revoked = {}
           THEN Goto(i, "persist") /\ UNCHANGED <<ledgerVars, trades>>
           ELSE GiveUp(i)
        /\ UNCHANGED faults
     \/ Fault /\ GiveUp(i)
  /\ UNCHANGED <<lockRefs, sealed, queue, callVars, agentVars>>

\* The effect of the RPC: the pair's reservations shrink by what the outcome
\* says.  Its outcome ref names this call, so the trade_ref is new.
CanSettle(i) ==
  CanPersist(portfolio, B(i), S(i), task[i].locked, Fill(B(i), S(i)))

SettleTrade(i) ==
  LET b == B(i)
      s == S(i)
      cash == task[i].locked IN
  /\ portfolio' = Legs(portfolio, b, s, cash, Fill(b, s))
  /\ trades' = trades \cup {<<b, s>>}
  /\ claim' = [claim EXCEPT ![b] = Greatest(@ - cash, 0),
                            ![s] = Greatest(@ - Fill(b, s), 0)]

PersistSettlement(i) ==
  /\ task[i].pc = "persist"
  /\ IF CanSettle(i) THEN SettleTrade(i) /\ Goto(i, "fill") ELSE GiveUp(i)
  /\ UNCHANGED <<lockRefs, sealed, queue, callVars, agentVars, faults>>

\* The RPC fails, or commits and its answer is lost.
PersistFails(i) ==
  /\ task[i].pc = "persist"
  /\ Fault
  /\ \/ GiveUp(i)
     \/ CanSettle(i) /\ SettleTrade(i) /\ Finish(i)
  /\ UNCHANGED <<lockRefs, sealed, queue, callVars, agentVars>>

-----------------------------------------------------------------------------
\* applyFillToIntent: an intent whose reservation exceeds what the fill comes
\* to at the execution price stays queued, reservation and row unchanged.
FullyFilled(x, b, s) ==
  Reservation(x) <= IF x = b THEN Cost(b, s) ELSE Fill(b, s)

ApplyFill(i) ==
  LET filled == {x \in {B(i), S(i)} : FullyFilled(x, B(i), S(i))} IN
  /\ task[i].pc = "fill"
  /\ queue' = Without(queue, filled)
  /\ deletes' = deletes \cup filled
  /\ Finish(i)
  /\ UNCHANGED <<ledgerVars, trades, lockRefs, sealed, releases, agentVars,
                 faults>>

-----------------------------------------------------------------------------
(* Ways off the queue, and the calls they fire.                            *)

CancelIntent(i) ==
  /\ i \in Queued \cap MayCancel
  /\ AgentOf[i] \notin revoked
  /\ queue' = Without(queue, {i})
  /\ Drop({i})
  /\ UNCHANGED <<ledgerVars, trades, lockRefs, sealed, task, expired, revoked,
                 faults>>

EvictExpired ==
  /\ Queued \cap expired # {}
  /\ queue' = Without(queue, expired)
  /\ Drop(Queued \cap expired)
  /\ UNCHANGED <<ledgerVars, trades, lockRefs, sealed, task, agentVars, faults>>

\* The revocation and removeIntentsByAgent.
RevokeAgent(g) ==
  LET gone == {i \in Queued : AgentOf[i] = g} IN
  /\ g \in MayRevoke \ revoked
  /\ revoked' = revoked \cup {g}
  /\ queue' = Without(queue, gone)
  /\ Drop(gone)
  /\ UNCHANGED <<ledgerVars, trades, lockRefs, sealed, task, expired,
                 faults>>

\* portfolio_release_balance of the whole descriptor amount, however much of
\* it is still locked.
ReleaseBalance(i) ==
  /\ releases[i] > 0
  /\ releases' = [releases EXCEPT ![i] = @ - 1]
  /\ \/ /\ portfolio' = [portfolio EXCEPT
             ![ReservedAccount(i)] = ReleaseRow(@, Reservation(i))]
        /\ claim' = [claim EXCEPT ![i] = 0]
        /\ UNCHANGED faults
     \/ Fault /\ UNCHANGED ledgerVars
  /\ UNCHANGED <<trades, lockRefs, sealed, queue, task, deletes, agentVars>>

DeleteRef(i) ==
  /\ i \in deletes
  /\ deletes' = deletes \ {i}
  /\ \/ lockRefs' = lockRefs \ {i} /\ UNCHANGED faults
     \/ Fault /\ UNCHANGED lockRefs
  /\ UNCHANGED <<ledgerVars, trades, sealed, queue, task, releases, agentVars>>

TtlPasses(i) ==
  /\ i \in MayExpire \ expired
  /\ task[i].pc \notin {"idle", "refused"}
  /\ expired' = expired \cup {i}
  /\ UNCHANGED <<ledgerVars, trades, lockRefs, sealed, queue, task, callVars,
                 revoked, faults>>

-----------------------------------------------------------------------------
CallStep(i) ==
  \/ OnIntentSealed(i)
  \/ NoMatch(i) \/ Match(i) \/ EvaluateFails(i)
  \/ CheckBuyer(i) \/ CheckSeller(i) \/ CheckFails(i)
  \/ BuildCommand(i) \/ PersistSettlement(i) \/ PersistFails(i)
  \/ ApplyFill(i)

Next ==
  \/ \E i \in Intents :
       \/ SubmitIntent(i) \/ CallStep(i)
       \/ CancelIntent(i) \/ TtlPasses(i)
       \/ ReleaseBalance(i) \/ DeleteRef(i)
  \/ EvictExpired
  \/ \E g \in Agents : RevokeAgent(g)

Spec == Init /\ [][Next]_vars

\* A call in progress goes on, and time and the cleanup timer do not stop.
FairSpec ==
  /\ Spec
  /\ \A i \in Intents : WF_vars(CallStep(i)) /\ WF_vars(TtlPasses(i))
  /\ WF_vars(EvictExpired)

-----------------------------------------------------------------------------
(* Properties.                                                             *)

\* Type invariant.  Every row satisfies the CHECK constraints whatever calls
\* overlap, and no handle is queued twice.
TypeOK ==
  /\ portfolio \in [Accounts -> PortfolioRow]
  /\ \A a \in Accounts : RowOK(portfolio[a])
  /\ trades \subseteq Pairs
  /\ lockRefs \subseteq Intents
  /\ sealed \subseteq Intents
  /\ queue \in Seq(Intents) /\ IsInjective(queue)
  /\ task \in [Intents -> [pc : TaskStates, at : Nat, other : Intents,
                          locked : Nat]]
  /\ releases \in [Intents -> Nat]
  /\ deletes \subseteq Intents
  /\ expired \subseteq Intents
  /\ revoked \subseteq Agents
  /\ claim \in [Intents -> Nat]
  /\ faults \in 0 .. MaxFaults

\* What the intents' reservations still amount to on an account, counted unit
\* by unit.
Claimed(a) ==
  Cardinality(UNION {{i} \X (1 .. claim[i]) :
                       i \in {j \in Intents : ReservedAccount(j) = a}})

\* No phantom lock: what is locked on an account is never more than what is
\* left of the reservations taken on it, after any number of double releases,
\* partial fills and trades settled while a release was in flight.
NoPhantomLock == \A a \in Accounts : portfolio[a].locked <= Claimed(a)

\* The calls of concurrent submits leave no pair untried between them: while
\* nobody has left the queue and no call has failed, two intents whose calls
\* have ended and whose entries the enclave still holds do not cross.
EveryPairTried ==
  faults = 0 /\ (\A i \in Intents : task[i].pc \in {"idle", "refused", "push"}
                                      \/ i \in Queued)
  => \A b, s \in Queued :
       /\ Counterparts(b, s) /\ SideOf[b] = "buy"
       /\ task[b].pc = "done" /\ task[s].pc = "done"
       /\ {b, s} \subseteq sealed
       => ~PairCrosses(b, s)

\* The scan ends however many intents are pushed or taken off meanwhile, so
\* every accepted intent's call returns.
CallReturns == \A i \in Intents : task[i].pc = "push" ~> task[i].pc = "done"

\* How far a call is from its end: the awaits still ahead of it, and at the
\* enclave what its scan may still meet, the intents not pushed yet included.
Stage(pc) ==
  CASE pc = "idle" -> 8
    [] pc = "push" -> 7
    [] pc = "evaluate" -> 6
    [] pc = "checkBuyer" -> 5
    [] pc = "checkSeller" -> 4
    [] pc = "settle" -> 3
    [] pc = "persist" -> 2
    [] pc = "fill" -> 1
    [] OTHER -> 0

Unpushed == {j \in Intents : task[j].pc \in {"idle", "push"}}
Ahead(i) == Greatest(Len(queue) + Cardinality(Unpushed) - task[i].at, 0)

Closer(i) ==
  \/ Stage(task'[i].pc) < Stage(task[i].pc)
  \/ Stage(task'[i].pc) = Stage(task[i].pc) /\ Ahead(i)' < Ahead(i)

AsFar(i) == Stage(task'[i].pc) = Stage(task[i].pc) /\ Ahead(i)' = Ahead(i)

\* Every step of a call brings its end closer, and no push, splice, eviction or
\* revocation by anyone else puts it off: why a scan of an array that shifts
\* under it terminates (the for loop of onIntentSealed).
CallAdvances ==
  [][\A i \in Intents :
       /\ CallStep(i) => Closer(i)
       /\ task[i].pc # "idle" => Closer(i) \/ AsFar(i)]_vars

-----------------------------------------------------------------------------
TradesOf(g) == {p \in trades : g \in {AgentOf[p[1]], AgentOf[p[2]]}}
Ordered(g) == {i \in Intents : /\ task[i].pc = "persist"
                              /\ g \in {AgentOf[B(i)], AgentOf[S(i)]}}

StaysOut(g) ==
  g \in revoked' /\ Ordered(g)' = {} /\ TradesOf(g)' = TradesOf(g)

\* A revoked agent no settlement was ordered for never trades again, although
\* its intents can be pushed after the cascade has cleared the array, be held
\* by other calls and be matched by the enclave: only the command builder
\* stands between (removeIntentsByAgent, SettlementCommandBuilder.build).
RevokedNeverTrades == [][\A g \in revoked : Ordered(g) = {} => StaysOut(g)]_vars

-----------------------------------------------------------------------------
\* Pairs the enclave decided and the orchestrator has not settled or given up.
InHand ==
  {<<B(i), S(i)>> : i \in {j \in Intents :
     task[j].pc \in {"checkBuyer", "checkSeller", "settle", "persist"}}}

Venue == INSTANCE Exchange WITH
  seen    <- {i \in Intents : task[i].pc # "idle"},
  open    <- sealed,
  matched <- InHand,
  balance <- [a \in Accounts |-> portfolio[a].balance]

\* The orchestrator is the venue: whatever calls overlap, fail or lose their
\* answer, an order is matched once, settled at most once, at a price inside
\* both limits, and balances change by settlements alone.
ImplementsVenue == Venue!Spec

-----------------------------------------------------------------------------
\* matching.rs: the backend trusts a match's values for settlement, so a match
\* goes on to the checks and does not end the call.
MatchIsActedOn ==
  [][\A i \in Intents : Match(i) => task'[i].pc # "done"]_vars
=============================================================================
