# GhostBroker in TLA+

GhostBroker is a dark pool driven by agents. There are two ways to a trade. In
the first an agent seals an order inside an enclave, the backend reserves the
funds the order may need, and an in-memory orchestrator looks for a
counterpart by asking the enclave about one pair at a time. In the second two
agents with compatible tickets are joined in a negotiation session, take turns
with sealed proposals that an LLM chose and the code bounded, and trade when
the enclave says that two proposals cross. Either way a match is settled on a
rail and in one database transaction.

This directory holds TLA+ modules that model the part of that system where
orders, reservations, balances and sessions can go wrong, TLC configurations
that check them on small instances, and proofs, checked by TLAPS, of the main
invariants for every value of the constants. Paths below are relative to
`src/`.

## The system

| Part | State it keeps | Operations | What makes it correct |
|---|---|---|---|
| Balance reservations (`hidden-intent.service`, `portfolio.service`, `intent-lock-*`, migrations 005, 007, 011, 013) | `portfolios(balance, locked)` per institution and asset; one row of `intent_locks` per reservation | submit, lock, release, row create and delete, janitor sweep, custody sync | what is locked is what is reserved; every reservation comes back once |
| Matching orchestrator (`matching-orchestrator`) | `pendingIntents`, an array in memory; one call in progress per accepted intent | scan, checks, settle, fill, cancel, evict, revoke | no order trades twice or outside its limits; crossing orders are found; scans end |
| Matching contract (`contracts/matching-policy`) | the enclave's key-value store of sealed orders and round proposals | seal, evaluate a match, a round or a pair | prices inside both limits, entries consumed once |
| Settlement (`settlement.service`, `settlement-rails/*`, migration 014, relayer contract) | `completed_trades`, receipts, the rail's caches, the chain | dispatch on the rail, persist, reverse | chain and database agree; each outcome settles once |
| Reconciler (`settlement-reconciler`) | the reconciled mark of each trade | periodic sweep | every trade is reconciled in the end |
| Ticket pairing (`negotiation-orchestrator`: `submitTicket`, `tryPair`) | `pendingTickets`, an array in memory | seal, scan, verify, create the session, pin delegations | a session is a verified pair; a ticket is used once and none is lost |
| Negotiation session (`negotiation-orchestrator`, `negotiation-repository`, migration 017) | one row, its rounds and disclosures; standing proposals and a timer in memory; proposals in the enclave | move, disclose, converge, settle, approve, decline, expire | a proposal trades once; nothing trades before its disclosures or, unapproved, outside an envelope; gates and settlements end |
| Strategy and turns (`negotiation-core`, `cli/agents/negotiation-*`) | the mandate; the rows of the session | derive rails, bound a move in the agent, bound it again in the backend | trades within both mandates; records tell what was sealed; talks do not go round for ever |
| Hosted agents (`hosted-agent.service`) | `runtimeStates` in memory; child processes | start, stop, exit | one process per agent, and an operator can stop it |
| Agents and revocation (`agent.service`) | agents, delegations, revoked marks | admit, verify, revoke | a revoked agent does not trade |
| Authentication, institutions, deposits, telemetry, SDK, routes, frontend, scripts | their own tables or none | request and answer | see "Not modelled" |

Everything runs in one Node process, so code between two `await`s is atomic
and code on both sides of one is not: other requests, the cleanup timer (5 s),
the janitor's timer and calls that were fired without `await` run in between.
The database transaction of a stored procedure is atomic; an update of a
session row is a patch by id that compares nothing. Memory is lost in a
restart; rows are not. A database or enclave call can fail before or after its
effect. These facts are the source of nearly every hazard `PROJECT.json`
lists.

The parts meet in five places: `portfolios.locked`, one number for all
reservations of an account, which submit, orchestrator, janitor, custody sync
and settlement all change; the two arrays, of intents and of tickets, which
every request shifts; the enclave's store, which decides which of two
overlapping calls gets an order or a proposal; the session row, which two
agents, the operators of two institutions and a timer write; and the sealed
envelope, which the enclave trades on and the backend cannot read.

## Modules

| Module | Models | Uses |
|---|---|---|
| `Portfolios` | one row of `portfolios` and what each stored procedure does to it | |
| `IntentLocks` | the life of a reservation: submit, cancel, eviction, revocation, fire-and-forget calls, janitor, restart | `Portfolios` |
| `MatchContract` | `cross_verdict`, `midpoint` on words of bounded width | |
| `Orders` | what the enclave and the orchestrator read off a sealed order: reservation, counterparts, price, fill | `MatchContract` |
| `SettlementRpc` | `persist_completed_settlement` as one transaction | `Orders`, `Portfolios` |
| `Exchange` | abstract: what a venue promises | `Orders` |
| `MatchingOrchestrator` | `onIntentSealed` between its awaits and all that runs beside it | `SettlementRpc`; instantiates `Exchange` |
| `Settlement` | `executeSettlement` with the chain rail, the chain, and the reconciler | |
| `TicketPairing` | `submitTicket` and `tryPair` between their awaits, `evaluate_pair` | |
| `Deal` | abstract: what a negotiation promises its two sides | |
| `NegotiationSession` | one session: moves, the enclave's rounds, disclosure gate, escalation gate, settlement, timer | instantiates `Deal` |
| `NegotiationStrategy` | rails, envelopes and `validateAgentDecision`, no state | |
| `NegotiationTurns` | a session turn by turn: any LLM, the runtime's bound, the backend's bound, the enclave's cross | `NegotiationStrategy` |
| `HostedAgents` | start and stop requests, child processes, exit events, the backend's death | |
| `*Proofs` | theorems | the module they are named after |
| `MC*` | constants of the runs | the module they are named after |

### From code to state and actions

**IntentLocks.** `portfolio` and `lockRefs` are the two tables, `pending` the
orchestrator's array as a set, `submit[i]` the await at which intent `i`'s
`submitIntent` stands. `releases` and `deletes` hold the calls that
`releaseLockFor` and `deleteLockRefFor` sent without waiting; `sweep[s]` is
one run of the janitor with the rows it read at its start. `expired` and
`stale` are two clocks: the orchestrator ages an intent by `sealedAt`, the
janitor a row by `created_at`. `holding` is history: the reservations taken
and not yet released, which the code keeps nowhere. One action stands for the
code between two awaits; a call that can fail has a second outcome that costs
one of `MaxFaults`, with and without its effect where the code cannot tell.
`Restart` clears memory and keeps any subset of the calls in flight.

**MatchingOrchestrator.** `queue` is the array, in order; `task[i]` the call
of `onIntentSealed` for `i`: its program counter, its loop index, the
counterpart it holds and the locked amount of the outcome. `Scan` is the loop
with its local filter; `RejectOther` is the failed-check branch, both removals
included; `ApplyFill` is `applyFillToIntent` for both sides. The submit before
it is one step, since `IntentLocks` takes it apart. `sealed` is the enclave's
store. `claim[i]` is history: what is left of `i`'s reservation. `Accepted` and
`ActOn` are the two places where the enclave's clients refuse an amount that
is missing or not positive.

**Orders.** Prices and quantities are the contract's integers. Cash is counted
in products of the two, so that a cost, which the database does not round, is
exact; one unit of cash on the wire is `WireScale` products, and a reservation
is cut down to whole units of it (`Truncated`), as `unseal_envelope` does.

**Exchange** has no queue and no calls: orders open, crossing pairs are
matched once, and a match settles or is abandoned. `MatchingOrchestrator` maps
`open` to the enclave's store, `matched` to the pairs held by calls that have
passed the enclave, `balance` to the balances of the table.

**Settlement.** `call[o]` is the await at which the one call for outcome `o`
stands, or how it ended; the orchestrators mint a fresh outcome for every
attempt. `settleTx` and `reverseTx` are the two transactions as the chain sees
them, whatever the process knows; `reverseCache` is the rail's cache, without
which it cannot reverse; `rows`, `reconciled` are `completed_trades` and its
mark, `drift` the outcomes an event was published for. `sweep[s]` holds the
rows a run of the reconciler read at its start and what the rail said of the
first; the database orders them by `settled_at`, which is when the call
started. Balances are not part of it: `MatchingOrchestrator` and
`SettlementRpc` model what the RPC does to them, here it commits or refuses.

**TicketPairing.** `queue` is `pendingTickets`; `call[t]` the request that
submitted ticket `t`: its next await, the index its scan found (`at`) and the
counterpart read there. `SubmitTicket` is everything up to the first await of
the scan. `PairVerified` splices the index of before the await, as the code
does; a negative verdict gives up without a second candidate. `pinned` are the
delegations of a session. `overlap` and `rejected` are history.

**NegotiationSession.** `row` is the session, `standing` the last proposals of
`negotiation_rounds`, `enclave` the proposals in the key-value store, `memory`
the map `sealedStandingProposals`, `timer` the entry of `escalationTimers`.
`call[c]` is the call of an agent, of an operator or of the timer, with the
`round_number` of its snapshot and the proposals it holds; each `pc` names the
await that comes next, so that `Move`, `Settle`, `Gate` and `TimeOut` are the
methods of the class cut at their awaits. `appendRound` and the update that
follows it are one step where nothing reads the row in between. An agent has
one call at a time, since its loop waits for the answer. `CallFails` ends any
call at any await, before the awaited call took effect or, at the next await,
after it; `SealLost` is the one effect that must be told apart, since the
process remembers a sealed proposal only once the enclave has answered.
`gated`, `approvals` and `lapses` are history.

**Deal** has no row, turn, timer or cache: proposals stand, crosses are in the
hands of one agent or operator at a time, and are settled, put before an
operator or let go. `NegotiationSession` maps `open` to the enclave's store
and `hand` to the pairs of the calls past their cross (`Holds`). The two
failures that pass for success, a deletion and a disclosure view, are steps of
`Deal` too, so that the refinement needs no assumption.

**NegotiationStrategy and NegotiationTurns.** Prices are in cents, quantities
in `QtyUnit`s, so that the code's roundings are roundings here. `Validate` is
`validateAgentDecision`. In `Turn` the LLM asks for any of `Moves`, `Decision`
is what the runtime makes of it and seals, `Bounded` what the backend makes of
the move it can see; `Plays` are the results of both. A quantity of zero in the
agent is refused by the API and leaves the turn where it is; in the backend it
makes the move a hold whose row shows no terms (`OutOfBand`). `sealed` is what
the enclave trades on and `recorded` what the database says. `unnamed` is
history.

**HostedAgents.** A state object of `runtimeStates` is made by a spawn and
names its child, so it is identified with the child: `current` is the object
in the map, `attached` those whose `child` is set. `StopWaited` acts on the
object that the stop read a second before, `ExitDelivered` on the one in the
map. `overlap` and `lateExit` are history.


## Runs

| Run | Checks | On |
|---|---|---|
| `locks_faulty` | `TypeOK`, `LockedIsReserved`, `NoPhantomLock`, `NoneStranded`, `ReservationReturned`, `RowsSwept` | two intents on one account; one failed call, restart or custody sync; a janitor that races the orchestrator |
| `venue` | `TypeOK`, `OneTradePerOrder`, `WithinReservation`, `BooksBalance` | two bids, three asks, three institutions |
| `orch` | `TypeOK`, `NoPhantomLock`, `EveryPairTried`, `ImplementsVenue`, `CallReturns`, `CallAdvances`, `RevokedNeverTrades` | a bid that crosses two asks, one partially; a tight balance; one failed call, a cancel, an expiry, a revocation |
| `settle_faulty` | `NoSilentMove`, `RecordedNotReversed`, `EveryRowReconciled`, `DriftReported` | two outcomes, two overlapping sweeps of two rows, one failed call or restart |
| `pairing` | `SessionsAreVerified`, `UsedOnce`, `NoneForgotten`, `NoMissedPair` | three bids and two asks of three institutions with a malformed token, a disallowed claim and a minimum; one failed call or restart |
| `session_calm` | `DeclinedNeverTrades`, `GateResolved`, `SettlementEnds` | two agents that always cross, two operators, the deadline, three rounds |
| `session_faulty` | `ProposalsTradeOnce`, `DisclosedBeforeTrade`, `UnapprovedWithinEnvelope`, `ImplementsDeal` | crossing and open prices, a required claim, one failed call, deletion or restart |
| `turns` | `TypeOK`, `TradeWithinRails`, `RecordMatchesSeal`, `DirectTradeUnderCeiling`, `AnchoredPairCrosses`, `DisclosuresCapped` | four pairs of mandates of all five styles, one with a ceiling of zero; LLM prices and quantities inside, outside and missing; six rounds |
| `hosted` | `OneRuntime`, `StopEndsProcess` | three starts, two stops, three processes, one death of the backend |

What they show:

- **Reservations.** `locked` is one number, and release subtracts whatever it
  is told, down to zero. Until something fails, is synced or outlives the
  janitor's cutoff, it is exactly the sum of the reservations
  (`LockedIsReserved`). Whatever fails, it is never more (`NoPhantomLock`):
  funds may be freed early, never frozen beyond the reservations still out.
  Before the first failed call or restart no reservation loses the party that
  will return it (`NoneStranded`), and it does return
  (`ReservationReturned`). Every row of `intent_locks` goes in the end,
  whatever happens (`RowsSwept`).
- **Venue.** One trade per order, priced within both limits, never more
  delivered than reserved and never paid a whole wire unit above the truncated
  reservation (`WithinReservation`), never an uncovered balance, and every
  balance is what was deposited, less what the recorded trades paid and more
  what they brought (`BooksBalance`).
- **Orchestrator.** It implements the venue (`ImplementsVenue`) although
  several scans hold the same counterpart: the enclave's store is what
  arbitrates. While no intent leaves the array, two concurrent submits cannot
  miss each other (`EveryPairTried`), because the push precedes the scan
  without an await. The scan of a shifting array ends (`CallReturns`), since
  every step of a call uses up an await or a place of the array and no step of
  anyone else gives one back (`CallAdvances`). A revocation empties the array
  once and a submit may refill it, but an agent revoked before a settlement of
  its own was ordered never trades again (`RevokedNeverTrades`): the command
  builder looks up both agents.
- **Settlement.** Nothing spans chain and database, so what is promised is
  promised until the first failed call or restart: assets that moved have a
  row, a call in progress, or a reversal that was broadcast or logged as
  refused (`NoSilentMove`); a recorded trade is not reversed
  (`RecordedNotReversed`); a recorded trade whose transaction reverts or is
  dropped after the wait is reported although sweeps overlap
  (`DriftReported`). Whatever fails, every row is reconciled in the end,
  although an error ends the sweep for the rows behind it
  (`EveryRowReconciled`).
- **Pairing.** A session always joins a pair that the enclave verified, since
  the tickets, not the index, are kept across the await
  (`SessionsAreVerified`). The index is not, so a ticket is used once and
  never forgotten only while requests do not overlap (`UsedOnce`,
  `NoneForgotten`). A pair that waits side by side was sent back by the
  enclave with another candidate (`NoMissedPair`).
- **Session.** The row protects nothing: two calls can settle at once and a
  terminal status can be overwritten. What holds holds by the enclave's store,
  which gives a proposal to one cross (`ProposalsTradeOnce`,
  `DeclinedNeverTrades`), by the order of each call's steps
  (`DisclosedBeforeTrade`) and by the envelopes of both
  sides being read by the last mover (`UnapprovedWithinEnvelope`). Together
  that is the promise of `Deal`, which it keeps whatever fails
  (`ImplementsDeal`): a cross has one owner, trades between a buyer's and a
  seller's proposal, and comes back only if a deletion failed. Without a failed
  call gates and settlements end (`GateResolved`, `SettlementEnds`).
- **Turns.** Whatever the LLMs ask for, trades stay within both mandates
  (`TradeWithinRails`) and the backend's records say what was sealed
  (`RecordMatchesSeal`), because clamping and rounding twice is the same as
  once. When the buyer's anchor is not below the seller's the first two
  proposals cross (`AnchoredPairCrosses`). Disclosures stop when each claim was
  asked for once and shown twice (`DisclosuresCapped`).
- **Hosted agents.** Unless two starts overlap, an exit is handled under
  another child's state or the backend dies, one process runs and a stop finds
  it (`OneRuntime`). A process that was sent SIGTERM ends (`StopEndsProcess`).

Three runs check a statement that a comment, a document or a test makes and
the code does not keep; TLC shows the behaviour.

| Run | Statement | What happens |
|---|---|---|
| `orch_unusable` | the outcome reports both lock amounts (`match-contract-client.ts:128`) | the contract's output has none; the client throws after both entries are consumed |
| `session_gate` | an approval re-evaluates the cross and settles (`negotiation-orchestrator.ts:2130`, `negotiation-orchestrator.test.ts:502`) | the cross that opened the gate consumed both proposals; the second evaluation finds nothing and the session goes on |
| `turns_ceiling` | the notional of a decision must not exceed the ceiling (`README.md:783`) | a disclosure move restated as a proposal is not shrunk, and trades above it |

More behaviours are in the models but have no run of their own:

- a second release of an intent is not a no-op (`portfolio.service.ts:357`):
  it takes another intent's reservation;
- a bid filled to its whole quantity below its limit compares as partially
  filled and stays queued (`matching-orchestrator.ts:213`);
- a bid reserves whole units of the wire, rounded down, and pays the exact
  product, so that a full fill at its limit can cost it a fraction of a unit
  that it never reserved (`matching.rs:1004`, migration 014:61); a bid worth
  less than one unit is sealed by the enclave and then refused by the client
  (`blind-intent.ts:362`), and a match whose lock is less than one unit is
  refused after its entries were consumed;
- a failed check throws out the counterpart, whoever failed (`:433`), and with
  the bid's own lock counted against it the bid often is the one that failed;
  the stale index removes an unrelated intent too (`:453`);
- an intent whose cancel was confirmed can still trade when a call already
  holds it, and an eviction during an enclave call can make the scan pass over
  the next counterpart;
- a lock whose `intent_locks` row could not be written is not returned after a
  restart; `releaseBalance` never throws, so the janitor deletes the row of a
  reservation whose release failed, against its comment at
  `intent-lock-janitor.ts:130`;
- a submit verified before a revocation pushes its intent after the cascade
  has cleared the queue, against `hidden-intent.service.ts:379`: the enclave
  can match it and consume a counterpart, though it cannot trade;
- `waitForConfirmation` ends on any receipt: a reverted transaction is
  recorded as settled until the reconciler reports it; a row is marked
  reconciled before its drift is published, and when the answer to the mark is
  lost nothing is (`README.md:632`);
- a persist that commits and whose answer is lost is reversed on chain, while
  the row says settled and `rail.status`, which reads the first transaction,
  agrees; a crash between broadcast and persist leaves moved assets without a
  row, and nothing looks for them;
- overlapping pairings use one counterpart twice, or splice an unrelated
  ticket away; a ticket that the enclave keeps refusing hides those behind it,
  since a refusal ends the scan (`negotiation-orchestrator.ts:556` says the
  next candidate is tried on the next submit: the same one is found again);
  the ticket of a revoked agent stays queued;
- a cross that the disclosure gate holds up is lost as at the escalation gate:
  both sides have to propose again;
- moves at the escalation gate count as rounds beyond the cap; an approval or
  a hold that began before an expiry reopens or overwrites the session, and a
  session that traded can end as expired;
- a gate's timer is lost in a restart; a session whose update fails while it
  is converged or settling stays there; a settlement whose answer is lost
  resets the session to active;
- an `accept` with outstanding claims becomes a request even on an opening
  turn; a disclosure move with no claim, or one that is not on the list, falls
  back to the first one without being counted; the minimum quantity, the
  concession budget and reciprocity are not enforced on moves;
- two overlapping starts leave a process that no stop reaches; an exit that is
  delivered after the next start detaches the wrong child; outside Windows
  SIGKILL goes to the direct child alone, against
  `hosted-agent.service.ts:340`; a backend that dies leaves its children.

### Bounds

`MaxTroubles` in `IntentLocks` bounds failed calls, restarts and snapshots
together, `MaxFaults` elsewhere failed calls and restarts, `MaxCrashes` the
deaths of the backend; one already reaches every error branch, and what is
proved is proved for any bound. `MayExpire`, `MayCancel` and `MayRevoke` name
who may expire, be cancelled or be revoked. Two or three intents are enough for
what the hazards need: a second reservation to take from, a second counterpart
to shift, one scan overlapping another. `MaxWord` stands for the largest
`u128`; sums and products beyond it are refused as in the contract. `WireScale`
is 3 in `venue`, where one bid reserves 6 and pays 8, and 4 in `orch`, where a
bid reserves 8 of its 10, one fill of it locks nothing or 4 and the other costs
all 10. In `orch` the crossing pairs are one bid with two asks: the code treats
sides symmetrically in the scan, and the asymmetric part (who pays cash) is in
the bid. In `settle_faulty` two outcomes give a sweep a row behind the one that
fails, and two sweeps give a row that is already marked.

`pairing` has five tickets so that an array of three can be spliced at a stale
index while a fourth and a fifth request run. In the session runs `MaxRounds`
is the session's own cap, `MaxRoundNo` stops the rounds that holds at the gate
add, `MaxSeals` gives each side a second proposal, which an approval or a retry
needs to cross again. `session_calm` has one price on each side, so that every
meeting crosses; `session_faulty` has open ones too. Four pairs of mandates in
`turns` cover a crossing, a non-crossing and a full-block pair, and a buyer
whose ceiling rounds to zero, with `QtyUnit` 1000 in place of a million. Six
rounds let the seller, who may answer the opening with a disclosure, try to
reveal a third time. `hosted` needs a third start to come between a stop and an
exit.

`ReportsLocks` is on where the orchestrator is checked past the enclave: it is
the wire contract the client and its tests expect, off in `orch_unusable`,
which is the contract's output as written. `DeletesFail` is off where
`ImplementsVenue` is checked: the contract ignores a failed `kv_delete`, and
with one an order does match twice. In the session a failed deletion is part
of the model, and `lapses` remembers it.

### Fairness

`Fairness` assumes that a request in progress goes on, calls in flight return
(with success or failure), the cleanup timer and the janitor fire, and time
passes. The code starts both timers at start-up and never clears them while it
runs, and every `await` is on a call that settles. Nobody has to submit,
cancel, revoke, approve, decline or restart. Weak fairness suffices: no other
actor can disable these steps for good by turns.

In `Settlement`, `FairSpec` assumes that calls return, that a broadcast
transaction is mined or leaves the mempool, and that the timer of `server.ts`
starts the next sweep; an outcome need not be executed. The timer does not
wait for the sweep before it, so sweeps overlap. In `NegotiationSession` it
assumes that calls go on, the deadline passes and a timer that is armed fires;
in `HostedAgents` that the second of a stop passes, a process that was sent
SIGKILL ends and its exit is delivered.

Deadlock checking is off: once every intent, ticket, session or request has
ended and every budget is spent the system rests.

## Proofs

`IntentLocksProofs`, for any finite set of intents, any accounts, amounts and
deposits and any bounds:

- `TypeCorrect`: `Spec => []TypeOK`. The CHECK constraints `locked >= 0` and
  `locked <= balance` are part of it; each stored procedure is shown to keep
  them by a lemma on one row.
- `PhantomFree`: `Spec => []NoPhantomLock`. Inductive with `TypeOK`. A release
  by someone who no longer holds a reservation lowers only the left side; one
  by a holder lowers the right side by its amount and the left by as much or
  to zero. The lemmas on `Reserved`, a cardinality of numbered units, say what
  adding and removing an intent does to the sum.
- `StrandedFree`: `Spec => []NoneStranded`. `OwedInv` adds that a held
  reservation not yet dropped is in the array or in its submit, and that a
  dropped one still has a release in flight.
- `ExactAccounting`: `Spec => []LockedIsReserved`. `CalmInv` adds, while
  nothing fails and no row is past the cutoff, that a release in flight
  belongs to a reservation still held, that no sweep finds a row of a held
  reservation, and the equality itself, account by account.

`ExchangeProofs`, for any orders and deposits:

- `TypeCorrect`: no balance is ever negative.
- `TradedOnce`: `Spec => []OneTradePerOrder`. The invariant that is inductive
  says that open orders, matched pairs and trades are disjoint and that two
  matched or traded pairs share no side.
- `LimitsRespected`: `Spec => []WithinReservation`. It rests on a lemma on
  `Midpoint`, between the two prices whichever way the odd unit is rounded, and
  one on `Truncated`, which takes away less than a wire unit, for any scale.
- `BooksKept`: `Spec => []BooksBalance`. By the invariant of `TradedOnce` a
  settled pair is a new one, so that its units are new on both sides of the
  equation of each account it touches, and of no other.

`MatchingOrchestratorProofs`, for any intents, accounts, agents, limits and
bounds, and whether the outcome reports the locks or not:

- `TypeCorrect`: `Spec => []TypeOK`. `CallInv` adds that whoever is in the
  array or held by a call has had its own push, which is why a push never
  queues an intent twice; `ClaimInv`, that no reservation is claimed beyond
  its descriptor.
- `PhantomFree`: `Spec => []NoPhantomLock`, account by account, with the same
  numbered units as for `IntentLocks`: a settlement lowers the two payers'
  locks at least as far as the claims of its two intents.
- `VenueImplemented`: `Spec => ImplementsVenue`, where the contract's deletions
  succeed. `OnceInv` says that what a call holds past the enclave has left the
  enclave's store and is held by no other call, so that pairs in hand are
  told apart by their calls. A call's step is then of one of three kinds: a
  match, a settlement, or one that only gives a pair up or is invisible.
- `IntentsTradeOnce`, `TradesWithinLimits`, `BalancesExplained`: the venue's
  `OneTradePerOrder`, `WithinReservation` and `BooksBalance`, read through the
  mapping, are invariants of the orchestrator. `tlapm` cannot use a theorem of
  `ExchangeProofs` under the mapping, so each has an inductive invariant here:
  a traded intent has left the enclave's store and is in no call that can
  settle (`TradedInv`); every pair past the enclave crosses (`CrossedInv`); the
  sets of units are finite and each balance is explained (`BooksInv`).
  `TradesWithinLimits` needs no assumption on deletions: whoever matches twice
  still matches within both limits, and short of a wire unit above its
  reservation.
- `PairsTried`: `Spec => []EveryPairTried`, under the same assumption. While
  it is calm the array is only pushed to; `TriedInv` says that a call in
  progress has tried all that is before its index, and one that has ended all
  that was pushed before its intent.
- `CallsAdvance`: `Spec => CallAdvances`, for finitely many intents. The
  measure is the stage of the call, then the places of the array its index has
  not passed together with the intents not pushed yet: a push adds a place and
  takes an intent, a splice or a filter only takes places. It is `CallReturns`
  without the fairness that makes calls go on. Finitely many intents are
  finitely many submits: an endless stream of pushes keeps a scan of the code
  going too.
- `RevokedOut`: `Spec => RevokedNeverTrades`. Revoked agents stay revoked, the
  command builder orders nothing for them, and only an ordered settlement adds
  a trade; what fails, and whether deletions do, does not matter.

The scan, the splice and the filter of an array are in lemmas of their own:
what they keep, in which order, and that they leave an array alone when
nothing goes. `VenueImplemented`, `IntentsTradeOnce`, `BalancesExplained`
and `PairsTried` assume that deletions succeed: otherwise a consumed order can
match again.

`SettlementProofs`, for any finite set of outcomes, any sweeps, batch size and
bound:

- `TypeCorrect`: only rows are swept, reconciled or reported.
- `NeverSilent`: `Spec => []NoSilentMove`, and `NeverReversed`: `Spec =>
  []RecordedNotReversed`. Both follow from `PhaseInv`, which says what each
  stage of a call knows while nothing fails: no transaction before the
  broadcast or after a refused one, a row only where the call returned, no
  reversal but of a call whose persist was refused. Neither property is
  inductive without it.

`TicketPairingProofs`, for any tickets, profiles and tokens:

- `TypeCorrect`, which includes that a call past its scan holds a candidate.
- `VerifiedPairs`, `TicketsUsedOnce`, `NoTicketForgotten`, `NoPairMissed`: the
  properties of the run; `DelegationsPinned`: `Spec => []BothSidesPinned`.
  Under no overlap one call is in progress at a time, so that the index it
  keeps still names its counterpart; that is the fact each of them rests on.
  The lemmas on `Splice` say what removing a position does to the tickets and
  their order.

`NegotiationSessionProofs`, for any operators, prices, envelopes and bounds:

- `TypeCorrect`: `Spec => []TypeOK`, with `CallInv`, which says what the call
  at each await holds.
- `TradesAreUnique`: `Spec => []ProposalsTradeOnce`, the main one. By
  `OnceInv` a proposal is in one place: in the enclave's store, in the hands
  of one call past its cross, in one trade, or spent at a gate. A lemma first
  reduces the steps of the session to four kinds, by what they do to store,
  calls and trades.
- `RefusedStaysRefused`: from the same invariant, since a gated pair has left
  the store and nobody holds it.
- `SettledAfterTrade`, `DisclosuresComeFirst`, `EnvelopesHold`: each from an
  invariant on the calls between the check and the trade.
- `DealKept`: `Spec => ImplementsDeal`, without assumption. Two more facts are
  needed (`PartyInv`): wherever a proposal is kept, in a call, in memory or in
  the database, a bid is the buyer's and an ask the seller's, and whoever
  approves was asked about a cross. A step is quiet, when its call keeps what
  it holds or lets it go and the deal sees at most that, or one of eleven loud
  actions, each a step of `Deal`. That a settlement is one rests on the
  invariants of the theorems before.

`NegotiationTurnsProofs`, for any pairs of mandates, any prices and quantities
an LLM may ask for, any claims and any number of rounds:

- `TypeCorrect`, `RailsHold`, `RecordsMatch`, `CeilingHolds`, `AnchorsCross`
  and `DisclosuresEnd`: every property of the run. The invariant says that a
  sealed proposal which still stands is in its mandate's band and target, that
  the record has its price and, unless the runtime restated the move, no more
  than its quantity, and that it is then under the ceiling. The lemmas on
  `HalfUp` say that a value clamped and rounded twice is what it was after
  once, and that shrinking to the ceiling leaves nothing only if the ceiling
  rounds to nothing. The bands of two mandates are rounded apart from each
  other, so `AnchorsCross` needs that rounding is monotone. Each claim is
  counted, on each side, against what the side has asked for and shown.

`HostedAgentsProofs`, for any children, requests and bounds: `TypeCorrect`,
`SingleRuntime`, and `LatestStoppable`: also with overlapping starts a stop
does not lose the runtime spawned last.

Some theorems state what no run checks: `TypeOK` of `Settlement`,
`TicketPairing`, `NegotiationSession` and `HostedAgents`, `BothSidesPinned`,
`SettledHasTrade` and `LatestIsStoppable`, and the venue's invariants of the
orchestrator. They hold in the instances of the runs too, and the proof says
more.

Only model-checked: the liveness properties (`ReservationReturned`,
`RowsSwept`, `CallReturns`, `EveryRowReconciled`, `DriftReported`,
`GateResolved`, `SettlementEnds`, `StopEndsProcess`), which are out of the
prover's reach.

## Abstractions

Amounts of orders are naturals at wire scale, and the truncation of `quantity *
price / 10^18` in a reservation is modelled. The decimal strings and doubles
between the contract and the database, and the eight decimals of its
`numeric(40,8)` columns, are not modelled: a balance here holds any product.
The limits an intent captured at submit (`Scoped`, `MaxNotional`) are
constants, because nothing updates them afterwards. In `MatchingOrchestrator`
the outcome's cash lock is either amount a wire contract could mean: the cost
or the fill at the limit, cut to wire units. Two branches of `onIntentSealed`,
a missing agent id and an outcome whose handles differ from the pair's, cannot
be reached from the code's own route and client and are left out. A refused,
rejected or failed enclave call is one outcome whatever its text.

A session's prices are a few small numbers, its claims one per side, and its
settlement one step that trades or fails: `Settlement` takes that step apart,
and the outcome reference is fresh each time. `NegotiationTurns` plays one
move at a time; the overlaps are `NegotiationSession`'s. The arithmetic of the
strategy is on integers, where the code's is on doubles rounded to cents and
millionths. An authored mandate is assumed; the profile synthesized for a
legacy one is not modelled.

## Not modelled

- Authentication, API keys, sessions: one row or one map entry per challenge.
- Institutions, deposits and withdrawals: record keeping and single chain
  calls. A withdrawal looks at the balance on chain and not at the locks, and
  the metadata of an institution is read, merged and written back; neither
  meets the state of the other modules.
- Custody sync beyond its effect on a row, telemetry (a bounded replay buffer
  that nothing reads to decide), receipts and trade history (queries).
- The creation of a mandate, the SDK, the agents that submit single intents,
  the LLM clients, HTTP routes, the frontend, scripts: input and output, or
  clients whose requests are the inputs of the modules.
- Of the settlement, the administrator's reverse endpoint (it passes a trade
  ref to a cache keyed by transaction hash), the signer held by the enclave
  and chain reorganisations.
- Sealing, hashing, delegation credentials and encodings: their outcomes are
  the answers the modelled calls may give.
