-------------------------- MODULE NegotiationSession --------------------------
(***************************************************************************)
(* One session of NegotiationOrchestrator: the moves of its two agents,    *)
(* the operators' decisions on its escalation gate and the timer of that   *)
(* gate, from the row in state "active" to a trade or to an end without    *)
(* one.                                                                    *)
(*                                                                         *)
(* Every call reads the row once and goes on from that snapshot; every     *)
(* update is a patch by id that compares nothing.  Two calls are told      *)
(* apart only by the turn, and the turn is looked at after the deadline:   *)
(* an agent out of turn, two operators and the timer may all be at work    *)
(* while the other agent's call settles.                                   *)
(*                                                                         *)
(* The enclave keeps a sealed proposal until a cross consumes it.  Besides *)
(* the row, the database keeps the last proposal of each side; the         *)
(* orchestrator keeps them in memory too, with the gate's timer, and loses *)
(* both in a restart.  A price is a small number, an execution price twice *)
(* the midpoint.  What a side may propose (negotiation-strategy.ts) is     *)
(* NegotiationStrategy's concern: here it is any price.                    *)
(***************************************************************************)
EXTENDS Integers, Sequences, FiniteSets

CONSTANTS
  Operators,     \* operators who may decide on the gate
  BidPrices,
  AskPrices,
  Escalates,     \* sides under escalate_outside_envelope
  MinEnvelope,   \* preferred envelope of a side, in execution prices
  MaxEnvelope,
  Requires,      \* sides with a required claim on their counterpart
  None,
  MaxRounds,     \* max_rounds of the session
  MaxRoundNo,    \* bound on round_number, which calls at the gate increment
  MaxSeals,      \* bound on the proposals of a side
  MaxFaults      \* bound on failed calls and restarts

Sides == {"buy", "sell"}
Callers == Sides \cup Operators
Calls == Callers \cup {"timer"}

ASSUME SessionAssumption ==
  /\ Operators \cap {"buy", "sell", "timer"} = {}
  /\ BidPrices \subseteq Nat \ {0}
  /\ AskPrices \subseteq Nat \ {0}
  /\ Escalates \subseteq Sides
  /\ MinEnvelope \in [Sides -> Nat]
  /\ MaxEnvelope \in [Sides -> Nat]
  /\ Requires \subseteq Sides
  /\ {MaxRounds, MaxRoundNo, MaxSeals, MaxFaults} \subseteq Nat

VARIABLES
  row,        \* negotiation_sessions: [status, turn, round, escalation]
  standing,   \* negotiation_rounds: last proposal of each side, its round
  enclave,    \* sealed proposals in the enclave's kv-store
  memory,     \* sealedStandingProposals
  timer,      \* the session has an entry in escalationTimers
  late,       \* the deadline has passed
  revealed,   \* sides with a verified disclosure
  call,       \* the call in progress of each agent, operator and the timer
  seals,      \* how many proposals a side has sealed
  trades,     \* history: settlements that moved assets, in order
  gated,      \* history: crosses that opened the gate
  approvals,  \* history: an operator's approval was written
  lapses,     \* history: failures that pass for success
  faults

sessionVars == <<row, standing>>
enclaveVars == <<enclave, seals>>
processVars == <<memory, timer>>
historyVars == <<trades, gated, approvals>>
faultVars == <<lapses, faults>>
vars == <<sessionVars, enclaveVars, processVars, late, revealed, call,
          historyVars, faultVars>>

Statuses == {"active", "awaiting_approval", "converged", "settling",
             "settled", "walked_away", "expired"}
Escalations == {"none", "pending", "approved", "declined"}

Other(side) == IF side = "buy" THEN "sell" ELSE "buy"
Prices(side) == IF side = "buy" THEN BidPrices ELSE AskPrices
Proposals == [side : Sides, k : 1 .. MaxSeals, price : BidPrices \cup AskPrices]

\* The next await of a call.
CallStates == {"idle", "gateHold", "expire", "walkaway", "reveal", "advance",
               "seal", "evaluate", "append", "gate", "arm", "disclosure",
               "converge", "lookup", "settling", "settle", "mark", "reset",
               "approve", "handles", "decline", "check", "expireUnapproved"}

\* round: round_number of the snapshot; bid, ask: an agent's own proposal, and
\* both of them once the enclave says that they cross.
IdleCall == [pc |-> "idle", round |-> 0, bid |-> None, ask |-> None]

-----------------------------------------------------------------------------
(* Policies on prices.                                                     *)

ExecutionPrice(bid, ask) == bid.price + ask.price

InsideEnvelope(side, executionPrice) ==
  executionPrice \in MinEnvelope[side] .. MaxEnvelope[side]

\* (Variant: only the side that moves is asked.)
MustEscalateActor(side, bid, ask) ==
  LET own == IF side = "buy" THEN bid ELSE ask IN
  side \in Escalates /\ ~InsideEnvelope(side, 2 * own.price)

\* The mover's own price, and the execution price for its counterpart.
MustEscalate(side, bid, ask) ==
  LET own == IF side = "buy" THEN bid ELSE ask IN
  \/ side \in Escalates /\ ~InsideEnvelope(side, 2 * own.price)
  \/ /\ Other(side) \in Escalates
     /\ ~InsideEnvelope(Other(side), ExecutionPrice(bid, ask))

GateSatisfied == \A side \in Requires : Other(side) \in revealed

-----------------------------------------------------------------------------
Init ==
  /\ row = [status |-> "active", turn |-> "buy", round |-> 0,
            escalation |-> "none"]
  /\ standing = [s \in Sides |-> [proposal |-> None, round |-> 0]]
  /\ enclave = {}
  /\ memory = [s \in Sides |-> None]
  /\ timer = FALSE
  /\ late = FALSE
  /\ revealed = {}
  /\ call = [c \in Calls |-> IdleCall]
  /\ seals = [s \in Sides |-> 0]
  /\ trades = <<>>
  /\ gated = {}
  /\ approvals = FALSE
  /\ lapses = {}
  /\ faults = 0

Fault ==
  /\ faults < MaxFaults
  /\ faults' = faults + 1
  /\ UNCHANGED lapses

FaultThat(kind) ==
  /\ faults < MaxFaults
  /\ faults' = faults + 1
  /\ lapses' = lapses \cup {kind}

Goto(c, pc) == call' = [call EXCEPT ![c].pc = pc]
Finish(c) == call' = [call EXCEPT ![c] = IdleCall]
Begin(c, pc) == call' = [call EXCEPT ![c] = [IdleCall EXCEPT
                           !.pc = pc, !.round = row.round]]

Pending == row.status = "awaiting_approval" /\ row.escalation = "pending"

-----------------------------------------------------------------------------
(* submitMove: the checks on the snapshot, and the moves without a price.  *)

\* A move at the gate is a hold; then come the deadline and the round cap, and
\* the turn only after them.  An expiry clears the gate's timer at once.
SubmitMove(side) ==
  /\ call[side].pc = "idle"
  /\ \/ /\ row.status = "awaiting_approval"
        /\ Begin(side, "gateHold")
        /\ UNCHANGED timer
     \/ /\ row.status = "active"
        /\ late \/ row.round >= MaxRounds
        /\ Begin(side, "expire")
        /\ timer' = FALSE
     \/ /\ row.status = "active"
        /\ ~late /\ row.round < MaxRounds
        /\ row.turn = side
        /\ \E pc \in {"walkaway", "reveal", "advance", "seal"} : Begin(side, pc)
        /\ UNCHANGED timer
  /\ UNCHANGED <<sessionVars, enclaveVars, memory, late, revealed,
                 historyVars, faultVars>>

Patch(c, new) ==
  /\ row' = new
  /\ Finish(c)
  /\ UNCHANGED <<standing, enclaveVars, processVars, late, revealed,
                 historyVars, faultVars>>

GateHold(side) ==
  /\ call[side].pc = "gateHold"
  /\ call[side].round < MaxRoundNo
  /\ Patch(side, [row EXCEPT !.round = call[side].round + 1])

ExpireSession(c) ==
  /\ call[c].pc = "expire"
  /\ Patch(c, [row EXCEPT !.status = "expired", !.escalation = "none"])

WalkAway(side) ==
  /\ call[side].pc = "walkaway"
  /\ Patch(side, [row EXCEPT !.status = "walked_away",
                             !.round = call[side].round + 1])

\* handleDisclosure: the enclave verifies the claim or does not.
HandleDisclosure(side) ==
  /\ call[side].pc = "reveal"
  /\ revealed' \in {revealed, revealed \cup {side}}
  /\ Goto(side, "advance")
  /\ UNCHANGED <<sessionVars, enclaveVars, processVars, late, historyVars,
                 faultVars>>

\* hold, request_disclosure, and every priced move that did not settle.
AdvanceTurn(side) ==
  /\ call[side].pc = "advance"
  /\ Patch(side, [row EXCEPT !.turn = Other(side),
                             !.round = call[side].round + 1])

-----------------------------------------------------------------------------
(* runPricedMove.                                                          *)

SealRound(side, price) ==
  LET p == [side |-> side, k |-> seals[side] + 1, price |-> price] IN
  /\ call[side].pc = "seal"
  /\ seals[side] < MaxSeals
  /\ seals' = [seals EXCEPT ![side] = @ + 1]
  /\ enclave' = enclave \cup {p}
  /\ memory' = [memory EXCEPT ![side] = p]
  /\ call' = [call EXCEPT ![side] =
       IF side = "buy" THEN [@ EXCEPT !.pc = "evaluate", !.bid = p]
       ELSE [@ EXCEPT !.pc = "evaluate", !.ask = p]]
  /\ UNCHANGED <<sessionVars, timer, late, revealed, historyVars, faultVars>>

\* The enclave keeps the proposal; its answer, and with it the handle, is lost.
SealLost(side, price) ==
  /\ call[side].pc = "seal"
  /\ seals[side] < MaxSeals
  /\ Fault
  /\ seals' = [seals EXCEPT ![side] = @ + 1]
  /\ enclave' = enclave \cup {[side |-> side, k |-> seals[side] + 1, price |-> price]}
  /\ Finish(side)
  /\ UNCHANGED <<sessionVars, processVars, late, revealed, historyVars>>

Crosses(bid, ask) ==
  /\ {bid, ask} \subseteq enclave
  /\ bid.price >= ask.price

\* The priced move is recorded either way; an approval without a cross is done.
AfterVerdict(c, bid, ask) ==
  call' = [call EXCEPT ![c] =
    IF Crosses(bid, ask)
    THEN [@ EXCEPT !.bid = bid, !.ask = ask,
                   !.pc = IF c \in Sides THEN "append" ELSE "disclosure"]
    ELSE IF c \in Sides THEN [@ EXCEPT !.pc = "append"] ELSE IdleCall]

\* (Variant: a cross leaves both entries in the kv-store.)
EvaluateRoundKeeping(c, bid, ask) ==
  /\ AfterVerdict(c, bid, ask)
  /\ UNCHANGED <<enclave, faultVars>>

\* evaluate_round: a proposal that is not in the kv-store never crosses; a
\* cross consumes both, and an error of a deletion is ignored.
EvaluateRound(c, bid, ask) ==
  /\ AfterVerdict(c, bid, ask)
  /\ \/ /\ enclave' = IF Crosses(bid, ask) THEN enclave \ {bid, ask} ELSE enclave
        /\ UNCHANGED faultVars
     \/ /\ Crosses(bid, ask)
        /\ FaultThat("undeleted")
        /\ enclave' \in {enclave, enclave \ {bid}, enclave \ {ask}}

\* The counterpart comes from this process's memory.
EvaluateMove(side) ==
  LET bid == IF side = "buy" THEN call[side].bid ELSE memory["buy"]
      ask == IF side = "sell" THEN call[side].ask ELSE memory["sell"] IN
  /\ call[side].pc = "evaluate"
  /\ IF None \in {bid, ask} THEN Goto(side, "append") /\ UNCHANGED <<enclave, faultVars>>
     ELSE EvaluateRound(side, bid, ask)
  /\ UNCHANGED <<sessionVars, seals, processVars, late, revealed, historyVars>>

\* appendRound, and what the cross leads to: the gate if a policy or the agent
\* asks for it, otherwise the disclosures.
AppendRound(side) ==
  LET r == call[side].round + 1
      p == IF side = "buy" THEN call[side].bid ELSE call[side].ask
      crossed == None \notin {call[side].bid, call[side].ask} IN
  /\ call[side].pc = "append"
  /\ standing' = [standing EXCEPT ![side] =
                    IF r >= @.round THEN [proposal |-> p, round |-> r] ELSE @]
  /\ \/ ~crossed /\ Goto(side, "advance")
     \/ crossed /\ Goto(side, "gate")
     \/ /\ crossed
        /\ ~MustEscalate(side, call[side].bid, call[side].ask)
        /\ Goto(side, "disclosure")
  /\ UNCHANGED <<row, enclaveVars, processVars, late, revealed, historyVars,
                 faultVars>>

OpenEscalationGate(side) ==
  /\ call[side].pc = "gate"
  /\ row' = [row EXCEPT !.status = "awaiting_approval", !.escalation = "pending"]
  /\ gated' = gated \cup {<<call[side].bid, call[side].ask>>}
  /\ Goto(side, "arm")
  /\ UNCHANGED <<standing, enclaveVars, processVars, late, revealed, trades,
                 approvals, faultVars>>

\* (Variant: no timer for a deadline that has passed.)
ArmEscalationTimerInFuture(side) ==
  /\ call[side].pc = "arm"
  /\ timer' = ~late
  /\ Finish(side)
  /\ UNCHANGED <<sessionVars, enclaveVars, memory, late, revealed,
                 historyVars, faultVars>>

ArmEscalationTimer(side) ==
  /\ call[side].pc = "arm"
  /\ timer' = TRUE
  /\ Finish(side)
  /\ UNCHANGED <<sessionVars, enclaveVars, memory, late, revealed,
                 historyVars, faultVars>>

\* (Variant: an approval is not held up by the disclosures.)
DisclosureGateForMoves(c) ==
  /\ call[c].pc = "disclosure"
  /\ \/ (GateSatisfied \/ c \in Operators) /\ Goto(c, "converge")
     \/ ~GateSatisfied /\ c \in Sides /\ Goto(c, "advance")
  /\ UNCHANGED <<sessionVars, enclaveVars, processVars, late, revealed,
                 historyVars, faultVars>>

\* disclosureGateSatisfiedFor: a view that cannot be read counts as satisfied.
\* Without the disclosures an agent passes its turn and an operator is done.
DisclosureGate(c) ==
  /\ call[c].pc = "disclosure"
  /\ \/ /\ GateSatisfied
        /\ Goto(c, "converge")
        /\ UNCHANGED faultVars
     \/ /\ ~GateSatisfied
        /\ FaultThat("unread")
        /\ Goto(c, "converge")
     \/ /\ ~GateSatisfied
        /\ IF c \in Sides THEN Goto(c, "advance") ELSE Finish(c)
        /\ UNCHANGED faultVars
  /\ UNCHANGED <<sessionVars, enclaveVars, processVars, late, revealed,
                 historyVars>>

\* A cross without ciphertexts cannot be settled.
MissingCiphertexts(c) ==
  /\ call[c].pc = "converge"
  /\ Fault
  /\ Goto(c, "expire")
  /\ timer' = FALSE
  /\ UNCHANGED <<sessionVars, enclaveVars, memory, late, revealed, historyVars>>

-----------------------------------------------------------------------------
(* convergeAndSettle, for an agent's call and for an operator's.           *)

Advance(c, from, to, new) ==
  /\ call[c].pc = from
  /\ row' = new
  /\ Goto(c, to)
  /\ UNCHANGED <<standing, enclaveVars, processVars, late, revealed,
                 historyVars, faultVars>>

Converge(c) ==
  Advance(c, "converge", "lookup",
          [row EXCEPT !.status = "converged", !.round = call[c].round + 1])

LookupAgents(c) ==
  /\ call[c].pc = "lookup"
  /\ Goto(c, "settling")
  /\ UNCHANGED <<sessionVars, enclaveVars, processVars, late, revealed,
                 historyVars, faultVars>>

\* An agent's record cannot be found or read.
LookupAgentsFails(c) ==
  /\ call[c].pc = "lookup"
  /\ Fault
  /\ row' = [row EXCEPT !.status = "expired"]
  /\ Finish(c)
  /\ UNCHANGED <<standing, enclaveVars, processVars, late, revealed, historyVars>>

Settling(c) ==
  Advance(c, "settling", "settle", [row EXCEPT !.status = "settling"])

Traded(c) ==
  trades' = Append(trades, [bid |-> call[c].bid, ask |-> call[c].ask, by |-> c])

ExecuteSettlement(c) ==
  /\ call[c].pc = "settle"
  /\ Traded(c)
  /\ Goto(c, "mark")
  /\ UNCHANGED <<sessionVars, enclaveVars, processVars, late, revealed, gated,
                 approvals, faultVars>>

\* An error, with or without the transfer.  (Variant: it is tried again.)
ExecuteSettlementRetried(c) ==
  /\ call[c].pc = "settle"
  /\ Fault
  /\ Traded(c) \/ UNCHANGED trades
  /\ UNCHANGED <<sessionVars, enclaveVars, processVars, late, revealed, call,
                 gated, approvals>>

ExecuteSettlementFails(c) ==
  /\ call[c].pc = "settle"
  /\ Fault
  /\ Traded(c) \/ UNCHANGED trades
  /\ Goto(c, "reset")
  /\ UNCHANGED <<sessionVars, enclaveVars, processVars, late, revealed, gated,
                 approvals>>

ResetToActive(c) ==
  /\ call[c].pc = "reset"
  /\ Patch(c, [row EXCEPT !.status = "active"])

\* (Variant: the trade is linked and the status forgotten.)
MarkLinkedOnly(c) == call[c].pc = "mark" /\ Patch(c, row)

MarkSettled(c) ==
  /\ call[c].pc = "mark"
  /\ Patch(c, [row EXCEPT !.status = "settled"])

\* Any other await throws and ends the call, before it was applied or (at the
\* next one) with its answer lost; nobody resets the row.
CallFails(c) ==
  /\ call[c].pc # "idle"
  /\ Fault
  /\ Finish(c)
  /\ UNCHANGED <<sessionVars, enclaveVars, processVars, late, revealed,
                 historyVars>>

-----------------------------------------------------------------------------
(* The gate: two decisions and a timer.                                    *)

\* Past the deadline an approval is an expiry, which reads the row again.
ApproveEscalation(op) ==
  /\ call[op].pc = "idle"
  /\ Pending
  /\ IF late THEN Begin(op, "check") /\ UNCHANGED timer
     ELSE Begin(op, "approve") /\ timer' = FALSE
  /\ UNCHANGED <<sessionVars, enclaveVars, memory, late, revealed,
                 historyVars, faultVars>>

\* The approval reopens the session, and then looks at the cross again.
Approve(op) ==
  /\ call[op].pc = "approve"
  /\ row' = [row EXCEPT !.status = "active", !.escalation = "approved"]
  /\ approvals' = TRUE
  /\ Goto(op, "handles")
  /\ UNCHANGED <<standing, enclaveVars, processVars, late, revealed, trades,
                 gated, faultVars>>

\* The last proposals of the database are sent to the enclave.
EvaluateStanding(op) ==
  LET bid == standing["buy"].proposal
      ask == standing["sell"].proposal IN
  /\ call[op].pc = "handles"
  /\ IF None \in {bid, ask} THEN Finish(op) /\ UNCHANGED <<enclave, faultVars>>
     ELSE EvaluateRound(op, bid, ask)
  /\ UNCHANGED <<sessionVars, seals, processVars, late, revealed, historyVars>>

DeclineEscalation(op) ==
  /\ call[op].pc = "idle"
  /\ Pending
  /\ Begin(op, "decline")
  /\ timer' = FALSE
  /\ UNCHANGED <<sessionVars, enclaveVars, memory, late, revealed,
                 historyVars, faultVars>>

Declined == [row EXCEPT !.status = "expired", !.escalation = "declined"]

Decline(op) == call[op].pc = "decline" /\ Patch(op, Declined)

DeadlinePasses ==
  /\ ~late
  /\ late' = TRUE
  /\ UNCHANGED <<sessionVars, enclaveVars, processVars, revealed, call,
                 historyVars, faultVars>>

TimerFires ==
  /\ timer /\ late
  /\ call["timer"].pc = "idle"
  /\ timer' = FALSE
  /\ Begin("timer", "check")
  /\ UNCHANGED <<sessionVars, enclaveVars, memory, late, revealed,
                 historyVars, faultVars>>

\* expireUnapprovedEscalation up to its update.
CheckPending(c) ==
  /\ call[c].pc = "check"
  /\ IF Pending THEN Goto(c, "expireUnapproved") ELSE Finish(c)
  /\ UNCHANGED <<sessionVars, enclaveVars, processVars, late, revealed,
                 historyVars, faultVars>>

ExpireUnapproved(c) ==
  /\ call[c].pc = "expireUnapproved"
  /\ Patch(c, Declined)

Restart ==
  /\ Fault
  /\ call' = [c \in Calls |-> IdleCall]
  /\ memory' = [s \in Sides |-> None]
  /\ timer' = FALSE
  /\ UNCHANGED <<sessionVars, enclaveVars, late, revealed, historyVars>>

-----------------------------------------------------------------------------
Move(side) ==
  \/ GateHold(side)
  \/ WalkAway(side)
  \/ HandleDisclosure(side)
  \/ AdvanceTurn(side)
  \/ \E price \in Prices(side) : SealRound(side, price)
  \/ EvaluateMove(side)
  \/ AppendRound(side)
  \/ OpenEscalationGate(side)
  \/ ArmEscalationTimer(side)

Settle(c) ==
  \/ ExpireSession(c)
  \/ DisclosureGate(c)
  \/ Converge(c)
  \/ LookupAgents(c)
  \/ Settling(c)
  \/ ExecuteSettlement(c)
  \/ ResetToActive(c)
  \/ MarkSettled(c)

Gate(c) ==
  \/ Approve(c)
  \/ EvaluateStanding(c)
  \/ Decline(c)

TimeOut(c) == CheckPending(c) \/ ExpireUnapproved(c)

Failure(c) ==
  \/ MissingCiphertexts(c)
  \/ LookupAgentsFails(c)
  \/ ExecuteSettlementFails(c)
  \/ c \in Sides /\ \E price \in Prices(c) : SealLost(c, price)
  \/ CallFails(c)

Next ==
  \/ \E side \in Sides : SubmitMove(side) \/ Move(side)
  \/ \E op \in Operators : ApproveEscalation(op) \/ DeclineEscalation(op) \/ Gate(op)
  \/ \E c \in Callers : Settle(c)
  \/ \E c \in Operators \cup {"timer"} : TimeOut(c)
  \/ \E c \in Calls : Failure(c)
  \/ TimerFires
  \/ DeadlinePasses
  \/ Restart

Spec == Init /\ [][Next]_vars

\* A call goes on, the timer fires when it is due, and the deadline passes.
\* Nobody is obliged to move or to decide.
FairSpec ==
  /\ Spec
  /\ \A side \in Sides : WF_vars(Move(side))
  /\ \A op \in Operators : WF_vars(Gate(op))
  /\ \A c \in Callers : WF_vars(Settle(c))
  /\ \A c \in Operators \cup {"timer"} : WF_vars(TimeOut(c))
  /\ WF_vars(TimerFires)
  /\ WF_vars(DeadlinePasses)

-----------------------------------------------------------------------------
TypeOK ==
  /\ row \in [status : Statuses, turn : Sides, round : Nat,
              escalation : Escalations]
  /\ standing \in [Sides -> [proposal : Proposals \cup {None}, round : Nat]]
  /\ enclave \subseteq Proposals
  /\ memory \in [Sides -> Proposals \cup {None}]
  /\ timer \in BOOLEAN
  /\ late \in BOOLEAN
  /\ revealed \subseteq Sides
  /\ call \in [Calls -> [pc : CallStates, round : Nat, bid : Proposals \cup {None},
                         ask : Proposals \cup {None}]]
  /\ seals \in [Sides -> 0 .. MaxSeals]
  /\ trades \in Seq([bid : Proposals, ask : Proposals, by : Callers])
  /\ gated \subseteq Proposals \X Proposals
  /\ approvals \in BOOLEAN
  /\ lapses \subseteq {"unread", "undeleted"}
  /\ faults \in 0 .. MaxFaults

SidesOf(t) == {t.bid, t.ask}

\* Every trade of the session is between a bid and an ask that cross, and unless
\* the enclave failed to delete an entry no proposal is in two trades, whichever
\* calls of the agents and the operators settle it (evaluate_round consumes).
ProposalsTradeOnce ==
  \A i \in DOMAIN trades :
    /\ trades[i].bid.price >= trades[i].ask.price
    /\ "undeleted" \notin lapses =>
         \A j \in DOMAIN trades :
           SidesOf(trades[i]) \cap SidesOf(trades[j]) # {} => i = j

\* No assets move before every required claim was disclosed and verified, unless
\* the view of the session could not be read (disclosureGateSatisfiedFor).
DisclosedBeforeTrade ==
  trades # <<>> /\ "unread" \notin lapses => GateSatisfied

\* Terms worse for a side than its preferred envelope are settled only after an
\* operator's approval, also when the counterpart makes the last move.
UnapprovedWithinEnvelope ==
  ~approvals =>
    \A i \in DOMAIN trades : \A side \in Escalates :
      LET p == ExecutionPrice(trades[i].bid, trades[i].ask) IN
      IF side = "buy" THEN p <= MaxEnvelope[side] ELSE p >= MinEnvelope[side]

\* The priced moves that opened the gate are never settled after a refusal: their
\* proposals were consumed by the cross (declineEscalation: no settlement ever
\* happens for the priced move that triggered the gate).
DeclinedNeverTrades ==
  row.escalation = "declined" /\ "undeleted" \notin lapses =>
    \A i \in DOMAIN trades : <<trades[i].bid, trades[i].ask>> \notin gated

\* A settled session has a trade: the row is marked last.
SettledHasTrade == row.status = "settled" => trades # <<>>

\* A gate that waits for a decision is decided, at the latest by its timer,
\* unless a call failed or the process restarted (armEscalationTimer).
GateResolved == Pending ~> (~Pending \/ faults > 0)

\* A session does not stay between the cross and the settlement, unless a call
\* failed or the process restarted (convergeAndSettle).
SettlementEnds ==
  row.status \in {"converged", "settling"} ~>
    (row.status \notin {"converged", "settling"} \/ faults > 0)

\* What an approval re-evaluates can still cross: both proposals that the
\* operator is asked about are in the enclave as long as the gate waits
\* (approveEscalation: re-evaluates the priced cross and settles).
GateHoldsACross ==
  Pending /\ "undeleted" \notin lapses =>
    \E g \in gated : {g[1], g[2]} \subseteq enclave

-----------------------------------------------------------------------------
(* Refinement.                                                             *)

\* A call between the verdict of a cross and the transfer.
Trading == {"disclosure", "converge", "lookup", "settling", "settle"}

\* A call that holds two proposals which the enclave found to cross.
Holds(c) ==
  \/ call[c].pc \in Trading \cup {"gate"}
  \/ call[c].pc = "append" /\ None \notin {call[c].bid, call[c].ask}

Hand(c) == IF Holds(c) THEN {<<call[c].bid, call[c].ask>>} ELSE {}

Promise == INSTANCE Deal WITH
  open <- enclave,
  hand <- [c \in Callers |-> Hand(c)],
  approved <- approvals

\* The session keeps the promise of Deal, although its row protects nothing:
\* calls settle at once, overwrite each other's status, fail and are forgotten.
ImplementsDeal == Promise!Spec
=============================================================================
