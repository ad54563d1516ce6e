----------------------- MODULE NegotiationSessionProofs -----------------------
(* What NegotiationSession's runs check of the trades of a session, for any  *)
(* prices, policies, operators and bounds.                                   *)
EXTENDS NegotiationSession, SequenceTheorems, TLAPS

-----------------------------------------------------------------------------
(* Types.                                                                  *)

AgentStates == {"idle", "gateHold", "expire", "walkaway", "reveal", "advance",
                "seal", "evaluate", "append", "gate", "arm", "mark", "reset"}
               \cup Trading
OperatorStates == {"idle", "expire", "approve", "handles", "decline", "check",
                   "expireUnapproved", "mark", "reset"} \cup Trading
TimerStates == {"idle", "check", "expireUnapproved"}

\* What each caller may be doing, and that the one who trades or opens the gate
\* has both proposals.
CallInv ==
  /\ \A s \in Sides : call[s].pc \in AgentStates
  /\ \A op \in Operators : call[op].pc \in OperatorStates
  /\ call["timer"].pc \in TimerStates
  /\ \A c \in Calls :
       call[c].pc \in Trading \cup {"gate"} =>
         call[c].bid \in Proposals /\ call[c].ask \in Proposals

TypedInv == TypeOK /\ CallInv

\* The callers of the three kinds are distinct.
LEMMA DistinctCallers ==
  /\ Sides \subseteq Calls /\ Operators \subseteq Calls /\ "timer" \in Calls
  /\ Sides \cap Operators = {} /\ "timer" \notin Sides \cup Operators
  /\ Callers \subseteq Calls /\ Callers = Sides \cup Operators
  BY SessionAssumption DEF Calls, Callers, Sides

LEMMA CallGoesOn ==
  ASSUME TypeOK, NEW c \in Calls, NEW pc \in CallStates, Goto(c, pc)
  PROVE  /\ call' \in [Calls -> [pc : CallStates, round : Nat,
                                 bid : Proposals \cup {None},
                                 ask : Proposals \cup {None}]]
         /\ \A d \in Calls \ {c} : call'[d] = call[d]
         /\ call'[c].pc = pc
         /\ call'[c].bid = call[c].bid /\ call'[c].ask = call[c].ask
  BY DEF TypeOK, Goto

LEMMA CallEnds ==
  ASSUME TypeOK, NEW c \in Calls, Finish(c)
  PROVE  /\ call' \in [Calls -> [pc : CallStates, round : Nat,
                                 bid : Proposals \cup {None},
                                 ask : Proposals \cup {None}]]
         /\ \A d \in Calls \ {c} : call'[d] = call[d]
         /\ call'[c] = IdleCall /\ call'[c].pc = "idle"
  BY DEF TypeOK, Finish, IdleCall, CallStates

LEMMA CallBegins ==
  ASSUME TypeOK, NEW c \in Calls, NEW pc \in CallStates, Begin(c, pc)
  PROVE  /\ call' \in [Calls -> [pc : CallStates, round : Nat,
                                 bid : Proposals \cup {None},
                                 ask : Proposals \cup {None}]]
         /\ \A d \in Calls \ {c} : call'[d] = call[d]
         /\ call'[c].pc = pc
         /\ call'[c].bid = None /\ call'[c].ask = None
  BY DEF TypeOK, Begin, IdleCall

\* A step of one caller to a state its kind may be in.
LEMMA CallInvKept ==
  ASSUME CallInv, NEW c \in Calls,
         \A d \in Calls \ {c} : call'[d] = call[d],
         c \in Sides => call'[c].pc \in AgentStates,
         c \in Operators => call'[c].pc \in OperatorStates,
         c = "timer" => call'[c].pc \in TimerStates,
         call'[c].pc \in Trading \cup {"gate"} =>
           call'[c].bid \in Proposals /\ call'[c].ask \in Proposals
  PROVE  CallInv'
  <1>1. \A d \in Calls : d = c \/ call'[d] = call[d]
    OBVIOUS
  <1>2. QED  BY <1>1, DistinctCallers DEF CallInv

\* The row is patched to one of its states.
Rows == [status : Statuses, turn : Sides, round : Nat, escalation : Escalations]

LEMMA FaultTypes ==
  ASSUME TypeOK, Fault \/ (\E kind \in {"unread", "undeleted"} : FaultThat(kind))
  PROVE  /\ lapses' \subseteq {"unread", "undeleted"} /\ faults' \in 0 .. MaxFaults
         /\ lapses \subseteq lapses'
  <1>1. faults' = faults + 1 /\ faults < MaxFaults
    BY DEF Fault, FaultThat
  <1>2. faults' \in 0 .. MaxFaults
    BY <1>1, SessionAssumption DEF TypeOK
  <1>3. CASE Fault
    BY <1>2, <1>3 DEF TypeOK, Fault
  <1>4. ASSUME NEW kind \in {"unread", "undeleted"}, FaultThat(kind)
        PROVE  /\ lapses' \subseteq {"unread", "undeleted"}
               /\ lapses \subseteq lapses'
    BY <1>4 DEF TypeOK, FaultThat
  <1>5. QED  BY <1>2, <1>3, <1>4

LEMMA TypedInit == Init => TypedInv
  <1> SUFFICES ASSUME Init PROVE TypedInv
    OBVIOUS
  <1>1. TypeOK
    <2>1. trades \in Seq([bid : Proposals, ask : Proposals, by : Callers])
      BY EmptySeq DEF Init
    <2>2. seals \in [Sides -> 0 .. MaxSeals] /\ faults \in 0 .. MaxFaults
      BY SessionAssumption DEF Init
    <2>3. QED
      BY <2>1, <2>2 DEF Init, TypeOK, IdleCall, CallStates, Sides, Statuses, Escalations
  <1>2. CallInv
    BY DistinctCallers
       DEF Init, CallInv, IdleCall, AgentStates, OperatorStates, TimerStates, Trading
  <1>3. QED  BY <1>1, <1>2 DEF TypedInv

\* What the verdict on two proposals makes of a call.
LEMMA VerdictMoves ==
  ASSUME TypeOK, NEW c \in Callers, NEW bid \in Proposals, NEW ask \in Proposals,
         AfterVerdict(c, bid, ask)
  PROVE  /\ call' \in [Calls -> [pc : CallStates, round : Nat,
                                 bid : Proposals \cup {None},
                                 ask : Proposals \cup {None}]]
         /\ \A d \in Calls \ {c} : call'[d] = call[d]
         /\ \/ /\ Crosses(bid, ask)
               /\ call'[c].bid = bid /\ call'[c].ask = ask
               /\ call'[c].pc = IF c \in Sides THEN "append" ELSE "disclosure"
            \/ /\ ~Crosses(bid, ask) /\ c \in Sides
               /\ call'[c].bid = call[c].bid /\ call'[c].ask = call[c].ask
               /\ call'[c].pc = "append"
            \/ /\ ~Crosses(bid, ask) /\ c \notin Sides
               /\ call'[c] = IdleCall
  <1> DEFINE new == IF Crosses(bid, ask)
                    THEN [call[c] EXCEPT !.bid = bid, !.ask = ask,
                            !.pc = IF c \in Sides THEN "append" ELSE "disclosure"]
                    ELSE IF c \in Sides THEN [call[c] EXCEPT !.pc = "append"]
                         ELSE IdleCall
  <1>1. c \in Calls
    BY DistinctCallers
  <1>2. call' = [call EXCEPT ![c] = new]
    BY DEF AfterVerdict
  <1>3. /\ new \in [pc : CallStates, round : Nat, bid : Proposals \cup {None},
                    ask : Proposals \cup {None}]
        /\ \/ /\ Crosses(bid, ask)
              /\ new.bid = bid /\ new.ask = ask
              /\ new.pc = IF c \in Sides THEN "append" ELSE "disclosure"
           \/ /\ ~Crosses(bid, ask) /\ c \in Sides
              /\ new.bid = call[c].bid /\ new.ask = call[c].ask
              /\ new.pc = "append"
           \/ ~Crosses(bid, ask) /\ c \notin Sides /\ new = IdleCall
    <2>1. CASE Crosses(bid, ask)
      BY <1>1, <2>1 DEF TypeOK, CallStates
    <2>2. CASE ~Crosses(bid, ask) /\ c \in Sides
      BY <1>1, <2>2 DEF TypeOK, CallStates
    <2>3. CASE ~Crosses(bid, ask) /\ c \notin Sides
      BY <1>1, <2>3 DEF TypeOK, CallStates, IdleCall
    <2>4. QED  BY <2>1, <2>2, <2>3
  <1> HIDE DEF new
  <1>4. QED  BY <1>1, <1>2, <1>3 DEF TypeOK

\* A patch of the row ends a call, or sends it on (Advance).
\* What a side seals next is a proposal.
LEMMA NextProposal ==
  ASSUME TypeOK, NEW side \in Sides, NEW price \in Prices(side),
         seals[side] < MaxSeals
  PROVE  /\ seals[side] + 1 \in 1 .. MaxSeals
         /\ [side |-> side, k |-> seals[side] + 1, price |-> price] \in Proposals
  <1>1. seals[side] \in 0 .. MaxSeals /\ MaxSeals \in Nat
    BY SessionAssumption DEF TypeOK
  <1>2. seals[side] + 1 \in 1 .. MaxSeals
    BY <1>1
  <1>3. price \in BidPrices \cup AskPrices
    BY DEF Prices
  <1>4. QED  BY <1>2, <1>3 DEF Proposals

LEMMA PatchTypes ==
  ASSUME TypedInv, NEW c \in Calls, NEW new \in Rows, Patch(c, new)
  PROVE  TypedInv'
  <1> USE DEF TypedInv
  <1>1. TypeOK'
    BY CallEnds DEF Patch, TypeOK, Rows, sessionVars, enclaveVars, processVars,
                    historyVars, faultVars
  <1>2. CallInv'
    BY CallEnds, CallInvKept
       DEF Patch, AgentStates, OperatorStates, TimerStates, Trading
  <1>3. QED  BY <1>1, <1>2

LEMMA RowTypes ==
  ASSUME TypeOK, NEW c \in Calls
  PROVE  /\ row \in Rows
         /\ \A status \in Statuses : [row EXCEPT !.status = status] \in Rows
         /\ \A status \in Statuses, escalation \in Escalations :
              [row EXCEPT !.status = status, !.escalation = escalation] \in Rows
         /\ \A status \in Statuses :
              [row EXCEPT !.status = status, !.round = call[c].round + 1] \in Rows
         /\ [row EXCEPT !.round = call[c].round + 1] \in Rows
         /\ \A side \in Sides :
              [row EXCEPT !.turn = Other(side), !.round = call[c].round + 1] \in Rows
  <1>1. row \in Rows /\ call[c].round + 1 \in Nat
    BY DEF TypeOK, Rows
  <1>2. \A side \in Sides : Other(side) \in Sides
    BY DEF Other, Sides
  <1> DEFINE r == call[c].round + 1
  <1> HIDE DEF r
  <1>3. r \in Nat
    BY <1>1 DEF r
  <1>4. /\ \A status \in Statuses : [row EXCEPT !.status = status] \in Rows
        /\ \A status \in Statuses, escalation \in Escalations :
             [row EXCEPT !.status = status, !.escalation = escalation] \in Rows
        /\ \A status \in Statuses : [row EXCEPT !.status = status, !.round = r] \in Rows
        /\ [row EXCEPT !.round = r] \in Rows
        /\ \A side \in Sides : [row EXCEPT !.turn = Other(side), !.round = r] \in Rows
    BY <1>1, <1>2, <1>3 DEF Rows
  <1>5. QED  BY <1>1, <1>4 DEF r

\* The moves of an agent, but for the verdict.
LEMMA MoveTypes ==
  ASSUME TypedInv, NEW side \in Sides, SubmitMove(side) \/ Move(side),
         ~EvaluateMove(side)
  PROVE  TypedInv'
  <1> USE DEF TypedInv, sessionVars, enclaveVars, processVars, historyVars, faultVars
  <1>0. /\ side \in Calls /\ side # "timer" /\ side \notin Operators
        /\ AgentStates \subseteq CallStates
    BY DistinctCallers DEF AgentStates, CallStates, Trading
  <1>1. CASE SubmitMove(side)
    <2>1. PICK pc \in {"gateHold", "expire", "walkaway", "reveal", "advance", "seal"} :
            Begin(side, pc) /\ timer' \in BOOLEAN
      BY <1>1 DEF SubmitMove, TypeOK
    <2>2. pc \in AgentStates \ (Trading \cup {"gate"})
      BY DEF AgentStates, Trading
    <2>3. TypeOK'
      BY <1>0, <1>1, <2>1, <2>2, CallBegins DEF SubmitMove, TypeOK
    <2>4. CallInv'
      BY <1>0, <2>1, <2>2, CallBegins, CallInvKept
    <2>5. QED  BY <2>3, <2>4
  <1>2. CASE GateHold(side) \/ WalkAway(side) \/ AdvanceTurn(side)
    <2>1. \E new \in Rows : Patch(side, new)
      BY <1>0, <1>2, RowTypes DEF GateHold, WalkAway, AdvanceTurn, Statuses
    <2>2. QED  BY <1>0, <2>1, PatchTypes
  <1>3. CASE HandleDisclosure(side)
    <2>1. Goto(side, "advance") /\ "advance" \in AgentStates \ (Trading \cup {"gate"})
      BY <1>3 DEF HandleDisclosure, AgentStates, Trading
    <2>2. TypeOK'
      <3>1. /\ UNCHANGED <<row, standing, enclave, seals, memory, timer, late,
                           trades, gated, approvals, lapses, faults>>
            /\ revealed' \in {revealed, revealed \cup {side}}
        BY <1>3 DEF HandleDisclosure
      <3>2. revealed' \subseteq Sides
        BY <1>0, <3>1 DEF TypeOK
      <3>3. call' \in [Calls -> [pc : CallStates, round : Nat,
                                 bid : Proposals \cup {None},
                                 ask : Proposals \cup {None}]]
        BY <1>0, <2>1, CallGoesOn
      <3>4. QED  BY <1>0, <3>1, <3>2, <3>3 DEF TypeOK
    <2>3. CallInv'
      BY <1>0, <2>1, CallGoesOn, CallInvKept
    <2>4. QED  BY <2>2, <2>3
  <1>4. ASSUME NEW price \in Prices(side), SealRound(side, price)
        PROVE  TypedInv'
    <2> DEFINE p == [side |-> side, k |-> seals[side] + 1, price |-> price]
    <2>1. seals[side] < MaxSeals
      BY <1>4 DEF SealRound
    <2>2. seals[side] + 1 \in 1 .. MaxSeals /\ p \in Proposals
      BY <1>0, <2>1, NextProposal
    <2>3. /\ seals' = [seals EXCEPT ![side] = @ + 1]
          /\ enclave' = enclave \cup {p}
          /\ memory' = [memory EXCEPT ![side] = p]
          /\ call' = [call EXCEPT ![side] =
               IF side = "buy" THEN [call[side] EXCEPT !.pc = "evaluate", !.bid = p]
               ELSE [call[side] EXCEPT !.pc = "evaluate", !.ask = p]]
          /\ UNCHANGED <<sessionVars, timer, late, revealed, historyVars, faultVars>>
      BY <1>4 DEF SealRound
    <2> HIDE DEF p
    <2>4. /\ call' \in [Calls -> [pc : CallStates, round : Nat,
                                  bid : Proposals \cup {None},
                                  ask : Proposals \cup {None}]]
          /\ \A d \in Calls \ {side} : call'[d] = call[d]
          /\ call'[side].pc = "evaluate"
      <3>1. call[side] \in [pc : CallStates, round : Nat, bid : Proposals \cup {None},
                            ask : Proposals \cup {None}]
        BY <1>0 DEF TypeOK
      <3>2. CASE side = "buy"
        BY <1>0, <2>2, <2>3, <3>1, <3>2 DEF TypeOK, CallStates
      <3>3. CASE side # "buy"
        BY <1>0, <2>2, <2>3, <3>1, <3>3 DEF TypeOK, CallStates
      <3>4. QED  BY <3>2, <3>3
    <2>5. TypeOK'
      BY <2>2, <2>3, <2>4 DEF TypeOK
    <2>6. "evaluate" \in AgentStates \ (Trading \cup {"gate"})
      BY DEF AgentStates, Trading
    <2>7. CallInv'
      BY <1>0, <2>4, <2>6, CallInvKept
    <2>8. QED  BY <2>5, <2>7
  <1>5. CASE AppendRound(side)
    <2>1. PICK pc \in {"advance", "gate", "disclosure"} :
            /\ Goto(side, pc)
            /\ pc # "advance" => None \notin {call[side].bid, call[side].ask}
      BY <1>5 DEF AppendRound
    <2>2. pc \in AgentStates
      BY DEF AgentStates, Trading
    <2>3. pc \in Trading \cup {"gate"} =>
            call[side].bid \in Proposals /\ call[side].ask \in Proposals
      BY <1>0, <2>1 DEF TypeOK, Trading
    <2>4. /\ standing' \in [Sides -> [proposal : Proposals \cup {None}, round : Nat]]
          /\ UNCHANGED <<row, enclaveVars, processVars, late, revealed,
                         historyVars, faultVars>>
      BY <1>0, <1>5 DEF AppendRound, TypeOK
    <2>5. TypeOK'
      BY <1>0, <2>1, <2>2, <2>4, CallGoesOn DEF TypeOK
    <2>6. CallInv'
      BY <1>0, <2>1, <2>2, <2>3, CallGoesOn, CallInvKept
    <2>7. QED  BY <2>5, <2>6
  <1>6. CASE OpenEscalationGate(side)
    <2>1. /\ Goto(side, "arm") /\ call[side].pc = "gate"
          /\ "arm" \in AgentStates \ (Trading \cup {"gate"})
      BY <1>6 DEF OpenEscalationGate, AgentStates, Trading
    <2>2. <<call[side].bid, call[side].ask>> \in Proposals \X Proposals
      BY <1>0, <2>1 DEF CallInv
    <2>3. row' \in Rows
      BY <1>0, <1>6, RowTypes DEF OpenEscalationGate, Statuses, Escalations
    <2>4. TypeOK'
      BY <1>0, <1>6, <2>1, <2>2, <2>3, CallGoesOn
         DEF OpenEscalationGate, TypeOK, Rows
    <2>5. CallInv'
      BY <1>0, <2>1, CallGoesOn, CallInvKept
    <2>6. QED  BY <2>4, <2>5
  <1>7. CASE ArmEscalationTimer(side)
    <2>1. Finish(side)
      BY <1>7 DEF ArmEscalationTimer
    <2>2. TypeOK'
      BY <1>0, <1>7, <2>1, CallEnds DEF ArmEscalationTimer, TypeOK
    <2>3. CallInv'
      BY <1>0, <2>1, CallEnds, CallInvKept DEF AgentStates, Trading
    <2>4. QED  BY <2>2, <2>3
  <1>8. QED
    BY <1>1, <1>2, <1>3, <1>4, <1>5, <1>6, <1>7 DEF Move

LEMMA RoundTypes ==
  ASSUME TypedInv, NEW c \in Callers, NEW bid \in Proposals, NEW ask \in Proposals,
         EvaluateRound(c, bid, ask),
         UNCHANGED <<sessionVars, seals, processVars, late, revealed, historyVars>>
  PROVE  TypedInv'
  <1> USE DEF TypedInv, sessionVars, processVars, historyVars, faultVars
  <1>1. AfterVerdict(c, bid, ask) /\ c \in Calls /\ c # "timer"
    BY DistinctCallers DEF EvaluateRound
  <1>2. enclave' \subseteq enclave
    BY DEF EvaluateRound
  <1>3. lapses' \subseteq {"unread", "undeleted"} /\ faults' \in 0 .. MaxFaults
    <2>1. UNCHANGED faultVars \/ FaultThat("undeleted")
      BY DEF EvaluateRound
    <2>2. QED  BY <2>1, FaultTypes DEF TypeOK
  <1>4. TypeOK'
    BY <1>1, <1>2, <1>3, VerdictMoves DEF TypeOK
  <1>5. CallInv'
    <2>1. /\ c \in Sides => call'[c].pc = "append"
          /\ c \in Operators =>
               \/ /\ call'[c].pc = "disclosure"
                  /\ call'[c].bid \in Proposals /\ call'[c].ask \in Proposals
               \/ call'[c].pc = "idle"
      BY <1>1, VerdictMoves, DistinctCallers DEF IdleCall
    <2>2. \A d \in Calls \ {c} : call'[d] = call[d]
      BY <1>1, VerdictMoves
    <2>3. QED
      BY <1>1, <2>1, <2>2, CallInvKept, DistinctCallers
         DEF AgentStates, OperatorStates, Trading
  <1>6. QED  BY <1>4, <1>5

LEMMA VerdictTypes ==
  ASSUME TypedInv,
         \/ \E side \in Sides : EvaluateMove(side)
         \/ \E op \in Operators : EvaluateStanding(op)
  PROVE  TypedInv'
  <1> USE DEF TypedInv
  <1>1. ASSUME NEW side \in Sides, EvaluateMove(side)
        PROVE  TypedInv'
    <2> DEFINE bid == IF side = "buy" THEN call[side].bid ELSE memory["buy"]
               ask == IF side = "sell" THEN call[side].ask ELSE memory["sell"]
    <2>1. /\ bid \in Proposals \cup {None} /\ ask \in Proposals \cup {None}
          /\ side \in Calls /\ side \in Callers
      BY DistinctCallers DEF TypeOK, Sides
    <2>2. CASE None \in {bid, ask}
      <3>1. Goto(side, "append") /\ UNCHANGED <<enclave, faultVars>>
        BY <1>1, <2>2 DEF EvaluateMove
      <3>2. TypeOK'
        BY <1>1, <2>1, <3>1, CallGoesOn
           DEF EvaluateMove, TypeOK, CallStates, sessionVars, processVars,
               historyVars, faultVars
      <3>3. CallInv'
        BY <2>1, <3>1, CallGoesOn, CallInvKept, DistinctCallers
           DEF AgentStates, CallStates, Trading
      <3>4. QED  BY <3>2, <3>3
    <2>3. CASE None \notin {bid, ask}
      <3>1. EvaluateRound(side, bid, ask)
        BY <1>1, <2>3 DEF EvaluateMove
      <3>2. UNCHANGED <<sessionVars, seals, processVars, late, revealed, historyVars>>
        BY <1>1 DEF EvaluateMove
      <3>3. bid \in Proposals /\ ask \in Proposals
        BY <2>1, <2>3
      <3> HIDE DEF bid, ask
      <3>4. QED  BY <2>1, <3>1, <3>2, <3>3, RoundTypes
    <2>4. QED  BY <2>2, <2>3
  <1>2. ASSUME NEW op \in Operators, EvaluateStanding(op)
        PROVE  TypedInv'
    <2> DEFINE bid == standing["buy"].proposal
               ask == standing["sell"].proposal
    <2>1. /\ bid \in Proposals \cup {None} /\ ask \in Proposals \cup {None}
          /\ op \in Calls /\ op \in Callers
      BY DistinctCallers DEF TypeOK, Sides
    <2>2. CASE None \in {bid, ask}
      <3>1. Finish(op) /\ UNCHANGED <<enclave, faultVars>>
        BY <1>2, <2>2 DEF EvaluateStanding
      <3>2. TypeOK'
        BY <1>2, <2>1, <3>1, CallEnds
           DEF EvaluateStanding, TypeOK, sessionVars, processVars,
               historyVars, faultVars
      <3>3. CallInv'
        BY <2>1, <3>1, CallEnds, CallInvKept, DistinctCallers
           DEF OperatorStates, Trading
      <3>4. QED  BY <3>2, <3>3
    <2>3. CASE None \notin {bid, ask}
      <3>1. EvaluateRound(op, bid, ask)
        BY <1>2, <2>3 DEF EvaluateStanding
      <3>2. UNCHANGED <<sessionVars, seals, processVars, late, revealed, historyVars>>
        BY <1>2 DEF EvaluateStanding
      <3>3. bid \in Proposals /\ ask \in Proposals
        BY <2>1, <2>3
      <3> HIDE DEF bid, ask
      <3>4. QED  BY <2>1, <3>1, <3>2, <3>3, RoundTypes
    <2>4. QED  BY <2>2, <2>3
  <1>3. QED  BY <1>1, <1>2

\* A step that only sends a call on, or ends it, with a new row at most.
LEMMA StepTypes ==
  ASSUME TypedInv, NEW c \in Calls, row' \in Rows,
         UNCHANGED <<standing, enclaveVars, memory>>,
         timer' \in BOOLEAN, late' \in BOOLEAN, UNCHANGED revealed,
         trades' \in Seq([bid : Proposals, ask : Proposals, by : Callers]),
         UNCHANGED gated, approvals' \in BOOLEAN,
         lapses' \subseteq {"unread", "undeleted"}, faults' \in 0 .. MaxFaults,
         \/ Finish(c)
         \/ \E pc \in CallStates :
              /\ Goto(c, pc) \/ (Begin(c, pc) /\ pc \notin Trading \cup {"gate"})
              /\ c \in Sides => pc \in AgentStates
              /\ c \in Operators => pc \in OperatorStates
              /\ c = "timer" => pc \in TimerStates
              /\ pc \in Trading \cup {"gate"} =>
                   call[c].bid \in Proposals /\ call[c].ask \in Proposals
  PROVE  TypedInv'
  <1> USE DEF TypedInv
  <1>1. CASE Finish(c)
    <2>1. TypeOK'
      BY <1>1, CallEnds DEF TypeOK, Rows, enclaveVars
    <2>2. CallInv'
      BY <1>1, CallEnds, CallInvKept
         DEF AgentStates, OperatorStates, TimerStates, Trading
    <2>3. QED  BY <2>1, <2>2
  <1>2. ASSUME NEW pc \in CallStates,
               Goto(c, pc) \/ (Begin(c, pc) /\ pc \notin Trading \cup {"gate"}),
               c \in Sides => pc \in AgentStates,
               c \in Operators => pc \in OperatorStates,
               c = "timer" => pc \in TimerStates,
               pc \in Trading \cup {"gate"} =>
                 call[c].bid \in Proposals /\ call[c].ask \in Proposals
        PROVE  TypedInv'
    <2>1. TypeOK'
      BY <1>2, CallGoesOn, CallBegins DEF TypeOK, Rows, enclaveVars
    <2>2. CallInv'
      BY <1>2, CallGoesOn, CallBegins, CallInvKept
    <2>3. QED  BY <2>1, <2>2
  <1>3. QED  BY <1>1, <1>2

\* The same for a caller with both proposals, which goes on.
LEMMA TradingTypes ==
  ASSUME TypedInv, NEW c \in Callers, row' \in Rows,
         UNCHANGED <<standing, enclaveVars, processVars, late, revealed>>,
         trades' \in Seq([bid : Proposals, ask : Proposals, by : Callers]),
         UNCHANGED gated, UNCHANGED approvals,
         lapses' \subseteq {"unread", "undeleted"}, faults' \in 0 .. MaxFaults,
         NEW pc \in {"converge", "lookup", "settling", "settle", "mark"},
         Goto(c, pc),
         call[c].bid \in Proposals, call[c].ask \in Proposals
  PROVE  TypedInv'
  <1>1. c \in Calls /\ c # "timer"
    BY DistinctCallers
  <1>2. pc \in CallStates /\ pc \in AgentStates /\ pc \in OperatorStates
    BY DEF CallStates, AgentStates, OperatorStates, Trading
  <1>3. timer' \in BOOLEAN /\ late' \in BOOLEAN /\ approvals' \in BOOLEAN
    BY DEF TypedInv, TypeOK, processVars
  <1>4. UNCHANGED memory
    BY DEF processVars
  <1>5. \/ Finish(c)
        \/ \E to \in CallStates :
             /\ Goto(c, to) \/ (Begin(c, to) /\ to \notin Trading \cup {"gate"})
             /\ c \in Sides => to \in AgentStates
             /\ c \in Operators => to \in OperatorStates
             /\ c = "timer" => to \in TimerStates
             /\ to \in Trading \cup {"gate"} =>
                  call[c].bid \in Proposals /\ call[c].ask \in Proposals
    BY <1>1, <1>2
  <1>6. QED  BY <1>1, <1>3, <1>4, <1>5, StepTypes

LEMMA TradedTypes ==
  ASSUME TypedInv, NEW c \in Calls, call[c].pc = "settle", Traded(c)
  PROVE  trades' \in Seq([bid : Proposals, ask : Proposals, by : Callers])
  <1>1. call[c].bid \in Proposals /\ call[c].ask \in Proposals
    BY DEF TypedInv, CallInv, Trading
  <1>2. c \in Callers
    BY DEF TypedInv, CallInv, TimerStates, Calls, Callers
  <1>3. QED  BY <1>1, <1>2, AppendProperties DEF Traded, TypedInv, TypeOK

\* A call that settles, is decided on or is timed out.
LEMMA SettleTypes ==
  ASSUME TypedInv, NEW c \in Callers, Settle(c)
  PROVE  TypedInv'
  <1> USE DEF TypedInv, sessionVars, enclaveVars, processVars, historyVars, faultVars
  <1>0. /\ c \in Calls /\ c # "timer" /\ TypeOK
        /\ (c \in Sides => c \notin Operators) /\ row \in Rows
    BY DistinctCallers, RowTypes
  <1>1. CASE ExpireSession(c) \/ ResetToActive(c) \/ MarkSettled(c)
    <2>1. {"expired", "active", "settled"} \subseteq Statuses /\ "none" \in Escalations
      BY DEF Statuses, Escalations
    <2>2. \E new \in Rows : Patch(c, new)
      BY <1>0, <1>1, <2>1, RowTypes DEF ExpireSession, ResetToActive, MarkSettled
    <2>3. QED  BY <1>0, <2>2, PatchTypes
  <1>4. CASE DisclosureGate(c)
    <2>1. call[c].pc = "disclosure" /\ UNCHANGED <<row, standing, enclaveVars,
             processVars, late, revealed, historyVars>>
      BY <1>4 DEF DisclosureGate
    <2>2. lapses' \subseteq {"unread", "undeleted"} /\ faults' \in 0 .. MaxFaults
      BY <1>0, <1>4, FaultTypes DEF DisclosureGate, TypeOK
    <2>3. call[c].bid \in Proposals /\ call[c].ask \in Proposals
      BY <1>0, <2>1 DEF CallInv, Trading
    <2>4. \/ Goto(c, "converge")
          \/ c \in Sides /\ Goto(c, "advance")
          \/ Finish(c)
      BY <1>4 DEF DisclosureGate
    <2>5. /\ {"converge", "advance"} \subseteq CallStates
          /\ {"converge", "advance"} \subseteq AgentStates
          /\ "converge" \in OperatorStates
          /\ "advance" \notin Trading \cup {"gate"}
      BY DEF CallStates, AgentStates, OperatorStates, Trading
    <2>6. CASE Finish(c)
      BY <1>0, <2>1, <2>2, <2>6, StepTypes DEF TypeOK
    <2>7. CASE Goto(c, "converge")
      BY <1>0, <2>1, <2>2, <2>3, <2>7, TradingTypes DEF TypeOK
    <2>8. CASE c \in Sides /\ Goto(c, "advance")
      BY <1>0, <2>1, <2>2, <2>3, <2>5, <2>8, StepTypes DEF TypeOK
    <2>9. QED  BY <2>4, <2>6, <2>7, <2>8
  <1>5. CASE Converge(c) \/ LookupAgents(c) \/ Settling(c)
    <2>0. /\ {"converged", "settling"} \subseteq Statuses
          /\ {"converge", "lookup", "settling"} \subseteq Trading
      BY DEF Statuses, Trading
    <2>1. /\ row' \in Rows
          /\ UNCHANGED <<standing, enclaveVars, processVars, late, revealed,
                         historyVars, faultVars>>
          /\ call[c].pc \in Trading
          /\ \E pc \in {"lookup", "settling", "settle"} : Goto(c, pc)
      <3>1. CASE Converge(c)
        BY <1>0, <2>0, <3>1, RowTypes DEF Converge, Advance
      <3>2. CASE LookupAgents(c)
        BY <1>0, <2>0, <3>2 DEF LookupAgents
      <3>3. CASE Settling(c)
        BY <1>0, <2>0, <3>3, RowTypes DEF Settling, Advance
      <3>4. QED  BY <1>5, <3>1, <3>2, <3>3
    <2>2. call[c].bid \in Proposals /\ call[c].ask \in Proposals
      BY <1>0, <2>1 DEF CallInv
    <2>3. QED
      BY <1>0, <2>1, <2>2, TradingTypes DEF TypeOK
  <1>6. CASE ExecuteSettlement(c)
    <2>1. /\ call[c].pc = "settle" /\ Traded(c) /\ Goto(c, "mark")
          /\ UNCHANGED <<row, standing, enclaveVars, processVars, late, revealed,
                         gated, approvals, faultVars>>
      BY <1>6 DEF ExecuteSettlement
    <2>2. trades' \in Seq([bid : Proposals, ask : Proposals, by : Callers])
      BY <1>0, <2>1, TradedTypes
    <2>3. QED
      BY <1>0, <2>1, <2>2, StepTypes
         DEF TypeOK, CallStates, AgentStates, OperatorStates, Trading
  <1>7. QED
    BY <1>1, <1>4, <1>5, <1>6 DEF Settle

LEMMA GateTypes ==
  ASSUME TypedInv, NEW op \in Operators,
         ApproveEscalation(op) \/ DeclineEscalation(op) \/ Approve(op) \/ Decline(op)
  PROVE  TypedInv'
  <1> USE DEF TypedInv, Patch, sessionVars, enclaveVars, processVars,
              historyVars, faultVars
  <1>0. /\ op \in Calls /\ op # "timer" /\ op \notin Sides /\ TypeOK /\ row \in Rows
    BY DistinctCallers, RowTypes
  <1>1. CASE ApproveEscalation(op) \/ DeclineEscalation(op)
    <2>1. /\ \E pc \in {"check", "approve", "decline"} : Begin(op, pc)
          /\ UNCHANGED <<sessionVars, enclaveVars, memory, late, revealed,
                         historyVars, faultVars>>
          /\ timer' \in BOOLEAN
      BY <1>0, <1>1 DEF ApproveEscalation, DeclineEscalation, TypeOK
    <2>2. {"check", "approve", "decline"} \subseteq
            (CallStates \cap OperatorStates) \ (Trading \cup {"gate"})
      BY DEF CallStates, OperatorStates, Trading
    <2>3. QED
      BY <1>0, <2>1, <2>2, StepTypes DEF TypeOK
  <1>2. CASE Approve(op)
    <2>1. row' \in Rows
      BY <1>0, <1>2, RowTypes DEF Approve, Statuses, Escalations
    <2>2. QED
      BY <1>0, <1>2, <2>1, StepTypes
         DEF Approve, TypeOK, CallStates, OperatorStates, Trading
  <1>3. CASE Decline(op)
    BY <1>0, <1>3, PatchTypes, RowTypes DEF Decline, Declined, Statuses, Escalations
  <1>4. QED  BY <1>1, <1>2, <1>3

LEMMA TimeOutTypes ==
  ASSUME TypedInv, NEW c \in Operators \cup {"timer"}, TimeOut(c)
  PROVE  TypedInv'
  <1> USE DEF TypedInv, Patch, sessionVars, enclaveVars, processVars,
              historyVars, faultVars
  <1>0. c \in Calls /\ c \notin Sides /\ TypeOK /\ row \in Rows
    BY DistinctCallers, RowTypes
  <1>1. CASE CheckPending(c)
    <2>1. Goto(c, "expireUnapproved") \/ Finish(c)
      BY <1>1 DEF CheckPending
    <2>2. QED
      BY <1>0, <1>1, <2>1, StepTypes
         DEF CheckPending, TypeOK, CallStates, OperatorStates, TimerStates, Trading
  <1>2. CASE ExpireUnapproved(c)
    BY <1>0, <1>2, PatchTypes, RowTypes
       DEF ExpireUnapproved, Declined, Statuses, Escalations
  <1>3. QED  BY <1>1, <1>2 DEF TimeOut

\* A proposal is in the enclave, and its call is gone.
LEMMA SealLostTypes ==
  ASSUME TypeOK, NEW c \in Sides, NEW price \in Prices(c), SealLost(c, price)
  PROVE  TypeOK'
  <1> USE DEF sessionVars, processVars, historyVars
  <1>0. c \in Calls
    BY DistinctCallers
  <1>1. /\ seals[c] < MaxSeals /\ Finish(c) /\ Fault
        /\ UNCHANGED <<row, standing, memory, timer, late, revealed, trades,
                       gated, approvals>>
    BY DEF SealLost
  <1>2. seals' \in [Sides -> 0 .. MaxSeals] /\ enclave' \subseteq Proposals
    <2>1. PICK p : p = [side |-> c, k |-> seals[c] + 1, price |-> price]
      OBVIOUS
    <2>2. seals[c] + 1 \in 1 .. MaxSeals /\ p \in Proposals
      BY <1>1, <2>1, NextProposal
    <2>3. seals' = [seals EXCEPT ![c] = seals[c] + 1] /\ enclave' = enclave \cup {p}
      BY <2>1 DEF SealLost
    <2>4. seals[c] + 1 \in 0 .. MaxSeals
      BY <2>2
    <2>5. QED  BY <2>2, <2>3, <2>4 DEF TypeOK
  <1>3. lapses' \subseteq {"unread", "undeleted"} /\ faults' \in 0 .. MaxFaults
    BY <1>1, FaultTypes
  <1>4. call' \in [Calls -> [pc : CallStates, round : Nat,
                             bid : Proposals \cup {None}, ask : Proposals \cup {None}]]
    BY <1>0, <1>1, CallEnds
  <1>5. QED  BY <1>1, <1>2, <1>3, <1>4 DEF TypeOK

LEMMA FailureTypes ==
  ASSUME TypedInv, NEW c \in Calls, Failure(c)
  PROVE  TypedInv'
  <1> USE DEF TypedInv, sessionVars, enclaveVars, processVars, historyVars
  <1>0. TypeOK /\ row \in Rows
    BY RowTypes
  <1>1. lapses' \subseteq {"unread", "undeleted"} /\ faults' \in 0 .. MaxFaults
    BY <1>0, FaultTypes
       DEF Failure, MissingCiphertexts, LookupAgentsFails, ExecuteSettlementFails,
           CallFails, SealLost
  <1>2. call[c].pc = "settle" \/ call[c].pc = "converge" => c # "timer"
    BY DEF CallInv, TimerStates
  <1>3. CASE MissingCiphertexts(c)
    <2>1. c # "timer" /\ Goto(c, "expire") /\ timer' = FALSE
      BY <1>2, <1>3 DEF MissingCiphertexts
    <2>2. QED
      BY <1>0, <1>1, <1>3, <2>1, StepTypes
         DEF MissingCiphertexts, TypeOK, CallStates, AgentStates, OperatorStates, Trading
  <1>4. CASE LookupAgentsFails(c) \/ CallFails(c)
    <2>1. row' \in Rows
      <3>1. "expired" \in Statuses
        BY DEF Statuses
      <3>2. CASE LookupAgentsFails(c)
        BY <1>0, <3>1, <3>2, RowTypes DEF LookupAgentsFails
      <3>3. CASE CallFails(c)
        BY <1>0, <3>3 DEF CallFails
      <3>4. QED  BY <1>4, <3>2, <3>3
    <2>2. QED
      BY <1>0, <1>1, <1>4, <2>1, StepTypes
         DEF LookupAgentsFails, CallFails, TypeOK
  <1>5. CASE ExecuteSettlementFails(c)
    <2>1. c # "timer" /\ Goto(c, "reset") /\ call[c].pc = "settle"
      BY <1>2, <1>5 DEF ExecuteSettlementFails
    <2>2. trades' \in Seq([bid : Proposals, ask : Proposals, by : Callers])
      BY <1>0, <1>5, <2>1, TradedTypes DEF ExecuteSettlementFails, TypeOK
    <2>3. QED
      BY <1>0, <1>1, <1>5, <2>1, <2>2, StepTypes
         DEF ExecuteSettlementFails, TypeOK, CallStates, AgentStates, OperatorStates,
             Trading
  <1>6. ASSUME c \in Sides, NEW price \in Prices(c), SealLost(c, price)
        PROVE  TypedInv'
    <2>1. TypeOK'
      BY <1>0, <1>6, SealLostTypes
    <2>2. CallInv'
      BY <1>0, <1>6, CallEnds, CallInvKept
         DEF SealLost, AgentStates, OperatorStates, TimerStates, Trading
    <2>3. QED  BY <2>1, <2>2
  <1>7. QED  BY <1>3, <1>4, <1>5, <1>6 DEF Failure

LEMMA TypedNext ==
  ASSUME TypedInv, [Next]_vars
  PROVE  TypedInv'
  <1> USE DEF TypedInv
  <1>1. ASSUME NEW side \in Sides, SubmitMove(side) \/ Move(side)
        PROVE  TypedInv'
    BY <1>1, MoveTypes, VerdictTypes
  <1>2. ASSUME NEW op \in Operators,
               ApproveEscalation(op) \/ DeclineEscalation(op) \/ Gate(op)
        PROVE  TypedInv'
    BY <1>2, GateTypes, VerdictTypes DEF Gate
  <1>3. CASE TimerFires
    <2>1. /\ Begin("timer", "check") /\ timer' = FALSE
          /\ UNCHANGED <<sessionVars, enclaveVars, memory, late, revealed,
                         historyVars, faultVars>>
      BY <1>3 DEF TimerFires
    <2>2. "timer" \in Calls /\ "timer" \notin Sides \cup Operators /\ row \in Rows
      BY DistinctCallers DEF TypeOK, Rows
    <2>3. QED
      BY <2>1, <2>2, StepTypes
         DEF TypeOK, CallStates, TimerStates, Trading, sessionVars, historyVars,
             faultVars
  <1>4. CASE DeadlinePasses
    BY <1>4 DEF DeadlinePasses, TypeOK, CallInv, sessionVars, enclaveVars,
                processVars, historyVars, faultVars
  <1>5. CASE Restart
    <2>1. TypeOK'
      BY <1>5, FaultTypes
         DEF Restart, TypeOK, IdleCall, CallStates, sessionVars, enclaveVars, historyVars
    <2>2. CallInv'
      BY <1>5, DistinctCallers
         DEF Restart, CallInv, IdleCall, AgentStates, OperatorStates, TimerStates, Trading
    <2>3. QED  BY <2>1, <2>2
  <1>6. CASE UNCHANGED vars
    BY <1>6 DEF vars, TypeOK, CallInv, sessionVars, enclaveVars, processVars,
                historyVars, faultVars
  <1>7. QED
    BY <1>1, <1>2, <1>3, <1>4, <1>5, <1>6, SettleTypes, TimeOutTypes, FailureTypes
       DEF Next

LEMMA TypedInductive == Spec => []TypedInv
  <1>1. TypedInv /\ [Next]_vars => TypedInv'
    BY TypedNext
  <1>2. QED  BY TypedInit, <1>1, PTL DEF Spec

\* The shape of the state, for any callers and proposals.
THEOREM TypeCorrect == Spec => []TypeOK
  <1>1. TypedInv => TypeOK
    BY DEF TypedInv
  <1>2. QED  BY TypedInductive, <1>1, PTL

-----------------------------------------------------------------------------
(* What a step changes, for the arguments below.                           *)

Committed == Trading \ {"disclosure"}

Keeps(c) == call'[c].bid = call[c].bid /\ call'[c].ask = call[c].ask

\* A trade is the last step of a call at "settle", and "settled" the last of one
\* at "mark".
TradeStep(c) ==
  /\ row'.status = "settled" => row.status = "settled" \/ call[c].pc = "mark"
  /\ \/ trades' = trades /\ call'[c].pc # "mark"
     \/ /\ call[c].pc = "settle" /\ Traded(c)
        /\ call'[c].pc \in {"mark", "reset"}

\* How a call comes to trade.
PathStep(c) ==
  /\ call'[c].pc \in Committed =>
       /\ Keeps(c)
       /\ \/ call[c].pc \in Committed
          \/ call[c].pc = "disclosure" /\ (GateSatisfied \/ "unread" \in lapses')
  /\ call'[c].pc = "disclosure" =>
       \/ /\ c \in Sides /\ Keeps(c)
          /\ ~MustEscalate(c, call[c].bid, call[c].ask)
       \/ c \in Operators /\ call[c].pc = "handles"
  /\ call'[c].pc = "handles" => approvals'

\* What happens to the proposals.
ProposalStep(c) ==
  \/ /\ UNCHANGED <<enclave, seals, gated>>
     /\ Holds(c)' => Holds(c) /\ Keeps(c) /\ trades' = trades
     /\ call'[c].pc # "evaluate"
     /\ call'[c].pc = "seal" => call'[c].bid = None /\ call'[c].ask = None
  \/ /\ c \in Sides
     /\ \E price \in Prices(c) : SealRound(c, price) \/ SealLost(c, price)
  \/ /\ call[c].pc \in {"evaluate", "handles"} /\ c \in Callers
     /\ UNCHANGED <<seals, gated, trades>>
     /\ \E bid, ask \in Proposals : EvaluateRound(c, bid, ask)
  \/ c \in Sides /\ OpenEscalationGate(c)

StepOf(c) ==
  /\ \A d \in Calls \ {c} : call'[d] = call[d]
  /\ lapses \subseteq lapses' /\ revealed \subseteq revealed'
  /\ approvals => approvals'
  /\ TradeStep(c) /\ PathStep(c) /\ ProposalStep(c)

\* What a call reads before it has sealed, and after.
EvaluateInv ==
  \A c \in Calls :
    /\ call[c].pc = "seal" => call[c].bid = None /\ call[c].ask = None
    /\ call[c].pc = "evaluate" => None \in {call[c].bid, call[c].ask}

\* A call that ends, or goes on to a step that is not about a trade.
LEMMA PlainStep ==
  ASSUME TypedInv, NEW c \in Calls,
         \A d \in Calls \ {c} : call'[d] = call[d],
         call'[c].pc \notin Trading \cup {"gate", "append", "mark", "handles",
                                          "evaluate"},
         call'[c].pc = "seal" => call'[c].bid = None /\ call'[c].ask = None,
         UNCHANGED <<enclave, seals, gated, trades>>,
         row'.status = "settled" => row.status = "settled" \/ call[c].pc = "mark",
         lapses \subseteq lapses', revealed \subseteq revealed',
         approvals => approvals'
  PROVE  StepOf(c)
  BY DEF StepOf, TradeStep, PathStep, ProposalStep, Holds, Trading, Committed

\* A patch of the row ends the call.
LEMMA PatchStep ==
  ASSUME TypedInv, NEW c \in Calls, NEW new, Patch(c, new),
         new.status = "settled" => row.status = "settled" \/ call[c].pc = "mark"
  PROVE  StepOf(c)
  <1>1. /\ \A d \in Calls \ {c} : call'[d] = call[d]
        /\ call'[c].pc = "idle"
    BY CallEnds DEF Patch, TypedInv
  <1>2. /\ UNCHANGED <<enclave, seals, gated, trades, lapses, revealed, approvals>>
        /\ row' = new
    BY DEF Patch, enclaveVars, historyVars, faultVars
  <1>3. QED  BY <1>1, <1>2, PlainStep DEF Trading

LEMMA AgentSteps ==
  ASSUME TypedInv, EvaluateInv, NEW c \in Sides, SubmitMove(c) \/ Move(c)
  PROVE  StepOf(c)
  <1> USE DEF sessionVars, enclaveVars, processVars, historyVars, faultVars
  <1>0. c \in Calls /\ c \in Callers /\ TypeOK /\ c \notin Operators
    BY DistinctCallers DEF TypedInv
  <1>1. CASE SubmitMove(c)
    <2>1. PICK pc \in {"gateHold", "expire", "walkaway", "reveal", "advance", "seal"} :
            Begin(c, pc)
      BY <1>1 DEF SubmitMove
    <2>2. pc \in CallStates
      BY DEF CallStates
    <2>3. /\ \A d \in Calls \ {c} : call'[d] = call[d]
          /\ call'[c].pc = pc /\ call'[c].bid = None /\ call'[c].ask = None
      BY <1>0, <2>1, <2>2, CallBegins
    <2>4. UNCHANGED <<row, enclave, seals, gated, trades, lapses, revealed, approvals>>
      BY <1>1 DEF SubmitMove
    <2>5. QED  BY <1>0, <2>3, <2>4, PlainStep DEF Trading
  <1>2. CASE GateHold(c) \/ WalkAway(c) \/ AdvanceTurn(c)
    <2>1. \E new : Patch(c, new) /\ (new.status = "settled" => row.status = "settled")
      <3>1. CASE GateHold(c)
        <4>1. /\ Patch(c, [row EXCEPT !.round = call[c].round + 1])
              /\ [row EXCEPT !.round = call[c].round + 1].status = row.status
          BY <1>0, <3>1 DEF GateHold, TypeOK
        <4>2. QED  BY <4>1
      <3>2. CASE WalkAway(c)
        <4>1. /\ Patch(c, [row EXCEPT !.status = "walked_away",
                                      !.round = call[c].round + 1])
              /\ [row EXCEPT !.status = "walked_away",
                             !.round = call[c].round + 1].status # "settled"
          BY <1>0, <3>2 DEF WalkAway, TypeOK
        <4>2. QED  BY <4>1
      <3>3. CASE AdvanceTurn(c)
        <4>1. /\ Patch(c, [row EXCEPT !.turn = Other(c),
                                      !.round = call[c].round + 1])
              /\ [row EXCEPT !.turn = Other(c),
                             !.round = call[c].round + 1].status = row.status
          BY <1>0, <3>3 DEF AdvanceTurn, TypeOK
        <4>2. QED  BY <4>1
      <3>4. QED  BY <1>2, <3>1, <3>2, <3>3
    <2>2. QED  BY <1>0, <2>1, PatchStep
  <1>3. CASE HandleDisclosure(c)
    <2>1. /\ Goto(c, "advance") /\ revealed \subseteq revealed'
          /\ UNCHANGED <<row, enclave, seals, gated, trades, lapses, approvals>>
      BY <1>3 DEF HandleDisclosure
    <2>2. /\ \A d \in Calls \ {c} : call'[d] = call[d]
          /\ call'[c].pc = "advance"
      BY <1>0, <2>1, CallGoesOn DEF CallStates
    <2>3. QED  BY <1>0, <2>1, <2>2, PlainStep DEF Trading
  <1>4. ASSUME NEW price \in Prices(c), SealRound(c, price)
        PROVE  StepOf(c)
    <2>1. UNCHANGED <<row, gated, trades, lapses, revealed, approvals>>
      BY <1>4 DEF SealRound
    <2>2. /\ \A d \in Calls \ {c} : call'[d] = call[d]
          /\ call'[c].pc = "evaluate"
      BY <1>0, <1>4 DEF SealRound, TypeOK
    <2>3. QED
      BY <1>4, <2>1, <2>2 DEF StepOf, TradeStep, PathStep, ProposalStep, Committed, Trading
  <1>5. CASE EvaluateMove(c)
    <2> DEFINE bid == IF c = "buy" THEN call[c].bid ELSE memory["buy"]
               ask == IF c = "sell" THEN call[c].ask ELSE memory["sell"]
    <2>1. /\ bid \in Proposals \cup {None} /\ ask \in Proposals \cup {None}
          /\ call[c].pc = "evaluate"
          /\ UNCHANGED <<row, seals, gated, trades, revealed, approvals>>
      BY <1>0, <1>5 DEF EvaluateMove, TypeOK, Sides
    <2>2. CASE None \in {bid, ask}
      <3>1. Goto(c, "append") /\ UNCHANGED <<enclave, lapses>>
        BY <1>5, <2>2 DEF EvaluateMove
      <3>2. /\ \A d \in Calls \ {c} : call'[d] = call[d]
            /\ call'[c].pc = "append" /\ Keeps(c)
        BY <1>0, <3>1, CallGoesOn DEF CallStates, Keeps
      <3>3. ~(Holds(c)')
        BY <1>0, <2>1, <3>2 DEF EvaluateInv, Holds, Keeps, Trading
      <3>4. QED
        BY <2>1, <3>1, <3>2, <3>3
           DEF StepOf, TradeStep, PathStep, ProposalStep, Committed, Trading
    <2>3. CASE None \notin {bid, ask}
      <3>1. EvaluateRound(c, bid, ask) /\ bid \in Proposals /\ ask \in Proposals
        BY <1>5, <2>1, <2>3 DEF EvaluateMove
      <3> HIDE DEF bid, ask
      <3>2. lapses \subseteq lapses' /\ AfterVerdict(c, bid, ask)
        BY <3>1 DEF EvaluateRound, FaultThat
      <3>3. /\ \A d \in Calls \ {c} : call'[d] = call[d]
            /\ call'[c].pc = "append"
        BY <1>0, <3>1, <3>2, VerdictMoves
      <3>4. ProposalStep(c)
        BY <1>0, <2>1, <3>1 DEF ProposalStep
      <3>5. QED
        BY <2>1, <3>2, <3>3, <3>4 DEF StepOf, TradeStep, PathStep, Committed, Trading
    <2>4. QED  BY <2>2, <2>3
  <1>6. CASE AppendRound(c)
    <2>1. PICK pc \in {"advance", "gate", "disclosure"} :
            /\ Goto(c, pc) /\ call[c].pc = "append"
            /\ pc # "advance" => None \notin {call[c].bid, call[c].ask}
            /\ pc = "disclosure" => ~MustEscalate(c, call[c].bid, call[c].ask)
      BY <1>6 DEF AppendRound
    <2>2. UNCHANGED <<row, enclave, seals, gated, trades, lapses, revealed, approvals>>
      BY <1>6 DEF AppendRound
    <2>3. /\ \A d \in Calls \ {c} : call'[d] = call[d]
          /\ call'[c].pc = pc /\ Keeps(c)
      BY <1>0, <2>1, CallGoesOn DEF CallStates, Keeps
    <2>4. pc # "advance" => Holds(c)
      BY <2>1 DEF Holds
    <2>5. Holds(c)' => pc # "advance"
      BY <2>3 DEF Holds, Trading
    <2>6. QED
      BY <2>1, <2>2, <2>3, <2>4, <2>5
         DEF StepOf, TradeStep, PathStep, ProposalStep, Committed, Trading
  <1>7. CASE OpenEscalationGate(c)
    <2>1. /\ Goto(c, "arm") /\ call[c].pc = "gate"
          /\ UNCHANGED <<enclave, seals, trades, lapses, revealed, approvals>>
          /\ row'.status = "awaiting_approval"
      BY <1>0, <1>7 DEF OpenEscalationGate, TypeOK
    <2>2. /\ \A d \in Calls \ {c} : call'[d] = call[d]
          /\ call'[c].pc = "arm"
      BY <1>0, <2>1, CallGoesOn DEF CallStates
    <2>3. QED
      BY <1>7, <2>1, <2>2 DEF StepOf, TradeStep, PathStep, ProposalStep, Committed, Trading
  <1>8. CASE ArmEscalationTimer(c)
    <2>1. /\ Finish(c)
          /\ UNCHANGED <<row, enclave, seals, gated, trades, lapses, revealed, approvals>>
      BY <1>8 DEF ArmEscalationTimer
    <2>2. QED  BY <1>0, <2>1, CallEnds, PlainStep DEF Trading
  <1>9. QED
    BY <1>1, <1>2, <1>3, <1>4, <1>5, <1>6, <1>7, <1>8 DEF Move

LEMMA SettleSteps ==
  ASSUME TypedInv, NEW c \in Callers, Settle(c)
  PROVE  StepOf(c)
  <1> USE DEF sessionVars, enclaveVars, processVars, historyVars, faultVars
  <1>0. c \in Calls /\ TypeOK
    BY DistinctCallers DEF TypedInv
  <1>1. CASE ExpireSession(c) \/ ResetToActive(c) \/ MarkSettled(c)
    <2>1. \E new : /\ Patch(c, new)
                   /\ new.status = "settled" => call[c].pc = "mark"
      <3>1. CASE ExpireSession(c)
        <4>1. /\ Patch(c, [row EXCEPT !.status = "expired", !.escalation = "none"])
              /\ [row EXCEPT !.status = "expired",
                             !.escalation = "none"].status # "settled"
          BY <1>0, <3>1 DEF ExpireSession, TypeOK
        <4>2. QED  BY <4>1
      <3>2. CASE ResetToActive(c)
        <4>1. /\ Patch(c, [row EXCEPT !.status = "active"])
              /\ [row EXCEPT !.status = "active"].status # "settled"
          BY <1>0, <3>2 DEF ResetToActive, TypeOK
        <4>2. QED  BY <4>1
      <3>3. CASE MarkSettled(c)
        <4>1. Patch(c, [row EXCEPT !.status = "settled"]) /\ call[c].pc = "mark"
          BY <3>3 DEF MarkSettled
        <4>2. QED  BY <4>1
      <3>4. QED  BY <1>1, <3>1, <3>2, <3>3
    <2>2. QED  BY <1>0, <2>1, PatchStep
  <1>2. CASE DisclosureGate(c)
    <2>1. /\ call[c].pc = "disclosure" /\ lapses \subseteq lapses'
          /\ UNCHANGED <<row, enclave, seals, gated, trades, revealed, approvals>>
          /\ \/ /\ Goto(c, "converge")
                /\ GateSatisfied \/ "unread" \in lapses'
             \/ Goto(c, "advance")
             \/ Finish(c)
      BY <1>2 DEF DisclosureGate, FaultThat
    <2>2. CASE Goto(c, "converge") /\ (GateSatisfied \/ "unread" \in lapses')
      <3>1. /\ \A d \in Calls \ {c} : call'[d] = call[d]
            /\ call'[c].pc = "converge" /\ Keeps(c)
        BY <1>0, <2>2, CallGoesOn DEF CallStates, Keeps
      <3>2. Holds(c)
        BY <2>1 DEF Holds, Trading
      <3>3. QED
        BY <2>1, <2>2, <3>1, <3>2
           DEF StepOf, TradeStep, PathStep, ProposalStep, Committed, Trading
    <2>3. CASE Goto(c, "advance") \/ Finish(c)
      <3>1. /\ \A d \in Calls \ {c} : call'[d] = call[d]
            /\ call'[c].pc \in {"advance", "idle"}
        BY <1>0, <2>3, CallGoesOn, CallEnds DEF CallStates
      <3>2. QED  BY <1>0, <2>1, <3>1, PlainStep DEF Trading
    <2>4. QED  BY <2>1, <2>2, <2>3
  <1>3. CASE Converge(c) \/ LookupAgents(c) \/ Settling(c)
    <2>1. /\ call[c].pc \in Committed
          /\ UNCHANGED <<enclave, seals, gated, trades, lapses, revealed, approvals>>
          /\ row'.status = "settled" => row.status = "settled"
          /\ \E pc \in {"lookup", "settling", "settle"} : Goto(c, pc)
      BY <1>0, <1>3
         DEF Converge, LookupAgents, Settling, Advance, TypeOK, Committed, Trading
    <2>2. /\ \A d \in Calls \ {c} : call'[d] = call[d]
          /\ call'[c].pc \in Committed /\ Keeps(c)
      BY <1>0, <2>1, CallGoesOn DEF CallStates, Keeps, Committed, Trading
    <2>3. Holds(c)
      BY <2>1 DEF Holds, Committed
    <2>4. QED
      BY <2>1, <2>2, <2>3
         DEF StepOf, TradeStep, PathStep, ProposalStep, Committed, Trading
  <1>4. CASE ExecuteSettlement(c)
    <2>1. /\ call[c].pc = "settle" /\ Traded(c) /\ Goto(c, "mark")
          /\ UNCHANGED <<row, enclave, seals, gated, lapses, revealed, approvals>>
      BY <1>4 DEF ExecuteSettlement
    <2>2. /\ \A d \in Calls \ {c} : call'[d] = call[d]
          /\ call'[c].pc = "mark"
      BY <1>0, <2>1, CallGoesOn DEF CallStates
    <2>3. QED
      BY <2>1, <2>2
         DEF StepOf, TradeStep, PathStep, ProposalStep, Holds, Committed, Trading
  <1>5. QED
    BY <1>1, <1>2, <1>3, <1>4 DEF Settle

LEMMA OperatorSteps ==
  ASSUME TypedInv, NEW c \in Operators,
         ApproveEscalation(c) \/ DeclineEscalation(c) \/ Gate(c)
  PROVE  StepOf(c)
  <1> USE DEF sessionVars, enclaveVars, processVars, historyVars, faultVars
  <1>0. c \in Calls /\ c \in Callers /\ TypeOK /\ c \notin Sides
    BY DistinctCallers DEF TypedInv
  <1>1. CASE ApproveEscalation(c) \/ DeclineEscalation(c)
    <2>1. PICK pc \in {"check", "approve", "decline"} : Begin(c, pc)
      BY <1>1 DEF ApproveEscalation, DeclineEscalation
    <2>2. /\ \A d \in Calls \ {c} : call'[d] = call[d]
          /\ call'[c].pc = pc
      BY <1>0, <2>1, CallBegins DEF CallStates
    <2>3. UNCHANGED <<row, enclave, seals, gated, trades, lapses, revealed, approvals>>
      BY <1>1 DEF ApproveEscalation, DeclineEscalation
    <2>4. QED  BY <1>0, <2>2, <2>3, PlainStep DEF Trading
  <1>2. CASE Approve(c)
    <2>1. /\ Goto(c, "handles") /\ approvals'
          /\ UNCHANGED <<enclave, seals, gated, trades, lapses, revealed>>
          /\ row'.status = "active"
      BY <1>0, <1>2 DEF Approve, TypeOK
    <2>2. /\ \A d \in Calls \ {c} : call'[d] = call[d]
          /\ call'[c].pc = "handles"
      BY <1>0, <2>1, CallGoesOn DEF CallStates
    <2>3. QED
      BY <2>1, <2>2
         DEF StepOf, TradeStep, PathStep, ProposalStep, Holds, Committed, Trading
  <1>3. CASE Decline(c)
    <2>1. Patch(c, Declined) /\ Declined.status # "settled"
      BY <1>0, <1>3 DEF Decline, Declined, TypeOK
    <2>2. QED  BY <1>0, <2>1, PatchStep
  <1>4. CASE EvaluateStanding(c)
    <2> DEFINE bid == standing["buy"].proposal
               ask == standing["sell"].proposal
    <2>1. /\ bid \in Proposals \cup {None} /\ ask \in Proposals \cup {None}
          /\ call[c].pc = "handles"
          /\ UNCHANGED <<row, seals, gated, trades, revealed, approvals>>
      BY <1>0, <1>4 DEF EvaluateStanding, TypeOK, Sides
    <2>2. CASE None \in {bid, ask}
      <3>1. Finish(c) /\ UNCHANGED <<enclave, lapses>>
        BY <1>4, <2>2 DEF EvaluateStanding
      <3>2. QED  BY <1>0, <2>1, <3>1, CallEnds, PlainStep DEF Trading
    <2>3. CASE None \notin {bid, ask}
      <3>1. EvaluateRound(c, bid, ask) /\ bid \in Proposals /\ ask \in Proposals
        BY <1>4, <2>1, <2>3 DEF EvaluateStanding
      <3> HIDE DEF bid, ask
      <3>2. lapses \subseteq lapses' /\ AfterVerdict(c, bid, ask)
        BY <3>1 DEF EvaluateRound, FaultThat
      <3>3. /\ \A d \in Calls \ {c} : call'[d] = call[d]
            /\ call'[c].pc \in {"disclosure", "idle"}
        BY <1>0, <3>1, <3>2, VerdictMoves DEF IdleCall
      <3>4. ProposalStep(c)
        BY <1>0, <2>1, <3>1 DEF ProposalStep
      <3>5. QED
        BY <2>1, <3>2, <3>3, <3>4 DEF StepOf, TradeStep, PathStep, Committed, Trading
    <2>4. QED  BY <2>2, <2>3
  <1>5. QED  BY <1>1, <1>2, <1>3, <1>4 DEF Gate

LEMMA TimeOutSteps ==
  ASSUME TypedInv, NEW c \in Operators \cup {"timer"}, TimeOut(c)
  PROVE  StepOf(c)
  <1> USE DEF sessionVars, enclaveVars, processVars, historyVars, faultVars
  <1>0. c \in Calls /\ TypeOK
    BY DistinctCallers DEF TypedInv
  <1>1. CASE CheckPending(c)
    <2>1. /\ Goto(c, "expireUnapproved") \/ Finish(c)
          /\ UNCHANGED <<row, enclave, seals, gated, trades, lapses, revealed, approvals>>
      BY <1>1 DEF CheckPending
    <2>2. /\ \A d \in Calls \ {c} : call'[d] = call[d]
          /\ call'[c].pc \in {"expireUnapproved", "idle"}
      BY <1>0, <2>1, CallGoesOn, CallEnds DEF CallStates
    <2>3. QED  BY <1>0, <2>1, <2>2, PlainStep DEF Trading
  <1>2. CASE ExpireUnapproved(c)
    <2>1. Patch(c, Declined) /\ Declined.status # "settled"
      BY <1>0, <1>2 DEF ExpireUnapproved, Declined, TypeOK
    <2>2. QED  BY <1>0, <2>1, PatchStep
  <1>3. QED  BY <1>1, <1>2 DEF TimeOut

LEMMA FailureSteps ==
  ASSUME TypedInv, NEW c \in Calls, Failure(c)
  PROVE  StepOf(c)
  <1> USE DEF sessionVars, enclaveVars, processVars, historyVars, Fault
  <1>0. TypeOK
    BY DEF TypedInv
  <1>1. CASE MissingCiphertexts(c)
    <2>1. /\ Goto(c, "expire")
          /\ UNCHANGED <<row, enclave, seals, gated, trades, lapses, revealed, approvals>>
      BY <1>1 DEF MissingCiphertexts
    <2>2. /\ \A d \in Calls \ {c} : call'[d] = call[d]
          /\ call'[c].pc = "expire"
      BY <1>0, <2>1, CallGoesOn DEF CallStates
    <2>3. QED  BY <1>0, <2>1, <2>2, PlainStep DEF Trading
  <1>2. CASE LookupAgentsFails(c) \/ CallFails(c)
    <2>1. /\ Finish(c)
          /\ UNCHANGED <<enclave, seals, gated, trades, lapses, revealed, approvals>>
          /\ row'.status = "settled" => row.status = "settled"
      <3>1. CASE LookupAgentsFails(c)
        BY <1>0, <3>1 DEF LookupAgentsFails, TypeOK
      <3>2. CASE CallFails(c)
        BY <3>2 DEF CallFails
      <3>3. QED  BY <1>2, <3>1, <3>2
    <2>2. QED  BY <1>0, <2>1, CallEnds, PlainStep DEF Trading
  <1>3. CASE ExecuteSettlementFails(c)
    <2>1. /\ Goto(c, "reset") /\ call[c].pc = "settle"
          /\ Traded(c) \/ UNCHANGED trades
          /\ UNCHANGED <<row, enclave, seals, gated, lapses, revealed, approvals>>
      BY <1>3 DEF ExecuteSettlementFails
    <2>2. /\ \A d \in Calls \ {c} : call'[d] = call[d]
          /\ call'[c].pc = "reset"
      BY <1>0, <2>1, CallGoesOn DEF CallStates
    <2>3. QED
      BY <2>1, <2>2
         DEF StepOf, TradeStep, PathStep, ProposalStep, Holds, Committed, Trading
  <1>4. ASSUME c \in Sides, NEW price \in Prices(c), SealLost(c, price)
        PROVE  StepOf(c)
    <2>1. UNCHANGED <<row, gated, trades, lapses, revealed, approvals>> /\ Finish(c)
      BY <1>4 DEF SealLost
    <2>2. /\ \A d \in Calls \ {c} : call'[d] = call[d]
          /\ call'[c].pc = "idle"
      BY <1>0, <2>1, CallEnds
    <2>3. QED
      BY <1>4, <2>1, <2>2 DEF StepOf, TradeStep, PathStep, ProposalStep, Committed, Trading
  <1>5. QED  BY <1>1, <1>2, <1>3, <1>4 DEF Failure

\* The steps that no caller takes: calls go on as they were or are gone.
IdleStep ==
  /\ UNCHANGED <<row, enclave, seals, trades, gated, revealed, approvals, lapses>>
  /\ \A c \in Calls : call'[c] = call[c] \/ call'[c] = IdleCall

LEMMA Steps ==
  ASSUME TypedInv, EvaluateInv, [Next]_vars
  PROVE  IdleStep \/ \E c \in Calls : StepOf(c)
  <1> USE DEF sessionVars, enclaveVars, processVars, historyVars, faultVars
  <1>1. CASE UNCHANGED vars \/ DeadlinePasses
    BY <1>1 DEF vars, DeadlinePasses, IdleStep
  <1>2. CASE Restart
    BY <1>2 DEF Restart, Fault, IdleStep
  <1>3. CASE TimerFires
    <2>1. /\ Begin("timer", "check")
          /\ UNCHANGED <<row, enclave, seals, gated, trades, lapses, revealed, approvals>>
      BY <1>3 DEF TimerFires
    <2>2. /\ \A d \in Calls \ {"timer"} : call'[d] = call[d]
          /\ call'["timer"].pc = "check"
      BY <2>1, CallBegins, DistinctCallers DEF TypedInv, CallStates
    <2>3. StepOf("timer")
      BY <2>1, <2>2, PlainStep, DistinctCallers DEF Trading
    <2>4. QED  BY <2>3, DistinctCallers
  <1>4. CASE \E c \in Sides : SubmitMove(c) \/ Move(c)
    BY <1>4, AgentSteps, DistinctCallers
  <1>5. CASE \E c \in Operators :
          ApproveEscalation(c) \/ DeclineEscalation(c) \/ Gate(c)
    BY <1>5, OperatorSteps, DistinctCallers
  <1>6. CASE \E c \in Callers : Settle(c)
    BY <1>6, SettleSteps, DistinctCallers
  <1>7. CASE \E c \in Operators \cup {"timer"} : TimeOut(c)
    BY <1>7, TimeOutSteps, DistinctCallers
  <1>8. CASE \E c \in Calls : Failure(c)
    BY <1>8, FailureSteps
  <1>9. QED
    BY <1>1, <1>2, <1>3, <1>4, <1>5, <1>6, <1>7, <1>8 DEF Next

-----------------------------------------------------------------------------
(* A session is marked last.                                               *)

MarkInv == SettledHasTrade /\ \A c \in Calls : call[c].pc = "mark" => trades # <<>>

LEMMA TradesGrow ==
  ASSUME TypedInv, NEW c \in Calls, Traded(c)
  PROVE  /\ trades' # <<>>
         /\ Len(trades') = Len(trades) + 1 /\ Len(trades) \in Nat
         /\ DOMAIN trades = 1 .. Len(trades)
         /\ DOMAIN trades' = 1 .. Len(trades) + 1
         /\ \A i \in DOMAIN trades : trades'[i] = trades[i]
         /\ trades'[Len(trades) + 1].bid = call[c].bid
         /\ trades'[Len(trades) + 1].ask = call[c].ask
  <1> DEFINE t == [bid |-> call[c].bid, ask |-> call[c].ask, by |-> c]
  <1>1. /\ trades \in Seq([bid : Proposals, ask : Proposals, by : Callers])
        /\ trades' = Append(trades, t)
    BY DEF TypedInv, TypeOK, Traded
  <1>2. t.bid = call[c].bid /\ t.ask = call[c].ask
    OBVIOUS
  <1> HIDE DEF t
  <1>3. PICK S : trades \in Seq(S) /\ t \in S
    <2>1. trades \in Seq([bid : Proposals, ask : Proposals, by : Callers] \cup {t})
      BY <1>1, SeqMonotonic
    <2>2. QED  BY <2>1
  <1>4. QED  BY <1>1, <1>2, <1>3, AppendProperties, LenProperties, EmptySeq

LEMMA MarkNext ==
  ASSUME TypedInv, EvaluateInv, MarkInv, [Next]_vars
  PROVE  MarkInv'
  <1>1. CASE IdleStep
    BY <1>1 DEF IdleStep, MarkInv, SettledHasTrade, IdleCall
  <1>2. ASSUME NEW c \in Calls, StepOf(c)
        PROVE  MarkInv'
    <2>1. trades # <<>> => trades' # <<>>
      BY <1>2, TradesGrow DEF StepOf, TradeStep
    <2>2. call'[c].pc = "mark" => trades' # <<>>
      BY <1>2, TradesGrow DEF StepOf, TradeStep
    <2>3. \A d \in Calls : call'[d].pc = "mark" => trades' # <<>>
      BY <1>2, <2>1, <2>2 DEF StepOf, MarkInv
    <2>4. row'.status = "settled" => trades # <<>>
      BY <1>2 DEF StepOf, TradeStep, MarkInv, SettledHasTrade
    <2>5. QED  BY <2>1, <2>3, <2>4 DEF MarkInv, SettledHasTrade
  <1>3. QED  BY <1>1, <1>2, Steps

-----------------------------------------------------------------------------
(* Disclosures come before the trade.                                      *)

DisclosedInv ==
  "unread" \notin lapses =>
    /\ trades # <<>> => GateSatisfied
    /\ \A c \in Calls : call[c].pc \in Committed => GateSatisfied

LEMMA DisclosedNext ==
  ASSUME TypedInv, EvaluateInv, DisclosedInv, [Next]_vars
  PROVE  DisclosedInv'
  <1>1. CASE IdleStep
    BY <1>1 DEF IdleStep, DisclosedInv, GateSatisfied, IdleCall, Committed, Trading
  <1>2. ASSUME NEW c \in Calls, StepOf(c)
        PROVE  DisclosedInv'
    <2>1. SUFFICES ASSUME "unread" \notin lapses' PROVE DisclosedInv'
      BY DEF DisclosedInv
    <2>2. /\ trades # <<>> => GateSatisfied
          /\ \A d \in Calls : call[d].pc \in Committed => GateSatisfied
      BY <1>2, <2>1 DEF StepOf, DisclosedInv
    <2>3. GateSatisfied => GateSatisfied'
      BY <1>2 DEF StepOf, GateSatisfied
    <2>4. call'[c].pc \in Committed => GateSatisfied
      BY <1>2, <2>1, <2>2 DEF StepOf, PathStep
    <2>5. trades' # <<>> => GateSatisfied
      BY <1>2, <2>2 DEF StepOf, TradeStep, Committed, Trading
    <2>6. QED  BY <1>2, <2>2, <2>3, <2>4, <2>5 DEF StepOf, DisclosedInv
  <1>3. QED  BY <1>1, <1>2, Steps

-----------------------------------------------------------------------------
(* A proposal is in one place.                                             *)

Held(c) == IF Holds(c) THEN {call[c].bid, call[c].ask} ELSE {}
Sold(p) == \E i \in DOMAIN trades : p \in SidesOf(trades[i])
Gated(p) == \E g \in gated : p \in {g[1], g[2]}
Known(p) == p.k <= seals[p.side]

\* While the enclave deletes what it consumes, a proposal is in its store, in
\* the hands of one call, in one trade or among those that opened the gate.
ConsumedInv ==
  "undeleted" \notin lapses =>
    /\ \A p \in enclave : Known(p) /\ ~Sold(p) /\ ~Gated(p)
    /\ \A c \in Calls : \A p \in Held(c) :
         Known(p) /\ p \notin enclave /\ ~Sold(p) /\ ~Gated(p)
    /\ \A c, d \in Calls : Held(c) \cap Held(d) # {} => c = d
    /\ \A p \in Proposals : Sold(p) => Known(p) /\ ~Gated(p)
    /\ \A p \in Proposals : Gated(p) => Known(p)
    /\ \A i, j \in DOMAIN trades :
         SidesOf(trades[i]) \cap SidesOf(trades[j]) # {} => i = j

CrossedInv ==
  /\ \A c \in Calls : Holds(c) => call[c].bid.price >= call[c].ask.price
  /\ \A i \in DOMAIN trades : trades[i].bid.price >= trades[i].ask.price

OnceInv == EvaluateInv /\ CrossedInv /\ ConsumedInv

LEMMA HeldProposals ==
  ASSUME TypedInv, NEW c \in Calls
  PROVE  Held(c) \subseteq Proposals
  BY DEF TypedInv, TypeOK, CallInv, Held, Holds

\* A step that leaves the store alone: a call keeps what it holds or lets it go.
LEMMA OnceKept ==
  ASSUME TypedInv, OnceInv, NEW c \in Calls,
         \A d \in Calls \ {c} : call'[d] = call[d],
         lapses \subseteq lapses',
         UNCHANGED <<enclave, seals, gated>>,
         Holds(c)' => Holds(c) /\ Keeps(c) /\ trades' = trades,
         call'[c].pc # "evaluate",
         call'[c].pc = "seal" => call'[c].bid = None /\ call'[c].ask = None,
         trades' = trades \/ (call[c].pc = "settle" /\ Traded(c))
  PROVE  OnceInv'
  <1> USE DEF OnceInv
  <1>1. EvaluateInv'
    BY DEF EvaluateInv
  <1>2. \A d \in Calls \ {c} : (Holds(d)' <=> Holds(d)) /\ Held(d)' = Held(d)
    BY DEF Holds, Held
  <1>3. Held(c)' \subseteq Held(c) /\ (Holds(c)' => Keeps(c) /\ Holds(c))
    BY DEF Held, Keeps
  <1>4. \A d \in Calls : Held(d)' \subseteq Held(d)
    BY <1>2, <1>3
  <1>5. \A p : (Gated(p)' <=> Gated(p)) /\ (Known(p)' <=> Known(p))
    BY DEF Gated, Known
  <1>6. CASE trades' = trades
    <2>1. CrossedInv'
      BY <1>2, <1>3, <1>6 DEF CrossedInv, Holds, Keeps
    <2>2. \A p : Sold(p)' <=> Sold(p)
      BY <1>6 DEF Sold
    <2>3. ConsumedInv'
      <3>1. SUFFICES ASSUME "undeleted" \notin lapses' PROVE ConsumedInv'
        BY DEF ConsumedInv
      <3>2. "undeleted" \notin lapses
        BY <3>1
      <3>3. \A d, e \in Calls : Held(d)' \cap Held(e)' # {} => d = e
        BY <1>4, <3>2 DEF ConsumedInv
      <3>4. QED  BY <1>4, <1>5, <1>6, <2>2, <3>2, <3>3 DEF ConsumedInv
    <2>4. QED  BY <1>1, <2>1, <2>3
  <1>7. CASE call[c].pc = "settle" /\ Traded(c) /\ ~(Holds(c)')
    <2> DEFINE n == Len(trades) + 1
    <2>1. /\ DOMAIN trades' = DOMAIN trades \cup {n} /\ n \notin DOMAIN trades
          /\ \A i \in DOMAIN trades : trades'[i] = trades[i]
          /\ SidesOf(trades'[n]) = {call[c].bid, call[c].ask}
          /\ trades'[n].bid = call[c].bid /\ trades'[n].ask = call[c].ask
      <3>1. /\ Len(trades) \in Nat /\ DOMAIN trades = 1 .. Len(trades)
            /\ DOMAIN trades' = 1 .. Len(trades) + 1
            /\ \A i \in DOMAIN trades : trades'[i] = trades[i]
            /\ trades'[n].bid = call[c].bid /\ trades'[n].ask = call[c].ask
        BY <1>7, TradesGrow
      <3>2. DOMAIN trades' = DOMAIN trades \cup {n} /\ n \notin DOMAIN trades
        BY <3>1
      <3>3. SidesOf(trades'[n]) = {call[c].bid, call[c].ask}
        BY <3>1 DEF SidesOf
      <3> HIDE DEF n
      <3>4. QED  BY <3>1, <3>2, <3>3
    <2> HIDE DEF n
    <2>2. Holds(c) /\ Held(c) = {call[c].bid, call[c].ask} /\ Held(c)' = {}
      BY <1>7 DEF Held, Holds, Trading
    <2>3. CrossedInv'
      BY <1>2, <1>7, <2>1, <2>2 DEF CrossedInv, Holds
    <2>4. \A p : Sold(p)' <=> Sold(p) \/ p \in Held(c)
      BY <2>1, <2>2 DEF Sold
    <2>5. ConsumedInv'
      <3>1. SUFFICES ASSUME "undeleted" \notin lapses' PROVE ConsumedInv'
        BY DEF ConsumedInv
      <3>2. "undeleted" \notin lapses
        BY <3>1
      <3>3. \A d, e \in Calls : Held(d)' \cap Held(e)' # {} => d = e
        BY <1>4, <3>2 DEF ConsumedInv
      <3>4. \A d \in Calls : \A p \in Held(d)' :
              d # c /\ p \in Held(d) /\ p \notin Held(c)
        BY <1>2, <2>2, <3>2 DEF ConsumedInv
      <3>5. \A i, j \in DOMAIN trades' :
              SidesOf(trades'[i]) \cap SidesOf(trades'[j]) # {} => i = j
        <4>1. \A p \in Held(c) : ~Sold(p)
          BY <3>2 DEF ConsumedInv
        <4>2. \A i \in DOMAIN trades : SidesOf(trades[i]) \cap Held(c) = {}
          BY <4>1 DEF Sold
        <4>3. QED  BY <2>1, <2>2, <3>2, <4>2 DEF ConsumedInv
      <3>6. QED
        BY <1>5, <2>4, <3>2, <3>3, <3>4, <3>5 DEF ConsumedInv
    <2>6. QED  BY <1>1, <2>3, <2>5
  <1>8. QED  BY <1>6, <1>7

\* A sealed proposal is new, whether or not the call learns of it.
LEMMA OnceSeal ==
  ASSUME TypedInv, OnceInv, NEW c \in Sides, NEW price \in Prices(c),
         SealRound(c, price) \/ SealLost(c, price)
  PROVE  OnceInv'
  <1>p. PICK p : p = [side |-> c, k |-> seals[c] + 1, price |-> price]
    OBVIOUS
  <1> USE DEF OnceInv, TypedInv
  <1>0. c \in Calls /\ TypeOK
    BY DistinctCallers
  <1>1. /\ call[c].pc = "seal"
        /\ seals' = [seals EXCEPT ![c] = @ + 1] /\ enclave' = enclave \cup {p}
        /\ UNCHANGED <<trades, gated, lapses>>
    BY <1>p DEF SealRound, SealLost, Fault, historyVars, faultVars
  <1>2. /\ \A d \in Calls \ {c} : call'[d] = call[d]
        /\ call'[c].pc \in {"evaluate", "idle"} /\ None \in {call'[c].bid, call'[c].ask}
    <2>1. call[c].bid = None /\ call[c].ask = None
      BY <1>0, <1>1 DEF EvaluateInv
    <2>2. CASE SealRound(c, price) /\ c = "buy"
      <3>1. call' = [call EXCEPT ![c] = [call[c] EXCEPT !.pc = "evaluate", !.bid = p]]
        BY <1>p, <2>2 DEF SealRound
      <3>2. QED  BY <1>0, <2>1, <3>1 DEF TypeOK
    <2>3. CASE SealRound(c, price) /\ c # "buy"
      <3>1. call' = [call EXCEPT ![c] = [call[c] EXCEPT !.pc = "evaluate", !.ask = p]]
        BY <1>p, <2>3 DEF SealRound
      <3>2. QED  BY <1>0, <2>1, <3>1 DEF TypeOK
    <2>4. CASE SealLost(c, price)
      <3>1. Finish(c)
        BY <2>4 DEF SealLost
      <3>2. QED  BY <1>0, <3>1, CallEnds DEF IdleCall
    <2>5. QED  BY <2>2, <2>3, <2>4
  <1>3. /\ \A q \in Proposals : Known(q) => Known(q)' /\ q # p
        /\ Known(p)'
    <2>1. \A s \in Sides : seals[s] \in Nat
      BY <1>0 DEF TypeOK
    <2>2. p.side = c /\ p.k = seals[c] + 1
      BY <1>p
    <2>3. \A q \in Proposals : q.side \in Sides /\ q.k \in Nat
      BY DEF Proposals
    <2>4. \A s \in Sides : seals'[s] = IF s = c THEN seals[s] + 1 ELSE seals[s]
      BY <1>0, <1>1 DEF TypeOK
    <2>5. ASSUME NEW q \in Proposals, q.k <= seals[q.side]
          PROVE  q.k <= seals'[q.side] /\ q # p
      <3>1. q.side \in Sides /\ q.k \in Nat /\ seals[q.side] \in Nat
        BY <2>1, <2>3
      <3>2. q.k <= seals'[q.side]
        BY <2>4, <2>5, <3>1
      <3>3. q # p
        BY <2>1, <2>2, <2>5, <3>1
      <3>4. QED  BY <3>2, <3>3
    <2>6. p.k <= seals'[p.side]
      BY <2>1, <2>2, <2>4
    <2>7. QED  BY <2>5, <2>6 DEF Known
  <1>4. \A d \in Calls : (Holds(d)' => Holds(d) /\ d # c) /\ Held(d)' \subseteq Held(d)
    BY <1>2 DEF Holds, Held, Trading
  <1>5. \A q : (Sold(q)' <=> Sold(q)) /\ (Gated(q)' <=> Gated(q))
    BY <1>1 DEF Sold, Gated
  <1>6. EvaluateInv' /\ CrossedInv'
    BY <1>1, <1>2, <1>4 DEF EvaluateInv, CrossedInv
  <1>7. ConsumedInv'
    <2>1. SUFFICES ASSUME "undeleted" \notin lapses' PROVE ConsumedInv'
      BY DEF ConsumedInv
    <2>2. "undeleted" \notin lapses
      BY <1>1, <2>1
    <2>3. /\ \A q \in enclave : q \in Proposals /\ Known(q) /\ ~Sold(q) /\ ~Gated(q)
          /\ \A d \in Calls : \A q \in Held(d) :
               q \in Proposals /\ Known(q) /\ q \notin enclave /\ ~Sold(q) /\ ~Gated(q)
          /\ \A d, e \in Calls : Held(d) \cap Held(e) # {} => d = e
          /\ \A q \in Proposals : Sold(q) => Known(q) /\ ~Gated(q)
          /\ \A q \in Proposals : Gated(q) => Known(q)
          /\ \A i, j \in DOMAIN trades :
               SidesOf(trades[i]) \cap SidesOf(trades[j]) # {} => i = j
      BY <1>0, <2>2, HeldProposals DEF ConsumedInv, TypeOK
    <2>4. ~Sold(p) /\ ~Gated(p)
      <3>1. \A q : Sold(q) => q \in Proposals
        <4>1. \A i \in DOMAIN trades : SidesOf(trades[i]) \subseteq Proposals
          <5>1. \A i \in 1 .. Len(trades) :
                  trades[i] \in [bid : Proposals, ask : Proposals, by : Callers]
            BY <1>0, ElementOfSeq DEF TypeOK
          <5>2. DOMAIN trades = 1 .. Len(trades)
            BY <1>0, LenProperties DEF TypeOK
          <5>3. QED  BY <5>1, <5>2 DEF SidesOf
        <4>2. QED  BY <4>1 DEF Sold
      <3>2. \A q : Gated(q) => q \in Proposals
        BY <1>0 DEF TypeOK, Gated
      <3>3. QED  BY <1>3, <2>3, <3>1, <3>2
    <2>5. \A q \in enclave' : Known(q)' /\ ~Sold(q) /\ ~Gated(q)
      <3>1. \A q \in enclave : Known(q)' /\ ~Sold(q) /\ ~Gated(q)
        BY <1>3, <2>3
      <3>2. \A q \in enclave' : q \in enclave \/ q = p
        BY <1>1
      <3>3. QED  BY <1>3, <2>4, <3>1, <3>2
    <2>6. \A d \in Calls : \A q \in Held(d) :
            Known(q)' /\ q \notin enclave' /\ ~Sold(q) /\ ~Gated(q)
      BY <1>1, <1>3, <2>3
    <2>7. \A d, e \in Calls : Held(d)' \cap Held(e)' # {} => d = e
      BY <1>4, <2>3
    <2>8. /\ \A q \in Proposals : Sold(q) => Known(q)' /\ ~Gated(q)
          /\ \A q \in Proposals : Gated(q) => Known(q)'
      BY <1>3, <2>3
    <2>9. QED  BY <1>1, <1>4, <1>5, <2>3, <2>5, <2>6, <2>7, <2>8 DEF ConsumedInv
  <1>8. QED  BY <1>6, <1>7

\* What the enclave takes for a cross is in the hands of one call.
LEMMA OnceRound ==
  ASSUME TypedInv, OnceInv, NEW c \in Callers,
         NEW bid \in Proposals, NEW ask \in Proposals,
         EvaluateRound(c, bid, ask), call[c].pc \in {"evaluate", "handles"},
         UNCHANGED <<seals, gated, trades>>
  PROVE  OnceInv'
  <1> USE DEF OnceInv, TypedInv
  <1>0. c \in Calls /\ TypeOK /\ AfterVerdict(c, bid, ask)
    BY DistinctCallers DEF EvaluateRound
  <1>1. \A d \in Calls \ {c} :
          call'[d] = call[d] /\ (Holds(d)' <=> Holds(d)) /\ Held(d)' = Held(d)
    BY <1>0, VerdictMoves DEF Holds, Held
  <1>2. call'[c].pc \in {"append", "disclosure", "idle"}
    BY <1>0, VerdictMoves DEF IdleCall
  <1>3. Holds(c)' => Crosses(bid, ask) /\ call'[c].bid = bid /\ call'[c].ask = ask
    <2>1. CASE Crosses(bid, ask)
      BY <1>0, <2>1, VerdictMoves
    <2>2. CASE ~Crosses(bid, ask) /\ c \in Sides
      <3>1. None \in {call[c].bid, call[c].ask}
        <4>1. c \notin Operators
          BY <2>2, DistinctCallers
        <4>2. call[c].pc = "evaluate"
          BY <2>2 DEF CallInv, AgentStates, Trading
        <4>3. QED  BY <1>0, <4>2 DEF EvaluateInv
      <3>2. /\ call'[c].pc = "append"
            /\ call'[c].bid = call[c].bid /\ call'[c].ask = call[c].ask
        BY <1>0, <2>2, VerdictMoves
      <3>3. ~(Holds(c)')
        BY <3>1, <3>2 DEF Holds, Trading
      <3>4. QED  BY <3>3
    <2>3. CASE ~Crosses(bid, ask) /\ c \notin Sides
      <3>1. call'[c].pc = "idle"
        BY <1>0, <2>3, VerdictMoves DEF IdleCall
      <3>2. QED  BY <3>1 DEF Holds, Trading
    <2>4. QED  BY <2>1, <2>2, <2>3
  <1>4. EvaluateInv'
    BY <1>1, <1>2 DEF EvaluateInv
  <1>5. CrossedInv'
    <2>1. Crosses(bid, ask) => bid.price >= ask.price
      BY DEF Crosses
    <2>2. \A d \in Calls : Holds(d)' => call'[d].bid.price >= call'[d].ask.price
      BY <1>1, <1>3, <2>1 DEF CrossedInv
    <2>3. QED  BY <2>2 DEF CrossedInv
  <1>6. ConsumedInv'
    <2>1. SUFFICES ASSUME "undeleted" \notin lapses' PROVE ConsumedInv'
      BY DEF ConsumedInv
    <2>2. /\ "undeleted" \notin lapses
          /\ enclave' = IF Crosses(bid, ask) THEN enclave \ {bid, ask} ELSE enclave
      BY <2>1 DEF EvaluateRound, FaultThat, faultVars
    <2>3. Held(c)' \subseteq enclave \ enclave'
      BY <1>3, <2>2 DEF Held, Crosses
    <2>4. enclave' \subseteq enclave
      BY <2>2
    <2>5. \A q : /\ Sold(q)' <=> Sold(q)
                 /\ Gated(q)' <=> Gated(q)
                 /\ Known(q)' <=> Known(q)
      BY DEF Sold, Gated, Known
    <2>6. \A d \in Calls : \A q \in Held(d)' :
            Known(q) /\ q \notin enclave' /\ ~Sold(q) /\ ~Gated(q)
      BY <1>1, <2>2, <2>3, <2>4 DEF ConsumedInv
    <2>7. \A d, e \in Calls : Held(d)' \cap Held(e)' # {} => d = e
      BY <1>1, <2>2, <2>3 DEF ConsumedInv
    <2>8. QED  BY <2>2, <2>4, <2>5, <2>6, <2>7 DEF ConsumedInv
  <1>7. QED  BY <1>4, <1>5, <1>6

\* What opens the gate is in nobody's hands any more.
LEMMA OnceGate ==
  ASSUME TypedInv, OnceInv, NEW c \in Sides, OpenEscalationGate(c)
  PROVE  OnceInv'
  <1> USE DEF OnceInv, TypedInv
  <1>0. c \in Calls /\ TypeOK
    BY DistinctCallers
  <1>1. /\ call[c].pc = "gate" /\ Goto(c, "arm")
        /\ gated' = gated \cup {<<call[c].bid, call[c].ask>>}
        /\ UNCHANGED <<enclave, seals, trades, lapses>>
    BY DEF OpenEscalationGate, enclaveVars, faultVars
  <1>2. /\ \A d \in Calls \ {c} : call'[d] = call[d]
        /\ call'[c].pc = "arm"
    BY <1>0, <1>1, CallGoesOn DEF CallStates
  <1>3. /\ Held(c) = {call[c].bid, call[c].ask} /\ Held(c)' = {}
        /\ \A d \in Calls \ {c} : (Holds(d)' <=> Holds(d)) /\ Held(d)' = Held(d)
        /\ ~(Holds(c)')
    BY <1>1, <1>2 DEF Held, Holds, Trading
  <1>4. \A q : /\ Sold(q)' <=> Sold(q)
               /\ Gated(q)' <=> Gated(q) \/ q \in Held(c)
               /\ Known(q)' <=> Known(q)
    <2> DEFINE g == <<call[c].bid, call[c].ask>>
    <2>1. gated' = gated \cup {g} /\ {g[1], g[2]} = Held(c)
      BY <1>1, <1>3
    <2> HIDE DEF g
    <2>2. \A q : Gated(q)' <=> Gated(q) \/ q \in Held(c)
      BY <2>1 DEF Gated
    <2>3. \A q : (Sold(q)' <=> Sold(q)) /\ (Known(q)' <=> Known(q))
      BY <1>1 DEF Sold, Known
    <2>4. QED  BY <2>2, <2>3
  <1>5. EvaluateInv' /\ CrossedInv'
    BY <1>1, <1>2, <1>3 DEF EvaluateInv, CrossedInv
  <1>6. ConsumedInv'
    <2>1. SUFFICES ASSUME "undeleted" \notin lapses' PROVE ConsumedInv'
      BY DEF ConsumedInv
    <2>2. "undeleted" \notin lapses
      BY <1>1, <2>1
    <2>3. \A d \in Calls : \A q \in Held(d)' : q \in Held(d) /\ q \notin Held(c)
      <3>1. \A d \in Calls \ {c} : Held(d) \cap Held(c) = {}
        BY <1>0, <2>2 DEF ConsumedInv
      <3>2. QED  BY <1>3, <3>1
    <2>4. \A d, e \in Calls : Held(d)' \cap Held(e)' # {} => d = e
      BY <1>3, <2>2 DEF ConsumedInv
    <2>5. QED  BY <1>0, <1>1, <1>4, <2>2, <2>3, <2>4 DEF ConsumedInv
  <1>7. QED  BY <1>5, <1>6

LEMMA OnceNext ==
  ASSUME TypedInv, OnceInv, [Next]_vars
  PROVE  OnceInv'
  <1>1. CASE IdleStep
    <2>1. \A d \in Calls : /\ Holds(d)' => Holds(d) /\ call'[d] = call[d]
                           /\ Held(d)' \subseteq Held(d)
      BY <1>1 DEF IdleStep, IdleCall, Holds, Held, Trading
    <2>2. EvaluateInv' /\ CrossedInv'
      BY <1>1, <2>1 DEF IdleStep, IdleCall, OnceInv, EvaluateInv, CrossedInv
    <2>3. \A q : /\ Sold(q)' <=> Sold(q)
                 /\ Gated(q)' <=> Gated(q)
                 /\ Known(q)' <=> Known(q)
      BY <1>1 DEF IdleStep, Sold, Gated, Known
    <2>4. ConsumedInv'
      BY <1>1, <2>1, <2>3 DEF IdleStep, OnceInv, ConsumedInv
    <2>5. QED  BY <2>2, <2>4 DEF OnceInv
  <1>2. ASSUME NEW c \in Calls, StepOf(c)
        PROVE  OnceInv'
    <2>1. CASE /\ c \in Sides
               /\ \E price \in Prices(c) : SealRound(c, price) \/ SealLost(c, price)
      BY <2>1, OnceSeal
    <2>2. CASE /\ call[c].pc \in {"evaluate", "handles"} /\ c \in Callers
               /\ UNCHANGED <<seals, gated, trades>>
               /\ \E bid, ask \in Proposals : EvaluateRound(c, bid, ask)
      BY <2>2, OnceRound
    <2>3. CASE c \in Sides /\ OpenEscalationGate(c)
      BY <2>3, OnceGate
    <2>4. CASE /\ UNCHANGED <<enclave, seals, gated>>
               /\ Holds(c)' => Holds(c) /\ Keeps(c) /\ trades' = trades
               /\ call'[c].pc # "evaluate"
               /\ call'[c].pc = "seal" => call'[c].bid = None /\ call'[c].ask = None
      BY <1>2, <2>4, OnceKept DEF StepOf, TradeStep
    <2>5. QED  BY <1>2, <2>1, <2>2, <2>3, <2>4 DEF StepOf, ProposalStep
  <1>3. QED  BY <1>1, <1>2, Steps DEF OnceInv

-----------------------------------------------------------------------------
(* Envelopes.                                                              *)

WithinEnvelope(side, bid, ask) ==
  IF side = "buy" THEN ExecutionPrice(bid, ask) <= MaxEnvelope[side]
  ELSE ExecutionPrice(bid, ask) >= MinEnvelope[side]

EnvelopeInv ==
  /\ \A op \in Operators : call[op].pc \in Trading \cup {"handles"} => approvals
  /\ \A s \in Sides :
       call[s].pc \in Trading => ~MustEscalate(s, call[s].bid, call[s].ask)
  /\ ~approvals =>
       \A i \in DOMAIN trades : \A side \in Escalates :
         WithinEnvelope(side, trades[i].bid, trades[i].ask)

\* The mover's own price is the worse end of the cross for it.
LEMMA CrossWithinEnvelopes ==
  ASSUME NEW c \in Sides, NEW bid \in Proposals, NEW ask \in Proposals,
         bid.price >= ask.price, ~MustEscalate(c, bid, ask), NEW side \in Escalates
  PROVE  WithinEnvelope(side, bid, ask)
  <1>1. /\ bid.price \in Nat /\ ask.price \in Nat /\ side \in Sides
        /\ MinEnvelope[side] \in Nat /\ MaxEnvelope[side] \in Nat
    BY SessionAssumption DEF Proposals
  <1>2. CASE side = c
    <2>1. CASE side = "buy"
      BY <1>1, <1>2, <2>1
         DEF MustEscalate, InsideEnvelope, ExecutionPrice, WithinEnvelope
    <2>2. CASE side # "buy"
      BY <1>1, <1>2, <2>2
         DEF MustEscalate, InsideEnvelope, ExecutionPrice, WithinEnvelope
    <2>3. QED  BY <2>1, <2>2
  <1>3. CASE side # c
    <2>1. side = Other(c)
      BY <1>1, <1>3 DEF Other, Sides
    <2>2. InsideEnvelope(side, ExecutionPrice(bid, ask))
      BY <2>1 DEF MustEscalate
    <2>3. ExecutionPrice(bid, ask) \in Nat
      BY <1>1 DEF ExecutionPrice
    <2>4. QED  BY <1>1, <2>2, <2>3 DEF InsideEnvelope, WithinEnvelope
  <1>4. QED  BY <1>2, <1>3

LEMMA TradingWithinEnvelopes ==
  ASSUME TypedInv, OnceInv, NEW c \in Sides, call[c].pc \in Trading,
         ~MustEscalate(c, call[c].bid, call[c].ask), NEW side \in Escalates
  PROVE  WithinEnvelope(side, call[c].bid, call[c].ask)
  <1>1. c \in Calls /\ Holds(c)
    BY DistinctCallers DEF Holds
  <1>2. call[c].bid \in Proposals /\ call[c].ask \in Proposals
    BY <1>1 DEF TypedInv, CallInv
  <1>3. call[c].bid.price >= call[c].ask.price
    BY <1>1 DEF OnceInv, CrossedInv
  <1>4. QED  BY <1>2, <1>3, CrossWithinEnvelopes

LEMMA EnvelopeNext ==
  ASSUME TypedInv, OnceInv, EnvelopeInv, [Next]_vars
  PROVE  EnvelopeInv'
  <1>1. CASE IdleStep
    BY <1>1, DistinctCallers
       DEF IdleStep, EnvelopeInv, IdleCall, Trading, MustEscalate, InsideEnvelope,
           ExecutionPrice, WithinEnvelope
  <1>2. ASSUME NEW c \in Calls, StepOf(c)
        PROVE  EnvelopeInv'
    <2>1. approvals => approvals'
      BY <1>2 DEF StepOf
    <2>2. /\ \A op \in Operators :
               call[op].pc \in Trading \cup {"handles"} => approvals
          /\ \A s \in Sides :
               call[s].pc \in Trading => ~MustEscalate(s, call[s].bid, call[s].ask)
      BY DEF EnvelopeInv
    <2>3. \A op \in Operators :
            call'[op].pc \in Trading \cup {"handles"} => approvals'
      <3>1. ASSUME c \in Operators, call'[c].pc \in Trading \cup {"handles"}
            PROVE  approvals'
        BY <1>2, <2>1, <2>2, <3>1, DistinctCallers DEF StepOf, PathStep, Committed, Trading
      <3>2. QED  BY <1>2, <2>1, <2>2, <3>1, DistinctCallers DEF StepOf
    <2>4. \A s \in Sides :
            call'[s].pc \in Trading => ~MustEscalate(s, call'[s].bid, call'[s].ask)
      <3>1. ASSUME c \in Sides, call'[c].pc \in Trading
            PROVE  ~MustEscalate(c, call'[c].bid, call'[c].ask)
        <4>1. Keeps(c) /\ ~MustEscalate(c, call[c].bid, call[c].ask)
          BY <1>2, <2>2, <3>1, DistinctCallers DEF StepOf, PathStep, Committed, Trading
        <4>2. QED  BY <4>1 DEF Keeps
      <3>2. QED  BY <1>2, <2>2, <3>1, DistinctCallers DEF StepOf
    <2>5. ASSUME ~approvals'
          PROVE  \A i \in DOMAIN trades' : \A side \in Escalates :
                   WithinEnvelope(side, trades'[i].bid, trades'[i].ask)
      <3>0. /\ ~approvals
            /\ \A i \in DOMAIN trades : \A side \in Escalates :
                 WithinEnvelope(side, trades[i].bid, trades[i].ask)
        BY <2>1, <2>5 DEF EnvelopeInv
      <3>1. CASE trades' = trades
        BY <3>0, <3>1
      <3>2. CASE call[c].pc = "settle" /\ Traded(c)
        <4>1. /\ c \in Sides /\ Holds(c)
              /\ call[c].bid \in Proposals /\ call[c].ask \in Proposals
          BY <2>2, <3>0, <3>2
             DEF TypedInv, CallInv, TimerStates, Trading, Calls, Callers, Holds
        <4>2. \A side \in Escalates : WithinEnvelope(side, call[c].bid, call[c].ask)
          BY <2>2, <3>2, <4>1, TradingWithinEnvelopes DEF Trading
        <4>3. ASSUME NEW i \in DOMAIN trades', NEW side \in Escalates
              PROVE  WithinEnvelope(side, trades'[i].bid, trades'[i].ask)
          <5>1. \/ i \in DOMAIN trades /\ trades'[i] = trades[i]
                \/ /\ trades'[i].bid = call[c].bid
                   /\ trades'[i].ask = call[c].ask
            BY <3>2, <4>3, TradesGrow
          <5>2. QED  BY <3>0, <4>2, <5>1
        <4>4. QED  BY <4>3
      <3>3. QED  BY <1>2, <3>1, <3>2 DEF StepOf, TradeStep
    <2>6. QED
      BY <2>3, <2>4, <2>5
         DEF EnvelopeInv, MustEscalate, InsideEnvelope, ExecutionPrice, WithinEnvelope
  <1>3. QED  BY <1>1, <1>2, Steps DEF OnceInv

-----------------------------------------------------------------------------
(* The deal.  A quiet step moves no proposal: its call ends, begins, or goes *)
(* on with what it has or without it.                                        *)

QuietStep(c) ==
  /\ \A d \in Calls \ {c} : call'[d] = call[d]
  /\ call'[c].bid \in {None, call[c].bid} /\ call'[c].ask \in {None, call[c].ask}
  /\ Holds(c)' => Holds(c) /\ Keeps(c)
  /\ UNCHANGED <<memory, standing, enclave, seals, gated, trades, revealed,
                 approvals, lapses>>
  /\ row'.escalation = "pending" => row.escalation = "pending"
  /\ call'[c].pc = "approve" => row.escalation = "pending"

\* The steps that do more.
LoudStep(c) ==
  \/ /\ c \in Sides
     /\ \/ HandleDisclosure(c) \/ EvaluateMove(c) \/ AppendRound(c)
        \/ OpenEscalationGate(c)
        \/ \E price \in Prices(c) : SealRound(c, price) \/ SealLost(c, price)
  \/ c \in Callers /\ (DisclosureGate(c) \/ ExecuteSettlement(c))
  \/ c \in Operators /\ (Approve(c) \/ EvaluateStanding(c))
  \/ ExecuteSettlementFails(c)

LEMMA QuietEnd ==
  ASSUME TypeOK, NEW c \in Calls, Finish(c),
         UNCHANGED <<memory, standing, enclave, seals, gated, trades, revealed,
                     approvals, lapses>>,
         row'.escalation = "pending" => row.escalation = "pending"
  PROVE  QuietStep(c)
  <1>1. /\ \A d \in Calls \ {c} : call'[d] = call[d]
        /\ call'[c].pc = "idle" /\ call'[c].bid = None /\ call'[c].ask = None
    BY CallEnds DEF IdleCall
  <1>2. ~(Holds(c)')
    BY <1>1 DEF Holds, Trading
  <1>3. QED  BY <1>1, <1>2 DEF QuietStep

LEMMA QuietBegin ==
  ASSUME TypeOK, NEW c \in Calls,
         NEW pc \in {"gateHold", "expire", "walkaway", "reveal", "advance", "seal",
                     "check", "approve", "decline"},
         Begin(c, pc), pc = "approve" => Pending,
         UNCHANGED <<row, memory, standing, enclave, seals, gated, trades,
                     revealed, approvals, lapses>>
  PROVE  QuietStep(c)
  <1>1. /\ \A d \in Calls \ {c} : call'[d] = call[d]
        /\ call'[c].pc = pc /\ call'[c].bid = None /\ call'[c].ask = None
    BY CallBegins DEF CallStates
  <1>2. ~(Holds(c)')
    BY <1>1 DEF Holds, Trading
  <1>3. QED  BY <1>1, <1>2 DEF QuietStep, Pending

LEMMA QuietGoing ==
  ASSUME TypeOK, NEW c \in Calls, NEW pc \in CallStates \ {"append", "approve"},
         Goto(c, pc),
         pc \in Trading \cup {"gate"} => call[c].pc \in Trading,
         UNCHANGED <<memory, standing, enclave, seals, gated, trades, revealed,
                     approvals, lapses>>,
         row'.escalation = "pending" => row.escalation = "pending"
  PROVE  QuietStep(c)
  <1>1. /\ \A d \in Calls \ {c} : call'[d] = call[d]
        /\ call'[c].pc = pc /\ Keeps(c)
    BY CallGoesOn DEF Keeps
  <1>2. Holds(c)' => Holds(c)
    BY <1>1 DEF Holds
  <1>3. QED  BY <1>1, <1>2 DEF QuietStep, Keeps

LEMMA QuietPatch ==
  ASSUME TypeOK, NEW c \in Calls, NEW new, Patch(c, new),
         new.escalation = "pending" => row.escalation = "pending"
  PROVE  QuietStep(c)
  BY QuietEnd DEF Patch, enclaveVars, processVars, historyVars, faultVars

LEMMA QuietMoves ==
  ASSUME TypeOK, NEW c \in Sides, SubmitMove(c) \/ Move(c)
  PROVE  QuietStep(c) \/ LoudStep(c)
  <1> USE DEF sessionVars, enclaveVars, processVars, historyVars, faultVars
  <1>0. c \in Calls /\ c \in Callers
    BY DistinctCallers
  <1>1. CASE SubmitMove(c)
    <2>1. PICK pc \in {"gateHold", "expire", "walkaway", "reveal", "advance", "seal"} :
            Begin(c, pc)
      BY <1>1 DEF SubmitMove
    <2>2. UNCHANGED <<row, memory, standing, enclave, seals, gated, trades,
                      revealed, approvals, lapses>>
      BY <1>1 DEF SubmitMove
    <2>3. QED  BY <1>0, <2>1, <2>2, QuietBegin
  <1>2. CASE GateHold(c)
    <2>1. /\ Patch(c, [row EXCEPT !.round = call[c].round + 1])
          /\ [row EXCEPT !.round = call[c].round + 1].escalation = row.escalation
      BY <1>2 DEF GateHold, TypeOK
    <2>2. QED  BY <1>0, <2>1, QuietPatch
  <1>3. CASE WalkAway(c)
    <2>1. /\ Patch(c, [row EXCEPT !.status = "walked_away",
                                  !.round = call[c].round + 1])
          /\ [row EXCEPT !.status = "walked_away",
                         !.round = call[c].round + 1].escalation = row.escalation
      BY <1>3 DEF WalkAway, TypeOK
    <2>2. QED  BY <1>0, <2>1, QuietPatch
  <1>4. CASE AdvanceTurn(c)
    <2>1. /\ Patch(c, [row EXCEPT !.turn = Other(c), !.round = call[c].round + 1])
          /\ [row EXCEPT !.turn = Other(c),
                         !.round = call[c].round + 1].escalation = row.escalation
      BY <1>4 DEF AdvanceTurn, TypeOK
    <2>2. QED  BY <1>0, <2>1, QuietPatch
  <1>5. CASE ArmEscalationTimer(c)
    <2>1. /\ Finish(c)
          /\ UNCHANGED <<row, memory, standing, enclave, seals, gated, trades,
                         revealed, approvals, lapses>>
      BY <1>5 DEF ArmEscalationTimer
    <2>2. QED  BY <1>0, <2>1, QuietEnd
  <1>6. QED
    BY <1>1, <1>2, <1>3, <1>4, <1>5 DEF Move, LoudStep

LEMMA QuietSettle ==
  ASSUME TypeOK, NEW c \in Callers, Settle(c)
  PROVE  QuietStep(c) \/ LoudStep(c)
  <1> USE DEF sessionVars, enclaveVars, processVars, historyVars, faultVars
  <1>0. c \in Calls
    BY DistinctCallers
  <1>1. CASE ExpireSession(c)
    <2>1. /\ Patch(c, [row EXCEPT !.status = "expired", !.escalation = "none"])
          /\ [row EXCEPT !.status = "expired",
                         !.escalation = "none"].escalation # "pending"
      BY <1>1 DEF ExpireSession, TypeOK
    <2>2. QED  BY <1>0, <2>1, QuietPatch
  <1>2. CASE ResetToActive(c)
    <2>1. /\ Patch(c, [row EXCEPT !.status = "active"])
          /\ [row EXCEPT !.status = "active"].escalation = row.escalation
      BY <1>2 DEF ResetToActive, TypeOK
    <2>2. QED  BY <1>0, <2>1, QuietPatch
  <1>3. CASE MarkSettled(c)
    <2>1. /\ Patch(c, [row EXCEPT !.status = "settled"])
          /\ [row EXCEPT !.status = "settled"].escalation = row.escalation
      BY <1>3 DEF MarkSettled, TypeOK
    <2>2. QED  BY <1>0, <2>1, QuietPatch
  <1>4. CASE Converge(c) \/ LookupAgents(c) \/ Settling(c)
    <2>1. PICK pc \in {"lookup", "settling", "settle"} : Goto(c, pc)
      BY <1>4 DEF Converge, LookupAgents, Settling, Advance
    <2>2. /\ call[c].pc \in Trading
          /\ UNCHANGED <<memory, standing, enclave, seals, gated, trades,
                         revealed, approvals, lapses>>
          /\ row'.escalation = row.escalation
      BY <1>4 DEF Converge, LookupAgents, Settling, Advance, TypeOK, Trading
    <2>3. QED  BY <1>0, <2>1, <2>2, QuietGoing DEF CallStates
  <1>5. QED
    BY <1>1, <1>2, <1>3, <1>4 DEF Settle, LoudStep

LEMMA QuietGate ==
  ASSUME TypeOK, NEW c \in Operators,
         ApproveEscalation(c) \/ DeclineEscalation(c) \/ Gate(c)
  PROVE  QuietStep(c) \/ LoudStep(c)
  <1> USE DEF sessionVars, enclaveVars, processVars, historyVars, faultVars
  <1>0. c \in Calls
    BY DistinctCallers
  <1>1. CASE ApproveEscalation(c) \/ DeclineEscalation(c)
    <2>1. PICK pc \in {"check", "approve", "decline"} : Begin(c, pc) /\ Pending
      BY <1>1 DEF ApproveEscalation, DeclineEscalation
    <2>2. UNCHANGED <<row, memory, standing, enclave, seals, gated, trades,
                      revealed, approvals, lapses>>
      BY <1>1 DEF ApproveEscalation, DeclineEscalation
    <2>3. QED  BY <1>0, <2>1, <2>2, QuietBegin
  <1>2. CASE Decline(c)
    <2>1. Patch(c, Declined) /\ Declined.escalation # "pending"
      BY <1>2 DEF Decline, Declined, TypeOK
    <2>2. QED  BY <1>0, <2>1, QuietPatch
  <1>3. QED  BY <1>1, <1>2 DEF Gate, LoudStep

LEMMA QuietTimeOut ==
  ASSUME TypeOK, NEW c \in Operators \cup {"timer"}, TimeOut(c)
  PROVE  QuietStep(c)
  <1> USE DEF sessionVars, enclaveVars, processVars, historyVars, faultVars
  <1>0. c \in Calls
    BY DistinctCallers
  <1>1. CASE CheckPending(c)
    <2>1. /\ Goto(c, "expireUnapproved") \/ Finish(c)
          /\ UNCHANGED <<row, memory, standing, enclave, seals, gated, trades,
                         revealed, approvals, lapses>>
      BY <1>1 DEF CheckPending
    <2>2. QED  BY <1>0, <2>1, QuietGoing, QuietEnd DEF CallStates, Trading
  <1>2. CASE ExpireUnapproved(c)
    <2>1. Patch(c, Declined) /\ Declined.escalation # "pending"
      BY <1>2 DEF ExpireUnapproved, Declined, TypeOK
    <2>2. QED  BY <1>0, <2>1, QuietPatch
  <1>3. QED  BY <1>1, <1>2 DEF TimeOut

LEMMA QuietFailure ==
  ASSUME TypeOK, NEW c \in Calls, Failure(c)
  PROVE  QuietStep(c) \/ LoudStep(c)
  <1> USE DEF sessionVars, enclaveVars, processVars, historyVars, Fault
  <1>1. CASE MissingCiphertexts(c)
    <2>1. /\ Goto(c, "expire")
          /\ UNCHANGED <<row, memory, standing, enclave, seals, gated, trades,
                         revealed, approvals, lapses>>
      BY <1>1 DEF MissingCiphertexts
    <2>2. QED  BY <2>1, QuietGoing DEF CallStates, Trading
  <1>2. CASE LookupAgentsFails(c)
    <2>1. /\ Finish(c) /\ row'.escalation = row.escalation
          /\ UNCHANGED <<memory, standing, enclave, seals, gated, trades,
                         revealed, approvals, lapses>>
      BY <1>2 DEF LookupAgentsFails, TypeOK
    <2>2. QED  BY <2>1, QuietEnd
  <1>3. CASE CallFails(c)
    <2>1. /\ Finish(c)
          /\ UNCHANGED <<row, memory, standing, enclave, seals, gated, trades,
                         revealed, approvals, lapses>>
      BY <1>3 DEF CallFails
    <2>2. QED  BY <2>1, QuietEnd
  <1>4. QED  BY <1>1, <1>2, <1>3 DEF Failure, LoudStep

\* The steps of nobody, which touch a call only to end it.
RestStep ==
  /\ IdleStep
  /\ UNCHANGED standing
  /\ memory' = memory \/ memory' = [s \in Sides |-> None]

LEMMA QuietOrLoud ==
  ASSUME TypeOK, [Next]_vars
  PROVE  RestStep \/ \E c \in Calls : QuietStep(c) \/ LoudStep(c)
  <1> USE DEF sessionVars, enclaveVars, processVars, historyVars, faultVars
  <1>1. CASE UNCHANGED vars \/ DeadlinePasses
    BY <1>1 DEF vars, DeadlinePasses, RestStep, IdleStep
  <1>2. CASE Restart
    BY <1>2 DEF Restart, Fault, RestStep, IdleStep
  <1>3. CASE TimerFires
    <2>1. /\ Begin("timer", "check")
          /\ UNCHANGED <<row, memory, standing, enclave, seals, gated, trades,
                         revealed, approvals, lapses>>
      BY <1>3 DEF TimerFires
    <2>2. QED  BY <2>1, QuietBegin, DistinctCallers
  <1>4. CASE \E c \in Sides : SubmitMove(c) \/ Move(c)
    BY <1>4, QuietMoves, DistinctCallers
  <1>5. CASE \E c \in Operators :
          ApproveEscalation(c) \/ DeclineEscalation(c) \/ Gate(c)
    BY <1>5, QuietGate, DistinctCallers
  <1>6. CASE \E c \in Callers : Settle(c)
    BY <1>6, QuietSettle, DistinctCallers
  <1>7. CASE \E c \in Operators \cup {"timer"} : TimeOut(c)
    BY <1>7, QuietTimeOut, DistinctCallers
  <1>8. CASE \E c \in Calls : Failure(c)
    BY <1>8, QuietFailure
  <1>9. QED
    BY <1>1, <1>2, <1>3, <1>4, <1>5, <1>6, <1>7, <1>8 DEF Next

\* A bid is the buyer's and an ask the seller's, wherever one is kept; and
\* whoever is asked to approve is asked about a cross.
SidedInv ==
  /\ \A s \in Sides :
       /\ memory[s] # None => memory[s].side = s
       /\ standing[s].proposal # None => standing[s].proposal.side = s
  /\ \A c \in Calls :
       /\ call[c].bid # None => call[c].bid.side = "buy"
       /\ call[c].ask # None => call[c].ask.side = "sell"
       /\ Holds(c) => None \notin {call[c].bid, call[c].ask}

AskedInv ==
  gated = {} =>
    /\ row.escalation # "pending"
    /\ \A op \in Operators : call[op].pc # "approve"

PartyInv == SidedInv /\ AskedInv

LEMMA PartyKept ==
  ASSUME TypeOK, PartyInv, NEW c \in Calls,
         \A d \in Calls \ {c} : call'[d] = call[d],
         \A s \in Sides : memory'[s] # None => memory'[s].side = s,
         \A s \in Sides :
           standing'[s].proposal # None => standing'[s].proposal.side = s,
         call'[c].bid # None => call'[c].bid.side = "buy",
         call'[c].ask # None => call'[c].ask.side = "sell",
         Holds(c)' => None \notin {call'[c].bid, call'[c].ask},
         gated \subseteq gated',
         row'.escalation = "pending" => row.escalation = "pending" \/ gated' # {},
         call'[c].pc = "approve" => row.escalation = "pending"
  PROVE  PartyInv'
  <1>1. \A d \in Calls \ {c} : Holds(d)' <=> Holds(d)
    BY DEF Holds
  <1>2. SidedInv'
    BY <1>1 DEF PartyInv, SidedInv
  <1>3. AskedInv'
    BY DistinctCallers DEF PartyInv, AskedInv
  <1>4. QED  BY <1>2, <1>3 DEF PartyInv

LEMMA PartyQuiet ==
  ASSUME TypeOK, PartyInv, NEW c \in Calls, QuietStep(c)
  PROVE  PartyInv'
  <1>1. /\ call'[c].bid # None => call'[c].bid.side = "buy"
        /\ call'[c].ask # None => call'[c].ask.side = "sell"
        /\ Holds(c)' => None \notin {call'[c].bid, call'[c].ask}
    BY DEF QuietStep, PartyInv, SidedInv, Keeps
  <1>2. \A s \in Sides : /\ memory'[s] # None => memory'[s].side = s
                         /\ standing'[s].proposal # None => standing'[s].proposal.side = s
    BY DEF QuietStep, PartyInv, SidedInv
  <1>3. QED  BY <1>1, <1>2, PartyKept DEF QuietStep

LEMMA PartySeal ==
  ASSUME TypeOK, PartyInv, EvaluateInv, NEW c \in Sides, NEW price \in Prices(c),
         SealRound(c, price)
  PROVE  PartyInv'
  <1>p. PICK p : p = [side |-> c, k |-> seals[c] + 1, price |-> price]
    OBVIOUS
  <1>0. c \in Calls /\ call[c].bid = None /\ call[c].ask = None
    BY DistinctCallers DEF SealRound, EvaluateInv
  <1>1. /\ \A d \in Calls \ {c} : call'[d] = call[d]
        /\ call'[c].pc = "evaluate"
        /\ call'[c].bid = IF c = "buy" THEN p ELSE None
        /\ call'[c].ask = IF c = "buy" THEN None ELSE p
    <2>1. call' = [call EXCEPT ![c] =
             IF c = "buy" THEN [call[c] EXCEPT !.pc = "evaluate", !.bid = p]
             ELSE [call[c] EXCEPT !.pc = "evaluate", !.ask = p]]
      BY <1>p DEF SealRound
    <2>2. CASE c = "buy"
      BY <1>0, <2>1, <2>2 DEF TypeOK
    <2>3. CASE c # "buy"
      BY <1>0, <2>1, <2>3 DEF TypeOK
    <2>4. QED  BY <2>2, <2>3
  <1>2. /\ memory' = [memory EXCEPT ![c] = p]
        /\ UNCHANGED <<row, standing, gated>>
    BY <1>p DEF SealRound, sessionVars, historyVars
  <1>3. p.side = c /\ c \in {"buy", "sell"}
    BY <1>p DEF Sides
  <1>4. \A s \in Sides : memory'[s] # None => memory'[s].side = s
    BY <1>2, <1>3 DEF TypeOK, PartyInv, SidedInv
  <1>5. ~(Holds(c)')
    BY <1>1 DEF Holds, Trading
  <1>6. \A s \in Sides : standing'[s].proposal # None => standing'[s].proposal.side = s
    BY <1>2 DEF PartyInv, SidedInv
  <1>7. /\ call'[c].bid # None => call'[c].bid.side = "buy"
        /\ call'[c].ask # None => call'[c].ask.side = "sell"
    BY <1>1, <1>3
  <1>8. QED  BY <1>0, <1>1, <1>2, <1>4, <1>5, <1>6, <1>7, PartyKept

\* The two proposals that the enclave compares are of two sides.
LEMMA PartyRound ==
  ASSUME TypeOK, CallInv, PartyInv, EvaluateInv, NEW c \in Callers,
         NEW bid \in Proposals, NEW ask \in Proposals,
         None \notin {bid, ask}, bid.side = "buy", ask.side = "sell",
         AfterVerdict(c, bid, ask), call[c].pc \in {"evaluate", "handles"},
         UNCHANGED <<row, memory, standing, gated>>
  PROVE  /\ PartyInv'
         /\ \A d \in Calls \ {c} : call'[d] = call[d]
         /\ ~Holds(c)
         /\ Holds(c)' =>
              Crosses(bid, ask) /\ call'[c].bid = bid /\ call'[c].ask = ask
         /\ ~(Holds(c)') => ~Crosses(bid, ask)
  <1>0. c \in Calls
    BY DistinctCallers
  <1>1. \A d \in Calls \ {c} : call'[d] = call[d]
    BY VerdictMoves
  <1>2. ~Holds(c)
    BY DEF Holds, Trading
  <1>3. CASE Crosses(bid, ask)
    <2>1. /\ call'[c].bid = bid /\ call'[c].ask = ask
          /\ call'[c].pc \in {"append", "disclosure"}
      BY <1>3, VerdictMoves
    <2>2. Holds(c)'
      BY <2>1 DEF Holds, Trading
    <2>3. PartyInv'
      BY <1>0, <1>1, <2>1, PartyKept DEF PartyInv, SidedInv
    <2>4. QED  BY <1>1, <1>2, <1>3, <2>1, <2>2, <2>3
  <1>4. CASE ~Crosses(bid, ask) /\ c \in Sides
    <2>1. None \in {call[c].bid, call[c].ask}
      <3>1. c \notin Operators
        BY <1>4, DistinctCallers
      <3>2. call[c].pc = "evaluate"
        BY <1>4 DEF CallInv, AgentStates, Trading
      <3>3. QED  BY <1>0, <3>2 DEF EvaluateInv
    <2>2. /\ call'[c].pc = "append"
          /\ call'[c].bid = call[c].bid /\ call'[c].ask = call[c].ask
      BY <1>4, VerdictMoves
    <2>3. ~(Holds(c)')
      BY <2>1, <2>2 DEF Holds, Trading
    <2>4. PartyInv'
      BY <1>0, <1>1, <2>2, <2>3, PartyKept DEF PartyInv, SidedInv
    <2>5. QED  BY <1>1, <1>2, <1>4, <2>3, <2>4
  <1>5. CASE ~Crosses(bid, ask) /\ c \notin Sides
    <2>1. call'[c].pc = "idle" /\ call'[c].bid = None /\ call'[c].ask = None
      BY <1>5, VerdictMoves DEF IdleCall
    <2>2. ~(Holds(c)')
      BY <2>1 DEF Holds, Trading
    <2>3. PartyInv'
      BY <1>0, <1>1, <2>1, <2>2, PartyKept DEF PartyInv, SidedInv
    <2>4. QED  BY <1>1, <1>2, <1>5, <2>2, <2>3
  <1>6. QED  BY <1>3, <1>4, <1>5

\* What an evaluation compares, if it compares anything.
LEMMA EvaluateCompares ==
  ASSUME TypeOK, CallInv, PartyInv, EvaluateInv, NEW c \in Callers,
         \/ c \in Sides /\ EvaluateMove(c)
         \/ c \in Operators /\ EvaluateStanding(c)
  PROVE  /\ call[c].pc \in {"evaluate", "handles"}
         /\ UNCHANGED <<row, memory, standing, seals, gated, trades, revealed,
                        approvals>>
         /\ \/ /\ QuietStep(c)
            \/ \E bid, ask \in Proposals :
                 /\ None \notin {bid, ask} /\ bid.side = "buy" /\ ask.side = "sell"
                 /\ EvaluateRound(c, bid, ask)
  <1> USE DEF sessionVars, enclaveVars, processVars, historyVars, faultVars
  <1>0. c \in Calls
    BY DistinctCallers
  <1>1. CASE c \in Sides /\ EvaluateMove(c)
    <2> DEFINE bid == IF c = "buy" THEN call[c].bid ELSE memory["buy"]
               ask == IF c = "sell" THEN call[c].ask ELSE memory["sell"]
    <2>1. /\ bid \in Proposals \cup {None} /\ ask \in Proposals \cup {None}
          /\ bid # None => bid.side = "buy"
          /\ ask # None => ask.side = "sell"
          /\ call[c].pc = "evaluate"
          /\ UNCHANGED <<row, memory, standing, seals, gated, trades, revealed,
                         approvals>>
      BY <1>0, <1>1 DEF EvaluateMove, TypeOK, Sides, PartyInv, SidedInv
    <2>2. CASE None \in {bid, ask}
      <3>1. Goto(c, "append") /\ UNCHANGED <<enclave, lapses>>
        BY <1>1, <2>2 DEF EvaluateMove
      <3>2. /\ \A d \in Calls \ {c} : call'[d] = call[d]
            /\ call'[c].pc = "append" /\ Keeps(c)
        BY <1>0, <3>1, CallGoesOn DEF CallStates, Keeps
      <3>3. ~(Holds(c)')
        BY <1>0, <2>1, <3>2 DEF EvaluateInv, Holds, Keeps, Trading
      <3>4. QED  BY <2>1, <3>1, <3>2, <3>3 DEF QuietStep, Keeps
    <2>3. CASE None \notin {bid, ask}
      <3>1. EvaluateRound(c, bid, ask)
        BY <1>1, <2>3 DEF EvaluateMove
      <3> HIDE DEF bid, ask
      <3>2. QED  BY <2>1, <2>3, <3>1
    <2>4. QED  BY <2>2, <2>3
  <1>2. CASE c \in Operators /\ EvaluateStanding(c)
    <2> DEFINE bid == standing["buy"].proposal
               ask == standing["sell"].proposal
    <2>1. /\ bid \in Proposals \cup {None} /\ ask \in Proposals \cup {None}
          /\ bid # None => bid.side = "buy"
          /\ ask # None => ask.side = "sell"
          /\ call[c].pc = "handles"
          /\ UNCHANGED <<row, memory, standing, seals, gated, trades, revealed,
                         approvals>>
      BY <1>2 DEF EvaluateStanding, TypeOK, Sides, PartyInv, SidedInv
    <2>2. CASE None \in {bid, ask}
      <3>1. Finish(c) /\ UNCHANGED <<enclave, lapses>>
        BY <1>2, <2>2 DEF EvaluateStanding
      <3>2. QED  BY <1>0, <2>1, <3>1, QuietEnd
    <2>3. CASE None \notin {bid, ask}
      <3>1. EvaluateRound(c, bid, ask)
        BY <1>2, <2>3 DEF EvaluateStanding
      <3> HIDE DEF bid, ask
      <3>2. QED  BY <2>1, <2>3, <3>1
    <2>4. QED  BY <2>2, <2>3
  <1>3. QED  BY <1>1, <1>2

LEMMA PartyAppend ==
  ASSUME TypeOK, PartyInv, NEW c \in Sides, AppendRound(c)
  PROVE  PartyInv'
  <1>0. c \in Calls /\ c \in {"buy", "sell"} /\ "buy" \in Sides /\ "sell" \in Sides
    BY DistinctCallers DEF Sides
  <1>1. PICK pc \in {"advance", "gate", "disclosure"} :
          /\ Goto(c, pc)
          /\ pc # "advance" => None \notin {call[c].bid, call[c].ask}
    BY DEF AppendRound
  <1>2. /\ \A d \in Calls \ {c} : call'[d] = call[d]
        /\ call'[c].pc = pc /\ Keeps(c)
    BY <1>0, <1>1, CallGoesOn DEF CallStates, Keeps
  <1>3. PICK p, r : /\ p = (IF c = "buy" THEN call[c].bid ELSE call[c].ask)
                    /\ r = call[c].round + 1
    OBVIOUS
  <1>4. /\ standing' = [standing EXCEPT ![c] =
                          IF r >= standing[c].round THEN [proposal |-> p, round |-> r]
                          ELSE standing[c]]
        /\ UNCHANGED <<row, memory, gated>>
    BY <1>3 DEF AppendRound, processVars, historyVars
  <1>5. p # None => p.side = c
    BY <1>0, <1>3 DEF PartyInv, SidedInv
  <1>6. \A s \in Sides : standing'[s].proposal # None => standing'[s].proposal.side = s
    <2>1. standing'[c] \in {standing[c], [proposal |-> p, round |-> r]}
      BY <1>4 DEF TypeOK
    <2>2. standing'[c].proposal \in {standing[c].proposal, p}
      BY <2>1
    <2>3. \A s \in Sides \ {c} : standing'[s] = standing[s]
      BY <1>4 DEF TypeOK
    <2>4. QED  BY <1>5, <2>2, <2>3 DEF PartyInv, SidedInv
  <1>7. /\ call'[c].bid # None => call'[c].bid.side = "buy"
        /\ call'[c].ask # None => call'[c].ask.side = "sell"
        /\ Holds(c)' => None \notin {call'[c].bid, call'[c].ask}
    BY <1>0, <1>1, <1>2 DEF Holds, Keeps, Trading, PartyInv, SidedInv
  <1>8. \A s \in Sides : memory'[s] # None => memory'[s].side = s
    BY <1>4 DEF PartyInv, SidedInv
  <1>9. QED  BY <1>0, <1>1, <1>2, <1>4, <1>6, <1>7, <1>8, PartyKept

\* The other loud steps: the call goes on with what it has.
LEMMA PartyGoing ==
  ASSUME TypeOK, PartyInv, NEW c \in Calls, NEW pc \in CallStates \ {"append", "approve"},
         Goto(c, pc) \/ Finish(c),
         pc \in Trading \cup {"gate"} => Holds(c),
         UNCHANGED <<memory, standing>>,
         gated \subseteq gated',
         row'.escalation = "pending" => row.escalation = "pending" \/ gated' # {}
  PROVE  PartyInv'
  <1>1. /\ \A d \in Calls \ {c} : call'[d] = call[d]
        /\ \/ call'[c].pc = pc /\ Keeps(c)
           \/ call'[c].pc = "idle" /\ call'[c].bid = None /\ call'[c].ask = None
    BY CallGoesOn, CallEnds DEF Keeps, IdleCall
  <1>2. Holds(c)' => Holds(c) /\ Keeps(c)
    BY <1>1 DEF Holds, Trading
  <1>3. /\ call'[c].bid # None => call'[c].bid.side = "buy"
        /\ call'[c].ask # None => call'[c].ask.side = "sell"
        /\ Holds(c)' => None \notin {call'[c].bid, call'[c].ask}
    BY <1>1, <1>2 DEF Keeps, PartyInv, SidedInv
  <1>4. \A s \in Sides : /\ memory'[s] # None => memory'[s].side = s
                         /\ standing'[s].proposal # None => standing'[s].proposal.side = s
    BY DEF PartyInv, SidedInv
  <1>5. call'[c].pc # "approve"
    BY <1>1
  <1>6. QED  BY <1>1, <1>3, <1>4, <1>5, PartyKept

LEMMA PartyLoud ==
  ASSUME TypeOK, CallInv, PartyInv, EvaluateInv, NEW c \in Calls, LoudStep(c)
  PROVE  PartyInv'
  <1> USE DEF sessionVars, enclaveVars, processVars, historyVars, faultVars
  <1>1. CASE c \in Sides /\ HandleDisclosure(c)
    BY <1>1, PartyGoing DEF HandleDisclosure, CallStates, Trading
  <1>2. CASE \/ c \in Sides /\ EvaluateMove(c)
             \/ c \in Operators /\ EvaluateStanding(c)
    <2>1. c \in Callers
      BY <1>2, DistinctCallers
    <2>2. CASE QuietStep(c)
      BY <2>2, PartyQuiet
    <2>3. ASSUME NEW bid \in Proposals, NEW ask \in Proposals,
                 None \notin {bid, ask}, bid.side = "buy", ask.side = "sell",
                 EvaluateRound(c, bid, ask)
          PROVE  PartyInv'
      <3>1. AfterVerdict(c, bid, ask)
        BY <2>3 DEF EvaluateRound
      <3>2. /\ call[c].pc \in {"evaluate", "handles"}
            /\ UNCHANGED <<row, memory, standing, gated>>
        BY <1>2, <2>1, EvaluateCompares
      <3>3. QED  BY <2>1, <2>3, <3>1, <3>2, PartyRound
    <2>4. QED  BY <1>2, <2>1, <2>2, <2>3, EvaluateCompares
  <1>3. CASE c \in Sides /\ AppendRound(c)
    BY <1>3, PartyAppend
  <1>4. CASE c \in Sides /\ OpenEscalationGate(c)
    <2>1. /\ Goto(c, "arm") /\ UNCHANGED <<memory, standing>>
          /\ gated' = gated \cup {<<call[c].bid, call[c].ask>>}
      BY <1>4 DEF OpenEscalationGate
    <2>2. gated' # {} /\ gated \subseteq gated'
      BY <2>1
    <2>3. QED  BY <2>1, <2>2, PartyGoing DEF CallStates, Trading
  <1>5. ASSUME c \in Sides, NEW price \in Prices(c),
               SealRound(c, price) \/ SealLost(c, price)
        PROVE  PartyInv'
    <2>1. CASE SealRound(c, price)
      BY <1>5, <2>1, PartySeal
    <2>2. CASE SealLost(c, price)
      <3>1. Finish(c) /\ UNCHANGED <<row, memory, standing, gated>>
        BY <2>2 DEF SealLost
      <3>2. QED  BY <3>1, PartyGoing DEF CallStates, Trading
    <2>3. QED  BY <1>5, <2>1, <2>2
  <1>6. CASE DisclosureGate(c)
    <2>1. PICK pc \in {"converge", "advance"} :
            /\ Goto(c, pc) \/ Finish(c)
            /\ UNCHANGED <<row, memory, standing, gated>>
      BY <1>6 DEF DisclosureGate
    <2>2. Holds(c)
      BY <1>6 DEF DisclosureGate, Holds, Trading
    <2>3. QED  BY <2>1, <2>2, PartyGoing DEF CallStates
  <1>7. CASE ExecuteSettlement(c) \/ ExecuteSettlementFails(c)
    <2>1. PICK pc \in {"mark", "reset"} :
            /\ Goto(c, pc)
            /\ UNCHANGED <<row, memory, standing, gated>>
      BY <1>7 DEF ExecuteSettlement, ExecuteSettlementFails
    <2>2. QED  BY <2>1, PartyGoing DEF CallStates, Trading
  <1>8. CASE c \in Operators /\ Approve(c)
    <2>1. /\ Goto(c, "handles") /\ row'.escalation = "approved"
          /\ UNCHANGED <<memory, standing, gated>>
      BY <1>8 DEF Approve, TypeOK
    <2>2. QED  BY <2>1, PartyGoing DEF CallStates, Trading
  <1>9. QED
    BY <1>1, <1>2, <1>3, <1>4, <1>5, <1>6, <1>7, <1>8 DEF LoudStep

LEMMA PartyNext ==
  ASSUME TypedInv, EvaluateInv, PartyInv, [Next]_vars
  PROVE  PartyInv'
  <1>1. CASE RestStep
    <2>1. \A c \in Calls : /\ call'[c] = call[c] \/ call'[c] = IdleCall
                           /\ Holds(c)' => Holds(c) /\ call'[c] = call[c]
      BY <1>1 DEF RestStep, IdleStep, IdleCall, Holds, Trading
    <2>2. SidedInv'
      BY <1>1, <2>1 DEF RestStep, IdleStep, IdleCall, PartyInv, SidedInv
    <2>3. AskedInv'
      BY <1>1, <2>1, DistinctCallers DEF RestStep, IdleStep, IdleCall, PartyInv, AskedInv
    <2>4. QED  BY <2>2, <2>3 DEF PartyInv
  <1>2. QED
    BY <1>1, QuietOrLoud, PartyQuiet, PartyLoud DEF TypedInv

-----------------------------------------------------------------------------
(* The refinement: every step is a step of the deal or changes nothing of it. *)

Hands == [c \in Callers |-> Hand(c)]
DealStep == [Promise!Next]_(Promise!dvars)

LEMMA DealLetGo ==
  ASSUME \A c \in Callers : Holds(c)' => Holds(c) /\ Keeps(c),
         UNCHANGED <<enclave, seals, gated, trades, revealed, approvals, lapses>>,
         \A c \in Callers : Holds(c)' \/ Hand(c)' = {} ,
         NEW cs, cs = {c \in Callers : ~(Holds(c)')}
  PROVE  DealStep
  <1>1. \A c \in Callers : Hand(c)' = IF c \in cs THEN {} ELSE Hand(c)
    BY DEF Hand, Keeps
  <1>2. Hands' = [c \in Callers |-> IF c \in cs THEN {} ELSE Hands[c]]
    BY <1>1 DEF Hands
  <1>3. Promise!Brokers = Callers
    BY DEF Promise!Brokers, Promise!Sides, Callers, Sides
  <1>4. Promise!LetGo(cs)
    BY <1>2, <1>3 DEF Promise!LetGo, Hands
  <1>5. cs \in SUBSET Promise!Brokers
    BY <1>3
  <1>6. Promise!Next
    BY <1>4, <1>5, Zenon DEF Promise!Next
  <1>7. QED  BY <1>6 DEF DealStep

LEMMA DealQuiet ==
  ASSUME NEW c \in Calls, QuietStep(c)
  PROVE  DealStep
  <1>1. \A d \in Callers : Holds(d)' => Holds(d) /\ Keeps(d)
    BY DistinctCallers DEF QuietStep, Holds, Keeps
  <1>2. \A d \in Callers : Holds(d)' \/ Hand(d)' = {}
    BY DEF Hand
  <1>3. QED  BY <1>1, <1>2, DealLetGo DEF QuietStep

LEMMA DealRest ==
  ASSUME RestStep
  PROVE  DealStep
  <1>1. \A d \in Callers : Holds(d)' => Holds(d) /\ Keeps(d)
    BY DistinctCallers DEF RestStep, IdleStep, IdleCall, Holds, Keeps, Trading
  <1>2. \A d \in Callers : Holds(d)' \/ Hand(d)' = {}
    BY DEF Hand
  <1>3. QED  BY <1>1, <1>2, DealLetGo DEF RestStep, IdleStep

\* A step of one call changes at most what that call holds.
LEMMA HandsMove ==
  ASSUME NEW c \in Callers, \A d \in Calls \ {c} : call'[d] = call[d]
  PROVE  Hands' = [Hands EXCEPT ![c] = Hand(c)']
  <1>1. \A d \in Callers \ {c} : Hand(d)' = Hand(d)
    BY DistinctCallers DEF Hand, Holds
  <1>2. QED  BY <1>1 DEF Hands

LEMMA HandsStay ==
  ASSUME NEW c \in Callers, \A d \in Calls \ {c} : call'[d] = call[d],
         Hand(c)' = Hand(c)
  PROVE  Hands' = Hands
  BY HandsMove DEF Hands

LEMMA DealReveal ==
  ASSUME TypeOK, NEW c \in Sides, HandleDisclosure(c)
  PROVE  DealStep
  <1> USE DEF sessionVars, enclaveVars, processVars, historyVars, faultVars
  <1>0. c \in Calls /\ c \in Callers
    BY DistinctCallers
  <1>1. /\ \A d \in Calls \ {c} : call'[d] = call[d]
        /\ call[c].pc = "reveal" /\ call'[c].pc = "advance"
    BY <1>0, CallGoesOn DEF HandleDisclosure, CallStates
  <1>2. Hand(c)' = Hand(c)
    BY <1>1 DEF Hand, Holds, Trading
  <1>3. Hands' = Hands
    BY <1>0, <1>1, <1>2, HandsStay
  <1>4. UNCHANGED <<enclave, seals, gated, trades, approvals, lapses>>
    BY DEF HandleDisclosure
  <1>5. CASE revealed' = revealed
    BY <1>3, <1>4, <1>5 DEF DealStep, Promise!dvars, Hands
  <1>6. CASE revealed' = revealed \cup {c}
    <2>1. Promise!Reveal(c)
      BY <1>3, <1>4, <1>6 DEF Promise!Reveal, Hands
    <2>2. c \in Promise!Sides
      BY DEF Promise!Sides, Sides
    <2>3. QED  BY <2>1, <2>2, Zenon DEF DealStep, Promise!Next
  <1>7. QED  BY <1>5, <1>6 DEF HandleDisclosure

LEMMA DealSeal ==
  ASSUME TypeOK, NEW c \in Sides, NEW price \in Prices(c),
         SealRound(c, price) \/ SealLost(c, price)
  PROVE  DealStep
  <1> USE DEF sessionVars, enclaveVars, processVars, historyVars, faultVars
  <1>p. PICK p : p = [side |-> c, k |-> seals[c] + 1, price |-> price]
    OBVIOUS
  <1>0. c \in Calls /\ c \in Callers
    BY DistinctCallers
  <1>1. /\ \A d \in Calls \ {c} : call'[d] = call[d]
        /\ call[c].pc = "seal" /\ call'[c].pc \in {"evaluate", "idle"}
    <2>1. CASE SealRound(c, price)
      BY <1>0, <2>1 DEF SealRound, TypeOK
    <2>2. CASE SealLost(c, price)
      BY <1>0, <2>2, CallEnds DEF SealLost
    <2>3. QED  BY <2>1, <2>2
  <1>2. Hand(c)' = Hand(c)
    BY <1>1 DEF Hand, Holds, Trading
  <1>3. Hands' = Hands
    BY <1>0, <1>1, <1>2, HandsStay
  <1>4. Promise!Seal(c, price)
    <2>1. /\ seals' = [seals EXCEPT ![c] = @ + 1]
          /\ enclave' = enclave \cup {[side |-> c, k |-> seals[c] + 1, price |-> price]}
          /\ UNCHANGED <<gated, trades, revealed, approvals, lapses>>
      BY DEF SealRound, SealLost, Fault
    <2>2. QED  BY <1>3, <2>1 DEF Promise!Seal, Hands
  <1>5. c \in Promise!Sides /\ price \in Promise!Prices(c)
    BY DEF Promise!Sides, Sides, Promise!Prices, Prices
  <1>6. QED  BY <1>4, <1>5, Zenon DEF DealStep, Promise!Next

LEMMA DealEvaluate ==
  ASSUME TypeOK, CallInv, PartyInv, EvaluateInv, NEW c \in Callers,
         \/ c \in Sides /\ EvaluateMove(c)
         \/ c \in Operators /\ EvaluateStanding(c)
  PROVE  DealStep
  <1>0. /\ c \in Calls /\ call[c].pc \in {"evaluate", "handles"}
        /\ UNCHANGED <<row, memory, standing, seals, gated, trades, revealed,
                       approvals>>
    BY EvaluateCompares, DistinctCallers
  <1>1. CASE QuietStep(c)
    BY <1>0, <1>1, DealQuiet
  <1>2. ASSUME NEW bid \in Proposals, NEW ask \in Proposals,
               None \notin {bid, ask}, bid.side = "buy", ask.side = "sell",
               EvaluateRound(c, bid, ask)
        PROVE  DealStep
    <2>1. AfterVerdict(c, bid, ask)
      BY <1>2 DEF EvaluateRound
    <2>2. /\ \A d \in Calls \ {c} : call'[d] = call[d]
          /\ ~Holds(c)
          /\ Holds(c)' =>
               Crosses(bid, ask) /\ call'[c].bid = bid /\ call'[c].ask = ask
          /\ ~(Holds(c)') => ~Crosses(bid, ask)
      BY <1>0, <1>2, <2>1, PartyRound
    <2>3. Hands' = [Hands EXCEPT ![c] = Hand(c)'] /\ Hands[c] = {}
      BY <2>2, HandsMove DEF Hand, Hands
    <2>4. CASE Holds(c)'
      <3>1. /\ {bid, ask} \subseteq enclave
            /\ bid.price >= ask.price
            /\ Hand(c)' = {<<bid, ask>>}
        BY <2>2, <2>4 DEF Crosses, Hand
      <3>2. \/ enclave' = enclave \ {bid, ask} /\ UNCHANGED lapses
            \/ /\ enclave' \in {enclave, enclave \ {bid}, enclave \ {ask}}
               /\ lapses' = lapses \cup {"undeleted"}
        BY <1>2, <2>2, <2>4 DEF EvaluateRound, FaultThat, faultVars
      <3>3. Promise!Cross(c, bid, ask)
        BY <1>0, <1>2, <2>3, <3>1, <3>2 DEF Promise!Cross, Hands
      <3>4. c \in Promise!Brokers /\ bid \in enclave /\ ask \in enclave
        BY <3>1 DEF Promise!Brokers, Promise!Sides, Callers, Sides
      <3>5. Promise!Next
        BY <3>3, <3>4, Zenon DEF Promise!Next
      <3>6. QED  BY <3>5 DEF DealStep
    <2>5. CASE ~(Holds(c)')
      <3>1. Hand(c)' = Hand(c) /\ Hands' = Hands
        BY <2>2, <2>5, HandsStay DEF Hand
      <3>2. UNCHANGED <<enclave, lapses>>
        BY <1>2, <2>2, <2>5 DEF EvaluateRound, faultVars
      <3>3. QED  BY <1>0, <3>1, <3>2 DEF DealStep, Promise!dvars, Hands
    <2>6. QED  BY <2>4, <2>5
  <1>3. QED  BY <1>1, <1>2, EvaluateCompares

LEMMA DealAppend ==
  ASSUME TypeOK, NEW c \in Sides, AppendRound(c)
  PROVE  DealStep
  <1>0. c \in Calls /\ c \in Callers
    BY DistinctCallers
  <1>1. PICK pc \in {"advance", "gate", "disclosure"} :
          /\ Goto(c, pc) /\ call[c].pc = "append"
          /\ pc # "advance" => None \notin {call[c].bid, call[c].ask}
    BY DEF AppendRound
  <1>2. UNCHANGED <<enclave, seals, gated, trades, revealed, approvals, lapses>>
    BY DEF AppendRound, enclaveVars, historyVars, faultVars
  <1>3. /\ \A d \in Calls \ {c} : call'[d] = call[d]
        /\ call'[c].pc = pc /\ Keeps(c)
    BY <1>0, <1>1, CallGoesOn DEF CallStates, Keeps
  <1>4. Holds(c)' => Holds(c)
    BY <1>1, <1>3 DEF Holds, Trading
  <1>5. \A d \in Callers : Holds(d)' => Holds(d) /\ Keeps(d)
    BY <1>3, <1>4, DistinctCallers DEF Holds, Keeps
  <1>6. \A d \in Callers : Holds(d)' \/ Hand(d)' = {}
    BY DEF Hand
  <1>7. QED  BY <1>2, <1>5, <1>6, DealLetGo

LEMMA DealEscalate ==
  ASSUME TypeOK, NEW c \in Sides, OpenEscalationGate(c)
  PROVE  DealStep
  <1>0. c \in Calls /\ c \in Callers
    BY DistinctCallers
  <1>1. /\ call[c].pc = "gate" /\ Goto(c, "arm")
        /\ gated' = gated \cup {<<call[c].bid, call[c].ask>>}
        /\ UNCHANGED <<enclave, seals, trades, revealed, approvals, lapses>>
    BY DEF OpenEscalationGate, enclaveVars, faultVars
  <1>2. /\ \A d \in Calls \ {c} : call'[d] = call[d]
        /\ call'[c].pc = "arm"
    BY <1>0, <1>1, CallGoesOn DEF CallStates
  <1>3. /\ Hand(c) = {<<call[c].bid, call[c].ask>>} /\ Hand(c)' = {}
    BY <1>1, <1>2 DEF Hand, Holds, Trading
  <1>4. Hands' = [Hands EXCEPT ![c] = {}] /\ Hands[c] = Hand(c)
    BY <1>0, <1>2, <1>3, HandsMove DEF Hands
  <1>5. Promise!Escalate(c)
    BY <1>1, <1>3, <1>4 DEF Promise!Escalate, Hands
  <1>6. c \in Promise!Brokers
    BY DEF Promise!Brokers, Promise!Sides, Sides
  <1>7. Promise!Next
    BY <1>5, <1>6, Zenon DEF Promise!Next
  <1>8. QED  BY <1>7 DEF DealStep

LEMMA DealApprove ==
  ASSUME TypeOK, PartyInv, NEW c \in Operators, Approve(c)
  PROVE  DealStep
  <1>0. c \in Calls /\ c \in Callers
    BY DistinctCallers
  <1>1. /\ call[c].pc = "approve" /\ Goto(c, "handles") /\ approvals' = TRUE
        /\ UNCHANGED <<enclave, seals, trades, gated, revealed, lapses>>
    BY DEF Approve, enclaveVars, faultVars
  <1>2. /\ \A d \in Calls \ {c} : call'[d] = call[d]
        /\ call'[c].pc = "handles"
    BY <1>0, <1>1, CallGoesOn DEF CallStates
  <1>3. Hand(c)' = Hand(c)
    BY <1>1, <1>2 DEF Hand, Holds, Trading
  <1>4. Hands' = Hands
    BY <1>0, <1>2, <1>3, HandsStay
  <1>5. gated # {}
    BY <1>1 DEF PartyInv, AskedInv
  <1>6. Promise!Approve
    BY <1>1, <1>4, <1>5 DEF Promise!Approve, Hands
  <1>7. QED  BY <1>6, Zenon DEF DealStep, Promise!Next

LEMMA DealDisclosures ==
  ASSUME TypeOK, NEW c \in Callers, DisclosureGate(c)
  PROVE  DealStep
  <1>0. c \in Calls
    BY DistinctCallers
  <1>1. /\ call[c].pc = "disclosure"
        /\ UNCHANGED <<enclave, seals, gated, trades, revealed, approvals>>
    BY DEF DisclosureGate, enclaveVars, historyVars
  <1>2. CASE UNCHANGED lapses
    <2>1. Goto(c, "converge") \/ Goto(c, "advance") \/ Finish(c)
      BY DEF DisclosureGate
    <2>2. /\ \A d \in Calls \ {c} : call'[d] = call[d]
          /\ \/ call'[c].pc = "converge" /\ Keeps(c)
             \/ call'[c].pc \in {"advance", "idle"}
      BY <1>0, <2>1, CallGoesOn, CallEnds DEF CallStates, Keeps
    <2>3. Holds(c)' => Holds(c) /\ Keeps(c)
      BY <1>1, <2>2 DEF Holds, Trading
    <2>4. \A d \in Callers : Holds(d)' => Holds(d) /\ Keeps(d)
      BY <2>2, <2>3, DistinctCallers DEF Holds, Keeps
    <2>5. \A d \in Callers : Holds(d)' \/ Hand(d)' = {}
      BY DEF Hand
    <2>6. QED  BY <1>1, <1>2, <2>4, <2>5, DealLetGo
  <1>3. CASE FaultThat("unread") /\ Goto(c, "converge")
    <2>1. /\ \A d \in Calls \ {c} : call'[d] = call[d]
          /\ call'[c].pc = "converge" /\ Keeps(c)
      BY <1>0, <1>3, CallGoesOn DEF CallStates, Keeps
    <2>2. Hand(c)' = Hand(c)
      BY <1>1, <2>1 DEF Hand, Holds, Keeps, Trading
    <2>3. Hands' = Hands
      BY <2>1, <2>2, HandsStay
    <2>4. lapses' = lapses \cup {"unread"}
      BY <1>3 DEF FaultThat
    <2>5. Promise!Misread
      BY <1>1, <2>3, <2>4 DEF Promise!Misread, Hands
    <2>6. QED  BY <2>5, Zenon DEF DealStep, Promise!Next
  <1>4. QED  BY <1>2, <1>3 DEF DisclosureGate, faultVars

\* Who settles has seen the disclosures, and is inside both envelopes or acts
\* on an approval.
LEMMA DealTrade ==
  ASSUME TypedInv, OnceInv, DisclosedInv, EnvelopeInv, NEW c \in Callers,
         call[c].pc = "settle", Traded(c), call'[c].pc \in {"mark", "reset"},
         \A d \in Calls \ {c} : call'[d] = call[d],
         UNCHANGED <<enclave, seals, gated, revealed, approvals, lapses>>
  PROVE  DealStep
  <1> DEFINE p == <<call[c].bid, call[c].ask>>
  <1>0. c \in Calls /\ p[1] = call[c].bid /\ p[2] = call[c].ask
    BY DistinctCallers
  <1>1. Hand(c) = {p} /\ Hand(c)' = {}
    BY DEF Hand, Holds, Trading
  <1>2. Hands' = [Hands EXCEPT ![c] = {}] /\ Hands[c] = {p}
    BY <1>1, HandsMove DEF Hands
  <1>3. Promise!Disclosed \/ "unread" \in lapses
    <2>1. GateSatisfied \/ "unread" \in lapses
      BY <1>0 DEF DisclosedInv, Committed, Trading
    <2>2. GateSatisfied => Promise!Disclosed
      BY SessionAssumption DEF GateSatisfied, Promise!Disclosed, Promise!Sides, Other, Sides
    <2>3. QED  BY <2>1, <2>2
  <1>4. c \in Operators => approvals
    BY DEF EnvelopeInv, Trading
  <1>5. c \notin Operators =>
          \A side \in Escalates : Promise!Inside(side, call[c].bid, call[c].ask)
    <2>1. ASSUME c \notin Operators, NEW side \in Escalates
          PROVE  Promise!Inside(side, call[c].bid, call[c].ask)
      <3>1. c \in Sides /\ call[c].pc \in Trading
        BY <2>1, DistinctCallers DEF Trading
      <3>2. ~MustEscalate(c, call[c].bid, call[c].ask)
        BY <3>1 DEF EnvelopeInv
      <3>3. WithinEnvelope(side, call[c].bid, call[c].ask)
        BY <3>1, <3>2, TradingWithinEnvelopes
      <3>4. QED  BY <3>3 DEF WithinEnvelope, ExecutionPrice, Promise!Inside
    <2>2. QED  BY <2>1
  <1>6. Promise!Settle(c, call[c].bid, call[c].ask)
    BY <1>2, <1>3, <1>4, <1>5 DEF Promise!Settle, Traded, Hands
  <1>7. c \in Promise!Brokers /\ p \in Hands[c]
    BY <1>2 DEF Promise!Brokers, Promise!Sides, Callers, Sides
  <1> HIDE DEF p
  <1>8. Promise!Settle(c, p[1], p[2])
    BY <1>0, <1>6
  <1>9. Promise!Next
    BY <1>7, <1>8, Zenon DEF Promise!Next, Hands
  <1>10. QED  BY <1>9 DEF DealStep

LEMMA DealSettlement ==
  ASSUME TypedInv, OnceInv, DisclosedInv, EnvelopeInv, NEW c \in Calls,
         ExecuteSettlement(c) \/ ExecuteSettlementFails(c)
  PROVE  DealStep
  <1> USE DEF sessionVars, enclaveVars, processVars, historyVars, faultVars, Fault
  <1>1. /\ call[c].pc = "settle"
        /\ Traded(c) \/ UNCHANGED trades
        /\ \E pc \in {"mark", "reset"} : Goto(c, pc)
        /\ UNCHANGED <<enclave, seals, gated, revealed, approvals, lapses>>
    BY DEF ExecuteSettlement, ExecuteSettlementFails
  <1>2. /\ \A d \in Calls \ {c} : call'[d] = call[d]
        /\ call'[c].pc \in {"mark", "reset"}
    BY <1>1, CallGoesOn DEF TypedInv, CallStates
  <1>3. c \in Callers
    BY <1>1 DEF TypedInv, CallInv, TimerStates, Trading, Calls
  <1>4. CASE Traded(c)
    BY <1>1, <1>2, <1>3, <1>4, DealTrade
  <1>5. CASE UNCHANGED trades
    <2>1. \A d \in Callers : Holds(d)' => Holds(d) /\ Keeps(d)
      BY <1>2, DistinctCallers DEF Holds, Keeps, Trading
    <2>2. \A d \in Callers : Holds(d)' \/ Hand(d)' = {}
      BY DEF Hand
    <2>3. QED  BY <1>1, <1>5, <2>1, <2>2, DealLetGo
  <1>6. QED  BY <1>1, <1>4, <1>5

LEMMA DealNext ==
  ASSUME TypedInv, OnceInv, DisclosedInv, EnvelopeInv, PartyInv, [Next]_vars
  PROVE  DealStep
  <1>0. TypeOK /\ CallInv /\ EvaluateInv
    BY DEF TypedInv, OnceInv
  <1>1. ASSUME NEW c \in Calls, LoudStep(c)
        PROVE  DealStep
    <2>1. CASE \/ c \in Sides /\ EvaluateMove(c)
               \/ c \in Operators /\ EvaluateStanding(c)
      BY <1>0, <2>1, DealEvaluate, DistinctCallers
    <2>2. CASE c \in Callers /\ DisclosureGate(c)
      BY <1>0, <2>2, DealDisclosures
    <2>3. CASE ExecuteSettlement(c) \/ ExecuteSettlementFails(c)
      BY <2>3, DealSettlement
    <2>4. CASE /\ c \in Sides
               /\ \/ HandleDisclosure(c) \/ AppendRound(c) \/ OpenEscalationGate(c)
                  \/ \E price \in Prices(c) : SealRound(c, price) \/ SealLost(c, price)
      BY <1>0, <2>4, DealReveal, DealAppend, DealEscalate, DealSeal
    <2>5. CASE c \in Operators /\ Approve(c)
      BY <1>0, <2>5, DealApprove
    <2>6. QED  BY <1>1, <2>1, <2>2, <2>3, <2>4, <2>5 DEF LoudStep
  <1>2. QED  BY <1>0, <1>1, QuietOrLoud, DealQuiet, DealRest

LEMMA DealInit == Init => Promise!Init
  <1> SUFFICES ASSUME Init PROVE Promise!Init
    OBVIOUS
  <1>1. \A c \in Callers : Hand(c) = {}
    BY DistinctCallers DEF Init, IdleCall, Hand, Holds, Trading
  <1>2. Promise!Brokers = Callers /\ Promise!Sides = Sides
    BY DEF Promise!Brokers, Promise!Sides, Callers, Sides
  <1>3. [c \in Callers |-> Hand(c)] = [c \in Promise!Brokers |-> {}]
    BY <1>1, <1>2
  <1>4. QED  BY <1>2, <1>3 DEF Init, Promise!Init

-----------------------------------------------------------------------------
(* The theorems.                                                           *)

SessionInv ==
  TypedInv /\ OnceInv /\ MarkInv /\ DisclosedInv /\ EnvelopeInv /\ PartyInv

LEMMA SessionInit == Init => SessionInv
  <1> SUFFICES ASSUME Init PROVE SessionInv
    OBVIOUS
  <1>1. \A c \in Calls : call[c].pc = "idle"
    BY DEF Init, IdleCall
  <1>2. DOMAIN trades = {} /\ trades = <<>>
    BY EmptySeq, LenProperties DEF Init
  <1>3. OnceInv
    <2>1. /\ \A c \in Calls : ~Holds(c) /\ Held(c) = {}
          /\ \A p : ~Sold(p) /\ ~Gated(p)
      BY <1>1, <1>2 DEF Init, Holds, Held, Sold, Gated, Trading
    <2>2. EvaluateInv /\ CrossedInv
      BY <1>1, <1>2, <2>1 DEF EvaluateInv, CrossedInv
    <2>3. ConsumedInv
      BY <1>2, <2>1 DEF Init, ConsumedInv
    <2>4. QED  BY <2>2, <2>3 DEF OnceInv
  <1>4. MarkInv /\ DisclosedInv /\ EnvelopeInv
    BY <1>1, <1>2, DistinctCallers
       DEF Init, MarkInv, SettledHasTrade, DisclosedInv, EnvelopeInv, Committed, Trading
  <1>5. PartyInv
    BY <1>1, DistinctCallers
       DEF Init, IdleCall, PartyInv, SidedInv, AskedInv, Holds, Trading
  <1>6. QED  BY <1>3, <1>4, <1>5, TypedInit DEF SessionInv

LEMMA SessionInductive == Spec => []SessionInv
  <1>1. SessionInv /\ [Next]_vars => SessionInv'
    BY TypedNext, OnceNext, MarkNext, DisclosedNext, EnvelopeNext,
       PartyNext DEF SessionInv, OnceInv
  <1>2. QED  BY SessionInit, <1>1, PTL DEF Spec

\* Trades are between bids and asks that cross, and no proposal is in two.
THEOREM TradesAreUnique == Spec => []ProposalsTradeOnce
  <1>1. SessionInv => ProposalsTradeOnce
    BY DEF SessionInv, OnceInv, CrossedInv, ConsumedInv, ProposalsTradeOnce
  <1>2. QED  BY SessionInductive, <1>1, PTL

\* What opened the gate and was refused is never settled.
THEOREM RefusedStaysRefused == Spec => []DeclinedNeverTrades
  <1>1. ASSUME SessionInv, row.escalation = "declined", "undeleted" \notin lapses,
               NEW i \in DOMAIN trades
        PROVE  <<trades[i].bid, trades[i].ask>> \notin gated
    <2> DEFINE g == <<trades[i].bid, trades[i].ask>>
    <2>1. g[1] = trades[i].bid /\ Sold(trades[i].bid)
      BY DEF Sold, SidesOf
    <2>2. trades[i].bid \in Proposals
      <3>1. trades[i] \in [bid : Proposals, ask : Proposals, by : Callers]
        <4>1. /\ trades \in Seq([bid : Proposals, ask : Proposals, by : Callers])
              /\ DOMAIN trades = 1 .. Len(trades)
          BY <1>1, LenProperties DEF SessionInv, TypedInv, TypeOK
        <4>2. QED  BY <4>1, ElementOfSeq
      <3>2. QED  BY <3>1
    <2>3. ~Gated(trades[i].bid)
      BY <1>1, <2>1, <2>2 DEF SessionInv, OnceInv, ConsumedInv
    <2> HIDE DEF g
    <2>4. g \notin gated
      BY <2>1, <2>3 DEF Gated
    <2>5. QED  BY <2>4 DEF g
  <1>2. SessionInv => DeclinedNeverTrades
    BY <1>1 DEF DeclinedNeverTrades
  <1>3. QED  BY SessionInductive, <1>2, PTL

\* A settled session has a trade, whatever failed.
THEOREM SettledAfterTrade == Spec => []SettledHasTrade
  <1>1. SessionInv => SettledHasTrade
    BY DEF SessionInv, MarkInv
  <1>2. QED  BY SessionInductive, <1>1, PTL

\* Every required claim is disclosed before assets move.
THEOREM DisclosuresComeFirst == Spec => []DisclosedBeforeTrade
  <1>1. SessionInv => DisclosedBeforeTrade
    BY DEF SessionInv, DisclosedInv, DisclosedBeforeTrade
  <1>2. QED  BY SessionInductive, <1>1, PTL

\* Without an approval every trade is inside both envelopes.
THEOREM EnvelopesHold == Spec => []UnapprovedWithinEnvelope
  <1>1. SessionInv => UnapprovedWithinEnvelope
    BY DEF SessionInv, EnvelopeInv, WithinEnvelope, UnapprovedWithinEnvelope
  <1>2. QED  BY SessionInductive, <1>1, PTL

\* The session implements the deal, whatever fails or is forgotten: every step
\* is a step of Deal or leaves its state alone.
THEOREM DealKept == Spec => ImplementsDeal
  <1>1. SessionInv /\ [Next]_vars => DealStep
    BY DealNext DEF SessionInv
  <1>2. SessionInv /\ [Next]_vars => [Promise!Next]_(Promise!dvars)
    BY <1>1 DEF DealStep
  <1>3. QED
    BY SessionInductive, DealInit, <1>2, PTL DEF Spec, ImplementsDeal, Promise!Spec
=============================================================================
