----------------------------- MODULE TicketPairing -----------------------------
(***************************************************************************)
(* NegotiationOrchestrator.submitTicket and tryPair.  A ticket sealed by   *)
(* the enclave looks for a counterpart in the array of waiting tickets,    *)
(* the enclave gives its verdict on the first one that fits, and a session *)
(* is opened for the two; without a counterpart, or after a negative       *)
(* verdict, the ticket waits itself.                                       *)
(*                                                                         *)
(* Requests are in progress at once, and the array may change during every *)
(* await: the index of the counterpart is taken before the verdict and     *)
(* used after it, nothing marks a counterpart as taken, and a ticket       *)
(* enters the array one await after it found nobody.  The array is lost    *)
(* in a restart.                                                           *)
(***************************************************************************)
EXTENDS Integers, FiniteSets, SequencesExt

CONSTANTS
  Tickets,
  Institutions,
  Assets,
  Claims,         \* claim types
  InstitutionOf,
  SideOf,
  AssetOf,
  TokenOf,        \* compatibilityToken: [asset, side, institution], or Malformed
  Malformed,
  Profiled,       \* tickets whose mandate has authored columns
  Target,         \* rails.targetQuantity
  Minimum,        \* rails.minimumQuantity
  Partial,        \* tickets with partialExecutionAllowed
  Ladder,         \* disclosurePolicy.allowLadder
  Disallowed,     \* counterpartyRequirements.disallowedTraits
  MaxFaults       \* bound on failed calls and restarts

ASSUME PairingAssumption ==
  /\ InstitutionOf \in [Tickets -> Institutions]
  /\ SideOf \in [Tickets -> {"buy", "sell"}]
  /\ AssetOf \in [Tickets -> Assets]
  /\ Profiled \subseteq Tickets
  /\ Target \in [Tickets -> Nat]
  /\ Minimum \in [Tickets -> Nat]
  /\ Partial \subseteq Tickets
  /\ Ladder \in [Tickets -> SUBSET Claims]
  /\ Disallowed \in [Tickets -> SUBSET Claims]
  /\ MaxFaults \in Nat

VARIABLES
  queue,     \* pendingTickets
  call,      \* the submitTicket call of each ticket
  sessions,  \* negotiation_sessions: <<buy ticket, sell ticket>>
  pinned,    \* sides whose delegation is pinned on a session: <<pair, side>>
  rejected,  \* history: tickets whose call ended with a negative verdict
  overlap,   \* history: two calls were past their scan at once
  faults

vars == <<queue, call, sessions, pinned, rejected, overlap, faults>>

\* The next await of the call, or how it ended.
CallStates == {"idle", "verify", "create", "pinBuy", "pinSell", "push",
               "done", "refused", "failed"}
Ended == {"done", "refused", "failed"}

\* at: bestIndex; other: the candidate read at it (the ticket itself while
\* there is none).
NewCall(t, pc) == [pc |-> pc, at |-> 0, other |-> t]

Buy(t)  == IF SideOf[t] = "buy" THEN t ELSE call[t].other
Sell(t) == IF SideOf[t] = "sell" THEN t ELSE call[t].other

-----------------------------------------------------------------------------
(* Who fits whom.                                                          *)

SizeFits(x, tradeable) == tradeable >= Minimum[x] \/ x \in Partial

\* pairingCompatibility
ProfilesFit(b, s) ==
  LET tradeable == IF Target[b] <= Target[s] THEN Target[b] ELSE Target[s] IN
  /\ SizeFits(b, tradeable)
  /\ SizeFits(s, tradeable)
  /\ Ladder[s] \cap Disallowed[b] = {}
  /\ Ladder[b] \cap Disallowed[s] = {}

\* The local screen of tryPair.
Candidate(t, other) ==
  /\ AssetOf[other] = AssetOf[t]
  /\ SideOf[other] # SideOf[t]
  /\ InstitutionOf[other] # InstitutionOf[t]
  /\ {t, other} \subseteq Profiled =>
       IF SideOf[t] = "buy" THEN ProfilesFit(t, other) ELSE ProfilesFit(other, t)

\* The enclave's verdict.
CompatiblePair(b, s, asset) ==
  /\ b # s
  /\ TokenOf[b] # Malformed /\ TokenOf[s] # Malformed
  /\ TokenOf[b].side = "buy" /\ TokenOf[s].side = "sell"
  /\ TokenOf[b].asset = asset /\ TokenOf[s].asset = asset
  /\ TokenOf[b].institution # TokenOf[s].institution

-----------------------------------------------------------------------------
Init ==
  /\ queue = <<>>
  /\ call = [t \in Tickets |-> NewCall(t, "idle")]
  /\ sessions = {}
  /\ pinned = {}
  /\ rejected = {}
  /\ overlap = FALSE
  /\ faults = 0

Fault == faults < MaxFaults /\ faults' = faults + 1
Goto(t, pc) == call' = [call EXCEPT ![t].pc = pc]
Finish(t, how) == call' = [call EXCEPT ![t] = NewCall(t, how)]

InProgress == {t \in Tickets : call[t].pc \notin Ended \cup {"idle"}}
Waiting == {queue[k] : k \in DOMAIN queue}

\* array.splice(k, 1): nothing happens beyond the end.
Splice(q, k) == IF k \in DOMAIN q THEN RemoveAt(q, k) ELSE q

\* (Variant: only the head of the array is looked at.)
FirstCandidateAtHead(t) ==
  IF queue # <<>> /\ Candidate(t, queue[1])
  THEN [pc |-> "verify", at |-> 1, other |-> queue[1]]
  ELSE NewCall(t, "push")

\* The scan of tryPair up to its first await.
FirstCandidate(t) ==
  LET hits == {k \in DOMAIN queue : Candidate(t, queue[k])} IN
  IF hits = {} THEN NewCall(t, "push")
  ELSE LET k == CHOOSE k \in hits : \A j \in hits : k <= j IN
       [pc |-> "verify", at |-> k, other |-> queue[k]]

-----------------------------------------------------------------------------
(* submitTicket, one action per await after the seal.                      *)

\* Authorization, mandate, seal, and the scan.
SubmitTicket(t) ==
  /\ call[t].pc = "idle"
  /\ \/ /\ call' = [call EXCEPT ![t] = FirstCandidate(t)]
        /\ overlap' = (overlap \/ InProgress # {})
     \/ /\ Finish(t, "refused")
        /\ UNCHANGED overlap
  /\ UNCHANGED <<queue, sessions, pinned, rejected, faults>>

\* tryPair found nobody or was refused; its answer is awaited before the push.
PushTicket(t) ==
  /\ call[t].pc = "push"
  /\ queue' = Append(queue, t)
  /\ Finish(t, "done")
  /\ UNCHANGED <<sessions, pinned, rejected, overlap, faults>>

\* (Variant: the candidate is taken from the array after the verdict.)
PairVerifiedAtIndex(t) ==
  /\ call[t].pc = "verify"
  /\ CompatiblePair(Buy(t), Sell(t), AssetOf[t])
  /\ queue' = Splice(queue, call[t].at)
  /\ call' = [call EXCEPT
       ![t].pc = "create",
       ![t].other = IF call[t].at \in DOMAIN queue
                    THEN queue[call[t].at] ELSE @]
  /\ UNCHANGED <<sessions, pinned, rejected, overlap, faults>>

\* (Variant: the candidate stays in the array.)
PairVerifiedKeeping(t) ==
  /\ call[t].pc = "verify"
  /\ CompatiblePair(Buy(t), Sell(t), AssetOf[t])
  /\ Goto(t, "create")
  /\ UNCHANGED <<queue, sessions, pinned, rejected, overlap, faults>>

\* A positive verdict: the index of before the await is spliced.
PairVerified(t) ==
  /\ call[t].pc = "verify"
  /\ CompatiblePair(Buy(t), Sell(t), AssetOf[t])
  /\ queue' = Splice(queue, call[t].at)
  /\ Goto(t, "create")
  /\ UNCHANGED <<sessions, pinned, rejected, overlap, faults>>

\* (Variant: the rejected candidate leaves the array.)
PairRejectedEvicting(t) ==
  /\ call[t].pc = "verify"
  /\ ~CompatiblePair(Buy(t), Sell(t), AssetOf[t])
  /\ queue' = Splice(queue, call[t].at)
  /\ Goto(t, "push")
  /\ rejected' = rejected \cup {t}
  /\ UNCHANGED <<sessions, pinned, overlap, faults>>

\* A negative verdict: no other candidate is tried.
PairRejected(t) ==
  /\ call[t].pc = "verify"
  /\ ~CompatiblePair(Buy(t), Sell(t), AssetOf[t])
  /\ Goto(t, "push")
  /\ rejected' = rejected \cup {t}
  /\ UNCHANGED <<queue, sessions, pinned, overlap, faults>>

\* An error of the verdict ends the request before the push.
VerifyPairFails(t) ==
  /\ call[t].pc = "verify"
  /\ Fault
  /\ Finish(t, "failed")
  /\ UNCHANGED <<queue, sessions, pinned, rejected, overlap>>

CreateSession(t) ==
  /\ call[t].pc = "create"
  /\ sessions' = sessions \cup {<<Buy(t), Sell(t)>>}
  /\ Goto(t, "pinBuy")
  /\ UNCHANGED <<queue, pinned, rejected, overlap, faults>>

\* The insert fails, or its answer is lost: both tickets have left the array.
CreateSessionFails(t) ==
  /\ call[t].pc = "create"
  /\ Fault
  /\ sessions' \in {sessions, sessions \cup {<<Buy(t), Sell(t)>>}}
  /\ Finish(t, "failed")
  /\ UNCHANGED <<queue, pinned, rejected, overlap>>

\* A failed snapshot is logged and the session stays open.
SetSessionDelegation(t, side) ==
  /\ call[t].pc = IF side = "buy" THEN "pinBuy" ELSE "pinSell"
  /\ \/ /\ pinned' = pinned \cup {<<<<Buy(t), Sell(t)>>, side>>}
        /\ UNCHANGED faults
     \/ Fault /\ UNCHANGED pinned
  /\ IF side = "buy" THEN Goto(t, "pinSell") ELSE Finish(t, "done")
  /\ UNCHANGED <<queue, sessions, rejected, overlap>>

\* The process restarts: the array and every call in progress are gone.
Restart ==
  /\ Fault
  /\ queue' = <<>>
  /\ call' = [t \in Tickets |->
                IF t \in InProgress THEN NewCall(t, "failed") ELSE call[t]]
  /\ UNCHANGED <<sessions, pinned, rejected, overlap>>

Step(t) ==
  \/ PushTicket(t)
  \/ PairVerified(t)
  \/ PairRejected(t)
  \/ VerifyPairFails(t)
  \/ CreateSession(t)
  \/ CreateSessionFails(t)
  \/ \E side \in {"buy", "sell"} : SetSessionDelegation(t, side)

Next ==
  \/ Restart
  \/ \E t \in Tickets : SubmitTicket(t) \/ Step(t)

Spec == Init /\ [][Next]_vars

-----------------------------------------------------------------------------
\* The shape of the state, and that a call holds a candidate exactly while it
\* is between the scan and the session.
TypeOK ==
  /\ queue \in Seq(Tickets)
  /\ call \in [Tickets -> [pc : CallStates, at : Nat, other : Tickets]]
  /\ \A t \in Tickets :
       call[t].pc \in {"verify", "create", "pinBuy", "pinSell"} =>
         Candidate(t, call[t].other)
  /\ sessions \subseteq Tickets \X Tickets
  /\ pinned \subseteq sessions \X {"buy", "sell"}
  /\ rejected \subseteq Tickets
  /\ overlap \in BOOLEAN
  /\ faults \in 0 .. MaxFaults

\* A session joins a bid and an ask that passed both the local screen and the
\* enclave's verdict, whatever happened to the array during that verdict
\* (tryPair: buyTicket and sellTicket are held across the await).
SessionsAreVerified ==
  \A p \in sessions :
    /\ SideOf[p[1]] = "buy" /\ SideOf[p[2]] = "sell"
    /\ Candidate(p[1], p[2])
    /\ CompatiblePair(p[1], p[2], AssetOf[p[1]])

Paired(t) == \E p \in sessions : t \in {p[1], p[2]}

\* The call that took t off the array and has not created the session yet.
BeingPaired(t) == \E u \in Tickets : call[u].pc = "create" /\ call[u].other = t

\* As long as no two requests overlap, a ticket is used once: it is in one
\* session at most, and in none while it waits (splice, createSession).
UsedOnce ==
  ~overlap =>
    /\ \A t \in Waiting : ~Paired(t) /\ ~BeingPaired(t)
    /\ \A i, j \in DOMAIN queue : queue[i] = queue[j] => i = j
    /\ \A p, q \in sessions :
         {p[1], p[2]} \cap {q[1], q[2]} # {} => p = q

\* As long as no two requests overlap and no call fails, a ticket whose request
\* has ended is waiting or in a session: none disappears (submitTicket's push,
\* the rejection that leaves both tickets in the array).
NoneForgotten ==
  ~overlap /\ faults = 0 =>
    \A t \in Tickets :
      call[t].pc = "done" => t \in Waiting \/ Paired(t) \/ BeingPaired(t)

\* As long as no two requests overlap, two tickets that fit each other wait side
\* by side only if the later one was sent back by the enclave with a candidate
\* before it: tryPair asks about one candidate and gives up.
NoMissedPair ==
  ~overlap =>
    \A i, j \in DOMAIN queue :
      i < j /\ Candidate(queue[j], queue[i]) => queue[j] \in rejected

\* A session whose request ended without a failure carries the delegations of
\* both sides (setSessionDelegation reads the row and writes it back).
BothSidesPinned ==
  faults = 0 =>
    \A p \in sessions :
      (\A u \in InProgress : p # <<Buy(u), Sell(u)>>) =>
        {<<p, "buy">>, <<p, "sell">>} \subseteq pinned
=============================================================================
