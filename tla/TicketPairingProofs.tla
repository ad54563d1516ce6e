------------------------- MODULE TicketPairingProofs -------------------------
(* What TicketPairing's run checks, for any tickets, tokens and mandates.  *)
EXTENDS TicketPairing, SequenceTheorems, WellFoundedInduction, TLAPS

-----------------------------------------------------------------------------
(* Arrays.                                                                 *)

\* A set of indexes has a least one.
LEMMA LeastIndex ==
  ASSUME NEW S \in SUBSET Nat, S # {}
  PROVE  \E k \in S : \A j \in S : k <= j
  <1> DEFINE R == OpToRel(<, Nat)
  <1>1. IsWellFoundedOn(R, Nat)
    BY NatLessThanWellFounded
  <1>2. \A x, y \in Nat : x < y => <<x, y>> \in R
    BY DEF OpToRel
  <1> HIDE DEF R
  <1>3. PICK k \in S : \A j \in S : <<j, k>> \notin R
    BY <1>1, WFMin, Zenon
  <1>4. \A j \in S : ~(j < k)
    BY <1>2, <1>3
  <1>5. \A j \in S : k <= j
    BY <1>4
  <1>6. QED  BY <1>5

\* What is left of an array after splice(k, 1), index by index.
LEMMA RemoveAtProperties ==
  ASSUME NEW S, NEW q \in Seq(S), NEW k \in DOMAIN q
  PROVE  /\ RemoveAt(q, k) \in Seq(S)
         /\ Len(RemoveAt(q, k)) = Len(q) - 1
         /\ \A i \in 1 .. Len(q) - 1 :
              RemoveAt(q, k)[i] = IF i < k THEN q[i] ELSE q[i + 1]
  <1> DEFINE a == SubSeq(q, 1, k - 1)
             b == SubSeq(q, k + 1, Len(q))
  <1>1. k \in 1 .. Len(q) /\ Len(q) \in Nat
    BY LenProperties
  <1>2. /\ a \in Seq(S) /\ Len(a) = k - 1
        /\ \A i \in 1 .. k - 1 : a[i] = q[i]
    BY <1>1, SubSeqProperties
  <1>3. /\ b \in Seq(S) /\ Len(b) = Len(q) - k
        /\ \A i \in 1 .. Len(q) - k : b[i] = q[k + i]
    BY <1>1, SubSeqProperties
  <1>4. RemoveAt(q, k) = a \o b
    BY DEF RemoveAt
  <1> HIDE DEF a, b
  <1>5. /\ a \o b \in Seq(S)
        /\ Len(a \o b) = Len(q) - 1
    BY <1>1, <1>2, <1>3, ConcatProperties
  <1>6. ASSUME NEW i \in 1 .. Len(q) - 1
        PROVE  (a \o b)[i] = IF i < k THEN q[i] ELSE q[i + 1]
    <2>1. (a \o b)[i] = IF i <= Len(a) THEN a[i] ELSE b[i - Len(a)]
      BY <1>1, <1>2, <1>3, ConcatProperties
    <2>2. CASE i < k
      BY <2>1, <2>2, <1>1, <1>2
    <2>3. CASE ~(i < k)
      BY <2>1, <2>3, <1>1, <1>2, <1>3
    <2>4. QED  BY <2>2, <2>3
  <1>7. QED  BY <1>4, <1>5, <1>6

LEMMA SpliceType ==
  ASSUME NEW S, NEW q \in Seq(S), NEW k
  PROVE  Splice(q, k) \in Seq(S)
  BY RemoveAtProperties DEF Splice

-----------------------------------------------------------------------------
(* Calls and their candidates.                                             *)

\* The local screen is symmetric (pairingCompatibility takes the two sides in
\* their order).
LEMMA CandidateSymmetric ==
  ASSUME NEW t \in Tickets, NEW u \in Tickets, Candidate(t, u)
  PROVE  Candidate(u, t)
  BY PairingAssumption DEF Candidate

\* The scan finds a candidate that is in the array, or there is none.
LEMMA ScanFinds ==
  ASSUME queue \in Seq(Tickets), NEW t \in Tickets
  PROVE  \/ /\ FirstCandidate(t) = NewCall(t, "push")
            /\ \A k \in DOMAIN queue : ~Candidate(t, queue[k])
         \/ \E k \in DOMAIN queue :
              /\ FirstCandidate(t) = [pc |-> "verify", at |-> k, other |-> queue[k]]
              /\ Candidate(t, queue[k])
  <1> DEFINE hits == {k \in DOMAIN queue : Candidate(t, queue[k])}
             first == CHOOSE k \in hits : \A j \in hits : k <= j
  <1>1. CASE hits = {}
    BY <1>1 DEF FirstCandidate
  <1>2. CASE hits # {}
    <2>1. hits \in SUBSET Nat
      BY LenProperties
    <2>2. first \in hits
      BY <1>2, <2>1, LeastIndex
    <2>3. FirstCandidate(t) = [pc |-> "verify", at |-> first, other |-> queue[first]]
      BY <1>2 DEF FirstCandidate
    <2>4. QED  BY <2>2, <2>3
  <1>3. QED  BY <1>1, <1>2

\* A call that opens a session has the enclave's verdict on its pair, and one
\* that pins the delegations has its session.
PairInv ==
  \A t \in Tickets :
    /\ call[t].pc \in {"create", "pinBuy", "pinSell"} =>
         CompatiblePair(Buy(t), Sell(t), AssetOf[t])
    /\ call[t].pc \in {"pinBuy", "pinSell"} => <<Buy(t), Sell(t)>> \in sessions

VerifiedInv == TypeOK /\ PairInv /\ SessionsAreVerified

LEMMA FaultType ==
  ASSUME TypeOK, Fault
  PROVE  faults' \in 0 .. MaxFaults
  BY PairingAssumption DEF TypeOK, Fault

LEMMA VerifiedInit == Init => VerifiedInv
  <1> SUFFICES ASSUME Init PROVE VerifiedInv
    OBVIOUS
  <1>1. queue \in Seq(Tickets)
    BY EmptySeq DEF Init
  <1>2. faults \in 0 .. MaxFaults
    BY PairingAssumption DEF Init
  <1>3. overlap \in BOOLEAN
    BY DEF Init
  <1>4. QED
    BY <1>1, <1>2, <1>3
       DEF Init, VerifiedInv, TypeOK, PairInv, SessionsAreVerified, NewCall, CallStates

\* The pair of a call that holds a candidate passed the local screen, buyer
\* first.
LEMMA PairOfCall ==
  ASSUME TypeOK, NEW t \in Tickets,
         call[t].pc \in {"verify", "create", "pinBuy", "pinSell"}
  PROVE  /\ Buy(t) \in Tickets /\ Sell(t) \in Tickets
         /\ SideOf[Buy(t)] = "buy" /\ SideOf[Sell(t)] = "sell"
         /\ Candidate(Buy(t), Sell(t))
         /\ AssetOf[Buy(t)] = AssetOf[t]
  <1>1. Candidate(t, call[t].other) /\ call[t].other \in Tickets
    BY DEF TypeOK
  <1>2. Candidate(call[t].other, t)
    BY <1>1, CandidateSymmetric
  <1>3. SideOf[t] \in {"buy", "sell"} /\ SideOf[call[t].other] \in {"buy", "sell"}
    BY <1>1, PairingAssumption
  <1>4. /\ SideOf[t] # SideOf[call[t].other]
        /\ AssetOf[t] = AssetOf[call[t].other]
    BY <1>1 DEF Candidate
  <1>5. CASE SideOf[t] = "buy"
    BY <1>1, <1>3, <1>4, <1>5 DEF Buy, Sell
  <1>6. CASE SideOf[t] = "sell"
    BY <1>1, <1>2, <1>3, <1>4, <1>6 DEF Buy, Sell
  <1>7. QED  BY <1>3, <1>5, <1>6

-----------------------------------------------------------------------------
(* Type correctness, and the pairs of the sessions.                        *)

LEMMA SubmitVerified ==
  ASSUME VerifiedInv, NEW t \in Tickets, SubmitTicket(t)
  PROVE  VerifiedInv'
  <1> USE DEF VerifiedInv, TypeOK, PairInv, SessionsAreVerified
  <1>1. /\ call' \in [Tickets -> [pc : CallStates, at : Nat, other : Tickets]]
        /\ \A u \in Tickets \ {t} : call'[u] = call[u]
        /\ call'[t].pc \in {"verify", "push", "refused"}
        /\ call'[t].pc = "verify" => Candidate(t, call'[t].other)
    <2>1. CASE call' = [call EXCEPT ![t] = FirstCandidate(t)]
      <3>1. \A k \in DOMAIN queue : k \in Nat /\ queue[k] \in Tickets
        BY LenProperties, ElementOfSeq
      <3>2. FirstCandidate(t) \in [pc : CallStates, at : Nat, other : Tickets]
        BY <3>1, ScanFinds DEF NewCall, CallStates
      <3>3. QED  BY <2>1, <3>2, ScanFinds DEF NewCall
    <2>2. CASE Finish(t, "refused")
      BY <2>2 DEF Finish, NewCall, CallStates
    <2>3. QED  BY <2>1, <2>2 DEF SubmitTicket
  <1>2. TypeOK'
    BY <1>1 DEF SubmitTicket, InProgress
  <1>3. PairInv'
    BY <1>1 DEF SubmitTicket, Buy, Sell
  <1>4. QED  BY <1>2, <1>3 DEF SubmitTicket

\* A call that goes on keeps its candidate, the other calls keep theirs.
LEMMA CallGoesOn ==
  ASSUME TypeOK, NEW t \in Tickets, NEW pc \in CallStates, Goto(t, pc)
  PROVE  /\ call' \in [Tickets -> [pc : CallStates, at : Nat, other : Tickets]]
         /\ \A u \in Tickets : Buy(u)' = Buy(u) /\ Sell(u)' = Sell(u)
         /\ \A u \in Tickets : call'[u].other = call[u].other
         /\ \A u \in Tickets \ {t} : call'[u] = call[u]
         /\ call'[t].pc = pc
  BY DEF TypeOK, Goto, Buy, Sell

\* An ended call keeps nothing.
LEMMA CallEnds ==
  ASSUME TypeOK, NEW t \in Tickets, NEW pc \in CallStates, Finish(t, pc)
  PROVE  /\ call' \in [Tickets -> [pc : CallStates, at : Nat, other : Tickets]]
         /\ \A u \in Tickets \ {t} : Buy(u)' = Buy(u) /\ Sell(u)' = Sell(u)
         /\ \A u \in Tickets \ {t} : call'[u] = call[u]
         /\ call'[t].pc = pc
  BY DEF TypeOK, Finish, NewCall, Buy, Sell

\* The pair of a call that passed the verdict is a pair of sessions to be.
LEMMA PairMayTrade ==
  ASSUME VerifiedInv, NEW t \in Tickets, call[t].pc = "create"
  PROVE  /\ <<Buy(t), Sell(t)>> \in Tickets \X Tickets
         /\ SideOf[Buy(t)] = "buy" /\ SideOf[Sell(t)] = "sell"
         /\ Candidate(Buy(t), Sell(t))
         /\ CompatiblePair(Buy(t), Sell(t), AssetOf[Buy(t)])
  BY PairOfCall DEF VerifiedInv, PairInv

\* The other steps of a call.
LEMMA StepVerified ==
  ASSUME VerifiedInv, NEW t \in Tickets, Step(t)
  PROVE  VerifiedInv'
  <1> USE DEF VerifiedInv, CallStates
  <1>1. CASE PushTicket(t)
    <2>1. queue' \in Seq(Tickets)
      BY <1>1, AppendProperties DEF PushTicket, TypeOK
    <2>2. Finish(t, "done")
      BY <1>1 DEF PushTicket
    <2>3. TypeOK' /\ PairInv' /\ SessionsAreVerified'
      BY <1>1, <2>1, <2>2, CallEnds
         DEF PushTicket, TypeOK, PairInv, SessionsAreVerified
    <2>4. QED  BY <2>3
  <1>2. CASE PairVerified(t)
    <2>1. queue' \in Seq(Tickets)
      BY <1>2, SpliceType DEF PairVerified, TypeOK
    <2>2. Goto(t, "create")
      BY <1>2 DEF PairVerified
    <2>3. TypeOK'
      BY <1>2, <2>1, <2>2, CallGoesOn DEF PairVerified, TypeOK
    <2>4. PairInv' /\ SessionsAreVerified'
      BY <1>2, <2>2, CallGoesOn DEF PairVerified, PairInv, SessionsAreVerified
    <2>5. QED  BY <2>3, <2>4
  <1>3. CASE PairRejected(t)
    <2>1. Goto(t, "push")
      BY <1>3 DEF PairRejected
    <2>2. TypeOK' /\ PairInv' /\ SessionsAreVerified'
      BY <1>3, <2>1, CallGoesOn
         DEF PairRejected, TypeOK, PairInv, SessionsAreVerified
    <2>3. QED  BY <2>2
  <1>4. CASE VerifyPairFails(t)
    <2>1. Finish(t, "failed")
      BY <1>4 DEF VerifyPairFails
    <2>2. TypeOK' /\ PairInv' /\ SessionsAreVerified'
      BY <1>4, <2>1, CallEnds, FaultType
         DEF VerifyPairFails, TypeOK, PairInv, SessionsAreVerified
    <2>3. QED  BY <2>2
  <1>5. CASE CreateSession(t)
    <2>1. /\ call[t].pc = "create" /\ Goto(t, "pinBuy")
          /\ sessions' = sessions \cup {<<Buy(t), Sell(t)>>}
          /\ UNCHANGED <<queue, pinned, rejected, overlap, faults>>
      BY <1>5 DEF CreateSession
    <2>2. TypeOK'
      BY <2>1, CallGoesOn, PairMayTrade DEF TypeOK
    <2>3. PairInv'
      BY <2>1, CallGoesOn DEF PairInv
    <2>4. SessionsAreVerified'
      BY <2>1, PairMayTrade DEF SessionsAreVerified
    <2>5. QED  BY <2>2, <2>3, <2>4
  <1>6. CASE CreateSessionFails(t)
    <2>1. /\ call[t].pc = "create" /\ Finish(t, "failed")
          /\ sessions' \in {sessions, sessions \cup {<<Buy(t), Sell(t)>>}}
          /\ UNCHANGED <<queue, pinned, rejected, overlap>>
          /\ faults' \in 0 .. MaxFaults
      BY <1>6, FaultType DEF CreateSessionFails
    <2>2. TypeOK'
      BY <2>1, CallEnds, PairMayTrade DEF TypeOK
    <2>3. PairInv'
      BY <2>1, CallEnds DEF PairInv
    <2>4. SessionsAreVerified'
      BY <2>1, PairMayTrade DEF SessionsAreVerified
    <2>5. QED  BY <2>2, <2>3, <2>4
  <1>7. ASSUME NEW side \in {"buy", "sell"}, SetSessionDelegation(t, side)
        PROVE  VerifiedInv'
    <2>1. /\ UNCHANGED <<queue, sessions, rejected, overlap>>
          /\ call[t].pc \in {"pinBuy", "pinSell"}
          /\ pinned' \in {pinned, pinned \cup {<<<<Buy(t), Sell(t)>>, side>>}}
          /\ faults' \in 0 .. MaxFaults
      BY <1>7, FaultType DEF SetSessionDelegation, TypeOK
    <2>2. <<Buy(t), Sell(t)>> \in sessions
      BY <2>1 DEF PairInv
    <2>3. pinned' \subseteq sessions' \X {"buy", "sell"}
      <3>1. <<<<Buy(t), Sell(t)>>, side>> \in sessions \X {"buy", "sell"}
        BY <2>2
      <3>2. pinned \subseteq sessions \X {"buy", "sell"} /\ sessions' = sessions
        BY <2>1 DEF TypeOK
      <3>3. QED  BY <2>1, <3>1, <3>2
    <2>4. CASE side = "buy"
      <3>1. Goto(t, "pinSell") /\ call[t].pc = "pinBuy"
        BY <1>7, <2>4 DEF SetSessionDelegation
      <3>2. TypeOK'
        BY <2>1, <2>3, <3>1, CallGoesOn DEF TypeOK
      <3>3. PairInv' /\ SessionsAreVerified'
        BY <2>1, <2>2, <3>1, CallGoesOn DEF PairInv, SessionsAreVerified
      <3>4. QED  BY <3>2, <3>3
    <2>5. CASE side = "sell"
      <3>1. Finish(t, "done")
        BY <1>7, <2>5 DEF SetSessionDelegation
      <3>2. TypeOK'
        BY <2>1, <2>3, <3>1, CallEnds DEF TypeOK
      <3>3. PairInv' /\ SessionsAreVerified'
        BY <2>1, <3>1, CallEnds DEF PairInv, SessionsAreVerified
      <3>4. QED  BY <3>2, <3>3
    <2>6. QED  BY <2>4, <2>5
  <1>8. QED
    BY <1>1, <1>2, <1>3, <1>4, <1>5, <1>6, <1>7 DEF Step

LEMMA VerifiedNext ==
  ASSUME VerifiedInv, [Next]_vars
  PROVE  VerifiedInv'
  <1>1. CASE Restart
    BY <1>1, FaultType, EmptySeq
       DEF Restart, VerifiedInv, TypeOK, PairInv, SessionsAreVerified, NewCall,
           CallStates, Buy, Sell
  <1>2. CASE UNCHANGED vars
    BY <1>2 DEF vars, VerifiedInv, TypeOK, PairInv, SessionsAreVerified, Buy, Sell
  <1>3. QED  BY <1>1, <1>2, SubmitVerified, StepVerified DEF Next

LEMMA VerifiedInductive == Spec => []VerifiedInv
  <1>1. VerifiedInv /\ [Next]_vars => VerifiedInv'
    BY VerifiedNext
  <1>2. QED  BY VerifiedInit, <1>1, PTL DEF Spec

\* Type correctness: a call holds a candidate that fits as long as it needs it,
\* and delegations are pinned on sessions only.
THEOREM TypeCorrect == Spec => []TypeOK
  <1>1. VerifiedInv => TypeOK
    BY DEF VerifiedInv
  <1>2. QED  BY VerifiedInductive, <1>1, PTL

\* Every session joins a bid and an ask that passed both screens, whatever the
\* array went through meanwhile.
THEOREM VerifiedPairs == Spec => []SessionsAreVerified
  <1>1. VerifiedInv => SessionsAreVerified
    BY DEF VerifiedInv
  <1>2. QED  BY VerifiedInductive, <1>1, PTL

-----------------------------------------------------------------------------
(* Requests that do not overlap.                                           *)

\* An index of the array after splice(k, 1) and the one it had before.
Before(i, k) == IF i < k THEN i ELSE i + 1

LEMMA SpliceKeeps ==
  ASSUME NEW q \in Seq(Tickets), NEW k \in DOMAIN q
  PROVE  /\ \A i \in DOMAIN Splice(q, k) :
              /\ Before(i, k) \in DOMAIN q \ {k}
              /\ Splice(q, k)[i] = q[Before(i, k)]
         /\ \A j \in DOMAIN q \ {k} :
              \E i \in DOMAIN Splice(q, k) : Splice(q, k)[i] = q[j]
         /\ \A i, j \in DOMAIN Splice(q, k) :
              /\ i < j => Before(i, k) < Before(j, k)
              /\ Before(i, k) = Before(j, k) => i = j
  <1>1. /\ k \in 1 .. Len(q) /\ Len(q) \in Nat
        /\ DOMAIN q = 1 .. Len(q)
    BY LenProperties
  <1>2. /\ DOMAIN Splice(q, k) = 1 .. Len(q) - 1
        /\ \A i \in 1 .. Len(q) - 1 : Splice(q, k)[i] = q[Before(i, k)]
    BY <1>1, RemoveAtProperties, LenProperties DEF Splice, Before
  <1>3. \A i \in 1 .. Len(q) - 1 : Before(i, k) \in DOMAIN q \ {k}
    BY <1>1 DEF Before
  <1>4. ASSUME NEW j \in DOMAIN q \ {k}
        PROVE  \E i \in DOMAIN Splice(q, k) : Splice(q, k)[i] = q[j]
    <2>1. CASE j < k
      <3>1. j \in DOMAIN Splice(q, k) /\ Before(j, k) = j
        BY <1>1, <1>2, <2>1 DEF Before
      <3>2. QED  BY <3>1, <1>2
    <2>2. CASE j > k
      <3>1. j - 1 \in DOMAIN Splice(q, k) /\ Before(j - 1, k) = j
        BY <1>1, <1>2, <2>2 DEF Before
      <3>2. QED  BY <3>1, <1>2
    <2>3. QED  BY <2>1, <2>2, <1>1
  <1>5. QED  BY <1>1, <1>2, <1>3, <1>4 DEF Before

\* One call is in progress at a time, what its scan read is still true, and
\* a ticket is in one place: in its call, in the array, in the hands of a call
\* or in a session.
SerialInv ==
  ~overlap =>
    /\ \A t, u \in InProgress : t = u
    /\ \A i, j \in DOMAIN queue : queue[i] = queue[j] => i = j
    /\ \A t \in Waiting : call[t].pc = "done" /\ ~Paired(t)
    /\ \A t \in Tickets :
         /\ call[t].pc \in {"idle", "verify", "create", "push"} => ~Paired(t)
         /\ call[t].pc = "verify" =>
              call[t].at \in DOMAIN queue /\ queue[call[t].at] = call[t].other
         /\ call[t].pc = "create" =>
              /\ call[t].other \notin Waiting
              /\ call[call[t].other].pc = "done"
              /\ ~Paired(call[t].other)
    /\ \A p, q \in sessions : {p[1], p[2]} \cap {q[1], q[2]} # {} => p = q

OnceInv == VerifiedInv /\ SerialInv

LEMMA OnceInit == Init => OnceInv
  <1> SUFFICES ASSUME Init PROVE OnceInv
    OBVIOUS
  <1>1. VerifiedInv
    BY VerifiedInit
  <1>2. DOMAIN queue = {}
    BY EmptySeq, LenProperties DEF Init
  <1>3. SerialInv
    BY <1>2 DEF Init, SerialInv, InProgress, Waiting, Paired, NewCall
  <1>4. QED  BY <1>1, <1>3 DEF OnceInv

\* While no two requests overlap, a step of a request leaves every other one
\* idle or ended.
LEMMA AloneInProgress ==
  ASSUME OnceInv, ~overlap, NEW t \in InProgress
  PROVE  \A u \in Tickets \ {t} : call[u].pc \in Ended \cup {"idle"}
  BY DEF OnceInv, SerialInv, InProgress

LEMMA SerialSubmit ==
  ASSUME OnceInv, NEW t \in Tickets, SubmitTicket(t)
  PROVE  SerialInv'
  <1> SUFFICES ASSUME ~overlap' PROVE SerialInv'
    BY DEF SerialInv
  <1> USE DEF OnceInv, VerifiedInv
  <1>1. ~overlap /\ UNCHANGED <<queue, sessions>> /\ call[t].pc = "idle"
    <2>1. \/ overlap' = (overlap \/ InProgress # {})
          \/ overlap' = overlap
      BY DEF SubmitTicket
    <2>2. ~overlap
      BY <2>1, Zenon
    <2>3. QED  BY <2>2 DEF SubmitTicket
  <1>2. \A k \in DOMAIN queue : k \in Nat /\ queue[k] \in Tickets
    BY LenProperties, ElementOfSeq DEF TypeOK
  <1>3. CASE Finish(t, "refused")
    <2>1. /\ \A u \in Tickets \ {t} : call'[u] = call[u]
          /\ call'[t].pc = "refused"
      BY <1>3, CallEnds DEF CallStates
    <2>2. QED
      BY <1>1, <1>2, <2>1
         DEF SerialInv, InProgress, Waiting, Paired, Ended, TypeOK
  <1>4. CASE /\ call' = [call EXCEPT ![t] = FirstCandidate(t)]
             /\ overlap' = (overlap \/ InProgress # {})
    <2>0. InProgress = {}
      BY <1>4, Zenon
    <2>1. /\ \A u \in Tickets \ {t} : call'[u] = call[u]
          /\ call'[t] = FirstCandidate(t)
      BY <1>4 DEF TypeOK
    <2>2. \/ call'[t].pc = "push"
          \/ /\ call'[t].pc = "verify"
             /\ call'[t].at \in DOMAIN queue
             /\ queue[call'[t].at] = call'[t].other
      BY <2>1, ScanFinds DEF TypeOK, NewCall
    <2>3. InProgress' \subseteq {t}
      BY <2>0, <2>1 DEF InProgress
    <2>4. \A u \in Tickets : call'[u].pc # "create"
      BY <2>0, <2>1, <2>2 DEF InProgress, Ended
    <2>5. QED
      BY <1>1, <1>2, <2>1, <2>2, <2>3, <2>4 DEF SerialInv, InProgress, Waiting, Paired,
                                          Ended, TypeOK
  <1>5. QED  BY <1>3, <1>4 DEF SubmitTicket

\* What a step of a request may assume while no two of them overlap.
LEMMA SerialFacts ==
  ASSUME OnceInv, ~overlap, NEW t \in InProgress
  PROVE  /\ t \in Tickets /\ t \notin Waiting
         /\ \A u \in Tickets \ {t} : call[u].pc \in Ended \cup {"idle"}
         /\ \A k \in DOMAIN queue : queue[k] \in Waiting /\ queue[k] \in Tickets
  <1>1. \A k \in DOMAIN queue : queue[k] \in Tickets
    BY LenProperties, ElementOfSeq DEF OnceInv, VerifiedInv, TypeOK
  <1>2. t \notin Waiting
    BY DEF OnceInv, SerialInv, InProgress, Ended
  <1>3. QED  BY <1>1, <1>2, AloneInProgress DEF InProgress, Waiting

\* The candidate leaves the array for the hands of the call.
LEMMA SerialVerified ==
  ASSUME OnceInv, NEW t \in Tickets, PairVerified(t)
  PROVE  SerialInv'
  <1> SUFFICES ASSUME ~overlap' PROVE SerialInv'
    BY DEF SerialInv
  <1> USE DEF OnceInv, VerifiedInv
  <1>1. /\ ~overlap /\ t \in InProgress /\ call[t].pc = "verify"
        /\ Goto(t, "create") /\ sessions' = sessions
        /\ queue' = Splice(queue, call[t].at)
    BY DEF PairVerified, InProgress, Ended
  <1>2. /\ \A u \in Tickets \ {t} : call'[u] = call[u]
        /\ call'[t].pc = "create" /\ call'[t].other = call[t].other
    BY <1>1, CallGoesOn DEF CallStates
  <1> DEFINE k == call[t].at
  <1>3. /\ k \in DOMAIN queue /\ queue[k] = call[t].other
        /\ \A i, j \in DOMAIN queue : queue[i] = queue[j] => i = j
        /\ \A u \in Waiting : call[u].pc = "done" /\ ~Paired(u)
        /\ ~Paired(t) /\ call[t].other \in Tickets
    BY <1>1 DEF SerialInv, TypeOK
  <1>4. /\ \A i \in DOMAIN queue' : Before(i, k) \in DOMAIN queue \ {k}
        /\ \A i \in DOMAIN queue' : queue'[i] = queue[Before(i, k)]
        /\ \A i, j \in DOMAIN queue' : Before(i, k) = Before(j, k) => i = j
    BY <1>1, <1>3, SpliceKeeps DEF TypeOK
  <1> HIDE DEF k
  <1>5. Waiting' \subseteq Waiting \ {call[t].other}
    BY <1>3, <1>4 DEF Waiting
  <1>6. \A i, j \in DOMAIN queue' : queue'[i] = queue'[j] => i = j
    BY <1>3, <1>4
  <1>7. call[t].other \in Waiting /\ call[t].other # t
    BY <1>1, <1>3 DEF Waiting
  <1>8. \A u \in Tickets \ {t} : call[u].pc \in Ended \cup {"idle"}
    BY <1>1, SerialFacts
  <1>9. InProgress' \subseteq {t}
    BY <1>2, <1>8 DEF InProgress
  <1>10. \A u \in Tickets : Paired(u)' <=> Paired(u)
    BY <1>1 DEF Paired
  <1>11. \A u \in Waiting' : call'[u].pc = "done" /\ ~Paired(u)'
    BY <1>1, <1>2, <1>3, <1>5, <1>10, SerialFacts DEF Waiting
  <1>12. \A u \in Tickets :
           call'[u].pc \in {"idle", "verify", "create", "push"} => ~Paired(u)'
    BY <1>1, <1>2, <1>3, <1>8, <1>10 DEF SerialInv, Ended
  <1>13. \A u \in Tickets : call'[u].pc # "verify"
    BY <1>2, <1>8 DEF Ended
  <1>14. ASSUME NEW u \in Tickets
         PROVE  (call[u].pc = "create" =>
                  /\ call[u].other \notin Waiting
                  /\ call[call[u].other].pc = "done"
                  /\ ~Paired(call[u].other))'
    <2>1. CASE u = t
      <3>1. call'[u].other = call[t].other
        BY <2>1, <1>2
      <3>2. call'[call'[u].other].pc = "done"
        BY <3>1, <1>2, <1>3, <1>7
      <3>3. call'[u].other \notin Waiting'
        BY <3>1, <1>5
      <3>4. ~Paired(call[t].other)
        BY <1>3, <1>7
      <3>5. ~Paired(call[u].other)'
        BY <3>1, <3>4, <1>1 DEF Paired
      <3>6. QED  BY <3>2, <3>3, <3>5
    <2>2. CASE u # t
      <3>1. call'[u].pc # "create"
        BY <2>2, <1>2, <1>8 DEF Ended
      <3>2. QED  BY <3>1
    <2>3. QED  BY <2>1, <2>2
  <1>15. (\A p, q \in sessions : {p[1], p[2]} \cap {q[1], q[2]} # {} => p = q)'
    BY <1>1 DEF SerialInv
  <1>16. (\A u, v \in InProgress : u = v)'
    BY <1>9
  <1>17. QED
    BY <1>6, <1>11, <1>12, <1>13, <1>14, <1>15, <1>16 DEF SerialInv

\* The ticket itself goes to the end of the array.
LEMMA SerialPush ==
  ASSUME OnceInv, NEW t \in Tickets, PushTicket(t)
  PROVE  SerialInv'
  <1> SUFFICES ASSUME ~overlap' PROVE SerialInv'
    BY DEF SerialInv
  <1> USE DEF OnceInv, VerifiedInv
  <1>1. /\ ~overlap /\ t \in InProgress /\ call[t].pc = "push"
        /\ Finish(t, "done") /\ sessions' = sessions
        /\ queue' = Append(queue, t)
    BY DEF PushTicket, InProgress, Ended
  <1>2. /\ \A u \in Tickets \ {t} : call'[u] = call[u]
        /\ call'[t].pc = "done"
    BY <1>1, CallEnds DEF CallStates
  <1>3. /\ Len(queue) \in Nat /\ DOMAIN queue = 1 .. Len(queue)
        /\ DOMAIN queue' = 1 .. Len(queue) + 1
        /\ \A i \in 1 .. Len(queue) : queue'[i] = queue[i]
        /\ queue'[Len(queue) + 1] = t
    BY <1>1, AppendProperties, LenProperties DEF TypeOK
  <1>4. /\ \A i, j \in DOMAIN queue : queue[i] = queue[j] => i = j
        /\ \A u \in Waiting : call[u].pc = "done" /\ ~Paired(u)
        /\ ~Paired(t)
    BY <1>1 DEF SerialInv
  <1>5. Waiting' = Waiting \cup {t}
    BY <1>3 DEF Waiting
  <1>6. \A i \in DOMAIN queue : queue[i] # t
    BY <1>1, SerialFacts DEF Waiting
  <1>7. \A i, j \in DOMAIN queue' : queue'[i] = queue'[j] => i = j
    BY <1>3, <1>4, <1>6
  <1>8. \A u \in Tickets \ {t} : call[u].pc \in Ended \cup {"idle"}
    BY <1>1, SerialFacts
  <1>9. InProgress' = {}
    BY <1>2, <1>8 DEF InProgress, Ended
  <1>10. \A u \in Tickets : Paired(u)' <=> Paired(u)
    BY <1>1 DEF Paired
  <1>11. \A u \in Waiting' : call'[u].pc = "done" /\ ~Paired(u)'
    BY <1>1, <1>2, <1>4, <1>5, <1>10, SerialFacts DEF Waiting
  <1>12. \A u \in Tickets :
           /\ call'[u].pc = "idle" => ~Paired(u)'
           /\ call'[u].pc \notin {"verify", "create", "push"}
    BY <1>1, <1>2, <1>8, <1>10 DEF SerialInv, Ended
  <1>13. QED
    BY <1>1, <1>7, <1>9, <1>11, <1>12 DEF SerialInv

\* The steps that neither touch the array nor the sessions.
LEMMA SerialQuiet ==
  ASSUME OnceInv, NEW t \in Tickets,
         UNCHANGED <<queue, sessions, overlap>>, t \in InProgress,
         NEW pc \in CallStates \ {"idle", "verify", "create"},
         pc = "push" => call[t].pc = "verify",
         Goto(t, pc) \/ Finish(t, pc)
  PROVE  SerialInv'
  <1> SUFFICES ASSUME ~overlap' PROVE SerialInv'
    BY DEF SerialInv
  <1> USE DEF OnceInv, VerifiedInv
  <1>1. ~overlap
    OBVIOUS
  <1>2. /\ \A u \in Tickets \ {t} : call'[u] = call[u]
        /\ call'[t].pc = pc
    BY CallGoesOn, CallEnds
  <1>3. \A u \in Tickets \ {t} : call[u].pc \in Ended \cup {"idle"}
    BY <1>1, SerialFacts
  <1>4. InProgress' \subseteq {t}
    BY <1>2, <1>3 DEF InProgress
  <1>5. /\ Waiting' = Waiting
        /\ \A u \in Tickets : Paired(u)' <=> Paired(u)
    BY DEF Waiting, Paired
  <1>6. \A u \in Waiting : call'[u].pc = "done" /\ ~Paired(u) /\ u \in Tickets
    BY <1>1, <1>2, SerialFacts DEF SerialInv, Waiting
  <1>7. \A u \in Tickets :
          /\ call'[u].pc \in {"idle", "push"} => ~Paired(u)'
          /\ call'[u].pc \notin {"verify", "create"}
    BY <1>1, <1>2, <1>3, <1>5 DEF SerialInv, Ended
  <1>8. QED
    BY <1>1, <1>4, <1>5, <1>6, <1>7 DEF SerialInv

\* The session of the call's two tickets, neither of which is anywhere else.
LEMMA SerialCreate ==
  ASSUME OnceInv, NEW t \in Tickets, call[t].pc = "create",
         UNCHANGED <<queue, overlap>>,
         sessions' \in {sessions, sessions \cup {<<Buy(t), Sell(t)>>}},
         Goto(t, "pinBuy") \/ Finish(t, "failed")
  PROVE  SerialInv'
  <1> SUFFICES ASSUME ~overlap' PROVE SerialInv'
    BY DEF SerialInv
  <1> USE DEF OnceInv, VerifiedInv
  <1>1. ~overlap /\ t \in InProgress
    BY DEF InProgress, Ended
  <1>2. /\ \A u \in Tickets \ {t} : call'[u] = call[u]
        /\ call'[t].pc \in {"pinBuy", "failed"}
    BY CallGoesOn, CallEnds DEF CallStates
  <1>3. \A u \in Tickets \ {t} : call[u].pc \in Ended \cup {"idle"}
    BY <1>1, SerialFacts
  <1> DEFINE pair == {t, call[t].other}
  <1>4. /\ call[t].other \in Tickets /\ ~Paired(t) /\ ~Paired(call[t].other)
        /\ t \notin Waiting /\ call[t].other \notin Waiting
        /\ call[call[t].other].pc = "done"
        /\ {Buy(t), Sell(t)} \subseteq pair
    BY <1>1, SerialFacts DEF SerialInv, TypeOK, Buy, Sell
  <1>5. ASSUME NEW u \in Tickets \ pair
        PROVE  Paired(u)' => Paired(u)
    BY <1>4, <1>5 DEF Paired
  <1>6. \A p \in sessions : {p[1], p[2]} \cap pair = {}
    BY <1>4 DEF Paired
  <1>7. \A p, q \in sessions' : {p[1], p[2]} \cap {q[1], q[2]} # {} => p = q
    <2>1. \A p, q \in sessions : {p[1], p[2]} \cap {q[1], q[2]} # {} => p = q
      BY <1>1 DEF SerialInv
    <2>2. \A p \in sessions' : p \in sessions \/ p = <<Buy(t), Sell(t)>>
      OBVIOUS
    <2> HIDE DEF pair
    <2>3. QED  BY <1>4, <1>6, <2>1, <2>2
  <1>8. \A u \in Waiting : u \in Tickets \ pair /\ call[u].pc = "done" /\ ~Paired(u)
    BY <1>1, <1>4, SerialFacts DEF SerialInv, Waiting
  <1>9. \A u \in Tickets :
          /\ call'[u].pc = "idle" => ~Paired(u)'
          /\ call'[u].pc \notin {"verify", "create", "push"}
    BY <1>1, <1>2, <1>3, <1>4, <1>5 DEF SerialInv, Ended
  <1>10. (\A u, v \in InProgress : u = v)'
    BY <1>2, <1>3 DEF InProgress
  <1>11. \A u \in Waiting' : call'[u].pc = "done" /\ ~Paired(u)'
    BY <1>1, <1>2, <1>5, <1>8 DEF Waiting
  <1>12. QED
    BY <1>1, <1>7, <1>9, <1>10, <1>11 DEF SerialInv

LEMMA OnceNext ==
  ASSUME OnceInv, [Next]_vars
  PROVE  OnceInv'
  <1> USE DEF OnceInv
  <1>1. VerifiedInv'
    BY VerifiedNext
  <1>2. ASSUME NEW t \in Tickets, Step(t)
        PROVE  SerialInv'
    <2> USE DEF InProgress, Ended, CallStates
    <2>1. CASE PushTicket(t)
      BY <2>1, SerialPush
    <2>2. CASE PairVerified(t)
      BY <2>2, SerialVerified
    <2>3. CASE PairRejected(t)
      BY <2>3, SerialQuiet DEF PairRejected
    <2>4. CASE VerifyPairFails(t)
      BY <2>4, SerialQuiet DEF VerifyPairFails
    <2>5. CASE CreateSession(t)
      BY <2>5, SerialCreate DEF CreateSession
    <2>6. CASE CreateSessionFails(t)
      BY <2>6, SerialCreate DEF CreateSessionFails
    <2>7. ASSUME NEW side \in {"buy", "sell"}, SetSessionDelegation(t, side)
          PROVE  SerialInv'
      BY <2>7, SerialQuiet DEF SetSessionDelegation
    <2>8. QED
      BY <1>2, <2>1, <2>2, <2>3, <2>4, <2>5, <2>6, <2>7 DEF Step
  <1>3. CASE Restart
    <2>1. DOMAIN queue' = {}
      BY <1>3, EmptySeq, LenProperties DEF Restart
    <2>2. \A t \in Tickets :
            /\ call'[t].pc \in Ended \cup {"idle"}
            /\ call'[t].pc = "idle" => call[t].pc = "idle"
      BY <1>3 DEF Restart, InProgress, Ended, NewCall
    <2>3. UNCHANGED <<sessions, overlap>>
      BY <1>3 DEF Restart
    <2>4. InProgress' = {} /\ Waiting' = {}
      BY <2>1, <2>2 DEF InProgress, Waiting
    <2>5. \A t \in Tickets : Paired(t)' <=> Paired(t)
      BY <2>3 DEF Paired
    <2>6. SerialInv => SerialInv'
      BY <2>1, <2>2, <2>3, <2>4, <2>5 DEF SerialInv, Ended
    <2>7. QED  BY <1>1, <2>6
  <1>4. CASE UNCHANGED vars
    BY <1>1, <1>4 DEF vars, SerialInv, InProgress, Waiting, Paired
  <1>5. ASSUME NEW t \in Tickets, SubmitTicket(t)
        PROVE  SerialInv'
    BY <1>5, SerialSubmit
  <1>6. QED  BY <1>1, <1>2, <1>3, <1>4, <1>5 DEF Next

LEMMA OnceInductive == Spec => []OnceInv
  <1>1. OnceInv /\ [Next]_vars => OnceInv'
    BY OnceNext
  <1>2. QED  BY OnceInit, <1>1, PTL DEF Spec

\* As long as requests do not overlap, a ticket is in one session at most and in
\* none while it waits.
THEOREM TicketsUsedOnce == Spec => []UsedOnce
  <1>1. OnceInv => UsedOnce
    BY DEF OnceInv, SerialInv, UsedOnce, BeingPaired
  <1>2. QED  BY OnceInductive, <1>1, PTL

-----------------------------------------------------------------------------
(* No ticket disappears.                                                   *)

LEMMA ForgottenNext ==
  ASSUME OnceInv, NoneForgotten, [Next]_vars
  PROVE  NoneForgotten'
  <1> SUFFICES ASSUME ~overlap', faults' = 0,
                      NEW v \in Tickets, call'[v].pc = "done"
               PROVE  (v \in Waiting \/ Paired(v) \/ BeingPaired(v))'
    BY DEF NoneForgotten
  <1> DEFINE Kept == (v \in Waiting \/ Paired(v) \/ BeingPaired(v))'
  <1>0. TypeOK /\ PairInv
    BY DEF OnceInv, VerifiedInv
  <1>1. ~(Fault)
    BY <1>0, PairingAssumption DEF Fault, TypeOK
  <1>2. ASSUME NEW t \in Tickets, SubmitTicket(t)
        PROVE  Kept
    <2>1. /\ UNCHANGED <<queue, sessions, faults>> /\ call[t].pc = "idle"
          /\ \/ overlap' = (overlap \/ InProgress # {})
             \/ overlap' = overlap
      BY <1>2 DEF SubmitTicket
    <2>2. ~overlap
      BY <2>1, Zenon
    <2>3. /\ \A u \in Tickets \ {t} : call'[u] = call[u]
          /\ call'[t].pc # "done"
      <3>1. CASE call' = [call EXCEPT ![t] = FirstCandidate(t)]
        <4>1. call'[t] = FirstCandidate(t)
          BY <1>0, <3>1 DEF TypeOK
        <4>2. FirstCandidate(t).pc # "done"
          <5>1. CASE FirstCandidate(t) = NewCall(t, "push")
            BY <5>1 DEF NewCall
          <5>2. CASE \E k \in DOMAIN queue :
                  FirstCandidate(t) = [pc |-> "verify", at |-> k, other |-> queue[k]]
            BY <5>2
          <5>3. queue \in Seq(Tickets)
            BY <1>0 DEF TypeOK
          <5>4. QED  BY <5>1, <5>2, <5>3, ScanFinds
        <4>3. QED  BY <1>0, <3>1, <4>1, <4>2 DEF TypeOK
      <3>2. CASE Finish(t, "refused")
        BY <1>0, <3>2, CallEnds DEF CallStates
      <3>3. QED  BY <1>2, <3>1, <3>2 DEF SubmitTicket
    <2>4. v \in Waiting \/ Paired(v) \/ BeingPaired(v)
      BY <2>1, <2>2, <2>3 DEF NoneForgotten
    <2>5. BeingPaired(v) => BeingPaired(v)'
      BY <2>1, <2>3 DEF BeingPaired
    <2>6. QED  BY <2>1, <2>4, <2>5 DEF Waiting, Paired
  <1>3. ASSUME NEW t \in Tickets, Step(t)
        PROVE  Kept
    <2>1. ~overlap /\ faults = 0 /\ t \in InProgress
      BY <1>3, <1>1 DEF Step, PushTicket, PairVerified, PairRejected,
         VerifyPairFails, CreateSession, CreateSessionFails,
         SetSessionDelegation, InProgress, Ended
    <2>2. v # t => call'[v] = call[v]
      BY <1>0, <1>1, <1>3, CallGoesOn, CallEnds
         DEF Step, PushTicket, PairVerified, PairRejected, VerifyPairFails,
             CreateSession, CreateSessionFails, SetSessionDelegation, CallStates
    <2>3. v # t => v \in Waiting \/ Paired(v) \/ BeingPaired(v)
      BY <2>1, <2>2 DEF NoneForgotten
    <2>4. \A u \in Tickets \ {t} : call[u].pc # "create"
      BY <2>1, SerialFacts DEF Ended
    <2>5. CASE PushTicket(t)
      <3>1. Finish(t, "done") /\ call[t].pc = "push" /\ sessions' = sessions
        BY <2>5 DEF PushTicket
      <3>2. Waiting \cup {t} \subseteq Waiting'
        <4>1. /\ Len(queue') = Len(queue) + 1 /\ Len(queue) \in Nat
              /\ DOMAIN queue = 1 .. Len(queue) /\ DOMAIN queue' = 1 .. Len(queue')
              /\ \A k \in 1 .. Len(queue) : queue'[k] = queue[k]
              /\ queue'[Len(queue) + 1] = t
          BY <1>0, <2>5, AppendProperties, LenProperties DEF PushTicket, TypeOK
        <4>2. Len(queue) + 1 \in DOMAIN queue' /\ DOMAIN queue \subseteq DOMAIN queue'
          BY <4>1
        <4>3. QED  BY <4>1, <4>2 DEF Waiting
      <3>3. ~BeingPaired(v)
        BY <2>4, <3>1 DEF BeingPaired
      <3>4. QED  BY <2>3, <3>1, <3>2, <3>3 DEF Paired
    <2>6. CASE PairVerified(t)
      <3>1. /\ Goto(t, "create") /\ call[t].pc = "verify"
            /\ sessions' = sessions /\ queue' = Splice(queue, call[t].at)
        BY <2>6 DEF PairVerified
      <3>2. /\ call'[t].pc = "create" /\ call'[t].other = call[t].other
        BY <1>0, <3>1, CallGoesOn DEF CallStates
      <3>3. /\ call[t].at \in DOMAIN queue
            /\ queue[call[t].at] = call[t].other
        BY <2>1, <3>1 DEF OnceInv, SerialInv
      <3>4. v \in Waiting => v \in Waiting' \/ v = call[t].other
        BY <1>0, <3>1, <3>3, SpliceKeeps DEF TypeOK, Waiting
      <3>5. ~BeingPaired(v)
        BY <2>4, <3>1 DEF BeingPaired
      <3>6. v = call[t].other => BeingPaired(v)'
        BY <3>2 DEF BeingPaired
      <3>7. QED  BY <2>3, <3>1, <3>2, <3>4, <3>5, <3>6 DEF Paired
    <2>7. CASE PairRejected(t)
      <3>1. /\ call[t].pc = "verify" /\ UNCHANGED <<queue, sessions>>
            /\ Goto(t, "push")
        BY <2>7 DEF PairRejected
      <3>2. v # t
        BY <1>0, <3>1, CallGoesOn DEF CallStates
      <3>3. ~BeingPaired(v)
        BY <2>4, <3>1 DEF BeingPaired
      <3>4. QED  BY <2>3, <3>1, <3>2, <3>3 DEF Waiting, Paired
    <2>8. CASE CreateSession(t)
      <3>1. /\ call[t].pc = "create" /\ Goto(t, "pinBuy") /\ queue' = queue
            /\ sessions' = sessions \cup {<<Buy(t), Sell(t)>>}
        BY <2>8 DEF CreateSession
      <3>2. v # t
        BY <1>0, <3>1, CallGoesOn DEF CallStates
      <3>3. BeingPaired(v) => v = call[t].other
        BY <2>4 DEF BeingPaired
      <3>4. call[t].other \in {Buy(t), Sell(t)}
        BY <1>0, PairingAssumption DEF Buy, Sell, TypeOK
      <3>5. v = call[t].other => Paired(v)'
        <4> DEFINE p == <<Buy(t), Sell(t)>>
        <4>1. p[1] = Buy(t) /\ p[2] = Sell(t) /\ p \in sessions'
          BY <3>1
        <4> HIDE DEF p
        <4>2. QED  BY <3>4, <4>1 DEF Paired
      <3>6. QED  BY <2>3, <3>1, <3>2, <3>3, <3>5 DEF Waiting, Paired
    <2>9. ASSUME NEW side \in {"buy", "sell"}, SetSessionDelegation(t, side)
          PROVE  Kept
      <3>1. /\ call[t].pc \in {"pinBuy", "pinSell"}
            /\ UNCHANGED <<queue, sessions>>
        BY <2>9 DEF SetSessionDelegation
      <3>2. <<Buy(t), Sell(t)>> \in sessions /\ t \in {Buy(t), Sell(t)}
        BY <1>0, <3>1, PairingAssumption DEF PairInv, Buy, Sell
      <3>3. Paired(t)
        BY <3>2 DEF Paired
      <3>4. ~BeingPaired(v)
        BY <2>4, <3>1 DEF BeingPaired
      <3>5. QED  BY <2>3, <3>1, <3>3, <3>4 DEF Waiting, Paired
    <2>10. ~VerifyPairFails(t) /\ ~CreateSessionFails(t)
      BY <1>1 DEF VerifyPairFails, CreateSessionFails
    <2>11. QED
      BY <1>3, <2>5, <2>6, <2>7, <2>8, <2>9, <2>10 DEF Step
  <1>4. ~Restart
    BY <1>1 DEF Restart
  <1>5. CASE UNCHANGED vars
    BY <1>5 DEF vars, NoneForgotten, Waiting, Paired, BeingPaired
  <1>6. QED  BY <1>2, <1>3, <1>4, <1>5 DEF Next

\* As long as requests do not overlap and no call fails, a ticket whose request
\* has ended is waiting, in a session or about to be.
THEOREM NoTicketForgotten == Spec => []NoneForgotten
  <1>1. Init => NoneForgotten
    BY DEF Init, NoneForgotten, NewCall
  <1>2. OnceInv /\ NoneForgotten /\ [Next]_vars => NoneForgotten'
    BY ForgottenNext
  <1>3. QED  BY OnceInductive, <1>1, <1>2, PTL DEF Spec

-----------------------------------------------------------------------------
(* No pair waits side by side.                                             *)

\* What NoMissedPair says of the array, and of the ticket about to enter it.
MissedInv ==
  ~overlap =>
    /\ \A i, j \in DOMAIN queue :
         i < j /\ Candidate(queue[j], queue[i]) => queue[j] \in rejected
    /\ \A t \in Tickets :
         call[t].pc = "push" =>
           \/ t \in rejected
           \/ \A k \in DOMAIN queue : ~Candidate(t, queue[k])

LEMMA MissedSubmit ==
  ASSUME OnceInv, MissedInv, NEW t \in Tickets, SubmitTicket(t)
  PROVE  MissedInv'
  <1> SUFFICES ASSUME ~overlap' PROVE MissedInv'
    BY DEF MissedInv
  <1>0. TypeOK
    BY DEF OnceInv, VerifiedInv
  <1>1. /\ UNCHANGED <<queue, rejected>>
        /\ \/ overlap' = (overlap \/ InProgress # {})
           \/ overlap' = overlap
    BY DEF SubmitTicket
  <1>2. ~overlap
    BY <1>1, Zenon
  <1>3. \A u \in Tickets \ {t} : call'[u] = call[u]
    BY <1>0 DEF SubmitTicket, Finish, TypeOK
  <1>4. call'[t].pc = "push" => \A k \in DOMAIN queue : ~Candidate(t, queue[k])
    <2>1. CASE call' = [call EXCEPT ![t] = FirstCandidate(t)]
      <3>1. call'[t] = FirstCandidate(t) /\ queue \in Seq(Tickets)
        BY <1>0, <2>1 DEF TypeOK
      <3>2. CASE \E k \in DOMAIN queue :
              FirstCandidate(t) = [pc |-> "verify", at |-> k, other |-> queue[k]]
        BY <3>1, <3>2
      <3>3. QED  BY <3>1, <3>2, ScanFinds
    <2>2. CASE Finish(t, "refused")
      BY <1>0, <2>2, CallEnds DEF CallStates
    <2>3. QED  BY <2>1, <2>2 DEF SubmitTicket
  <1>5. QED  BY <1>1, <1>2, <1>3, <1>4 DEF MissedInv

LEMMA MissedPush ==
  ASSUME OnceInv, MissedInv, NEW t \in Tickets, PushTicket(t)
  PROVE  MissedInv'
  <1> SUFFICES ASSUME ~overlap' PROVE MissedInv'
    BY DEF MissedInv
  <1>0. TypeOK
    BY DEF OnceInv, VerifiedInv
  <1>1. /\ ~overlap /\ t \in InProgress /\ rejected' = rejected
        /\ call[t].pc = "push" /\ Finish(t, "done")
    BY DEF PushTicket, InProgress, Ended
  <1>2. \A u \in Tickets : call'[u].pc # "push"
    BY <1>0, <1>1, CallEnds, SerialFacts DEF CallStates, Ended
  <1>3. /\ Len(queue) \in Nat /\ DOMAIN queue = 1 .. Len(queue)
        /\ DOMAIN queue' = 1 .. Len(queue) + 1
        /\ \A i \in 1 .. Len(queue) : queue'[i] = queue[i]
        /\ queue'[Len(queue) + 1] = t
    BY <1>0, AppendProperties, LenProperties DEF TypeOK, PushTicket
  <1>4. t \in rejected \/ \A k \in DOMAIN queue : ~Candidate(t, queue[k])
    BY <1>1 DEF MissedInv
  <1>5. ASSUME NEW i \in DOMAIN queue', NEW j \in DOMAIN queue', i < j,
               Candidate(queue'[j], queue'[i])
        PROVE  queue'[j] \in rejected
    <2>1. i \in DOMAIN queue /\ queue'[i] = queue[i]
      BY <1>3, <1>5
    <2>2. CASE j = Len(queue) + 1
      BY <1>3, <1>4, <1>5, <2>1, <2>2
    <2>3. CASE j # Len(queue) + 1
      <3>1. j \in DOMAIN queue /\ queue'[j] = queue[j]
        BY <1>3, <2>3
      <3>2. QED  BY <1>1, <1>5, <2>1, <3>1 DEF MissedInv
    <2>4. QED  BY <2>2, <2>3
  <1>6. \A i, j \in DOMAIN queue' :
          i < j /\ Candidate(queue[j], queue[i])' => queue'[j] \in rejected'
    BY <1>1, <1>5 DEF Candidate, ProfilesFit, SizeFits
  <1>7. QED  BY <1>2, <1>6 DEF MissedInv

LEMMA MissedVerified ==
  ASSUME OnceInv, MissedInv, NEW t \in Tickets, PairVerified(t)
  PROVE  MissedInv'
  <1> SUFFICES ASSUME ~overlap' PROVE MissedInv'
    BY DEF MissedInv
  <1>0. TypeOK /\ queue \in Seq(Tickets)
    BY DEF OnceInv, VerifiedInv, TypeOK
  <1>1. /\ ~overlap /\ t \in InProgress /\ rejected' = rejected
        /\ call[t].pc = "verify" /\ Goto(t, "create")
        /\ queue' = Splice(queue, call[t].at)
    BY DEF PairVerified, InProgress, Ended
  <1>2. \A u \in Tickets : call'[u].pc # "push"
    BY <1>0, <1>1, CallGoesOn, SerialFacts DEF CallStates, Ended
  <1>3. call[t].at \in DOMAIN queue
    BY <1>1 DEF OnceInv, SerialInv
  <1>4. \A i, j \in DOMAIN queue' :
          /\ Before(i, call[t].at) \in DOMAIN queue
          /\ queue'[i] = queue[Before(i, call[t].at)]
          /\ i < j => Before(i, call[t].at) < Before(j, call[t].at)
    BY <1>0, <1>1, <1>3, SpliceKeeps
  <1>5. \A i, j \in DOMAIN queue' :
          i < j /\ Candidate(queue'[j], queue'[i]) => queue'[j] \in rejected'
    BY <1>1, <1>4 DEF MissedInv
  <1>6. QED  BY <1>2, <1>5 DEF MissedInv

\* A step that leaves the array alone and sends no ticket to it unrejected.
LEMMA MissedQuiet ==
  ASSUME MissedInv, NEW t \in Tickets, queue' = queue, overlap' = overlap,
         rejected \subseteq rejected',
         \A u \in Tickets \ {t} : call'[u] = call[u],
         call'[t].pc = "push" => t \in rejected'
  PROVE  MissedInv'
  BY DEF MissedInv

LEMMA MissedNext ==
  ASSUME OnceInv, MissedInv, [Next]_vars
  PROVE  MissedInv'
  <1>0. TypeOK
    BY DEF OnceInv, VerifiedInv
  <1>1. ASSUME NEW t \in Tickets, Step(t)
        PROVE  MissedInv'
    <2>1. CASE PushTicket(t)
      BY <2>1, MissedPush
    <2>2. CASE PairVerified(t)
      BY <2>2, MissedVerified
    <2>3. CASE PairRejected(t)
      <3>1. /\ \A u \in Tickets \ {t} : call'[u] = call[u]
            /\ t \in rejected' /\ rejected \subseteq rejected'
            /\ queue' = queue /\ overlap' = overlap
        BY <1>0, <2>3, CallGoesOn DEF PairRejected, CallStates
      <3>2. QED  BY <3>1, MissedQuiet
    <2>4. CASE VerifyPairFails(t) \/ CreateSessionFails(t)
      <3>1. /\ Finish(t, "failed")
            /\ UNCHANGED <<queue, overlap, rejected>>
        BY <2>4 DEF VerifyPairFails, CreateSessionFails
      <3>2. /\ \A u \in Tickets \ {t} : call'[u] = call[u]
            /\ call'[t].pc = "failed"
        BY <1>0, <3>1, CallEnds DEF CallStates
      <3>3. QED  BY <3>1, <3>2, MissedQuiet
    <2>5. CASE CreateSession(t)
      <3>1. /\ \A u \in Tickets \ {t} : call'[u] = call[u]
            /\ call'[t].pc = "pinBuy"
        BY <1>0, <2>5, CallGoesOn DEF CreateSession, CallStates
      <3>2. QED  BY <2>5, <3>1, MissedQuiet DEF CreateSession
    <2>6. ASSUME NEW side \in {"buy", "sell"}, SetSessionDelegation(t, side)
          PROVE  MissedInv'
      <3>1. /\ \A u \in Tickets \ {t} : call'[u] = call[u]
            /\ call'[t].pc \in {"pinSell", "done"}
        BY <1>0, <2>6, CallGoesOn, CallEnds DEF SetSessionDelegation, CallStates
      <3>2. QED  BY <2>6, <3>1, MissedQuiet DEF SetSessionDelegation
    <2>7. QED
      BY <1>1, <2>1, <2>2, <2>3, <2>4, <2>5, <2>6 DEF Step
  <1>2. CASE Restart
    <2>1. DOMAIN queue' = {}
      BY <1>2, EmptySeq, LenProperties DEF Restart
    <2>2. \A t \in Tickets : call'[t].pc # "push"
      BY <1>2 DEF Restart, InProgress, Ended, NewCall
    <2>3. QED  BY <2>1, <2>2 DEF MissedInv
  <1>3. CASE UNCHANGED vars
    BY <1>3 DEF vars, MissedInv
  <1>4. ASSUME NEW t \in Tickets, SubmitTicket(t)
        PROVE  MissedInv'
    BY <1>4, MissedSubmit
  <1>5. QED  BY <1>1, <1>2, <1>3, <1>4 DEF Next

\* As long as requests do not overlap, two tickets that fit each other wait side
\* by side only if the enclave sent the later one back.
THEOREM NoPairMissed == Spec => []NoMissedPair
  <1>1. Init => MissedInv
    <2> SUFFICES ASSUME Init PROVE MissedInv
      OBVIOUS
    <2>1. DOMAIN queue = {}
      BY EmptySeq, LenProperties DEF Init
    <2>2. QED  BY <2>1 DEF Init, MissedInv, NewCall
  <1>2. OnceInv /\ MissedInv /\ [Next]_vars => MissedInv'
    BY MissedNext
  <1>3. MissedInv => NoMissedPair
    BY DEF MissedInv, NoMissedPair
  <1>4. QED  BY OnceInductive, <1>1, <1>2, <1>3, PTL DEF Spec

-----------------------------------------------------------------------------
(* Both delegations are pinned.                                            *)

Pins(p) == {<<p, "buy">>, <<p, "sell">>}

\* A session has both snapshots, or a call that is taking them.
PinInv ==
  faults = 0 =>
    /\ \A p \in sessions :
         \/ Pins(p) \subseteq pinned
         \/ \E u \in Tickets :
              call[u].pc \in {"pinBuy", "pinSell"} /\ p = <<Buy(u), Sell(u)>>
    /\ \A u \in Tickets :
         call[u].pc = "pinSell" => <<<<Buy(u), Sell(u)>>, "buy">> \in pinned

\* A step of a call that is not at its snapshots.
LEMMA PinQuiet ==
  ASSUME PinInv, NEW t \in Tickets, call[t].pc \notin {"pinBuy", "pinSell"},
         \A u \in Tickets \ {t} :
           call'[u] = call[u] /\ Buy(u)' = Buy(u) /\ Sell(u)' = Sell(u),
         call'[t].pc # "pinSell",
         UNCHANGED <<pinned, faults>>,
         \A p \in sessions' \ sessions :
           call'[t].pc = "pinBuy" /\ p = <<Buy(t), Sell(t)>>'
  PROVE  PinInv'
  BY DEF PinInv, Pins

LEMMA PinSnapshot ==
  ASSUME OnceInv, PinInv, NEW t \in Tickets, NEW side \in {"buy", "sell"},
         SetSessionDelegation(t, side), faults' = 0
  PROVE  PinInv'
  <1> DEFINE p == <<Buy(t), Sell(t)>>
  <1>0. TypeOK /\ faults \in Nat
    BY PairingAssumption DEF OnceInv, VerifiedInv, TypeOK
  <1>1. /\ pinned' = pinned \cup {<<p, side>>} /\ faults = 0
        /\ sessions' = sessions
    BY <1>0 DEF SetSessionDelegation, Fault
  <1>2. CASE side = "buy"
    <2>1. call[t].pc = "pinBuy" /\ Goto(t, "pinSell")
      BY <1>2 DEF SetSessionDelegation
    <2>2. /\ \A u \in Tickets : Buy(u)' = Buy(u) /\ Sell(u)' = Sell(u)
          /\ \A u \in Tickets \ {t} : call'[u] = call[u]
          /\ call'[t].pc = "pinSell"
      BY <1>0, <2>1, CallGoesOn DEF CallStates
    <2>3. \A q \in sessions :
            \/ Pins(q) \subseteq pinned
            \/ \E u \in Tickets :
                 call[u].pc \in {"pinBuy", "pinSell"} /\ q = <<Buy(u), Sell(u)>>
      BY <1>1 DEF PinInv
    <2>4. \A u \in Tickets :
            call[u].pc \in {"pinBuy", "pinSell"} =>
              call'[u].pc \in {"pinBuy", "pinSell"}
      BY <2>2
    <2>5. \A q \in sessions' :
            \/ Pins(q) \subseteq pinned'
            \/ \E u \in Tickets :
                 /\ call'[u].pc \in {"pinBuy", "pinSell"}
                 /\ q = <<Buy(u), Sell(u)>>'
      BY <1>1, <2>2, <2>3, <2>4
    <2>6. \A u \in Tickets :
            call'[u].pc = "pinSell" => <<<<Buy(u), Sell(u)>>', "buy">> \in pinned'
      BY <1>1, <1>2, <2>2 DEF PinInv
    <2>7. QED  BY <2>5, <2>6 DEF PinInv, Pins
  <1>3. CASE side = "sell"
    <2>1. call[t].pc = "pinSell" /\ Finish(t, "done")
      BY <1>3 DEF SetSessionDelegation
    <2>2. /\ \A u \in Tickets \ {t} :
               call'[u] = call[u] /\ Buy(u)' = Buy(u) /\ Sell(u)' = Sell(u)
          /\ call'[t].pc = "done"
      BY <1>0, <2>1, CallEnds DEF CallStates
    <2>3. Pins(p) \subseteq pinned'
      BY <1>1, <1>3, <2>1 DEF PinInv, Pins
    <2> HIDE DEF p
    <2>4. \A q \in sessions :
            \/ Pins(q) \subseteq pinned
            \/ q = p
            \/ \E u \in Tickets \ {t} :
                 call[u].pc \in {"pinBuy", "pinSell"} /\ q = <<Buy(u), Sell(u)>>
      BY <1>1 DEF PinInv, p
    <2>5. \A q \in sessions' :
            \/ Pins(q) \subseteq pinned'
            \/ \E u \in Tickets :
                 /\ call'[u].pc \in {"pinBuy", "pinSell"}
                 /\ q = <<Buy(u), Sell(u)>>'
      BY <1>1, <2>2, <2>3, <2>4
    <2>6. \A u \in Tickets :
            call'[u].pc = "pinSell" => <<<<Buy(u), Sell(u)>>', "buy">> \in pinned'
      BY <1>1, <2>2 DEF PinInv
    <2>7. QED  BY <2>5, <2>6 DEF PinInv, Pins
  <1>4. QED  BY <1>2, <1>3

LEMMA PinNext ==
  ASSUME OnceInv, PinInv, [Next]_vars
  PROVE  PinInv'
  <1> SUFFICES ASSUME faults' = 0 PROVE PinInv'
    BY DEF PinInv
  <1>0. TypeOK /\ faults \in Nat
    BY PairingAssumption DEF OnceInv, VerifiedInv, TypeOK
  <1>1. ~Fault
    BY <1>0 DEF Fault
  <1>2. ASSUME NEW t \in Tickets, SubmitTicket(t)
        PROVE  PinInv'
    <2>1. /\ call[t].pc = "idle" /\ UNCHANGED <<sessions, pinned, faults>>
          /\ \A u \in Tickets \ {t} : call'[u] = call[u]
      BY <1>0, <1>2 DEF SubmitTicket, Finish, TypeOK
    <2>2. \A u \in Tickets \ {t} : Buy(u)' = Buy(u) /\ Sell(u)' = Sell(u)
      BY <2>1 DEF Buy, Sell
    <2>3. call'[t].pc # "pinSell"
      <3>1. CASE call' = [call EXCEPT ![t] = FirstCandidate(t)]
        <4>1. call'[t] = FirstCandidate(t) /\ queue \in Seq(Tickets)
          BY <1>0, <3>1 DEF TypeOK
        <4>2. CASE FirstCandidate(t) = NewCall(t, "push")
          BY <4>1, <4>2 DEF NewCall
        <4>3. CASE \E k \in DOMAIN queue :
                FirstCandidate(t) = [pc |-> "verify", at |-> k, other |-> queue[k]]
          BY <4>1, <4>3
        <4>4. QED  BY <4>1, <4>2, <4>3, ScanFinds
      <3>2. CASE Finish(t, "refused")
        BY <1>0, <3>2, CallEnds DEF CallStates
      <3>3. QED  BY <1>2, <3>1, <3>2 DEF SubmitTicket
    <2>4. QED  BY <2>1, <2>2, <2>3, PinQuiet
  <1>3. ASSUME NEW t \in Tickets, Step(t)
        PROVE  PinInv'
    <2>1. CASE PushTicket(t)
      <3>1. /\ call[t].pc = "push" /\ Finish(t, "done")
            /\ UNCHANGED <<sessions, pinned, faults>>
        BY <2>1 DEF PushTicket
      <3>2. QED  BY <1>0, <3>1, CallEnds, PinQuiet DEF CallStates
    <2>2. CASE PairVerified(t) \/ PairRejected(t)
      <3>1. /\ call[t].pc = "verify" /\ (Goto(t, "create") \/ Goto(t, "push"))
            /\ UNCHANGED <<sessions, pinned, faults>>
        BY <2>2 DEF PairVerified, PairRejected
      <3>2. QED  BY <1>0, <3>1, CallGoesOn, PinQuiet DEF CallStates
    <2>3. CASE CreateSession(t)
      <3>1. /\ call[t].pc = "create" /\ Goto(t, "pinBuy")
            /\ sessions' = sessions \cup {<<Buy(t), Sell(t)>>}
            /\ UNCHANGED <<pinned, faults>>
        BY <2>3 DEF CreateSession
      <3>2. /\ \A u \in Tickets : Buy(u)' = Buy(u) /\ Sell(u)' = Sell(u)
            /\ \A u \in Tickets \ {t} : call'[u] = call[u]
            /\ call'[t].pc = "pinBuy"
        BY <1>0, <3>1, CallGoesOn DEF CallStates
      <3>3. QED  BY <3>1, <3>2, PinQuiet
    <2>4. ASSUME NEW side \in {"buy", "sell"}, SetSessionDelegation(t, side)
          PROVE  PinInv'
      BY <2>4, PinSnapshot
    <2>5. ~VerifyPairFails(t) /\ ~CreateSessionFails(t)
      BY <1>1 DEF VerifyPairFails, CreateSessionFails
    <2>6. QED
      BY <1>3, <2>1, <2>2, <2>3, <2>4, <2>5 DEF Step
  <1>4. ~Restart
    BY <1>1 DEF Restart
  <1>5. CASE UNCHANGED vars
    BY <1>5 DEF vars, PinInv, Buy, Sell
  <1>6. QED  BY <1>2, <1>3, <1>4, <1>5 DEF Next

\* As long as no call fails, a session that no call is working on carries both
\* delegations.
THEOREM DelegationsPinned == Spec => []BothSidesPinned
  <1>1. Init => PinInv
    BY DEF Init, PinInv, NewCall
  <1>2. OnceInv /\ PinInv /\ [Next]_vars => PinInv'
    BY PinNext
  <1>3. PinInv => BothSidesPinned
    BY DEF PinInv, BothSidesPinned, Pins, InProgress, Ended
  <1>4. QED  BY OnceInductive, <1>1, <1>2, <1>3, PTL DEF Spec
=============================================================================
