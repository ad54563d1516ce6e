---------------------------- MODULE HostedAgents ----------------------------
(***************************************************************************)
(* ChildProcessHostedAgentService for one hosted agent: the operator's     *)
(* start and stop requests, the child processes they spawn and kill, and   *)
(* the exit events Node delivers.                                          *)
(*                                                                         *)
(* runtimeStates maps the agent to one state object at a time.  A state    *)
(* object is made by a spawn and names that child, so it is identified     *)
(* with the child: `current` is the object in the map, `attached` the      *)
(* objects whose `child` field is still set.  A stop keeps the object it   *)
(* read across its awaits; an exit handler reads the map when it runs.     *)
(*                                                                         *)
(* A start awaits between its check and its spawn, so two may overlap.     *)
(* Agents share nothing here, so one is enough.                            *)
(***************************************************************************)
EXTENDS Naturals, FiniteSets

CONSTANTS
  Children,   \* the processes the service may spawn
  Starts,     \* POST /hosted-agents/:id/start requests
  Stops,      \* POST /hosted-agents/:id/stop requests, and the shutdown's
  NoChild,
  MaxCrashes  \* bound on deaths of the backend process

ASSUME ConstantsAssumption ==
  /\ NoChild \notin Children
  /\ MaxCrashes \in Nat

VARIABLES
  child,     \* the operating system's view of each process
  killed,    \* processes SIGKILL was sent to
  current,   \* runtimeStates.get(id)
  attached,  \* the state objects whose `child` is not undefined
  start,     \* the next step of each start request
  stop,      \* the next step of each stop request, and its state object
  overlap,   \* history: two starts were past the check at once
  lateExit,  \* history: an exit was handled under another child's state
  crashes

vars == <<child, killed, current, attached, start, stop, overlap, lateExit,
          crashes>>

processVars == <<child, killed>>
serviceVars == <<current, attached>>
historyVars == <<overlap, lateExit, crashes>>

IdleStop == [pc |-> "idle", of |-> NoChild]

-----------------------------------------------------------------------------
Init ==
  /\ child = [c \in Children |-> "unused"]
  /\ killed = {}
  /\ current = NoChild
  /\ attached = {}
  /\ start = [r \in Starts |-> "idle"]
  /\ stop = [s \in Stops |-> IdleStop]
  /\ overlap = FALSE
  /\ lateExit = FALSE
  /\ crashes = 0

\* exitCode === null: no exit was delivered.  A spawn error sets the code.
ExitCodeNull(c) == child[c] \in {"running", "exited"}

\* state.child && state.child.exitCode === null, which is also what the
\* operator is shown as `running`.
Runs(c) == c \in attached /\ ExitCodeNull(c)

-----------------------------------------------------------------------------
(* startHostedAgent.                                                       *)

\* Settlement is ready and the record has been read: a start is ignored while
\* a runtime runs.
\* (Variant: there is no check.)
StartUnchecked(r) ==
  /\ start[r] = "idle"
  /\ start' = [start EXCEPT ![r] = "spawn"]
  /\ overlap' = (overlap \/ \E q \in Starts : start[q] = "spawn")
  /\ UNCHANGED <<processVars, serviceVars, stop, lateExit, crashes>>

StartChecked(r) ==
  /\ start[r] = "idle"
  /\ IF Runs(current)
     THEN /\ start' = [start EXCEPT ![r] = "ignored"]
          /\ UNCHANGED overlap
     ELSE /\ start' = [start EXCEPT ![r] = "spawn"]
          /\ overlap' = (overlap \/ \E q \in Starts : start[q] = "spawn")
  /\ UNCHANGED <<processVars, serviceVars, stop, lateExit, crashes>>

\* After the institution and its signing key: spawn and runtimeStates.set in
\* one step.  A failed spawn is reported later, with an exit code.
Spawn(r, c) ==
  /\ start[r] = "spawn"
  /\ child[c] = "unused"
  /\ \E how \in {"running", "failed"} : child' = [child EXCEPT ![c] = how]
  /\ current' = c
  /\ attached' = attached \cup {c}
  /\ start' = [start EXCEPT ![r] = "spawned"]
  /\ UNCHANGED <<killed, stop, historyVars>>

\* Any of the awaits may throw.
StartFails(r) ==
  /\ start[r] \in {"idle", "spawn"}
  /\ start' = [start EXCEPT ![r] = "refused"]
  /\ UNCHANGED <<processVars, serviceVars, stop, historyVars>>

-----------------------------------------------------------------------------
(* stopHostedAgent and terminateChildTree.                                 *)

\* The record has been read.  SIGTERM is sent and a second is waited for, or
\* there is nothing to kill.
StopBegun(s) ==
  /\ stop[s].pc = "idle"
  /\ IF Runs(current)
     THEN /\ stop' = [stop EXCEPT ![s] = [pc |-> "wait", of |-> current]]
          /\ UNCHANGED attached
     ELSE /\ stop' = [stop EXCEPT ![s].pc = "stopped"]
          /\ attached' = attached \ {current}
  /\ UNCHANGED <<processVars, current, start, historyVars>>

\* The second has passed: SIGKILL unless the child left with an exit code,
\* and the object is detached before the exit event that follows.
\* (Variant: nobody sends SIGKILL.)
StopWaitedOnly(s) ==
  LET c == stop[s].of IN
  /\ stop[s].pc = "wait"
  /\ attached' = attached \ {c}
  /\ stop' = [stop EXCEPT ![s].pc = "stopped"]
  /\ UNCHANGED <<processVars, current, start, historyVars>>

StopWaited(s) ==
  LET c == stop[s].of IN
  /\ stop[s].pc = "wait"
  /\ killed' = IF child[c] = "running" THEN killed \cup {c} ELSE killed
  /\ attached' = attached \ {c}
  /\ stop' = [stop EXCEPT ![s].pc = "stopped"]
  /\ UNCHANGED <<child, current, start, historyVars>>

-----------------------------------------------------------------------------
(* The processes.                                                          *)

\* A process ends: its ticks are used up, its session is over, it crashed,
\* or a signal ended it.
Exits(c) ==
  /\ child[c] = "running"
  /\ child' = [child EXCEPT ![c] = "exited"]
  /\ UNCHANGED <<killed, serviceVars, start, stop, historyVars>>

\* Node delivers the exit to the handler, which detaches the child of the
\* object it finds in the map.
ExitDelivered(c) ==
  /\ child[c] = "exited"
  /\ child' = [child EXCEPT ![c] = "gone"]
  /\ attached' = attached \ {current}
  /\ lateExit' = (lateExit \/ (current # c /\ current \in attached))
  /\ UNCHANGED <<killed, current, start, stop, overlap, crashes>>

\* The backend dies: the map and the requests are gone, a child may live on.
Crash ==
  /\ crashes < MaxCrashes
  /\ crashes' = crashes + 1
  /\ current' = NoChild
  /\ attached' = {}
  /\ start' = [r \in Starts |->
       IF start[r] = "spawn" THEN "refused" ELSE start[r]]
  /\ stop' = [s \in Stops |->
       IF stop[s].pc = "wait" THEN [stop[s] EXCEPT !.pc = "lost"] ELSE stop[s]]
  /\ \E gone \in SUBSET {c \in Children : child[c] = "running"} :
       child' = [c \in Children |->
         IF c \in gone \/ child[c] = "exited" THEN "gone" ELSE child[c]]
  /\ UNCHANGED <<killed, overlap, lateExit>>

-----------------------------------------------------------------------------
Next ==
  \/ \E r \in Starts :
       \/ StartChecked(r) \/ StartFails(r)
       \/ \E c \in Children : Spawn(r, c)
  \/ \E s \in Stops : StopBegun(s) \/ StopWaited(s)
  \/ \E c \in Children : Exits(c) \/ ExitDelivered(c)
  \/ Crash

Spec == Init /\ [][Next]_vars

\* The second of a stop passes, events are delivered and SIGKILL ends the
\* process.  One that was not killed need not end, and nobody has to ask for
\* anything.
Fairness ==
  /\ \A s \in Stops : WF_vars(StopWaited(s))
  /\ \A c \in Children :
       /\ WF_vars(c \in killed /\ Exits(c))
       /\ WF_vars(ExitDelivered(c))

FairSpec == Spec /\ Fairness

-----------------------------------------------------------------------------
(* Properties.                                                             *)

Alive(c) == child[c] = "running" /\ c \notin killed

\* Nothing happened that the code does not guard against: overlapping starts,
\* an exit that is delivered after the next start, the backend's death.
Calm == ~overlap /\ ~lateExit /\ crashes = 0

\* Type invariant.
TypeOK ==
  /\ child \in [Children -> {"unused", "running", "failed", "exited", "gone"}]
  /\ killed \subseteq {c \in Children : child[c] # "unused"}
  /\ current \in Children \cup {NoChild}
  /\ attached \subseteq Children
  /\ start \in [Starts -> {"idle", "spawn", "spawned", "ignored", "refused"}]
  /\ stop \in [Stops -> [pc : {"idle", "wait", "stopped", "lost"},
                         of : Children \cup {NoChild}]]
  /\ \A s \in Stops : stop[s].pc = "wait" => stop[s].of \in Children
  /\ overlap \in BOOLEAN /\ lateExit \in BOOLEAN
  /\ crashes \in 0 .. MaxCrashes

\* One agent has one runtime: while nothing unguarded happens, at most one
\* child lives that was not sent SIGKILL, and it is the one the map names and
\* the next stop will find, however starts, stops and exits interleave
\* (startHostedAgent, stopHostedAgent).
OneRuntime ==
  Calm => \A c \in Children : Alive(c) => c = current /\ Runs(c)

\* Even when starts overlap, the runtime spawned last stays in the operator's
\* hands: a stop that began before it does not detach it when its second has
\* passed (stopHostedAgent keeps the object it read).
LatestIsStoppable ==
  ~lateExit /\ crashes = 0 =>
    \A c \in Children : Alive(c) /\ c = current => Runs(c)

\* Once SIGTERM is sent the process ends, whatever starts, exits and other
\* stops do in the second that follows, unless the backend dies first
\* (terminateChildTree).
StopEndsProcess ==
  \A s \in Stops, c \in Children :
    stop[s] = [pc |-> "wait", of |-> c] ~> (child[c] # "running" \/ crashes > 0)
=============================================================================
