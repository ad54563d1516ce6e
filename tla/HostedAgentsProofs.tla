------------------------- MODULE HostedAgentsProofs -------------------------
(* Type correctness of HostedAgents and its two promises on the runtime of *)
(* an agent, for any processes, starts and stops.                          *)
EXTENDS HostedAgents, TLAPS

\* What a stop or the map names was spawned, so that a spawn's fresh process
\* is never the one an older stop detaches.
BornInv ==
  /\ current # NoChild => child[current] # "unused"
  /\ \A s \in Stops : stop[s].pc = "wait" => child[stop[s].of] # "unused"

\* While starts do not overlap, one that is past the check is alone, and no
\* process is alive until it spawns.
SpawnInv ==
  Calm => \A r \in Starts :
    start[r] = "spawn" =>
      /\ \A q \in Starts : start[q] = "spawn" => q = r
      /\ \A c \in Children : ~Alive(c)

RuntimeInv == TypeOK /\ BornInv /\ SpawnInv /\ OneRuntime /\ LatestIsStoppable

-----------------------------------------------------------------------------
(* Type correctness.                                                       *)

LEMMA TypeInit == Init => TypeOK
  <1> SUFFICES ASSUME Init PROVE TypeOK
    OBVIOUS
  <1>1. /\ stop \in [Stops -> [pc : {"idle", "wait", "stopped", "lost"},
                             of : Children \cup {NoChild}]]
        /\ \A s \in Stops : stop[s].pc # "wait"
    BY DEF Init, IdleStop
  <1>2. crashes \in 0 .. MaxCrashes
    BY ConstantsAssumption DEF Init
  <1>3. overlap \in BOOLEAN /\ lateExit \in BOOLEAN
    BY DEF Init
  <1>4. QED  BY <1>1, <1>2, <1>3 DEF Init, TypeOK

\* The map's object has a child when it runs.
LEMMA RunsIsChild ==
  ASSUME TypeOK, Runs(current)
  PROVE  current \in Children
  BY DEF TypeOK, Runs

LEMMA TypeNext ==
  ASSUME TypeOK, [Next]_vars
  PROVE  TypeOK'
  <1> USE DEF TypeOK, processVars, serviceVars, historyVars
  <1>1. ASSUME NEW r \in Starts, StartChecked(r)
        PROVE  TypeOK'
    BY <1>1 DEF StartChecked
  <1>2. ASSUME NEW r \in Starts, StartFails(r)
        PROVE  TypeOK'
    BY <1>2 DEF StartFails
  <1>3. ASSUME NEW r \in Starts, NEW c \in Children, Spawn(r, c)
        PROVE  TypeOK'
    BY <1>3 DEF Spawn
  <1>4. ASSUME NEW s \in Stops, StopBegun(s)
        PROVE  TypeOK'
    BY <1>4, RunsIsChild DEF StopBegun
  <1>5. ASSUME NEW s \in Stops, StopWaited(s)
        PROVE  TypeOK'
    BY <1>5 DEF StopWaited
  <1>6. ASSUME NEW c \in Children, Exits(c)
        PROVE  TypeOK'
    BY <1>6 DEF Exits
  <1>7. ASSUME NEW c \in Children, ExitDelivered(c)
        PROVE  TypeOK'
    BY <1>7 DEF ExitDelivered
  <1>8. CASE Crash
    <2>1. crashes' \in 0 .. MaxCrashes
      BY <1>8, ConstantsAssumption DEF Crash
    <2>2. start' \in [Starts -> {"idle", "spawn", "spawned", "ignored", "refused"}]
      BY <1>8 DEF Crash
    <2>3. /\ stop' \in [Stops -> [pc : {"idle", "wait", "stopped", "lost"},
                                  of : Children \cup {NoChild}]]
          /\ \A s \in Stops : stop'[s].pc # "wait"
      BY <1>8 DEF Crash
    <2>4. /\ child' \in [Children -> {"unused", "running", "failed", "exited", "gone"}]
          /\ killed' \subseteq {c \in Children : child'[c] # "unused"}
      BY <1>8 DEF Crash
    <2>5. QED  BY <1>8, <2>1, <2>2, <2>3, <2>4 DEF Crash
  <1>9. CASE UNCHANGED vars
    BY <1>9 DEF vars
  <1>10. QED
    BY <1>1, <1>2, <1>3, <1>4, <1>5, <1>6, <1>7, <1>8, <1>9 DEF Next

\* Type correctness: only spawned processes are killed, and a stop waits for
\* a process.
THEOREM TypeCorrect == Spec => []TypeOK
  <1>1. TypeOK /\ [Next]_vars => TypeOK'
    BY TypeNext
  <1>2. QED  BY TypeInit, <1>1, PTL DEF Spec

-----------------------------------------------------------------------------
(* One runtime, in the operator's hands.                                   *)

LEMMA RuntimeInit == Init => RuntimeInv
  BY TypeInit, ConstantsAssumption
     DEF Init, RuntimeInv, BornInv, SpawnInv, OneRuntime, LatestIsStoppable,
         Alive, Calm, IdleStop

\* What was spawned stays spawned.
LEMMA BornNext ==
  ASSUME RuntimeInv, [Next]_vars
  PROVE  BornInv'
  <1> USE DEF RuntimeInv, BornInv, TypeOK, processVars, serviceVars, historyVars
  <1>1. ASSUME NEW r \in Starts, StartChecked(r) \/ StartFails(r)
        PROVE  BornInv'
    BY <1>1 DEF StartChecked, StartFails
  <1>2. ASSUME NEW r \in Starts, NEW c \in Children, Spawn(r, c)
        PROVE  BornInv'
    BY <1>2 DEF Spawn
  <1>3. ASSUME NEW s \in Stops, StopBegun(s)
        PROVE  BornInv'
    BY <1>3, RunsIsChild, ConstantsAssumption DEF StopBegun
  <1>4. ASSUME NEW s \in Stops, StopWaited(s)
        PROVE  BornInv'
    BY <1>4 DEF StopWaited
  <1>5. ASSUME NEW c \in Children, Exits(c) \/ ExitDelivered(c)
        PROVE  BornInv'
    BY <1>5 DEF Exits, ExitDelivered
  <1>6. CASE Crash
    BY <1>6 DEF Crash
  <1>7. CASE UNCHANGED vars
    BY <1>7 DEF vars
  <1>8. QED  BY <1>1, <1>2, <1>3, <1>4, <1>5, <1>6, <1>7 DEF Next

\* No start passes the check while a process is alive, and none is spawned
\* but by the one start that is past it.
LEMMA SpawnNext ==
  ASSUME RuntimeInv, [Next]_vars
  PROVE  SpawnInv' /\ OneRuntime' /\ LatestIsStoppable'
  <1> DEFINE Goal == SpawnInv' /\ OneRuntime' /\ LatestIsStoppable'
  <1> USE DEF RuntimeInv, SpawnInv, OneRuntime, LatestIsStoppable, BornInv,
              TypeOK, Alive, Runs, ExitCodeNull, Calm, processVars,
              serviceVars, historyVars
  <1>1. ASSUME NEW r \in Starts, StartChecked(r)
        PROVE  Goal
    <2>1. CASE Runs(current)
      BY <1>1, <2>1 DEF StartChecked
    <2>2. CASE ~Runs(current)
      <3>1. Calm => \A c \in Children : ~Alive(c)
        BY <2>2
      <3>2. OneRuntime' /\ LatestIsStoppable'
        BY <1>1 DEF StartChecked
      <3>3. SpawnInv'
        BY <1>1, <2>2, <3>1 DEF StartChecked
      <3>4. QED  BY <3>2, <3>3
    <2>3. QED  BY <2>1, <2>2
  <1>2. ASSUME NEW r \in Starts, StartFails(r)
        PROVE  Goal
    BY <1>2 DEF StartFails
  <1>3. ASSUME NEW r \in Starts, NEW c \in Children, Spawn(r, c)
        PROVE  Goal
    BY <1>3 DEF Spawn
  <1>4. ASSUME NEW s \in Stops, StopBegun(s)
        PROVE  Goal
    BY <1>4 DEF StopBegun
  <1>5. ASSUME NEW s \in Stops, StopWaited(s)
        PROVE  Goal
    BY <1>5 DEF StopWaited
  <1>6. ASSUME NEW c \in Children, Exits(c)
        PROVE  Goal
    BY <1>6 DEF Exits
  <1>7. ASSUME NEW c \in Children, ExitDelivered(c)
        PROVE  Goal
    BY <1>7 DEF ExitDelivered
  <1>8. CASE Crash
    BY <1>8 DEF Crash
  <1>9. CASE UNCHANGED vars
    BY <1>9 DEF vars
  <1>10. QED
    BY <1>1, <1>2, <1>3, <1>4, <1>5, <1>6, <1>7, <1>8, <1>9 DEF Next

LEMMA RuntimeInductive == Spec => []RuntimeInv
  <1>1. RuntimeInv /\ [Next]_vars => RuntimeInv'
    BY TypeNext, BornNext, SpawnNext DEF RuntimeInv
  <1>2. QED  BY RuntimeInit, <1>1, PTL DEF Spec

\* One agent has one runtime, and the next stop finds it, as long as no two
\* starts overlap, no exit is late and the backend lives.
THEOREM SingleRuntime == Spec => []OneRuntime
  <1>1. RuntimeInv => OneRuntime
    BY DEF RuntimeInv
  <1>2. QED  BY RuntimeInductive, <1>1, PTL

\* The runtime spawned last can be stopped, overlapping starts or not.
THEOREM LatestStoppable == Spec => []LatestIsStoppable
  <1>1. RuntimeInv => LatestIsStoppable
    BY DEF RuntimeInv
  <1>2. QED  BY RuntimeInductive, <1>1, PTL
=============================================================================
