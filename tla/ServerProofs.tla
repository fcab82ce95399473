---------------------------- MODULE ServerProofs ----------------------------
(***************************************************************************)
(* Theorems about the server process, for any number of roots, requests    *)
(* and clients that leave.                                                 *)
(*                                                                         *)
(* The process only restricts and orders the steps of the pool, so that    *)
(* the pool's invariant holds in it; ServerInv adds what each phase on the *)
(* way down has established.                                               *)
(***************************************************************************)
EXTENDS Server, PoolProofs

\* The drain starts only after axum has returned.
DrainComesLater ==
  phase \in {"serving", "stopping"} => \A t \in Drainers : At(t, "idle")

\* From then on the requests that are not lost are answered, or never came.
HandlersReturned ==
  phase \notin {"serving", "stopping"} =>
    \A t \in Requests \ gone : pc[t] \in {"idle", "done"}

\* What is registered and no lost client's is still on the list of the drain.
DrainCoversRegistered ==
  (\E t \in Drainers : ~At(t, "idle")) =>
    \A i \in Ids : entries[i] # NoWs => entries[i] \in gone \/ i \in drainIds

\* A list that is not empty is being worked on.
DrainHasThread ==
  drainIds # {} => \E t \in Drainers : pc[t] \notin {"idle", "done"}

\* main waits for the drain before it lets go of the guard.
DrainAwaited ==
  phase \in {"released", "closing", "exited"} => \A t \in Drainers : At(t, "done")

\* The runtime has joined the blocking tasks.
TasksJoined ==
  phase = "exited" => \A t \in Threads : pc[t] \in {"idle", "spawned", "working", "done"}

Phases == {"serving", "stopping", "draining", "released", "closing", "exited"}

\* What the process adds to the invariant of the pool.
PhaseInv ==
  /\ phase \in Phases
  /\ gone \subseteq Requests
  /\ DrainComesLater
  /\ HandlersReturned
  /\ DrainCoversRegistered
  /\ DrainHasThread
  /\ DrainAwaited
  /\ TasksJoined

ServerInv == IInv /\ PhaseInv

-----------------------------------------------------------------------------
(* The process runs the pool. *)

\* A step of the process is a step of the pool or leaves it alone.
LEMMA StepOfPool ==
  ASSUME ServerNext
  PROVE  Next \/ UNCHANGED vars
<1>1. CASE Accept \/ \E t \in Drainers : DrainBegin(t)
  BY <1>1 DEF Accept, DrainBegin, Next, Arrive
<1>2. CASE Tick \/ SweepOn
  BY <1>2 DEF Tick, SweepOn, Running, Next, SweepStep
<1>3. CASE \/ Running(\E r \in Creates : CreateStep(r))
           \/ Running(\E d \in Deletes : Delete(d))
           \/ Running(\E u \in Uses : UseStep(u))
           \/ Running(\E t \in Requests : Touch(t))
           \/ Running(\E t \in Drainers : DrainStep(t))
           \/ Running(\E t \in Threads : ShutdownStep(t))
           \/ Running(Environment)
  BY <1>3 DEF Running, Next
<1>4. CASE \/ \E t \in Requests : Disconnect(t)
           \/ Interrupt \/ ServeReturns \/ ReleaseGuard \/ Close \/ Exit \/ Exited
  BY <1>4 DEF Disconnect, Interrupt, ServeReturns, ReleaseGuard, Close, Exit, Exited, allVars
<1> QED
  BY <1>1, <1>2, <1>3, <1>4 DEF ServerNext

\* Seen without its phases, the server process is the pool: whatever is proved of the pool
\* holds while it serves, goes down and is interrupted, with every client free to leave.
THEOREM ServerImplementsPool == ServerSpec => Spec
<1>1. ServerInit => Init
  BY DEF ServerInit
<1>2. [ServerNext]_allVars => [Next]_vars
  BY StepOfPool DEF allVars
<1> QED
  BY <1>1, <1>2, PTL DEF ServerSpec, Spec

-----------------------------------------------------------------------------
(* The phases establish what they promise. *)

\* Nothing is registered, drained or under way when the process starts.
LEMMA InitServerInv == ServerInit => ServerInv
<1> SUFFICES ASSUME ServerInit PROVE ServerInv
  OBVIOUS
<1>1. IInv
  BY InitInv DEF ServerInit
<1>2. PhaseInv
  BY ThreadsDisjoint
     DEF ServerInit, Init, PhaseInv, Phases, DrainComesLater, HandlersReturned,
         DrainCoversRegistered, DrainHasThread, DrainAwaited, TasksJoined, At, Threads
<1> QED
  BY <1>1, <1>2 DEF ServerInv

\* A request's own step: after the drain has begun only a lost client's create can
\* still register a workspace.
LEMMA RequestPhaseInv ==
  ASSUME ServerInv, NEW t \in Requests, phase # "exited", UNCHANGED serverVars,
         \/ t \in Creates /\ CreateStep(t)
         \/ t \in Deletes /\ Delete(t)
         \/ t \in Uses /\ UseStep(t)
         \/ Touch(t)
         \/ ShutdownStep(t)
  PROVE  PhaseInv'
<1> USE ThreadsDisjoint DEF ServerInv, PhaseInv, Phases, IInv, TypeOK, Workspaces,
      Requests, Threads, At, Goto, serverVars
<1>1. /\ pc[t] \notin {"idle", "done"}
      /\ \A v \in Threads \ {t} : pc'[v] = pc[v]
      /\ drainIds' = drainIds
  BY SMTT(20)
     DEF CreateStep, CreateRecheck, OpenFrecency, OpenQueries, StartPicker, CreateFails,
         Install, Get, OpenDatabase, Delete, RemoveEntry, UseStep, UseRead, TrackBegin,
         TrackEnd, UseRescan, Touch, ShutdownStep, StopWatches, DestroyFrecency,
         DestroyQueries
<1>2. \/ \A i \in Ids : entries'[i] \in {entries[i], NoWs}
      \/ t \in Creates /\ \A i \in Ids : entries'[i] \in {entries[i], t}
  BY SMTT(20)
     DEF CreateStep, CreateRecheck, OpenFrecency, OpenQueries, StartPicker, CreateFails,
         Install, Delete, RemoveEntry, UseStep, UseRead, TrackBegin, TrackEnd, UseRescan,
         Touch, ShutdownStep, StopWatches, DestroyFrecency, DestroyQueries
<1>3. t \notin Drainers
  OBVIOUS
<1>4. DrainComesLater'
  BY <1>1, <1>3 DEF DrainComesLater
<1>5. HandlersReturned'
  BY <1>1 DEF HandlersReturned
<1>6. DrainCoversRegistered'
  BY <1>1, <1>2, <1>3 DEF DrainCoversRegistered, DrainComesLater, HandlersReturned
<1>7. DrainHasThread'
  BY <1>1, <1>3 DEF DrainHasThread
<1>8. DrainAwaited' /\ TasksJoined'
  BY <1>1, <1>3 DEF DrainAwaited, TasksJoined
<1> QED
  BY <1>4, <1>5, <1>6, <1>7, <1>8

\* The sweep only takes entries out, and no request moves.
LEMMA SweepPhaseInv ==
  ASSUME ServerInv, phase # "exited", UNCHANGED serverVars,
         SweepStep \/ ShutdownStep(Sweeper)
  PROVE  PhaseInv'
<1> USE ThreadsDisjoint DEF ServerInv, PhaseInv, Phases, IInv, TypeOK, Workspaces,
      Requests, Threads, At, Goto, serverVars
<1>1. /\ \A v \in Threads \ {Sweeper} : pc'[v] = pc[v]
      /\ drainIds' = drainIds
      /\ \A i \in Ids : entries'[i] \in {entries[i], NoWs}
  BY SMTT(20)
     DEF SweepStep, SweepBegin, SweepEnd, SweepJudge, SweepEvict, SweepRescan, SweepPick,
         RemoveEntry, ShutdownStep, StopWatches, DestroyFrecency, DestroyQueries
<1>2. DrainComesLater' /\ HandlersReturned'
  BY <1>1 DEF DrainComesLater, HandlersReturned
<1>3. DrainCoversRegistered'
  BY <1>1 DEF DrainCoversRegistered
<1>4. DrainHasThread' /\ DrainAwaited' /\ TasksJoined'
  BY <1>1 DEF DrainHasThread, DrainAwaited, TasksJoined
<1> QED
  BY <1>2, <1>3, <1>4

\* The drain begins with all that is registered and takes each entry out with its id.
LEMMA DrainPhaseInv ==
  ASSUME ServerInv, NEW t \in Drainers, phase # "exited", UNCHANGED serverVars,
         DrainBegin(t) \/ DrainStep(t) \/ ShutdownStep(t)
  PROVE  PhaseInv'
<1> USE ThreadsDisjoint DEF ServerInv, PhaseInv, Phases, IInv, TypeOK, PcByKind,
      Workspaces, Requests, Threads, At, Goto, serverVars
<1>1. CASE DrainBegin(t)
  <2>1. /\ phase = "draining"
        /\ pc' = [pc EXCEPT ![t] = "drain"]
        /\ drainIds' = {i \in Ids : entries[i] # NoWs}
        /\ entries' = entries
    BY <1>1 DEF DrainBegin, ShutdownAll
  <2> QED
    BY <2>1
       DEF DrainComesLater, HandlersReturned, DrainCoversRegistered, DrainHasThread,
           DrainAwaited, TasksJoined
<1>2. CASE DrainStep(t) \/ ShutdownStep(t)
  <2>1. /\ pc[t] \notin {"idle", "done"}
        /\ \A v \in Threads \ {t} : pc'[v] = pc[v]
        /\ \A i \in Ids : entries'[i] \in {entries[i], NoWs}
        /\ drainIds' \subseteq drainIds
        /\ \A i \in drainIds : i \in drainIds' \/ entries'[i] = NoWs
        /\ pc'[t] # "idle"
        /\ pc'[t] = "done" => drainIds' = {}
    BY <1>2, SMTT(30)
       DEF DrainStep, DrainNext, DrainEnd, RemoveEntry, ShutdownStep, StopWatches,
           DestroyFrecency, DestroyQueries, AfterShutdown
  <2>2. DrainComesLater' /\ HandlersReturned'
    BY <2>1 DEF DrainComesLater, HandlersReturned
  <2>3. DrainCoversRegistered'
    BY <2>1 DEF DrainCoversRegistered
  <2>4. DrainHasThread' /\ DrainAwaited' /\ TasksJoined'
    BY <2>1 DEF DrainHasThread, DrainAwaited, TasksJoined
  <2> QED
    BY <2>2, <2>3, <2>4
<1> QED
  BY <1>1, <1>2

\* While the process serves nothing has been drained, so a request may come in.
LEMMA AcceptPhaseInv ==
  ASSUME ServerInv, Accept
  PROVE  PhaseInv'
<1> USE ThreadsDisjoint DEF ServerInv, PhaseInv, Phases, IInv, TypeOK, Workspaces,
      Requests, Threads, At, Goto, serverVars
<1>1. /\ phase = "serving" /\ UNCHANGED serverVars
      /\ UNCHANGED <<entries, drainIds>>
      /\ \A v \in Drainers : pc'[v] = pc[v]
  BY SMTT(20) DEF Accept, CreateLookup, DeleteArrive, UseLookup, Get
<1> QED
  BY <1>1
     DEF DrainComesLater, HandlersReturned, DrainCoversRegistered, DrainHasThread,
         DrainAwaited, TasksJoined

\* Each step of main waits for what the next phase promises, and a client that leaves
\* changes nothing else.
LEMMA MainPhaseInv ==
  ASSUME ServerInv,
         \/ \E t \in Requests : Disconnect(t)
         \/ Interrupt \/ ServeReturns \/ ReleaseGuard \/ Close \/ Exit
         \/ UNCHANGED allVars
  PROVE  PhaseInv'
<1> USE ThreadsDisjoint DEF ServerInv, PhaseInv, Phases, IInv, TypeOK, Workspaces,
      Requests, Threads, At, vars
<1>1. DrainComesLater' /\ HandlersReturned' /\ phase' \in Phases /\ gone' \subseteq Requests
  BY SMTT(20)
     DEF DrainComesLater, HandlersReturned, Disconnect, Interrupt, ServeReturns,
         ReleaseGuard, Close, Exit, allVars, serverVars
<1>2. DrainCoversRegistered' /\ DrainHasThread'
  BY SMTT(20)
     DEF DrainCoversRegistered, DrainHasThread, Disconnect, Interrupt, ServeReturns,
         ReleaseGuard, Close, Exit, allVars, serverVars
<1>3. DrainAwaited' /\ TasksJoined'
  BY SMTT(20)
     DEF DrainAwaited, TasksJoined, Disconnect, Interrupt, ServeReturns,
         ReleaseGuard, Close, Exit, allVars, serverVars
<1> QED
  BY <1>1, <1>2, <1>3

\* The clock and the engine move no thread and no entry.
LEMMA EnvironmentPhaseInv ==
  ASSUME ServerInv, Environment, UNCHANGED serverVars
  PROVE  PhaseInv'
<1>1. UNCHANGED <<entries, pc, drainIds, phase, gone>>
  BY DEF Environment, GoIdle, BecomeWarm, LastDrop, serverVars
<1> QED
  BY <1>1
     DEF ServerInv, PhaseInv, DrainComesLater, HandlersReturned, DrainCoversRegistered,
         DrainHasThread, DrainAwaited, TasksJoined, At

\* Every step of the process keeps what the pool and the phases promise.
LEMMA StepServerInv == ServerInv /\ [ServerNext]_allVars => ServerInv'
<1> SUFFICES ASSUME ServerInv, [ServerNext]_allVars PROVE ServerInv'
  OBVIOUS
<1>1. IInv'
  BY StepOfPool, StepInv DEF ServerInv, allVars
<1>2. PhaseInv'
  <2>1. CASE Accept
    BY <2>1, AcceptPhaseInv
  <2>2. CASE \/ Running(\E r \in Creates : CreateStep(r))
             \/ Running(\E d \in Deletes : Delete(d))
             \/ Running(\E u \in Uses : UseStep(u))
             \/ Running(\E t \in Requests : Touch(t))
    BY <2>2, RequestPhaseInv DEF Running, Requests
  <2>3. CASE Running(\E t \in Threads : ShutdownStep(t))
    BY <2>3, RequestPhaseInv, SweepPhaseInv, DrainPhaseInv DEF Running, Threads
  <2>4. CASE Tick \/ SweepOn
    BY <2>4, SweepPhaseInv DEF Tick, SweepOn, Running, SweepStep
  <2>5. CASE \/ Running(\E t \in Drainers : DrainStep(t))
             \/ \E t \in Drainers : DrainBegin(t)
    BY <2>5, DrainPhaseInv DEF Running, DrainBegin
  <2>6. CASE Running(Environment)
    BY <2>6, EnvironmentPhaseInv DEF Running
  <2>7. CASE \/ \E t \in Requests : Disconnect(t)
             \/ Interrupt \/ ServeReturns \/ ReleaseGuard \/ Close \/ Exit
             \/ Exited \/ UNCHANGED allVars
    BY <2>7, MainPhaseInv DEF Exited
  <2> QED
    BY <2>1, <2>2, <2>3, <2>4, <2>5, <2>6, <2>7 DEF ServerNext
<1> QED
  BY <1>1, <1>2 DEF ServerInv

\* Whatever the process does, every phase of its way down has established what the next
\* one relies on.
THEOREM SpecServerInv == ServerSpec => []ServerInv
<1> QED
  BY InitServerInv, StepServerInv, PTL DEF ServerSpec

-----------------------------------------------------------------------------
(* What the way down leaves behind. *)

\* Every variable of the process keeps its type.
THEOREM SpecServerTypeOK == ServerSpec => []ServerTypeOK
<1>1. ServerInv => ServerTypeOK
  BY DEF ServerInv, PhaseInv, IInv, ServerTypeOK, Phases
<1> QED
  BY <1>1, SpecServerInv, PTL

\* Once the drain has been awaited, what is still registered is a lost client's.
LEMMA DrainedRegistry ==
  ASSUME ServerInv, phase \in {"released", "closing", "exited"}, Drainers # {},
         NEW w \in Registered
  PROVE  w \in gone
<1>1. PICK i \in Ids : entries[i] = w /\ w # NoWs
  BY DEF Registered
<1>2. drainIds = {}
  BY DEF ServerInv, PhaseInv, DrainHasThread, DrainAwaited, At
<1> QED
  BY <1>1, <1>2
     DEF ServerInv, PhaseInv, DrainCoversRegistered, DrainAwaited, At

\* What is open is owned, if destroying a handle cannot fail.
LEMMA OpenIsOwned ==
  ASSUME ServerInv, "failed" \notin DestroyOutcomes, NEW w \in Workspaces, Open(w)
  PROVE  Owned(w)
BY DEF ServerInv, IInv, NoOrphanedIndex, HandlesAccountedFor, NoOrphanedHandle, Open

\* A server that drains lets go of the guard with nothing open but what a task that
\* nobody waited for holds.
THEOREM SpecLeftoverIsUnawaited ==
  ASSUME "failed" \notin DestroyOutcomes, Drainers # {}
  PROVE  ServerSpec => []LeftoverIsUnawaited
<1>1. ServerInv => LeftoverIsUnawaited
  <2> SUFFICES ASSUME ServerInv, phase \in {"released", "closing"},
                      NEW w \in Workspaces, Open(w)
               PROVE  \/ w \in gone
                      \/ \E t \in gone \cup {Sweeper} : ShuttingDown(t) /\ Victim(t) = w
    BY DEF LeftoverIsUnawaited
  <2>1. CASE w \in Registered
    BY <2>1, DrainedRegistry
  <2>2. CASE Building(w)
    BY <2>2 DEF ServerInv, PhaseInv, HandlersReturned, Building, Workspaces, Requests
  <2>3. CASE \E t \in Threads : ShuttingDown(t) /\ Victim(t) = w
    <3>1. PICK t \in Threads : ShuttingDown(t) /\ Victim(t) = w
      BY <2>3
    <3>2. t \notin Drainers
      BY <3>1 DEF ServerInv, PhaseInv, DrainAwaited, ShuttingDown, At
    <3>3. t \in Requests => t \in gone
      BY <3>1 DEF ServerInv, PhaseInv, HandlersReturned, ShuttingDown
    <3> QED
      BY <3>1, <3>2, <3>3 DEF Threads
  <2> QED
    BY <2>1, <2>2, <2>3, OpenIsOwned DEF Owned
<1> QED
  BY <1>1, SpecServerInv, PTL

\* A server that drains and exits leaves nothing open but what a lost client's create
\* registered behind the drain.
THEOREM SpecExitCloses ==
  ASSUME "failed" \notin DestroyOutcomes, Drainers # {}
  PROVE  ServerSpec => []ExitCloses
<1>1. ServerInv => ExitCloses
  <2> SUFFICES ASSUME ServerInv, phase = "exited", NEW w \in Workspaces, Open(w)
               PROVE  w \in gone /\ w \in Registered
    BY DEF ExitCloses
  <2>1. \A t \in Threads : pc[t] \in {"idle", "spawned", "working", "done"}
    BY DEF ServerInv, PhaseInv, TasksJoined
  <2>2. ~Building(w) /\ \A t \in Threads : ~ShuttingDown(t)
    BY <2>1 DEF Building, ShuttingDown, Workspaces, Threads, Requests
  <2>3. w \in Registered
    BY <2>2, OpenIsOwned DEF Owned
  <2> QED
    BY <2>3, DrainedRegistry
<1> QED
  BY <1>1, SpecServerInv, PTL

=============================================================================
