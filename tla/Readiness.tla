----------------------------- MODULE Readiness -----------------------------
(***************************************************************************)
(* The readiness of one workspace (src/src/workspace/mod.rs): the atomics  *)
(* ready_since and time_to_ready_ms, which Workspace::create gives their   *)
(* first values and every caller of progress() then updates from its own   *)
(* snapshot of the engine, and the two kinds of caller that ask for a      *)
(* rescan, POST rescan and the maintenance sweep.                          *)
(*                                                                         *)
(* No lock covers a snapshot and what is done with it, so each load,       *)
(* store, compare-exchange, engine call and reading of the clock is a      *)
(* step.  Instants are kept as ages, which a tick of the clock increases   *)
(* up to a bound: the model has no horizon.  The workspace stays in use,   *)
(* so it is not evicted.                                                   *)
(***************************************************************************)
EXTENDS Naturals

CONSTANTS
  Observers,    \* requests that report the workspace's progress
  Rescanners,   \* POST rescan requests
  Sweeper,      \* the maintenance task
  Creator,      \* the request that builds the workspace
  Interval,     \* rescan_interval(), in ticks
  Horizon       \* ages of the workspace are told apart up to this bound

Threads == Observers \cup Rescanners \cup {Sweeper}
Actors  == Threads \cup {Creator}

NotReady == Interval + 1

ASSUME Bounds ==
  /\ Interval \in Nat \ {0}
  /\ Horizon \in Nat \ {0}

ASSUME KindsDisjoint ==
  /\ Observers \cap Rescanners = {}
  /\ Sweeper \notin Observers \cup Rescanners
  /\ Creator \notin Threads

VARIABLES
  active,      \* the engine scans or builds the content index
  queued,      \* another scan follows the running one
  readySince,  \* age of ready_since, or NotReady
  ttr,         \* time_to_ready_ms, 0 while unknown
  life,        \* age of the workspace (origin.elapsed), at least 1
  warmedAt,    \* life when the first warmup ended, 0 before
  pc, goal,    \* where each thread is, and what it wants the progress for
  stamp,       \* age of the now_secs a thread has read and not yet used
  taken        \* the elapsed_ms an actor has read and not yet used

vars == <<active, queued, readySince, ttr, life, warmedAt, pc, goal, stamp, taken>>
engineVars == <<active, queued, warmedAt>>

Goals == {"report", "gate", "idleTimeout", "rescanInterval", "due", "rescan"}

Steps == {"create", "snapshot", "stamp", "idle", "read", "unready", "clock", "settle",
          "measure", "store", "decide", "trigger", "mark"}

TypeOK ==
  /\ active \in BOOLEAN /\ queued \in BOOLEAN
  /\ readySince \in 0..NotReady
  /\ ttr \in 0..Horizon /\ warmedAt \in 0..Horizon /\ life \in 1..Horizon
  /\ pc \in [Actors -> Steps]
  /\ goal \in [Threads -> Goals]
  /\ stamp \in [Threads -> 0..Interval]
  /\ taken \in [Actors -> 0..Horizon]

FirstGoal(t) ==
  IF t \in Observers THEN "report" ELSE IF t = Sweeper THEN "gate" ELSE "rescan"

\* Workspace::create has started the engine and waits for the stage asked for.
Init ==
  /\ active = TRUE /\ queued = FALSE
  /\ readySince = NotReady /\ ttr = 0
  /\ life = 1 /\ warmedAt = 0
  /\ pc = [a \in Actors |-> IF a = Creator THEN "create" ELSE "idle"]
  /\ goal = [t \in Threads |-> FirstGoal(t)]
  /\ stamp = [t \in Threads |-> 0]
  /\ taken = [a \in Actors |-> 0]

-----------------------------------------------------------------------------
At(t, step)   == pc[t] = step
Goto(t, step) == pc' = [pc EXCEPT ![t] = step]
Want(t, g)    == goal' = [goal EXCEPT ![t] = g]

\* What the caller does with a snapshot that was ready or not, once progress() has
\* returned.  The sweep asks four times before it decides, and rescan() asks again.
Ask(t, g) == Goto(t, "read") /\ Want(t, g)

Then(t, step) == Goto(t, step) /\ UNCHANGED goal

\* Mutated form: rescan() asks the engine whatever the snapshot says.
Returned_Unchecked(t, ready) ==
  \/ goal[t] = "report" /\ Then(t, "idle")
  \/ goal[t] = "gate" /\ ready /\ Ask(t, "idleTimeout")
  \/ goal[t] = "gate" /\ ~ready /\ Then(t, "idle")
  \/ goal[t] = "idleTimeout" /\ Ask(t, "rescanInterval")
  \/ goal[t] = "rescanInterval" /\ Ask(t, "due")
  \/ goal[t] = "due" /\ Then(t, IF ready THEN "decide" ELSE "idle")
  \/ goal[t] = "rescan" /\ Then(t, "trigger")

Returned(t, ready) ==
  \/ goal[t] = "report" /\ Then(t, "idle")
  \/ goal[t] = "gate" /\ ready /\ Ask(t, "idleTimeout")
  \/ goal[t] = "gate" /\ ~ready /\ Then(t, "idle")
  \/ goal[t] = "idleTimeout" /\ Ask(t, "rescanInterval")
  \/ goal[t] = "rescanInterval" /\ Ask(t, "due")
  \/ goal[t] = "due" /\ Then(t, IF ready THEN "decide" ELSE "idle")
  \/ goal[t] = "rescan" /\ Then(t, IF ready THEN "trigger" ELSE "idle")

\* Nobody reaches the workspace before create has returned it.
Begin(t) ==
  /\ At(Creator, "idle")
  /\ At(t, "idle")
  /\ Goto(t, "read")
  /\ Want(t, FirstGoal(t))
  /\ UNCHANGED <<engineVars, readySince, ttr, life, stamp, taken>>

-----------------------------------------------------------------------------
(* The end of Workspace::create, after its waits: the elapsed time is read  *)
(* first, then the engine, and the clock again for ready_since.             *)

CreateElapsed ==
  /\ At(Creator, "create")
  /\ taken' = [taken EXCEPT ![Creator] = life]
  /\ Goto(Creator, "snapshot")
  /\ UNCHANGED <<engineVars, readySince, ttr, life, goal, stamp>>

CreateSnapshot ==
  /\ At(Creator, "snapshot")
  /\ Goto(Creator, IF active THEN "idle" ELSE "stamp")
  /\ UNCHANGED <<engineVars, readySince, ttr, life, goal, stamp, taken>>

\* Only here is the workspace returned warm; ready_since counts from this reading.
CreateStamp ==
  /\ At(Creator, "stamp")
  /\ readySince' = 0
  /\ ttr' = taken[Creator]
  /\ Goto(Creator, "idle")
  /\ UNCHANGED <<engineVars, life, goal, stamp, taken>>

CreateReturns == CreateElapsed \/ CreateSnapshot \/ CreateStamp

-----------------------------------------------------------------------------
(* progress(): read the engine, then observe_readiness. *)

Read(t) ==
  /\ At(t, "read")
  /\ Goto(t, IF active THEN "unready" ELSE "clock")
  /\ UNCHANGED <<engineVars, readySince, ttr, life, goal, stamp, taken>>

StoreNotReady(t) ==
  /\ At(t, "unready")
  /\ readySince' = NotReady
  /\ Returned(t, FALSE)
  /\ UNCHANGED <<engineVars, ttr, life, stamp, taken>>

\* now_secs is read: from here on its age counts.
ReadClock(t) ==
  /\ At(t, "clock")
  /\ Goto(t, "settle")
  /\ UNCHANGED <<engineVars, readySince, ttr, life, goal, stamp, taken>>

\* Mutated form: ready_since is stored and not compare-exchanged.
Settle_Restamps(t) ==
  /\ At(t, "settle")
  /\ readySince' = stamp[t]
  /\ Goto(t, "measure")
  /\ stamp' = [stamp EXCEPT ![t] = 0]
  /\ UNCHANGED <<engineVars, ttr, life, goal, taken>>

\* The first to see the engine ready again starts the clock.
Settle(t) ==
  /\ At(t, "settle")
  /\ \/ /\ readySince = NotReady
        /\ readySince' = stamp[t]
        /\ Goto(t, "measure")
        /\ UNCHANGED goal
     \/ /\ readySince # NotReady
        /\ Returned(t, TRUE)
        /\ UNCHANGED readySince
  /\ stamp' = [stamp EXCEPT ![t] = 0]
  /\ UNCHANGED <<engineVars, ttr, life, taken>>

\* elapsed_ms is read.
Measure(t) ==
  /\ At(t, "measure")
  /\ taken' = [taken EXCEPT ![t] = life]
  /\ Goto(t, "store")
  /\ UNCHANGED <<engineVars, readySince, ttr, life, goal, stamp>>

\* Mutated form: the time to ready is stored whenever the clock starts.
StoreMeasured_Again(t) ==
  /\ At(t, "store")
  /\ ttr' = taken[t]
  /\ taken' = [taken EXCEPT ![t] = 0]
  /\ Returned(t, TRUE)
  /\ UNCHANGED <<engineVars, readySince, life, stamp>>

\* The compare-exchange: the first measurement stays.
StoreMeasured(t) ==
  /\ At(t, "store")
  /\ ttr' = IF ttr = 0 THEN taken[t] ELSE ttr
  /\ taken' = [taken EXCEPT ![t] = 0]
  /\ Returned(t, TRUE)
  /\ UNCHANGED <<engineVars, readySince, life, stamp>>

-----------------------------------------------------------------------------
(* Rescans. *)

\* rescan_is_due, on the snapshot and the ready_since of now; an age of Interval
\* stands for every age from there on.
Decide(t) ==
  /\ At(t, "decide")
  /\ \/ /\ readySince = Interval
        /\ Goto(t, "read")
        /\ Want(t, "rescan")
     \/ /\ readySince # Interval
        /\ Goto(t, "idle")
        /\ UNCHANGED goal
  /\ UNCHANGED <<engineVars, readySince, ttr, life, stamp, taken>>

\* The engine takes the request: at once, or after the scan that is running.
Triggered(t) ==
  /\ At(t, "trigger")
  /\ active' = TRUE
  /\ queued' = (queued \/ active)
  /\ Goto(t, "mark")
  /\ UNCHANGED <<warmedAt, readySince, ttr, life, goal, stamp, taken>>

Throttled(t) ==
  /\ At(t, "trigger")
  /\ Goto(t, "idle")
  /\ UNCHANGED <<engineVars, readySince, ttr, life, goal, stamp, taken>>

\* Mutated form: mark_scan_started puts the wall clock into ready_since.
Mark_WallClock(t) ==
  /\ At(t, "mark")
  /\ readySince' = NotReady + life
  /\ Goto(t, "idle")
  /\ UNCHANGED <<engineVars, ttr, life, goal, stamp, taken>>

\* mark_scan_started.
Mark(t) ==
  /\ At(t, "mark")
  /\ readySince' = NotReady
  /\ Goto(t, "idle")
  /\ UNCHANGED <<engineVars, ttr, life, goal, stamp, taken>>

-----------------------------------------------------------------------------
(* The engine and the clock. *)

ScanEnds ==
  /\ active
  /\ active' = queued
  /\ queued' = FALSE
  /\ warmedAt' = IF warmedAt = 0 /\ ~queued THEN life ELSE warmedAt
  /\ UNCHANGED <<readySince, ttr, life, pc, goal, stamp, taken>>

Older(age, bound) == IF age < bound THEN age + 1 ELSE age

Tick ==
  /\ life' = Older(life, Horizon)
  /\ readySince' = IF readySince = NotReady THEN NotReady ELSE Older(readySince, Interval)
  /\ stamp' = [t \in Threads |->
                 IF At(t, "settle") THEN Older(stamp[t], Interval) ELSE 0]
  /\ UNCHANGED <<active, queued, warmedAt, ttr, pc, goal, taken>>

-----------------------------------------------------------------------------
Progress(t) ==
  \/ Read(t) \/ StoreNotReady(t)
  \/ ReadClock(t) \/ Settle(t) \/ Measure(t) \/ StoreMeasured(t)

Rescan(t) == Decide(t) \/ Throttled(t) \/ Mark(t)

Next ==
  \/ CreateReturns
  \/ \E t \in Threads : Begin(t) \/ Progress(t) \/ Rescan(t) \/ Triggered(t)
  \/ ScanEnds
  \/ Tick

Spec == Init /\ [][Next]_vars

\* Create returns, its waits being bounded; threads run, time passes and a scan ends; the
\* sweep comes round again, clients need not; an engine that is asked again and again
\* takes a request at some point.
Fairness ==
  /\ WF_vars(CreateReturns)
  /\ \A t \in Threads : WF_vars(Progress(t) \/ Rescan(t) \/ Triggered(t))
  /\ WF_vars(Begin(Sweeper))
  /\ SF_vars(Triggered(Sweeper))
  /\ WF_vars(ScanEnds)
  /\ WF_vars(Tick)

FairSpec == Spec /\ Fairness

-----------------------------------------------------------------------------
(* Properties. *)

\* time_to_ready_ms is "actual time until content indexing completed": it is set
\* once, after the first warmup, though every later rescan makes the workspace ready
\* again, and any number of callers find it ready at once.  A caller of progress()
\* never records less than the warmup took, nor less than the wait of create.  Create
\* itself may: it reads the elapsed time before it looks whether the engine is warm.
WarmupMeasuredOnce ==
  [][ttr' # ttr =>
       /\ ttr = 0 /\ warmedAt # 0
       /\ ttr' >= taken[Creator]
       /\ At(Creator, "stamp") \/ ttr' >= warmedAt]_vars

\* No rescan is asked for before the first warmup has ended, by the sweep or by a
\* client: "cannot rescan while scanning or content indexing is active".
NoRescanWhileWarming ==
  warmedAt = 0 => ~queued /\ \A t \in Threads : ~At(t, "trigger") /\ ~At(t, "mark")

\* What the warmup leaves untouched until it ends, and the inductive invariant.
WarmingIsQuiet ==
  warmedAt = 0 =>
    /\ active /\ ~queued
    /\ ttr = 0
    /\ ~At(Creator, "stamp")
    /\ \A t \in Threads :
         /\ pc[t] \in {"idle", "read", "unready"}
         /\ goal[t] = FirstGoal(t)

\* Create is done before anybody else starts, has then measured nothing but its own
\* warm engine, and a reading taken to be stored is one of the past.
OneAfterTheOther ==
  /\ pc[Creator] \in {"create", "snapshot", "stamp", "idle"}
  /\ At(Creator, "idle") \/ (ttr = 0 /\ \A t \in Threads : At(t, "idle"))
  /\ warmedAt <= life /\ taken[Creator] <= life
  /\ \A t \in Threads :
       /\ pc[t] \notin {"create", "snapshot", "stamp"}
       /\ At(t, "store") => taken[t] >= warmedAt /\ taken[t] >= taken[Creator]

IInv == TypeOK /\ WarmingIsQuiet /\ OneAfterTheOther

\* "A workspace whose warmup exceeds its interval could remain in a scan -> index
\* -> queued scan loop" (DESIGN.md): it does not, scans end.
NoScanLoop == []<>~active

\* "A silently stale index is the one failure mode that would make this server
\* worse" (DESIGN.md): whatever clients poll, the index is rescanned again.
RescanRecurs == []<>active

=============================================================================
