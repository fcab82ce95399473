------------------------------- MODULE Server -------------------------------
(***************************************************************************)
(* The life of the server process (src/src/main.rs) around the pool:       *)
(* serving, the graceful shutdown of axum, shutdown_all, the release of    *)
(* the instance guard, and the end of the tokio runtime.                   *)
(*                                                                         *)
(* A handler runs its pool work with spawn_blocking.  When the client goes *)
(* away axum drops the handler, but the blocking task cannot be cancelled  *)
(* and runs to its end; graceful shutdown waits for handlers, not for      *)
(* blocking tasks, and the runtime waits for blocking tasks only after     *)
(* main has dropped the guard.                                             *)
(***************************************************************************)
EXTENDS Pool

VARIABLES
  phase,   \* how far the process is
  gone     \* the requests whose client disconnected while they were blocking

serverVars == <<phase, gone>>
allVars == <<vars, serverVars>>

ServerTypeOK ==
  /\ TypeOK
  /\ phase \in {"serving", "stopping", "draining", "released", "closing", "exited"}
  /\ gone \subseteq Requests

\* InstanceGuard::acquire succeeded before the pool was built.
ServerInit == Init /\ phase = "serving" /\ gone = {}

-----------------------------------------------------------------------------
(* Requests. *)

\* Requests come in while the listener is open.
Accept ==
  /\ phase = "serving"
  /\ \/ \E r \in Creates : CreateLookup(r)
     \/ \E d \in Deletes : DeleteArrive(d)
     \/ \E u \in Uses : UseLookup(u)
  /\ UNCHANGED serverVars

\* The work a handler has handed to the blocking pool, or is about to.
HasBlockingTask(t) == pc[t] \notin {"idle", "touch", "done"}

\* The client goes away: the handler is dropped, its blocking task is not.
Disconnect(t) ==
  /\ phase # "exited"
  /\ HasBlockingTask(t)
  /\ t \notin gone
  /\ gone' = gone \cup {t}
  /\ UNCHANGED <<vars, phase>>

\* One step of a thread that is under way.
Running(step) == phase # "exited" /\ step /\ UNCHANGED serverVars

\* The maintenance task ticks until the runtime is dropped.
Tick == phase # "closing" /\ Running(SweepBegin)

SweepOn ==
  Running(\/ SweepEnd \/ SweepJudge \/ SweepEvict \/ SweepRescan
          \/ \E w \in candidates : SweepPick(w))

-----------------------------------------------------------------------------
(* The way down. *)

\* ctrl-c.
Interrupt ==
  /\ phase = "serving"
  /\ phase' = "stopping"
  /\ UNCHANGED <<vars, gone>>

\* Mutated form: serve returns at once, without waiting for handlers.
ServeReturns_AtOnce ==
  /\ phase = "stopping"
  /\ phase' = "draining"
  /\ UNCHANGED <<vars, gone>>

\* axum::serve returns when no handler is left; those of lost clients are.
ServeReturns ==
  /\ phase = "stopping"
  /\ \A t \in Requests \ gone : pc[t] \in {"idle", "done"}
  /\ phase' = "draining"
  /\ UNCHANGED <<vars, gone>>

DrainBegin(t) == phase = "draining" /\ ShutdownAll(t) /\ UNCHANGED serverVars

\* Mutated form: main does not await the drain.
ReleaseGuard_NoAwait ==
  /\ phase = "draining"
  /\ phase' = "released"
  /\ UNCHANGED <<vars, gone>>

\* The drain has been awaited; drop(guard) lets another server in.
ReleaseGuard ==
  /\ phase = "draining"
  /\ \A t \in Drainers : At(t, "done")
  /\ phase' = "released"
  /\ UNCHANGED <<vars, gone>>

\* main returns and the runtime is dropped: asynchronous tasks end.
Close ==
  /\ phase = "released"
  /\ phase' = "closing"
  /\ UNCHANGED <<vars, gone>>

\* The blocking pool is joined; a task that never started is discarded.
Exit ==
  /\ phase = "closing"
  /\ \A t \in Threads : pc[t] \in {"idle", "spawned", "working", "done"}
  /\ phase' = "exited"
  /\ UNCHANGED <<vars, gone>>

Exited == phase = "exited" /\ UNCHANGED allVars

-----------------------------------------------------------------------------
ServerNext ==
  \/ Accept
  \/ \E t \in Requests : Disconnect(t)
  \/ Running(\E r \in Creates : CreateStep(r))
  \/ Running(\E d \in Deletes : Delete(d))
  \/ Running(\E u \in Uses : UseStep(u))
  \/ Running(\E t \in Requests : Touch(t))
  \/ Running(\E t \in Drainers : DrainStep(t))
  \/ Running(\E t \in Threads : ShutdownStep(t))
  \/ Running(Environment)
  \/ Tick
  \/ SweepOn
  \/ Interrupt
  \/ ServeReturns
  \/ \E t \in Drainers : DrainBegin(t)
  \/ ReleaseGuard
  \/ Close
  \/ Exit
  \/ Exited

ServerSpec == ServerInit /\ [][ServerNext]_allVars

\* Threads run, the maintenance timer ticks and main makes progress; nobody has to
\* send a request, to disconnect or to press ctrl-c, and no index has to get ready.
ServerFairness ==
  /\ \A r \in Creates : WF_allVars(Running(CreateStep(r)))
  /\ \A d \in Deletes : WF_allVars(Running(Delete(d)))
  /\ \A u \in Uses : WF_allVars(Running(UseStep(u)))
  /\ \A t \in Requests : WF_allVars(Running(Touch(t)))
  /\ \A t \in Drainers : WF_allVars(Running(DrainStep(t))) /\ WF_allVars(DrainBegin(t))
  /\ \A t \in Threads : WF_allVars(Running(ShutdownStep(t)))
  /\ WF_allVars(Tick) /\ WF_allVars(SweepOn)
  /\ WF_allVars(ServeReturns)
  /\ WF_allVars(ReleaseGuard)
  /\ WF_allVars(Close)
  /\ WF_allVars(Exit)

FairServerSpec == ServerSpec /\ ServerFairness

-----------------------------------------------------------------------------
(* Properties. *)

Open(w) == engine[w] = "running" \/ holds[w] # {}

\* What is still open after the guard is gone belongs to a task nobody waited for:
\* a create or a delete whose client had left, or the sweep.  A request whose
\* client stayed, and everything that was registered, has been closed.
LeftoverIsUnawaited ==
  phase \in {"released", "closing"} =>
    \A w \in Workspaces : Open(w) =>
      \/ w \in gone
      \/ \E t \in gone \cup {Sweeper} : ShuttingDown(t) /\ Victim(t) = w

\* When the process exits on its own every database is closed, also those of the
\* tasks nobody waited for, unless a lost client's create installed its workspace
\* after the drain.
ExitCloses ==
  phase = "exited" => \A w \in Workspaces : Open(w) => w \in gone /\ w \in Registered

\* Every request that came in is answered, whatever becomes of its workspace and of
\* the server; only what a lost client left waiting for a thread may be discarded.
EveryRequestAnswered ==
  \A t \in Requests :
    ~At(t, "idle") ~> At(t, "done") \/ (phase = "exited" /\ t \in gone)

\* A workspace does not stay registered for ever while it is ready and idle: the
\* sweep comes to it, though it looks at workspaces that are ready only.
IdleIsEvicted ==
  \A i \in Ids, w \in Workspaces :
    ~<>[](phase # "exited" /\ entries[i] = w /\ w \in idle \cap warm)

\* An interrupted server exits: handlers, the drain and the blocking tasks that the
\* runtime joins all come to an end, whatever teardown they are in.
ShutdownTerminates == phase = "stopping" ~> phase = "exited"

=============================================================================
