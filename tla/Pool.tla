-------------------------------- MODULE Pool --------------------------------
(***************************************************************************)
(* The workspace pool (src/src/workspace/pool.rs) with the parts of        *)
(* Workspace that its correctness rests on: the two LMDB handles and the   *)
(* engine a workspace owns, the last-touched clock, and teardown.          *)
(*                                                                         *)
(* Every thread below is a task on tokio's blocking pool or a handler; a   *)
(* step is what happens between two points where another thread can run:   *)
(* one critical section of `entries`, one call into the engine, one atomic *)
(* store.  A workspace is named by the create request that builds it.      *)
(***************************************************************************)

CONSTANTS
  Ids,              \* workspace ids: stable_id of a directory's identity
  Creates,          \* POST /v1/workspaces requests, one workspace each
  Deletes,          \* DELETE /v1/workspaces/{id} requests
  Uses,             \* requests that call get(id) and then use the workspace
  Sweeper,          \* the maintenance task
  Drainers,         \* the shutdown_all call: empty, or one thread
  NoWs,             \* no workspace
  OpenOutcomes,     \* opening a database another workspace holds: "refused", "shared"
  DestroyOutcomes   \* destroying a database handle: "released", "failed"

Workspaces == Creates
Requests   == Creates \cup Deletes \cup Uses
Threads    == Requests \cup {Sweeper} \cup Drainers
Databases  == {"frecency", "queries"}

\* The kinds of thread are disjoint and none of them is NoWs.
ASSUME ThreadsDisjoint ==
  /\ Creates \cap Deletes = {}
  /\ Creates \cap Uses = {}
  /\ Deletes \cap Uses = {}
  /\ Sweeper \notin Requests
  /\ Drainers \cap (Requests \cup {Sweeper}) = {}
  /\ NoWs \notin Threads

\* What the LMDB layer may do.
ASSUME EngineOutcomes ==
  /\ OpenOutcomes \subseteq {"refused", "shared"}
  /\ DestroyOutcomes \subseteq {"released", "failed"}

VARIABLES
  entries,      \* Pool.entries: the registered workspace of each id, or NoWs
  id,           \* the id each request is about
  engine,       \* the picker of each workspace: "absent", "running", "stopped"
  holds,        \* the LMDB handles each workspace keeps open
  idle,         \* the workspaces whose idle_for() has reached idle_timeout()
  warm,         \* the workspaces whose engine is not scanning and has warmed up
  pc,           \* where each thread is
  target,       \* the Arc<Workspace> each thread works on
  resp,         \* the result each request is going to return
  candidates,   \* the Arcs the running sweep has still to visit
  drainIds      \* the ids shutdown_all has still to remove

vars == <<entries, id, engine, holds, idle, warm, pc, target, resp,
          candidates, drainIds>>

TypeOK ==
  /\ entries \in [Ids -> Workspaces \cup {NoWs}]
  /\ id \in [Requests -> Ids]
  /\ engine \in [Workspaces -> {"absent", "running", "stopped"}]
  /\ holds \in [Workspaces -> SUBSET Databases]
  /\ idle \subseteq Workspaces
  /\ warm \subseteq Workspaces
  /\ pc \in [Threads -> {"idle", "spawned", "openFrecency", "openQueries",
                         "startPicker", "install", "touch", "working",
                         "tracking", "next", "judge", "evict", "rescan",
                         "drain", "stop", "destroyFrecency",
                         "destroyQueries", "done"}]
  /\ target \in [Threads -> Workspaces \cup {NoWs}]
  /\ resp \in [Requests -> {"none", "existing", "new", "conflict", "error",
                            "deleted", "found", "notFound", "ok", "notReady"}]
  /\ candidates \subseteq Workspaces
  /\ drainIds \subseteq Ids

Init ==
  /\ entries = [i \in Ids |-> NoWs]
  /\ id \in [Requests -> Ids]
  /\ engine = [w \in Workspaces |-> "absent"]
  /\ holds = [w \in Workspaces |-> {}]
  /\ idle = {}
  /\ warm = {}
  /\ pc = [t \in Threads |-> "idle"]
  /\ target = [t \in Threads |-> NoWs]
  /\ resp = [t \in Requests |-> "none"]
  /\ candidates = {}
  /\ drainIds = {}

-----------------------------------------------------------------------------
(* Vocabulary of the steps. *)

At(t, step)    == pc[t] = step
Goto(t, step)  == pc' = [pc EXCEPT ![t] = step]
Aim(t, w)      == target' = [target EXCEPT ![t] = w]
Answer(t, a)   == resp' = [resp EXCEPT ![t] = a]

Registered == {entries[i] : i \in Ids} \ {NoWs}

\* The workspace a thread in teardown is shutting down: a create that lost the
\* race discards its own, every other thread the one it removed.
Victim(t) == IF t \in Creates THEN t ELSE target[t]

\* Where a thread goes when Workspace::shutdown returns.
AfterShutdown(t) ==
  CASE t = Sweeper     -> "next"
    [] t \in Drainers  -> "drain"
    [] OTHER           -> "done"

\* Pool::get up to its unlock: the lookup under the read lock.  The touch that
\* follows the unlock is a step of its own.
Get(t, found, missing, then) ==
  \/ /\ entries[id[t]] # NoWs
     /\ Aim(t, entries[id[t]])
     /\ Answer(t, found)
     /\ Goto(t, "touch")
  \/ /\ entries[id[t]] = NoWs
     /\ Answer(t, missing)
     /\ Goto(t, then)
     /\ UNCHANGED target

\* Mutated form: remove() shuts the workspace down first and leaves the entry.
RemoveEntry_ShutdownFirst(t, i, missing) ==
  \/ entries[i] # NoWs /\ Aim(t, entries[i]) /\ Goto(t, "stop") /\ UNCHANGED entries
  \/ entries[i] = NoWs /\ Goto(t, missing) /\ UNCHANGED <<entries, target>>

\* Pool::remove up to its unlock: the entry leaves the map under the write lock,
\* and only then is the workspace shut down.
RemoveEntry(t, i, missing) ==
  \/ /\ entries[i] # NoWs
     /\ Aim(t, entries[i])
     /\ entries' = [entries EXCEPT ![i] = NoWs]
     /\ Goto(t, "stop")
  \/ /\ entries[i] = NoWs
     /\ Goto(t, missing)
     /\ UNCHANGED <<entries, target>>

\* Workspace::touch on the workspace the thread looked up or installed.
Touch(t) ==
  /\ At(t, "touch")
  /\ idle' = idle \ {target[t]}
  /\ Goto(t, IF t \in Creates THEN "done" ELSE "working")
  /\ UNCHANGED <<entries, id, engine, holds, warm, target, resp, candidates,
                 drainIds>>

-----------------------------------------------------------------------------
(* Creating a workspace. *)

\* The handler's warm-hit check, on the async side.
CreateLookup(r) ==
  /\ At(r, "idle")
  /\ Get(r, "existing", "none", "spawned")
  /\ UNCHANGED <<entries, id, engine, holds, idle, warm, candidates, drainIds>>

\* create_blocking looks again, now on the blocking pool.
CreateRecheck(r) ==
  /\ At(r, "spawned")
  /\ Get(r, "existing", "none", "openFrecency")
  /\ UNCHANGED <<entries, id, engine, holds, idle, warm, candidates, drainIds>>

\* Opening one of the two databases under db_root/<id>.  A path some workspace of
\* this process still holds is refused with DbInUse or EnvSpecMismatch; create
\* then returns and drops what it had opened.
InUse(r, db) == \E w \in Workspaces : id[w] = id[r] /\ db \in holds[w]

\* Mutated form: a refused create forgets to let go of what it had opened.
OpenDatabase_KeepsHandles(r, db, opened) ==
  \/ ~InUse(r, db) /\ holds' = [holds EXCEPT ![r] = @ \cup {db}]
                   /\ Goto(r, opened) /\ UNCHANGED resp
  \/ InUse(r, db) /\ Answer(r, "conflict") /\ Goto(r, "done") /\ UNCHANGED holds

\* Mutated form: every create gets a database directory of its own.
OpenDatabase_OwnPath(r, db, opened) ==
  /\ holds' = [holds EXCEPT ![r] = @ \cup {db}]
  /\ Goto(r, opened)
  /\ UNCHANGED resp

OpenDatabase(r, db, opened) ==
  \/ /\ InUse(r, db) => "shared" \in OpenOutcomes
     /\ holds' = [holds EXCEPT ![r] = @ \cup {db}]
     /\ Goto(r, opened)
     /\ UNCHANGED resp
  \/ /\ InUse(r, db)
     /\ "refused" \in OpenOutcomes
     /\ holds' = [holds EXCEPT ![r] = {}]
     /\ Answer(r, "conflict")
     /\ Goto(r, "done")

OpenFrecency(r) ==
  /\ At(r, "openFrecency")
  /\ OpenDatabase(r, "frecency", "openQueries")
  /\ UNCHANGED <<entries, id, engine, idle, warm, target, candidates, drainIds>>

OpenQueries(r) ==
  /\ At(r, "openQueries")
  /\ OpenDatabase(r, "queries", "startPicker")
  /\ UNCHANGED <<entries, id, engine, idle, warm, target, candidates, drainIds>>

\* The engine starts scanning; the bounded wait for it is the time until Install.
StartPicker(r) ==
  /\ At(r, "startPicker")
  /\ engine' = [engine EXCEPT ![r] = "running"]
  /\ Goto(r, "install")
  /\ UNCHANGED <<entries, id, holds, idle, warm, target, resp, candidates,
                 drainIds>>

\* Any other failure of Workspace::create: the `?` drops the handles opened so far.
CreateFails(r) ==
  /\ pc[r] \in {"openFrecency", "openQueries", "startPicker"}
  /\ holds' = [holds EXCEPT ![r] = {}]
  /\ Answer(r, "error")
  /\ Goto(r, "done")
  /\ UNCHANGED <<entries, id, engine, idle, warm, target, candidates, drainIds>>

\* Mutated form: the insert overwrites whoever came first.
Install_Overwrites(r) ==
  /\ At(r, "install")
  /\ Aim(r, r)
  /\ entries' = [entries EXCEPT ![id[r]] = r]
  /\ Answer(r, "new")
  /\ Goto(r, "touch")
  /\ UNCHANGED <<id, engine, holds, idle, warm, candidates, drainIds>>

\* Mutated form: the loser of a race returns without discarding its own workspace.
Install_KeepsLoser(r) ==
  /\ At(r, "install")
  /\ \/ entries[id[r]] # NoWs /\ Aim(r, entries[id[r]]) /\ Answer(r, "existing")
        /\ Goto(r, "done") /\ UNCHANGED entries
     \/ entries[id[r]] = NoWs /\ Aim(r, r) /\ Answer(r, "new") /\ Goto(r, "touch")
        /\ entries' = [entries EXCEPT ![id[r]] = r]
  /\ UNCHANGED <<id, engine, holds, idle, warm, candidates, drainIds>>

\* The winner check and the insert are one critical section.  The winner is handed
\* out without a touch; a workspace that was inserted is touched after the unlock.
Install(r) ==
  /\ At(r, "install")
  /\ \/ /\ entries[id[r]] # NoWs
        /\ Aim(r, entries[id[r]])
        /\ Answer(r, "existing")
        /\ Goto(r, "stop")
        /\ UNCHANGED entries
     \/ /\ entries[id[r]] = NoWs
        /\ Aim(r, r)
        /\ entries' = [entries EXCEPT ![id[r]] = r]
        /\ Answer(r, "new")
        /\ Goto(r, "touch")
  /\ UNCHANGED <<id, engine, holds, idle, warm, candidates, drainIds>>

-----------------------------------------------------------------------------
(* Workspace::shutdown, in whichever thread runs it. *)

\* Mutated form: shutdown closes the databases and leaves the engine running.
StopWatches_Skipped(t) ==
  /\ At(t, "stop")
  /\ Goto(t, "destroyFrecency")
  /\ UNCHANGED <<entries, id, engine, holds, idle, warm, target, resp, candidates,
                 drainIds>>

StopWatches(t) ==
  /\ At(t, "stop")
  /\ engine' = [engine EXCEPT ![Victim(t)] = "stopped"]
  /\ Goto(t, "destroyFrecency")
  /\ UNCHANGED <<entries, id, holds, idle, warm, target, resp, candidates,
                 drainIds>>

\* destroy() that fails is logged and otherwise ignored.
Destroy(w, db) ==
  \/ /\ "released" \in DestroyOutcomes
     /\ holds' = [holds EXCEPT ![w] = @ \ {db}]
  \/ /\ "failed" \in DestroyOutcomes
     /\ UNCHANGED holds

\* The frecency handle is taken out under its lock, so after every reader's guard.
DestroyFrecency(t) ==
  /\ At(t, "destroyFrecency")
  /\ \A u \in Uses : At(u, "tracking") => target[u] # Victim(t)
  /\ Destroy(Victim(t), "frecency")
  /\ Goto(t, "destroyQueries")
  /\ UNCHANGED <<entries, id, engine, idle, warm, target, resp, candidates,
                 drainIds>>

\* Mutated form: shutdown forgets the query tracker.
DestroyQueries_Forgotten(t) ==
  /\ At(t, "destroyQueries")
  /\ Goto(t, AfterShutdown(t))
  /\ UNCHANGED <<entries, id, engine, holds, idle, warm, target, resp, candidates,
                 drainIds>>

DestroyQueries(t) ==
  /\ At(t, "destroyQueries")
  /\ Destroy(Victim(t), "queries")
  /\ Goto(t, AfterShutdown(t))
  /\ UNCHANGED <<entries, id, engine, idle, warm, target, resp, candidates,
                 drainIds>>

\* The handler spawns the removal and waits for it.
DeleteArrive(d) ==
  /\ At(d, "idle")
  /\ Goto(d, "spawned")
  /\ UNCHANGED <<entries, id, engine, holds, idle, warm, target, resp, candidates,
                 drainIds>>

Delete(d) ==
  /\ At(d, "spawned")
  /\ Answer(d, IF entries[id[d]] = NoWs THEN "notFound" ELSE "deleted")
  /\ RemoveEntry(d, id[d], "done")
  /\ UNCHANGED <<id, engine, holds, idle, warm, candidates, drainIds>>

-----------------------------------------------------------------------------
(* Requests that use a workspace they looked up. *)

UseLookup(u) ==
  /\ At(u, "idle")
  /\ Get(u, "found", "notFound", "done")
  /\ UNCHANGED <<entries, id, engine, holds, idle, warm, candidates, drainIds>>

\* A search, grep or GET reads the index alone.
UseRead(u) ==
  /\ At(u, "working")
  /\ Answer(u, "ok")
  /\ Goto(u, "done")
  /\ UNCHANGED <<entries, id, engine, holds, idle, warm, target, candidates,
                 drainIds>>

\* Mutated form: track-access takes the tracker to be there.
TrackBegin_Unchecked(u) ==
  /\ At(u, "working")
  /\ Goto(u, "tracking")
  /\ UNCHANGED <<entries, id, engine, holds, idle, warm, target, resp, candidates,
                 drainIds>>

\* Mutated form: track-access waits for the tracker to come back.
TrackBegin_Retries(u) ==
  /\ At(u, "working")
  /\ Goto(u, IF "frecency" \in holds[target[u]] THEN "tracking" ELSE "touch")
  /\ UNCHANGED <<entries, id, engine, holds, idle, warm, target, resp, candidates,
                 drainIds>>

\* track-access takes the frecency guard and gives up with 503 when it is empty.
TrackBegin(u) ==
  /\ At(u, "working")
  /\ \/ /\ "frecency" \in holds[target[u]]
        /\ Goto(u, "tracking")
        /\ UNCHANGED resp
     \/ /\ "frecency" \notin holds[target[u]]
        /\ Answer(u, "notReady")
        /\ Goto(u, "done")
  /\ UNCHANGED <<entries, id, engine, holds, idle, warm, target, candidates,
                 drainIds>>

TrackEnd(u) ==
  /\ At(u, "tracking")
  /\ Answer(u, "ok")
  /\ Goto(u, "done")
  /\ UNCHANGED <<entries, id, engine, holds, idle, warm, target, candidates,
                 drainIds>>

\* POST rescan: refused while the engine is not ready, and by the engine itself.
UseRescan(u) ==
  /\ At(u, "working")
  /\ \/ /\ target[u] \in warm
        /\ warm' = warm \ {target[u]}
        /\ Answer(u, "ok")
     \/ Answer(u, "notReady") /\ UNCHANGED warm
  /\ Goto(u, "done")
  /\ UNCHANGED <<entries, id, engine, holds, idle, target, candidates, drainIds>>

-----------------------------------------------------------------------------
(* The maintenance task and shutdown. *)

\* A tick: an empty pool is skipped, otherwise sweep() snapshots the Arcs.
SweepBegin ==
  /\ At(Sweeper, "idle")
  /\ \/ Registered = {} /\ UNCHANGED <<pc, candidates>>
     \/ Registered # {} /\ candidates' = Registered /\ Goto(Sweeper, "next")
  /\ UNCHANGED <<entries, id, engine, holds, idle, warm, target, resp, drainIds>>

\* The next candidate; one that is not ready for maintenance is passed over.
SweepPick(w) ==
  /\ At(Sweeper, "next")
  /\ w \in candidates
  /\ candidates' = candidates \ {w}
  /\ \/ w \in warm /\ Aim(Sweeper, w) /\ Goto(Sweeper, "judge")
     \/ w \notin warm /\ UNCHANGED <<target, pc>>
  /\ UNCHANGED <<entries, id, engine, holds, idle, warm, resp, drainIds>>

SweepEnd ==
  /\ At(Sweeper, "next")
  /\ candidates = {}
  /\ Goto(Sweeper, "idle")
  /\ UNCHANGED <<entries, id, engine, holds, idle, warm, target, resp,
                 candidates, drainIds>>

\* Mutated form: the rescan check comes first and always continues.
SweepJudge_RescanFirst ==
  /\ At(Sweeper, "judge")
  /\ Goto(Sweeper, "rescan")
  /\ UNCHANGED <<entries, id, engine, holds, idle, warm, target, resp,
                 candidates, drainIds>>

SweepJudge ==
  /\ At(Sweeper, "judge")
  /\ Goto(Sweeper, IF target[Sweeper] \in idle THEN "evict" ELSE "rescan")
  /\ UNCHANGED <<entries, id, engine, holds, idle, warm, target, resp,
                 candidates, drainIds>>

\* self.remove(&ws.id): whatever is registered under the judged workspace's id.
SweepEvict ==
  /\ At(Sweeper, "evict")
  /\ RemoveEntry(Sweeper, id[target[Sweeper]], "next")
  /\ UNCHANGED <<id, engine, holds, idle, warm, resp, candidates, drainIds>>

\* A rescan that is due is asked for if the engine is still ready.
SweepRescan ==
  /\ At(Sweeper, "rescan")
  /\ \/ UNCHANGED warm
     \/ target[Sweeper] \in warm /\ warm' = warm \ {target[Sweeper]}
  /\ Goto(Sweeper, "next")
  /\ UNCHANGED <<entries, id, engine, holds, idle, target, resp, candidates,
                 drainIds>>

ShutdownAll(t) ==
  /\ At(t, "idle")
  /\ drainIds' = {i \in Ids : entries[i] # NoWs}
  /\ Goto(t, "drain")
  /\ UNCHANGED <<entries, id, engine, holds, idle, warm, target, resp, candidates>>

\* Mutated form: the id just removed stays on the list.
DrainNext_KeepsId(t, i) ==
  /\ At(t, "drain")
  /\ i \in drainIds
  /\ RemoveEntry(t, i, "drain")
  /\ UNCHANGED <<id, engine, holds, idle, warm, resp, candidates, drainIds>>

DrainNext(t, i) ==
  /\ At(t, "drain")
  /\ i \in drainIds
  /\ drainIds' = drainIds \ {i}
  /\ RemoveEntry(t, i, "drain")
  /\ UNCHANGED <<id, engine, holds, idle, warm, resp, candidates>>

DrainEnd(t) ==
  /\ At(t, "drain")
  /\ drainIds = {}
  /\ Goto(t, "done")
  /\ UNCHANGED <<entries, id, engine, holds, idle, warm, target, resp,
                 candidates, drainIds>>

-----------------------------------------------------------------------------
(* The clock and the engine, which no request controls. *)

\* Time passes: idle_for() reaches idle_timeout().
GoIdle(w) ==
  /\ engine[w] # "absent"
  /\ w \notin idle
  /\ idle' = idle \cup {w}
  /\ UNCHANGED <<entries, id, engine, holds, warm, pc, target, resp,
                 candidates, drainIds>>

\* The scan and the content build finish.
BecomeWarm(w) ==
  /\ engine[w] = "running"
  /\ w \notin warm
  /\ warm' = warm \cup {w}
  /\ UNCHANGED <<entries, id, engine, holds, idle, pc, target, resp,
                 candidates, drainIds>>

Referenced(w) ==
  \/ w \in Registered \cup candidates
  \/ \E t \in Threads : pc[t] \notin {"idle", "done"} /\ w \in {t, target[t]}

\* A handle whose destroy failed may go when the last Arc is dropped.
LastDrop(w) ==
  /\ engine[w] = "stopped"
  /\ holds[w] # {}
  /\ ~Referenced(w)
  /\ holds' = [holds EXCEPT ![w] = {}]
  /\ UNCHANGED <<entries, id, engine, idle, warm, pc, target, resp,
                 candidates, drainIds>>

-----------------------------------------------------------------------------
CreateStep(r) ==
  \/ CreateRecheck(r) \/ OpenFrecency(r) \/ OpenQueries(r) \/ StartPicker(r)
  \/ CreateFails(r) \/ Install(r)

UseStep(u) ==
  UseRead(u) \/ TrackBegin(u) \/ TrackEnd(u) \/ UseRescan(u)

SweepStep ==
  \/ SweepBegin \/ SweepEnd \/ SweepJudge \/ SweepEvict \/ SweepRescan
  \/ \E w \in candidates : SweepPick(w)

DrainStep(t) == DrainEnd(t) \/ \E i \in drainIds : DrainNext(t, i)

ShutdownStep(t) == StopWatches(t) \/ DestroyFrecency(t) \/ DestroyQueries(t)

\* Requests and the order to shut down come from outside.
Arrive ==
  \/ \E r \in Creates : CreateLookup(r)
  \/ \E d \in Deletes : DeleteArrive(d)
  \/ \E u \in Uses : UseLookup(u)
  \/ \E t \in Drainers : ShutdownAll(t)

Environment == \E w \in Workspaces : GoIdle(w) \/ BecomeWarm(w) \/ LastDrop(w)

Next ==
  \/ Arrive
  \/ \E r \in Creates : CreateStep(r)
  \/ \E d \in Deletes : Delete(d)
  \/ \E u \in Uses : UseStep(u)
  \/ \E t \in Requests : Touch(t)
  \/ SweepStep
  \/ \E t \in Drainers : DrainStep(t)
  \/ \E t \in Threads : ShutdownStep(t)
  \/ Environment

Spec == Init /\ [][Next]_vars

-----------------------------------------------------------------------------
(* Properties. *)

Building(w) == pc[w] \in {"openFrecency", "openQueries", "startPicker", "install"}

ShuttingDown(t) == pc[t] \in {"stop", "destroyFrecency", "destroyQueries"}

\* Some thread is still responsible for the workspace, or the map is.
Owned(w) ==
  \/ w \in Registered
  \/ Building(w)
  \/ \E t \in Threads : ShuttingDown(t) /\ Victim(t) = w

\* What a caller finds in the map is registered under its own id and fully open:
\* remove() takes an entry out before it starts to shut the workspace down.
RegisteredIsOpen ==
  \A i \in Ids : entries[i] # NoWs =>
    /\ id[entries[i]] = i
    /\ engine[entries[i]] = "running"
    /\ holds[entries[i]] = Databases

\* "two simultaneous creates for one root cannot leave two indexes behind"
\* (create_blocking): an index that runs is in the map or in some thread's hands,
\* whoever lost a race, failed or was evicted half way.
NoOrphanedIndex ==
  \A w \in Workspaces : engine[w] = "running" => Owned(w)

\* The same of the LMDB handles, as long as destroying one never fails: a handle
\* left behind would refuse every later create of the root.
NoOrphanedHandle ==
  \A w \in Workspaces : holds[w] # {} => Owned(w)

\* A workspace is shut down by one thread only and never while it can be looked
\* up: the delete, the sweep and the drain that meet over one id do not both run
\* Workspace::shutdown.
TeardownExclusive ==
  \A t \in Threads : ShuttingDown(t) =>
    /\ Victim(t) \notin Registered
    /\ \A u \in Threads \ {t} : ShuttingDown(u) => Victim(u) # Victim(t)

\* The 204 of a delete is sent after the index, the watchers and both database
\* handles of the workspace it removed are gone (routes/workspaces.rs, delete).
ReleasedWhenAnswered ==
  \A d \in Deletes : At(d, "done") /\ resp[d] = "deleted" =>
    /\ engine[target[d]] = "stopped"
    /\ holds[target[d]] = {}

\* track-access never writes through a tracker that teardown has taken away, though
\* it works on an Arc that may have been evicted since the lookup.
TrackingHasHandle ==
  \A u \in Uses : At(u, "tracking") => "frecency" \in holds[target[u]]

\* When the engine refuses a second open of a database, the branch of
\* create_blocking that discards the loser of a race is never taken: the loser
\* was refused its databases before it got there.
LostRaceUnreachable ==
  \A r \in Creates : At(r, "install") => entries[id[r]] = NoWs

\* A create is answered 409 only while another workspace of the same root is live,
\* being built or being shut down: nothing a finished request left behind makes a
\* root impossible to index.
ConflictOnlyUnderContention ==
  [][\A r \in Creates : resp[r] = "none" /\ resp'[r] = "conflict" =>
       \E w \in Workspaces \ {r} : id[w] = id[r] /\ Owned(w)]_vars

\* "A concurrent caller that won the race is honoured rather than overwritten"
\* (create_blocking): a create is not refused because another create of the same
\* root is under way or has just won.  The code refuses it.
ConcurrentCreateHonoured ==
  [][\A r \in Creates : resp[r] = "none" /\ resp'[r] = "conflict" =>
       ~\E w \in Workspaces \ {r} :
          id[w] = id[r] /\ (Building(w) \/ entries[id[r]] = w)]_vars

\* The step in which the sweep takes an entry out of the map.
Eviction == At(Sweeper, "evict") /\ pc'[Sweeper] = "stop"

\* "Marks the workspace as in use, deferring idle eviction" (touch): the workspace
\* an eviction takes out has been idle for its timeout.  The code judges it before
\* it takes the write lock, and then removes by id: a touch fits in between, and so
\* do a delete and a create that put a new workspace there.
SweepEvictsOnlyIdle == [][Eviction => target'[Sweeper] \in idle]_vars

\* The pool is a registry on which every request takes effect atomically.
R == INSTANCE Registry WITH registry <- entries, answer <- resp

RegistrySpec == R!Spec

-----------------------------------------------------------------------------
(* The inductive invariant behind the safety properties. *)

\* Where a thread of each kind can be.
TeardownSteps == {"stop", "destroyFrecency", "destroyQueries"}

PcByKind ==
  /\ \A r \in Creates : pc[r] \in TeardownSteps \cup
       {"idle", "spawned", "openFrecency", "openQueries", "startPicker",
        "install", "touch", "done"}
  /\ \A d \in Deletes : pc[d] \in TeardownSteps \cup {"idle", "spawned", "done"}
  /\ \A u \in Uses : pc[u] \in {"idle", "touch", "working", "tracking", "done"}
  /\ pc[Sweeper] \in TeardownSteps \cup {"idle", "next", "judge", "evict", "rescan"}
  /\ \A t \in Drainers : pc[t] \in TeardownSteps \cup {"idle", "drain", "done"}

\* What a workspace owns follows from how far its create has come, and a create
\* that has installed its workspace is past all of that.
BuildStages ==
  \A w \in Workspaces :
    /\ pc[w] \in {"idle", "spawned", "openFrecency"} => holds[w] = {}
    /\ At(w, "openQueries") => holds[w] = {"frecency"}
    /\ pc[w] \in {"startPicker", "install"} => holds[w] = Databases
    /\ pc[w] \in {"idle", "spawned", "openFrecency", "openQueries", "startPicker"}
         => engine[w] = "absent"
    /\ At(w, "install") => engine[w] = "running"
    /\ pc[w] \in {"idle", "spawned"} \/ Building(w) <=> resp[w] = "none"
    /\ resp[w] = "new" => pc[w] \in {"touch", "done"}
    /\ ShuttingDown(w) => resp[w] = "existing"
    /\ At(w, "touch") /\ resp[w] = "existing" => holds[w] = {} /\ engine[w] = "absent"

\* An Arc that a lookup, a sweep or a removal hands out is of a workspace that was
\* installed.
HandedOutIsInstalled ==
  /\ \A i \in Ids : entries[i] # NoWs => resp[entries[i]] = "new"
  /\ \A w \in candidates : resp[w] = "new"
  /\ \A t \in Uses : pc[t] \in {"touch", "working", "tracking"} =>
       target[t] \in Workspaces /\ resp[target[t]] = "new"
  /\ \A t \in Creates : At(t, "touch") =>
       target[t] \in Workspaces /\ resp[target[t]] = "new"
  /\ \A t \in Threads \ Creates : ShuttingDown(t) =>
       target[t] \in Workspaces /\ resp[target[t]] = "new"
  /\ pc[Sweeper] \in {"judge", "evict", "rescan"} =>
       target[Sweeper] \in Workspaces /\ resp[target[Sweeper]] = "new"
  /\ \A d \in Deletes : resp[d] = "deleted" => target[d] \in Workspaces

\* How far a teardown has come.
TeardownStage(t) ==
  /\ At(t, "stop") => engine[Victim(t)] = "running"
  /\ pc[t] \in {"destroyFrecency", "destroyQueries"} => engine[Victim(t)] = "stopped"
  /\ At(t, "destroyQueries") /\ "failed" \notin DestroyOutcomes
       => holds[Victim(t)] \subseteq {"queries"}

TeardownStages == \A t \in Threads : TeardownStage(t)

\* A request has been promised nothing before its lookup, and a use that is under
\* way only that its workspace was found.
PromisedOnce ==
  /\ \A d \in Deletes : pc[d] \in {"idle", "spawned"} => resp[d] = "none"
  /\ \A u \in Uses : At(u, "idle") => resp[u] = "none"
  /\ \A u \in Uses : pc[u] \in {"touch", "working", "tracking"} => resp[u] = "found"

\* Orphans need a failed destroy.
HandlesAccountedFor == "failed" \notin DestroyOutcomes => NoOrphanedHandle

DeletesReleased == "failed" \notin DestroyOutcomes => ReleasedWhenAnswered

\* A database the engine refuses to share is open in one workspace of a root.
ExclusiveDatabases ==
  "shared" \notin OpenOutcomes =>
    \A v, w \in Workspaces : v # w /\ id[v] = id[w] => holds[v] \cap holds[w] = {}

IInv ==
  /\ TypeOK
  /\ PcByKind
  /\ BuildStages
  /\ HandedOutIsInstalled
  /\ RegisteredIsOpen
  /\ TeardownExclusive
  /\ TeardownStages
  /\ PromisedOnce
  /\ NoOrphanedIndex
  /\ HandlesAccountedFor
  /\ DeletesReleased
  /\ TrackingHasHandle
  /\ ExclusiveDatabases

=============================================================================
