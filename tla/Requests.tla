----------------------------- MODULE Requests -----------------------------
(***************************************************************************)
(* The requests that work on one looked-up workspace, their threads and    *)
(* the three locks they share: the picker, the frecency database and the   *)
(* query tracker (src/src/routes/{search,grep,lifecycle,workspaces}.rs).   *)
(*                                                                         *)
(* A handler runs on an async worker and moves its work to a blocking      *)
(* thread; only reporting (GET /v1/workspaces/{id} and whatever answers    *)
(* with a workspace resource) reads the picker on the worker itself.  A    *)
(* request's pc names its route and the place it has reached; who holds a  *)
(* lock follows from the pcs.  The locks prefer writers: a reader queues   *)
(* behind a waiting writer, and is only sometimes let past it.             *)
(***************************************************************************)
EXTENDS Naturals, FiniteSets

CONSTANTS
  Requests,   \* the requests; each takes one route, once
  Workers     \* threads of the async runtime

ASSUME WorkersAssumption == Workers \in Nat \ {0}

\* There are as many requests as there are, but not infinitely many.
ASSUME RequestsAssumption == IsFiniteSet(Requests)

VARIABLES
  pc,         \* what each request is doing, or waiting for
  gone,       \* its client has closed the connection
  flag,       \* the abort flag shared by its handler and the engine
  aborted,    \* the `aborted` field of a grep's response
  installed,  \* the scan thread has committed the picker
  open,       \* the databases that hold a handle
  teardown,   \* how far the workspace's removal has come
  count,      \* accesses of one file recorded in the frecency database
  cached,     \* accesses the index's cached score of it accounts for
  missed      \* a recording ended without refreshing it, and no refresh has come since

vars == <<pc, gone, flag, aborted, installed, open, teardown, count, cached, missed>>
grepping == <<gone, flag, aborted>>
workspace == <<installed, open, teardown>>
scores == <<count, cached, missed>>

Entry == {"grep.read", "search.read", "names.read", "track.record", "select.write",
          "history.read", "poll.read", "refresh.write"}
Inside == {"grep.search", "grep.ended", "search.queries", "search.rank", "names.rank",
           "track.count", "track.picker", "track.frecency", "refresh.scores"}

\* Types; and a request records one access at most.
TypeOK ==
  /\ pc \in [Requests -> {"new", "answer", "done"} \cup Entry \cup Inside]
  /\ gone \in [Requests -> BOOLEAN] /\ flag \in [Requests -> BOOLEAN]
  /\ aborted \in [Requests -> BOOLEAN]
  /\ installed \in BOOLEAN
  /\ open \subseteq {"frecency", "queries"}
  /\ teardown \in {"registered", "frecency", "queries", "released"}
  /\ {count, cached} \subseteq 0..Cardinality(Requests)
  /\ missed \in BOOLEAN

\* A workspace that was just created: its databases are open, its first scan may run.
Init ==
  /\ pc = [r \in Requests |-> "new"]
  /\ gone = [r \in Requests |-> FALSE] /\ flag = [r \in Requests |-> FALSE]
  /\ aborted = [r \in Requests |-> FALSE]
  /\ installed = FALSE
  /\ open = {"frecency", "queries"}
  /\ teardown = "registered"
  /\ count = 0 /\ cached = 0 /\ missed = FALSE

-----------------------------------------------------------------------------
(* The locks. *)

At(places) == {r \in Requests : pc[r] \in places}

PickerReaders == At({"grep.search", "grep.ended", "search.queries", "search.rank", "names.rank"})
PickerWriters == At({"track.frecency", "refresh.scores"})

CanReadPicker == PickerWriters = {}
CanWritePicker == PickerWriters = {} /\ PickerReaders = {}

\* Mutated form: drop(guard) is missing, and track_access keeps the frecency lock.
FrecencyReaders_Kept == At({"track.count", "track.picker", "track.frecency"})

\* track_access drops its guard before it takes the picker.
FrecencyReaders == At({"track.count"})
QueriesReaders == At({"search.rank"})

\* It is not this request's turn while a writer waits for the lock it wants to read;
\* and nothing makes a search end whose flag is not set.
Turn(r) ==
  /\ pc[r] \in {"grep.read", "search.read", "names.read", "poll.read"}
       => At({"track.picker", "refresh.write"}) = {}
  /\ pc[r] \in {"track.record", "track.frecency", "refresh.scores"} => teardown # "frecency"
  /\ pc[r] \in {"search.queries", "history.read"}
       => At({"select.write"}) = {} /\ teardown # "queries"
  /\ pc[r] = "grep.search" => flag[r]

\* The workers that are not blocked in a read of the picker.
WorkerFree == Cardinality(At({"poll.read"})) < Workers

Move(r, place) == pc' = [pc EXCEPT ![r] = place]

-----------------------------------------------------------------------------
(* Handlers, on an async worker. *)

\* A handler looks the workspace up and hands its closure to a blocking thread; it
\* answers 404 when the workspace is gone, or 400 (cursor, patterns, empty query or glob).
Arrive(r) ==
  /\ pc[r] = "new" /\ WorkerFree
  /\ \/ teardown = "registered" /\ \E entry \in Entry : Move(r, entry)
     \/ Move(r, "done")
  /\ UNCHANGED <<grepping, workspace, scores>>

\* The client closes the connection.  A handler that is dropped leaves its closure
\* running; only a grep's handler can do anything about it, so only its client leaves.
Disconnect(r) ==
  /\ pc[r] \in {"grep.read", "grep.search", "grep.ended", "answer"} /\ ~gone[r]
  /\ gone' = [gone EXCEPT ![r] = TRUE]
  /\ UNCHANGED <<pc, flag, aborted, workspace, scores>>

\* Mutated form: the guard was moved into the closure and is not dropped here.
DropHandler_Inert(r) ==
  /\ gone[r] /\ ~flag[r] /\ pc[r] # "done" /\ WorkerFree
  /\ pc[r] = "answer" /\ Move(r, "done")
  /\ flag' = [flag EXCEPT ![r] = TRUE]
  /\ UNCHANGED <<gone, aborted, workspace, scores>>

\* axum drops the handler's future, and with it AbortOnDrop, which sets the flag.
DropHandler(r) ==
  /\ gone[r] /\ ~flag[r] /\ pc[r] # "done" /\ WorkerFree
  /\ flag' = [flag EXCEPT ![r] = TRUE]
  /\ Move(r, IF pc[r] = "answer" THEN "done" ELSE pc[r])
  /\ UNCHANGED <<gone, aborted, workspace, scores>>

\* The handler awaits its closure's result and returns it; its guard is dropped too.
Deliver(r) ==
  /\ pc[r] = "answer" /\ ~gone[r] /\ WorkerFree
  /\ Move(r, "done")
  /\ UNCHANGED <<grepping, workspace, scores>>

\* A closure is done; nobody is left to take the result of a dropped handler.
Finish(r) == Move(r, IF flag[r] THEN "done" ELSE "answer")

-----------------------------------------------------------------------------
(* Closures that search, on blocking threads. *)

\* Mutated form: `let _ = AbortOnDrop(..)` drops the guard where it is made.
GrepStart_GuardDropped(r) ==
  /\ pc[r] = "grep.read" /\ CanReadPicker
  /\ IF installed THEN Move(r, "grep.search") ELSE Finish(r)
  /\ flag' = [flag EXCEPT ![r] = TRUE]
  /\ UNCHANGED <<gone, aborted, workspace, scores>>

\* Reads the picker; without an index the answer is 503.
GrepStart(r) ==
  /\ pc[r] = "grep.read" /\ CanReadPicker
  /\ IF installed THEN Move(r, "grep.search") ELSE Finish(r)
  /\ UNCHANGED <<grepping, workspace, scores>>

\* The engine comes to the end of the index, or to the limits of the page, or it sees
\* the flag.
SearchEnds(r) ==
  /\ pc[r] = "grep.search"
  /\ Move(r, "grep.ended")
  /\ UNCHANGED <<grepping, workspace, scores>>

\* Reads the flag and converts the result, under the guard that it then drops.
Load(r) ==
  /\ pc[r] = "grep.ended"
  /\ aborted' = [aborted EXCEPT ![r] = flag[r]]
  /\ Finish(r)
  /\ UNCHANGED <<gone, flag, workspace, scores>>

\* search and search_mixed take the query tracker inside the picker; directory searches
\* and globs take the picker alone.
SearchStart(r) ==
  /\ pc[r] \in {"search.read", "names.read"} /\ CanReadPicker
  /\ Move(r, CASE ~installed -> "answer"
               [] installed /\ pc[r] = "search.read" -> "search.queries"
               [] OTHER -> "names.rank")
  /\ UNCHANGED <<grepping, workspace, scores>>

\* Whether or not the tracker is still there: the engine is given an Option.
SearchQueries(r) ==
  /\ pc[r] = "search.queries"
  /\ Move(r, "search.rank")
  /\ UNCHANGED <<grepping, workspace, scores>>

Rank(r) ==
  /\ pc[r] \in {"search.rank", "names.rank"}
  /\ Move(r, "answer")
  /\ UNCHANGED <<grepping, workspace, scores>>

-----------------------------------------------------------------------------
(* Closures that record, and reporting. *)

\* Mutated form: the call that reads the count records the access once more.
TrackRecord_Twice(r) ==
  /\ pc[r] = "track.record"
  /\ \/ Move(r, "answer") /\ UNCHANGED count
     \/ "frecency" \in open /\ Move(r, "track.count") /\ count' = count + 2
  /\ UNCHANGED <<grepping, workspace, cached, missed>>

\* track_access resolves the path (400), reads the frecency database (503 without a
\* handle) and records the access through the tracker.
TrackRecord(r) ==
  /\ pc[r] = "track.record"
  /\ \/ Move(r, "answer") /\ UNCHANGED count
     \/ "frecency" \in open /\ Move(r, "track.count") /\ count' = count + 1
  /\ UNCHANGED <<grepping, workspace, cached, missed>>

\* Reads the count for the answer and drops the guard.  When that fails the answer is an
\* error and the score is not refreshed, though the access stays recorded.
TrackCount(r) ==
  /\ pc[r] = "track.count"
  /\ \/ Move(r, "track.picker") /\ UNCHANGED missed
     \/ Move(r, "answer") /\ missed' = TRUE
  /\ UNCHANGED <<grepping, workspace, count, cached>>

\* Takes the picker exclusively; without an index there is no cached score to refresh.
TrackPicker(r) ==
  /\ pc[r] = "track.picker" /\ CanWritePicker
  /\ Move(r, IF installed THEN "track.frecency" ELSE "answer")
  /\ UNCHANGED <<grepping, workspace, scores>>

\* Mutated form: the cached score is bumped, not computed anew from the database.
TrackRescore_Bumped(r) ==
  /\ pc[r] = "track.frecency"
  /\ \/ "frecency" \in open /\ cached' = cached + 1 /\ missed' = FALSE
     \/ missed' = TRUE /\ UNCHANGED cached
  /\ Move(r, "answer")
  /\ UNCHANGED <<grepping, workspace, count>>

\* Under both locks the index's score is computed anew from the database; a database that
\* is gone, or a failure, leaves it as it was, and the answer does not tell.
TrackRescore(r) ==
  /\ pc[r] = "track.frecency"
  /\ \/ "frecency" \in open /\ cached' = count /\ missed' = FALSE
     \/ missed' = TRUE /\ UNCHANGED cached
  /\ Move(r, "answer")
  /\ UNCHANGED <<grepping, workspace, count>>

\* track_query takes the query tracker exclusively (400, 503 without a handle).
SelectQuery(r) ==
  /\ pc[r] = "select.write" /\ QueriesReaders = {}
  /\ Move(r, "answer")
  /\ UNCHANGED <<grepping, workspace, scores>>

History(r) ==
  /\ pc[r] = "history.read"
  /\ Move(r, "answer")
  /\ UNCHANGED <<grepping, workspace, scores>>

\* progress() reads the picker on the worker that runs the handler.
PollRead(r) ==
  /\ pc[r] = "poll.read" /\ CanReadPicker
  /\ Move(r, "done")
  /\ UNCHANGED <<grepping, workspace, scores>>

\* refresh_git_status of the engine: the picker exclusively (503 without an index), and
\* the frecency database inside it.
RefreshPicker(r) ==
  /\ pc[r] = "refresh.write" /\ CanWritePicker
  /\ Move(r, IF installed THEN "refresh.scores" ELSE "answer")
  /\ UNCHANGED <<grepping, workspace, scores>>

RefreshScores(r) ==
  /\ pc[r] = "refresh.scores"
  /\ Move(r, "answer")
  /\ UNCHANGED <<grepping, workspace, scores>>

-----------------------------------------------------------------------------
(* The scan thread and the removal of the workspace. *)

\* The first scan commits its index, whose scores come from the frecency database.
Commit ==
  /\ ~installed /\ CanWritePicker
  /\ installed' = TRUE /\ cached' = count /\ missed' = FALSE
  /\ UNCHANGED <<pc, grepping, open, teardown, count>>

\* Pool::remove takes the workspace out of the map; its threads keep their Arc.
Remove ==
  /\ teardown = "registered" /\ teardown' = "frecency"
  /\ UNCHANGED <<pc, grepping, installed, open, scores>>

DestroyFrecency ==
  /\ teardown = "frecency" /\ FrecencyReaders = {}
  /\ teardown' = "queries" /\ open' = open \ {"frecency"}
  /\ UNCHANGED <<pc, grepping, installed, scores>>

DestroyQueries ==
  /\ teardown = "queries" /\ QueriesReaders = {}
  /\ teardown' = "released" /\ open' = open \ {"queries"}
  /\ UNCHANGED <<pc, grepping, installed, scores>>

\* A step of the blocking thread of a request, or of a report's worker.
Closure(r) ==
  \/ GrepStart(r) \/ SearchEnds(r) \/ Load(r)
  \/ SearchStart(r) \/ SearchQueries(r) \/ Rank(r)
  \/ TrackRecord(r) \/ TrackCount(r) \/ TrackPicker(r) \/ TrackRescore(r)
  \/ SelectQuery(r) \/ History(r) \/ PollRead(r) \/ RefreshPicker(r) \/ RefreshScores(r)

\* A step of its handler on an async worker, once it has arrived.
Handler(r) == Deliver(r) \/ DropHandler(r)

Next ==
  \/ \E r \in Requests : Arrive(r) \/ Disconnect(r) \/ Closure(r) \/ Handler(r)
  \/ Commit \/ Remove \/ DestroyFrecency \/ DestroyQueries

Spec == Init /\ [][Next]_vars

\* Threads run and the locks come round; but nothing obliges an engine to finish a search
\* that was not told to stop, a client to leave, or a scan to end.
Fairness ==
  /\ \A r \in Requests : WF_vars(Turn(r) /\ Closure(r)) /\ WF_vars(Handler(r))
  /\ WF_vars(DestroyFrecency) /\ WF_vars(DestroyQueries)

FairSpec == Spec /\ Fairness

-----------------------------------------------------------------------------
(* Properties. *)

Pending(r) == pc[r] \notin {"new", "done"}

\* Every request is answered, or a search that nobody stops is in its way: no order in
\* which handlers, recordings and the teardown take the three locks makes them wait for
\* each other (track_access must drop the frecency lock before it takes the picker).
EveryoneAnswered ==
  \A r \in Requests : []<>(~Pending(r) \/ \E g \in Requests : pc[g] = "grep.search" /\ ~gone[g])

\* A search says that it was aborted only when its client had closed the connection:
\* AbortOnDrop lives as long as the handler's future, and not less.
PatientNotAborted == \A r \in Requests : aborted[r] => gone[r]

\* A search whose client has closed the connection stops and lets go of the picker.
AbandonedStops ==
  \A r \in Requests : (gone[r] /\ pc[r] = "grep.search") ~> (pc[r] # "grep.search")

\* When no track-access is under way, the score the next search ranks with accounts for
\* every access recorded, also those recorded while the first scan ran, those of calls
\* that overlapped and those of earlier calls that failed after recording: unless such a
\* failure, of the count's reading or of the refresh, is the last thing that happened.
ScoreSettles ==
  (installed /\ ~missed /\ At({"track.count", "track.picker", "track.frecency"}) = {})
    => cached = count
=============================================================================
