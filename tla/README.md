# fff-server: a TLA+ model

fff-server is an HTTP server that keeps file indexes ("workspaces") in memory and
answers fuzzy searches and greps over them. Each workspace owns an engine (the
fff-search picker with its scan, content-index and watcher threads) and two LMDB
databases. The code is small, and what can go wrong in it is mostly the order of
things: handlers, blocking threads, a maintenance task and the engine's own threads
share a map, a few atomics and exclusive files, and no lock is held across a
workspace's construction or teardown.

This directory models that part, and the pure code around it where a mistake would be
hard to see: paging, cursors, query translation, match ranges and the identity of a root.
Every module is translated from the source under
`src/`; `PROJECT.json` gives, for each definition, the lines it stands for.

- [Inventory](#inventory)
- [Modules](#modules)
- [Runs](#runs)
- [Fairness](#fairness)
- [Proofs](#proofs)
- [Findings](#findings)
- [What the model takes from outside](#what-the-model-takes-from-outside)
- [Not modelled](#not-modelled)
- [Plan](#plan)

## Inventory

| Component | State | Operations | Talks to |
|---|---|---|---|
| Workspace pool (`workspace/pool.rs`) | `entries`: id → `Arc<Workspace>` under one RwLock | `get`, `create_blocking`, `remove`, `sweep`, `shutdown_all`, `list` | Workspace; called by handlers, the maintenance task and main |
| Workspace (`workspace/mod.rs`) | the picker, the two LMDB handles, `last_used`, `ready_since`, `time_to_ready_ms` | `create` with its bounded waits, `touch`, `progress`, `rescan`, `shutdown` | the engine and LMDB |
| Workspace routes (`routes/workspaces.rs`) | none | create, get, delete, list | pool, through `spawn_blocking` |
| Lifecycle routes (`routes/lifecycle.rs`) | none | rescan, git refresh, track-access, track-query, history | a looked-up `Arc<Workspace>` |
| Search routes (`routes/search.rs`, `dto/search.rs`, `dto/file.rs`) | none | search, directories, mixed, glob | a looked-up `Arc<Workspace>` |
| Grep routes (`routes/grep.rs`, `dto/grep.rs`) | an abort flag per grep, the cursor in the client's hands | grep, multi-grep | a looked-up `Arc<Workspace>` |
| Query building (`query.rs`) | none | raw and structured queries, folding, warnings | the engine's parser |
| Paths and identity (`paths.rs`) | none | `canonicalize`, `identity_of`, `stable_id` | the file system |
| Maintenance task (`lib.rs`) | a timer | one `sweep` per tick, unless the pool is empty | pool |
| Server process (`main.rs`) | the instance guard, the listener, the runtime | serve, graceful shutdown, drain, exit | all of the above |
| Configuration (`config.rs`) | plain data | the derived rescan interval and idle timeout | pool, resources |
| Instance guard (`guard.rs`) | a lock file under `db_root` | acquire, drop | other processes |
| Client (`clients/powershell/Fff.psm1`) | none | connect and poll, page through greps | the HTTP API |
| Errors, extraction, health, router, logging | none | pure functions | |

### What is hard about it

- **Creation is not under the map's lock.** Two creates of one root both miss the map,
  and both try to open the same two databases. LMDB admits one of them.
- **Teardown is not under the map's lock either.** `remove` takes the entry out and
  shuts the workspace down after the unlock, while a create of the same root may
  already be opening the databases, and while requests still hold the `Arc`.
- **The sweep acts on what it saw.** It snapshots the Arcs, judges one idle, and then
  takes the lock again to remove by id.
- **Readiness is kept by whoever looks.** `progress()` reads the engine and then updates
  two atomics from that snapshot; any number of callers do so at once, and the periodic
  rescan is decided from the result.
- **Blocking tasks cannot be cancelled.** A client that disconnects drops its handler, not
  the blocking task; axum's graceful shutdown waits for the former only. A grep's handler
  leaves a flag behind when it is dropped.
- **Three locks that prefer writers.** The picker, the frecency database and the query
  tracker are taken in several orders by searches, recordings, reports, the scan thread
  and the teardown; one of them, the picker, also on the async workers.
- **A page is answered from the index of its moment.** Page numbers and cursors are bare
  offsets into an index that changes between two requests.
- **A root has many names.** Links, shares under two host names, renames and volumes without
  file ids lead to the id that a workspace and its databases go by.
- **Budgets are split over several waits**, and the answer's status code, its status
  field and the stage a client asked for are three different things.

### What makes each component correct

- *Pool*: what can be looked up is open and belongs under its id; nothing that runs is
  outside both the map and a thread's hands; a workspace is torn down once; a request
  takes effect atomically, as on a plain map; a 409 has a living cause; whatever is idle
  goes, and every request is answered.
- *Workspace*: the warmup is measured once, and not before it is over; nobody rescans during
  it; scans end and come again; the waits of a create stay inside its budget.
- *Server*: after ctrl-c the process ends, and what it leaves open meanwhile belongs to
  tasks nobody waited for.
- *Configuration*: the derived intervals keep their bands, keep the rescan duty, and settle
  once the warmup is measured.
- *Requests on a workspace*: no order of the locks makes them wait for each other; an
  abandoned grep stops and no other is aborted; recorded accesses reach the scores.
- *Search and grep*: pages hold what they name and follow each other without a gap or a
  repetition while the index stands still; highlighting falls on whole characters.
- *Query building*: what a client asked to be filtered by is applied, or it is warned, or can
  see with parse-query that it became text.
- *Identity and guard*: a directory has one database, a database one directory, and an open
  database one server.
- *Client*: its loops end, also when the stage it asked for never comes.

The hazards that tests would hardly reach are listed in `PROJECT.json`, at their lines,
with the properties that cover them.

## Modules

| Module | Models | Steps are |
|---|---|---|
| `Registry` | what the pool promises: a map on which every request is atomic | one per outcome of a request |
| `Pool` | `pool.rs`, with opening, teardown and touch of a workspace, and the handlers that call it | one critical section of `entries`, one engine or LMDB call, one atomic store |
| `MCPool` | symmetry sets for TLC | |
| `Server` (extends `Pool`) | `main.rs`: serving, disconnects, ctrl-c, drain, guard, exit | the phases of the process around the pool's steps |
| `Readiness` | the end of `create`, `progress`, `observe_readiness`, `rescan`, the sweep's questions | every load, store, compare-exchange, reading of the clock and engine call |
| `Intervals` | `config.rs` durations over a workspace's life | the clock, a measurement's reading and its store, the two steps of `time_to_ready` |
| `MCIntervals` | the configurations TLC tries | |
| `CreateWait` | the waits of `Workspace::create`, the status code, the client's poll loop | the end of a wait, an answer, a poll, a tick |
| `Requests` | the requests on one workspace, their threads, the picker and database locks, the abort flag, the first scan, the teardown | one acquisition, one engine call, one answer |
| `Query` | `query.rs`, `parse-query`'s `ConstraintDto` | operators |
| `Text` | UTF-16 ranges of `dto/file.rs` and `routes/grep.rs`, `Format-FffMatch` | operators |
| `Cursor` | `GrepCursor` and its base64url | operators |
| `Search` (extends `Query`, `Text`, `Cursor`) | `routes/search.rs`, `routes/grep.rs`, `parse-query`, the client's paging loops | one request and its response, one change of the index |
| `MCSearch` | the uses and indexes TLC tries | |
| `Identity` | `paths.rs`, `resolve_root`, `guard.rs` over a file system that changes | one call to the file system, a start or an end of a server |
| `MCIdentity` | paths, places and volumes | |
| `PoolProofs`, `ServerProofs` (extends it), `ReadinessProofs`, `IntervalsProofs`, `CreateWaitProofs`, `RequestsProofs`, `SearchProofs`, `IdentityProofs` | theorems | |

### Pool and Registry

A workspace is named by the create request that builds it: at most one workspace comes
out of a request. `entries` is `Pool.entries`; `engine[w]` is the picker; `holds[w]` the
LMDB handles; `idle` and `warm` are the two questions the sweep asks of a workspace
(`idle_for() >= idle_timeout()` and "the engine is ready"), left to the environment, so
that every timing is covered. `pc`, `target` and `resp` are the local variables of the
threads.

| Code | Actions |
|---|---|
| `routes/workspaces.rs` create, `Pool::create_blocking` | `CreateLookup`, `CreateRecheck`, `OpenFrecency`, `OpenQueries`, `StartPicker`, `CreateFails`, `Install`, `Touch` |
| `Workspace::shutdown` | `StopWatches`, `DestroyFrecency`, `DestroyQueries` |
| delete, `Pool::remove` | `DeleteArrive`, `Delete` (`RemoveEntry`), then the teardown |
| `Pool::get` and a request on the result | `UseLookup`, `Touch`, `UseRead`, `TrackBegin`/`TrackEnd`, `UseRescan` |
| `Pool::sweep` and the tick in `lib.rs` | `SweepBegin`, `SweepPick`, `SweepJudge`, `SweepEvict`, `SweepRescan`, `SweepEnd` |
| `Pool::shutdown_all` | `ShutdownAll`, `DrainNext`, `DrainEnd` |
| time, the engine, the last `Arc` | `GoIdle`, `BecomeWarm`, `LastDrop` |

`Pool` implements `Registry` under `registry <- entries, answer <- resp`: a create takes
effect at its lookup, its insert or its failure, a delete at the unlock of `remove`, an
eviction at the same point on the pool's own account.

### Server

`Server` adds the phase of the process and the set of requests whose client is gone.
`ServeReturns` is axum's graceful shutdown (it waits for requests that are not `gone`),
`DrainBegin` the `shutdown_all` that main awaits, `ReleaseGuard` `drop(guard)`, and
`Close`/`Exit` the drop of the tokio runtime, which cancels asynchronous tasks, discards
blocking tasks that have not started, and joins those that have.

### Readiness

One workspace, whose engine is `active` (scanning or building the content index) and may
have a rescan `queued` behind the active one. Instants are kept as ages that stop
growing at `Interval` (or `Horizon` for the age of the workspace): nothing in the code
tells older ages apart, so the model needs no end of time. `goal` says what a thread
wanted `progress()` for; the sweep asks four times before it decides, and `rescan()`
asks once more, each from a snapshot of its own. Before them `create` takes its last three
steps: it reads the elapsed time (`CreateElapsed`), looks whether the engine is warm
(`CreateSnapshot`), and if so reads the clock again for `ready_since` (`CreateStamp`). `taken`
is the elapsed time an actor has read and not yet stored.

### Intervals

`clamp_secs` in whole milliseconds and seconds; f64 rounding of a positive number is
rounding half up. `elapsed` and `ttr` are what `time_to_ready()` reports before and after
the warmup is measured. A measurer reads the clock (`Measure`) and stores what it read later
(`StoreMeasured`); a caller of `time_to_ready()` loads first and reads the clock only if
nothing was stored (`Load`, `TellElapsed`). `told` and `basis` are what it returned last, and
which of the two that was. Who may measure when is `Readiness`'s matter: here anybody may at any time.

### CreateWait

Stages are numbered in the engine's order. `built` is the time `FilePicker::new_with_shared_state`
took, on the clock that the budget is later measured by. `Advance` has no fairness: the engine may take
for ever. A wait that is over returns before the clock moves on, since the code's waits
poll much faster than a budget's tick.

### Requests

A request's `pc` is its route and the place it has reached; who holds a lock follows from the
pcs (`PickerReaders`, `PickerWriters`, `FrecencyReaders`, `QueriesReaders`), so that no lock is
held by nobody. A handler runs on an async worker and hands a closure to a blocking thread.

| Code | Actions |
|---|---|
| a handler's lookup and early returns | `Arrive` |
| `AbortOnDrop`, a handler dropped by axum, a result delivered | `Disconnect`, `DropHandler`, `Deliver` |
| `grep`, `multi_grep` | `GrepStart`, `SearchEnds`, `Load` |
| `search`, `search_mixed`, `search_directories`, `glob` | `SearchStart`, `SearchQueries`, `Rank` |
| `track_access` | `TrackRecord`, `TrackCount`, `TrackPicker`, `TrackRescore` |
| `track_query`, `history` | `SelectQuery`, `History` |
| `progress()` for a workspace resource | `PollRead`, on the worker |
| `git_refresh` | `RefreshPicker`, `RefreshScores` |
| the first scan's commit, `Workspace::shutdown` | `Commit`, `Remove`, `DestroyFrecency`, `DestroyQueries` |

`TrackCount` may fail after the access was recorded, and its handler then returns at once;
`missed` remembers a score that was not refreshed for that, or for a refresh that failed, until
the next refresh of the score.

A reader queues behind a waiting writer and is only sometimes let past it: an action may
be taken whenever the lock is free, but fairness counts on it only when it is the request's
`Turn`.

### Search, Query, Text and Cursor

A handler answers a page under one read guard of the picker, so a page is one step, and the
index of that moment is a sequence of entries in the engine's order. `page_offset` and
`has_more` saturate at `MaxUsize`. A grep's page is nondeterministic: the engine finishes the
file in which it reaches the limit, or stops when its time budget is up, with no file
finished if need be. `Change` is the watcher or a rescan between two pages; `disturbed`
remembers whether it touched what the client has behind it.

A token of a query keeps what the code looks at: whether it is an asterisk and an extension, holds
a glob character otherwise or holds none, how its parts are separated, and how many `!` lead it. What
each of the five presets of the engine's parser takes a token for is the constant `Reads`; each search
uses its own preset, and parse-query the one the request names. A text is the sequence of its characters'
widths in UTF-8, which also says how many UTF-16 units each has. A cursor is modelled down to
its bytes, since its codec is written by hand, and the number in it has to fit a usize (`MaxUsize`).
An empty token is malformed, a request without one (`NoCursor`) starts at the first file.

### Identity

A path is a canonical string, and `PlaceOf` the place it names; several may name one. A directory
has a volume, a file id and the time it was made, for an id is given again once its directory is
gone. `Canonicalize`, `Stat` and `Identify` are three looks at the file system, and anything may
happen between them. `Identify` takes the id and the directory in one look; the engine opens the
path once more after that, and what it then finds there is not modelled. `recorded` pairs an id
with the directory whose accesses went into its databases. `Exclusive` is the lock file of
Windows.

## Runs

Every passing property has a mutant in `PROJECT.json`: the form a plausible bug would give
to one definition, under which TLC finds the property violated.

| Run | Instance | Shows |
|---|---|---|
| `pool_refused` | 1 root, 3 creates, 1 delete, 1 use, the sweep; a second open of a database is refused | the inductive invariant `IInv` (types included), `RegisteredIsOpen`, `NoOrphanedIndex`, `NoOrphanedHandle`, `TeardownExclusive`, `ReleasedWhenAnswered`, `TrackingHasHandle`, `ConflictOnlyUnderContention` |
| `pool_shared` | 2 roots, 2 creates, 1 delete, the sweep, `shutdown_all`; a database may be shared, and a destroy may fail | the refinement `RegistrySpec`, with `NoOrphanedIndex`, where the lost race of `create_blocking` is reached and a destroyed handle may linger |
| `server` | 1 create, 1 delete, 1 use, the sweep, disconnects, ctrl-c; fair | `LeftoverIsUnawaited`, `ExitCloses`, `EveryRequestAnswered`, `IdleIsEvicted`, `ShutdownTerminates` |
| `readiness` | the create, then a poller, a rescanning client and the sweep; interval 2, ages told apart up to 3 (598 846 states); fair | `TypeOK`, `NoRescanWhileWarming`, `WarmupMeasuredOnce`, `NoScanLoop`, `RescanRecurs` |
| `intervals` | 27 configurations, 2 measuring callers and 1 asking, a clock of 8.99 s steps to 90 s (94 897 states) | `BandsKept`, `DutyKept`, `ReportsSettle`, `IdleOutlastsRescan` |
| `create_wait` | every option, budgets 0 to 6, an engine started within 2, client patience 3, every pace of the engine; fair | `BudgetKept`, `ClientReturns` |
| `requests` | 3 requests on any routes, 2 async workers, one removal, one first scan (272 126 states); fair | `TypeOK`, `PatientNotAborted`, `ScoreSettles`, `EveryoneAnswered`, `AbandonedStops` |
| `search` | the uses of `MCSearch`, indexes of up to 3 entries, `MaxUsize` 1009, 5 pages, 2 changes (724 804 states); fair | `PagesTile`, `PageIsWhatItSays`, `NoSilentLoss`, `HighlightsFaithful`, `ClientStops` |
| `identity` | 2 servers, 7 paths to 4 places on 3 volumes, 2 file ids, 2 changes (1 119 951 states) | `OneDatabasePerDirectory`, `NoSharedDatabase`, `OpenedByOneServer` |
| `pool_race` | 1 root, 2 creates | violates `ConcurrentCreateHonoured` |
| `pool_touched` | 1 root, 2 creates, 1 delete, 1 use, the sweep | violates `SweepEvictsOnlyIdle` |
| `requests_worker` | as `requests`, with 1 worker | violates `AbandonedStops` |

### Why the bounds are enough

- *Pool*. Roots meet only in the sweep's candidates and the drain's list, so two of them
  (`pool_shared`) show whatever happens between roots; everything else happens within
  one. On one root three creates allow a workspace that is registered, one that is being
  torn down and one that is being built at once, with a delete or the sweep doing the
  teardown and a use still holding an old `Arc`. The theorems below lift the safety
  properties to any number.
- *Server*. One workspace suffices to be lost by its client, installed after the drain
  or caught half torn down; its delete and a use meet the drain and the sweep.
- *Readiness*. `progress()` is run by three threads at once; the errors that are found
  need two. Interval 2 leaves an age between "just ready" and "due".
- *Intervals*. The sections hold the defaults, a pinned interval, an inverted one
  (minimum above maximum), a zero factor, and small bands that the warmup enters,
  crosses and leaves on either side; the step is not a multiple of a second, so
  rounding happens both ways. Two measurers can store in the other order than they read, with a
  caller between its load and its clock. The theorems hold for every configuration and any
  number of callers.
- *CreateWait*. Budget 6 gives the halved waits an odd and an even remainder at every
  point the scan may end at; budgets 0 and 1 are the ones a split can lose. An engine that takes
  2 ticks to start leaves `spent` below, at and above the budget.
- *Requests*. A lock cycle needs a reader, a waiting writer and a second reader of the same
  lock, which three requests are; two overlapping recordings still leave one request that
  searches. `AbandonedStops` and `EveryoneAnswered` hold while a worker is left to run a
  handler: with a grep and a recording in the way, three requests block one worker of two,
  and `requests_worker` shows what happens when none is left.
- *Search*. `MaxUsize` 1009 is small enough for page numbers and sizes to reach and overflow the
  largest number, with cursors of it and of one more, and leaves room for four digits; grep
  offsets start at 0, 8, 98 and 998, so that a cursor gains a digit, and its code a padding,
  within a use. Five pages are more than an index of three entries and two changes needs unless a
  budget stops the pages short. Lines have two characters of one, two and four bytes, with ranges
  out of order, inside a character and beyond the line; queries have two tokens or two fields, and
  every preset is asked about every pair of tokens; `MCReads` has presets that read an extension
  as a glob, a glob as text, and a path in two ways.
- *Identity*. Two changes delete a directory and make another under its file id, or rename
  one while a create is between its looks at it; the paths hold two names of one share, two
  spellings of one place without file ids, a root and a link. The theorems lift the bounds.
- Symmetry is declared in the two large pool runs and in `identity`, which check safety and one
  refinement without fairness; runs with liveness properties use none.
- Deadlock is checked in all runs but those whose work is finite: `create_wait` and `search`, where
  the client is done in the end, and the two `requests` runs, where every request is made once.

## Fairness

Weak fairness of a thread's steps says that the operating system runs every thread that
can run: nothing in the code disables a thread for good except a lock, and locks are part
of the guards. The maintenance timer ticks (`SweepBegin`, `Begin(Sweeper)`), main makes
progress once its awaits are over, a create's bounded waits end (`CreateReturns`), clocks advance,
and a scan ends (`ScanEnds`).

In `Requests` the weak fairness of a closure is that of `Turn(r) /\ Closure(r)`: a lock that
becomes free goes to a writer that waits, and a reader is counted on only when none does. A
search is counted on to end once its flag is set; nothing makes one end by itself, no client
leaves, and no first scan commits, on any schedule's account. The handlers' steps and the two
destroys are fair.

In `Search` a client that loops goes on calling and is answered, until it is done. That is
weak fairness of `Call`, which is enabled until `done`, written without ENABLED since TLC
would evaluate it anew in every state: `[]<>done \/ []<><<Call>>_vars`.

One strong fairness: `Triggered(Sweeper)` in `Readiness`. The engine may throttle a request
for a rescan, and the sweep then comes again; an engine that refused every one of
infinitely many requests would leave the index stale whatever the server does.

Not assumed: that requests arrive, that clients disconnect or stay, that ctrl-c is pressed,
that an index becomes ready (`BecomeWarm`, `Advance`), that the index of a paging client
stands still, or that a workspace is left alone.

## Proofs

TLAPS checks the following for every value of the constants that their assumptions
(`ThreadsDisjoint`, `EngineOutcomes`, `Bounds`, `KindsDisjoint`, `ConfigsType`,
`BoundsType`, `WorkersAssumption`, `RequestsAssumption`, `BoundsAssumption`,
`SessionsAssumption`, `ReadsAssumption`, `NamesAssumption`) admit.
The assumptions say that constants have their types, that the kinds of threads do not
overlap, that requests are finitely many where they are counted, and that the uses of the
search endpoints are requests the server can receive and hits the engine can produce; `ReadsAssumption`,
what the engine's parser is taken to recognise, is stated below under what comes from outside. TLC
evaluates them in the runs.

**PoolProofs.** `SpecInv`: `Spec => []IInv`. The safety properties are not inductive, and
`IInv` adds what they rest on:

- `PcByKind`: which steps a thread of each kind can be at;
- `BuildStages`: what a workspace owns follows from how far its create has come, and a
  create that was promised "new" is past its building;
- `HandedOutIsInstalled`: every Arc in the map, among the sweep's candidates or in a
  thread's hands is of a workspace that was installed;
- `TeardownStages`: how much is left open at each step of a shutdown;
- `PromisedOnce`: no request has its result before it has taken effect;
- `ExclusiveDatabases`: a database the engine does not share is open once per root.

One lemma per actor (create, use, touch, delete, sweep, drain, shutdown, environment)
shows that its steps keep `IInv`, mostly by saying what cannot have moved; `StepInv` joins
them. From it follow `SpecTypeOK`, `SpecRegisteredIsOpen`, `SpecNoOrphanedIndex`,
`SpecTeardownExclusive` and `SpecTrackingHasHandle` unconditionally, and

- if destroying a handle never fails: `SpecNoOrphanedHandle`, `SpecReleasedWhenAnswered`
  and `SpecConflictOnlyUnderContention`;
- if the engine never shares a database: `SpecLostRaceUnreachable` — the branch of
  `create_blocking` that honours the winner is dead code.

`PoolImplementsRegistry` shows the refinement, step by step under `IInv`: the invariant is
needed to know that a delete or a use has no promise yet when it takes effect, and that
an eviction empties an id of the map.

**ServerProofs.** `ServerImplementsPool`: without its phases the process is the pool, so that
all of the above holds while it serves, drains and exits. `ServerInv` is the pool's `IInv` and
what each phase on the way down has established:

- `DrainComesLater`, `HandlersReturned`: the drain starts when axum has returned, and then
  only a lost client's request is still under way;
- `DrainCoversRegistered`, `DrainHasThread`: what is registered is on the drain's list or was
  registered behind it by a lost client's create, and the list is being worked on;
- `DrainAwaited`, `TasksJoined`: the guard goes after the drain, the process after the
  blocking tasks.

`SpecLeftoverIsUnawaited` and `SpecExitCloses` follow where destroying a handle does not fail and
`shutdown_all` is called at all (`Drainers # {}`); they take from `IInv` that what is open is
registered, being built or being torn down.

**ReadinessProofs.** `WarmingIsQuiet` (until the first warmup ends the engine is active,
nothing is queued, no time is measured, create has not seen it warm, and no thread is past the
store of "not ready") and `OneAfterTheOther` (create is done before anybody else starts, and what a
thread is about to store is a reading of the clock that is neither before the end of the warmup
nor before create's own) are inductive together. They give `SpecTypeOK`, `SpecNoRescanWhileWarming`
and the action property `SpecWarmupMeasuredOnce`, for any interval and any number of callers.

**IntervalsProofs.** `ClampSecsInBand`, monotonicity of `clamp_secs` in its argument and its
bounds, and from them `DerivedMonotone`, `SpecBandsKept`, `SpecDutyKept` (from below and from
above), `SpecReportsSettle` and `SpecIdleOutlastsRescan` for every configuration and any number of
callers. The two action properties rest on the order of what is told: an elapsed time is not
before the one told earlier, and once the measured time is told, no store can change it.

**CreateWaitProofs.** `WaitBounds` bounds, at every stage, what the waits still to come may take
together with what has been spent, the start of the engine included; `Halves` is the split of what
remains, for odd numbers too. `SpecTypeOK` and `SpecBudgetKept` follow for every budget and timeout.

**RequestsProofs.** `FlagsFollowClients` says where a request can be, and that a flag, and
whatever was reported from one, has its client gone: only `Disconnect` sets `gone`, and only
`DropHandler`, which needs it, sets a flag. It is inductive, for any number of requests and
workers, and gives `SpecPatientNotAborted`. `SpecScoreSettles` needs of it only where requests
can be: `ScoreSettles` is inductive by itself, because whoever records is visible in
`Tracking` from the record to the rescore, and the rescore and the first commit read the
database anew (`ElsewhereKeepsScores`, `RecordingKeepsScores`). `SpecTypeOK` needs that the
counters stay within the number of requests: `AccessesBounded` counts the requests that have
passed their entry (`Entered`), and none comes back to one. `SpecLocksHeld` shows that the locks,
which are derived from the pcs, are locks: a writer of the picker is alone, and nobody reads
back from a database whose handle is gone.

**SearchProofs.** Its operators compute over sequences, and what a recursion computes for a
sequence of any length needs an induction. The library's induction theorems take an operator and cannot
be used; `UpTo` is the same induction for a set, from the well-foundedness of `<`, and
`FlattenSteps`, `DecimalSteps`, `TotalSteps` and `WalkSteps` state a recursive definition as a
sequence of steps. On these rest:

- `SpecPageIsWhatItSays`: `page_offset` and `has_more` in saturating arithmetic agree with
  the exact ones for every index that can be counted (`Saturated`); `IndexInv` keeps the
  index countable.
- `SpecNoSilentLoss`, for queries of any length and whatever the presets recognise within
  `ReadsAssumption`: what raw and structured queries become is described by `ParsedHolds`,
  `FuzzyHolds` and `StructuredHolds`; `WarnedNotApplied`, `GlobsWarnedOrApplied` and
  `FuzzyOrConstraint` compare it with the warnings and the fuzzy parts; and `AnswerInv` says that the
  last answer is of the use that is asked about.
- `CursorRoundTrip`: the token of every offset that a usize holds decodes to that offset. A chunk
  of base64url round-trips for every byte (`Bits`, `ChunkRoundTrip`), the chunks of the code are
  the chunks of the decoder (`ChunksOfFlatten`, `FlattenOfChunks`), and the decimal of every
  number is read as that number (`DecimalAppend`, `ParseDigits`).
- `SpecPagesTile`, from `TileInv`: what was returned so far is the stretch of the index between
  the start and the place the next page names, by number (`NumberInv`) or by cursor
  (`CursorInv`, which needs the round trip); a token of the server is never refused (`StartInv`).
  That everything has been returned in the end is claimed of clients without a time budget that
  the page limit did not stop.
  An index that changes ahead of the client keeps the stretch (`ChangeNumber`, `ChangeCursor`).
- `SpecHighlightsFaithful`: ends of characters grow with their number, in bytes and in units
  (`CharacterEnds`), so that `whole` finds the character an offset lies in (`WholeHolds`,
  `WholeFinds`); the walk of `Format-FffMatch` keeps its spans joined and on characters, whatever
  the ranges are (`LineTiles`), and lights each of them if they are in order (`LineLights`).

**IdentityProofs.** `FiledByIdentity`: what was recorded, and what a create between its look at
the directory and its registration is about to record, is filed under that directory's
identity. The two forms of an identity do not meet (`FileIdIsNoPath`), and a file id determines
volume and number (`FileIdsDiffer`); `SpecOneDatabasePerDirectory` and `SpecNoSharedDatabase`
follow, for any paths, links, volumes and changes. `SpecOpenedByOneServer` holds under
`Exclusive`, from `OneServerRuns`: a database is open only in a server that runs, and one runs
at a time.

Some theorems state definitions that no run lists: the types of `Pool`, `Server` and `CreateWait`,
`SpecServerInv`, `LocksHeld`, `IndexInv` and `CursorRoundTrip` carry other results, and
`SpecLostRaceUnreachable` says that the lost race is dead code exactly when `pool_shared`'s engine is
excluded.

Only model-checked: the liveness properties, since TLAPS does not treat fairness and ENABLED
here (`EveryRequestAnswered`, `IdleIsEvicted`, `ShutdownTerminates`, `NoScanLoop`, `RescanRecurs`,
`ClientReturns`, `EveryoneAnswered`, `AbandonedStops`, `ClientStops`). Every invariant, action property
and refinement that a passing run checks is a theorem as well.

## Findings

- `pool_race`. Two simultaneous creates of one root: the loser is refused by LMDB (409)
  before it reaches the check that would have honoured the winner. The comment on
  `create_blocking` and DESIGN promise the existing workspace.
- `pool_touched`. The sweep judges a workspace idle, a request touches it and goes on
  working with it, and the sweep evicts it. Because it removes by id, the victim may even
  be a workspace that was created after the judgement.
- `requests_worker`. `progress()` takes the picker on the async worker. Behind a recording or a git
  refresh that waits for a grep, as many reports as there are workers leave none to notice
  that the grep's client has gone; the search then runs to its own end.

Observed while modelling, without a run of their own:

- A create whose client has left, or a sweep, may hold databases open after main has dropped
  the guard that is said to cover them (`main.rs:86`, `main.rs:115`, `main.rs:120`).
  `LeftoverIsUnawaited` says who may be left.
- The sweep may queue a periodic rescan behind one that a client has just started, which
  `DESIGN.md:369` excludes (`workspace/mod.rs:340`); and a poller's old snapshot may start the
  rescan clock during a rescan, so that the next one comes early (`workspace/mod.rs:388`).
  Neither makes the workspace scan for ever: `NoScanLoop`.
- 201 or 202 says whether the content index is built, whatever stage the request waited for
  (`routes/workspaces.rs:57`). The PowerShell client does not rely on it: it looks at the resource.
- `create` reads the elapsed time before it looks whether the engine is warm
  (`workspace/mod.rs:248`, `249`). A warmup that ends in between is recorded as slightly shorter than it
  was, for good, where `workspace/mod.rs:300` says "actual initial warmup duration".
  `WarmupMeasuredOnce` admits it of create alone.
- `time_to_ready()` may read the clock after another caller has read it and before that one stores
  (`workspace/mod.rs:303`, `391`). The next report then steps back to the measured time, and if that
  happens between the two questions of one report, its idle timeout may be shorter than its rescan
  interval. `ReportsSettle` and `IdleOutlastsRescan` admit just that.
- A create may block for longer than its budget (`workspace/mod.rs:152`, `DESIGN.md:67`) by the time
  that starting the engine takes: the scan waits for the whole budget after it
  (`workspace/mod.rs:233`). `BudgetKept` carries that term.
- When `access_count` fails after `track_access` has recorded (`routes/lifecycle.rs:156`), the
  client is told of an error, the access counts all the same, and its file is ranked with the old
  score until the next refresh. `ScoreSettles` carries that condition.
- `dto/lifecycle.rs:344` says that a glob that is not recognised becomes text silently, and that
  parse-query makes it visible. The warnings do the same for tokens with a backslash only, and under
  every preset alike (`query.rs:204`): what a directory search or a grep does not recognise for
  another reason shows in parse-query's `fuzzyParts` and nowhere else, and a grep's response has no
  warnings at all. `NoSilentLoss` claims the warnings of file searches.
- A time budget that ends before the first file of the index leaves the offset 0, which is sent as
  a null cursor, and `dto/grep.rs:277` says "`null` means the search is exhausted". The client
  stops paging; `PagesTile` leaves searches with a budget out of its last clause.
- `DESIGN.md:300` speaks of a lowered cap of blocking threads; `main.rs` takes tokio's
  default.
- Outside Windows the guard creates its file and excludes nobody, as its comment says;
  `SpecOpenedByOneServer` carries that condition.
- A create of a renamed root answers with the existing workspace, whose paths still begin
  with the old name.

A destroy that fails is logged and forgotten, so a 204 does not always mean that the
databases are closed: `SpecReleasedWhenAnswered` carries that condition.

## What the model takes from outside

- LMDB refuses a second open of an environment in one process (`tests/common/mod.rs`
  relies on it). `pool_shared` also admits an engine that shares it.
- The frecency handle is destroyed under a lock that waits for readers of the tracker.
- `trigger_full_rescan_async` starts a scan at once, queues one behind a running scan, or
  refuses; scan and content build end.
- A lock of parking_lot admits a reader while no writer holds it, prefers waiting writers, and
  does not overtake for ever.
- The engine's commit loads the scores of the frecency database into the index in one step
  under the picker's lock; recording and counting accesses takes the database's own lock.
- For the four searches the engine returns the entries from an offset on up to a limit, of a
  ranking that two pages share while the index does not change.
- A grep stops at the first file in which it reaches the page limit, or at any file when its
  time budget is up; the offset it returns is that of the next file, and 0 when it has
  searched all of them. It stops soon after its flag is set.
- A hit has a match, and its column is where the first match begins.
- `ReadsAssumption`: no preset of the engine's parser takes a token with a backslash for a glob or an
  extension, and a file search takes every other token with a glob character for one of the
  two (`query.rs:206`, `300`). What else the presets recognise is open: `Reads` is any function
  from presets and tokens to kinds of constraint. What is no constraint is fuzzy text; a token is
  one constraint, and each `!` before it a Not around it.
- A file id is not given to a second directory while the first lives; `stable_id`, a 64-bit
  hash, has no collisions. An operating system closes the files of a process that dies.
- A wait for a watcher that is never installed lasts its whole time.
- Dropping a tokio runtime discards blocking tasks that have not started and joins the
  others; dropping an axum handler does not cancel its blocking task.
- Atomics are sequentially consistent. `ready_since` and `time_to_ready_ms` are stored with
  release and read with acquire ordering, and each decision reads one of them; the
  relaxed ones, `last_touched` and the time of the last scan, decide alone or are only
  reported.

## Not modelled

- Matching, ranking, the content index and the watcher: the fff-search library.
- Health, state, logging, router, OpenAPI: no state of their own.
- Layout of errors and resources, configuration layering, argument parsing.
- `present` and `is_network` (how a Windows path is spelt), the arithmetic of the hash, native
  path joining, and the fields of results that are copied one by one (scores, git flags,
  locations).
- `spike/unc-probe`, a measuring tool.
- The client's starting of servers, opening of files and formatting of tables.

## Plan

Done, in this order: `Registry`/`Pool` (the centre of the system), `Server`, `Readiness`,
`Intervals`, `CreateWait`, `Requests`, `Search` with `Query`, `Text` and `Cursor`, `Identity`, and
the proofs above.

Next, most important first:

1. `Requests`: that the order of the locks is acyclic (who waits for the picker holds nothing
   it is waited for), the safety core of `EveryoneAnswered`.
2. `Requests`: that what the teardown destroys is not reached by a request that came after it.
3. `Registry`: consequences of atomicity that clients rely on (two creates answered "new" for
   one root have a delete or an eviction between them), carried over to `Pool` and `Server` by
   the two refinements.
4. `Identity`: the engine's own look at the path (`workspace/mod.rs:209`) after the root was
   identified, so that a directory put in its place in between is seen.
