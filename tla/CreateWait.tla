----------------------------- MODULE CreateWait -----------------------------
(***************************************************************************)
(* How long a create blocks and what it answers: the bounded waits of      *)
(* Workspace::create (src/src/workspace/mod.rs), the status code of POST   *)
(* /v1/workspaces (src/src/routes/workspaces.rs), and the client that      *)
(* polls after it (Connect-FffServer in src/clients/powershell/Fff.psm1).  *)
(*                                                                         *)
(* The engine reaches its stages in order, each at a time of its own:      *)
(* 0 nothing published, 1 scanned, 2 content index built, 3 watching.      *)
(***************************************************************************)
EXTENDS Naturals

CONSTANTS
  MaxBudget,    \* block budgets considered, in ticks
  MaxBuild,     \* how long starting the engine takes at most, in ticks
  Timeout       \* -TimeoutSeconds of the client, in ticks

ASSUME BoundsType == MaxBudget \in Nat /\ MaxBuild \in Nat /\ Timeout \in Nat

WaitFor == {"scan", "indexing", "watcher"}

VARIABLES
  found,      \* "warm" or "late" when the root is already indexed, "none" otherwise
  waitFor,    \* the stage the request asks for
  watch,      \* the option: without it no watcher is ever installed
  budget,     \* waitForIndexMs or create_block_ms
  built,      \* what FilePicker::new_with_shared_state took before the first wait
  stage,      \* the stage the engine has reached
  spent,      \* time since `started`
  left,       \* what is left of the wait that is under way
  rest,       \* what the watcher will be given once the index wait is over
  pc,         \* where the create, and then the client, is
  code,       \* the status code of the answer
  seen,       \* the stage in the resource the client saw last
  patience    \* what is left until the client's deadline

vars ==
  <<found, waitFor, watch, budget, built, stage, spent, left, rest, pc, code, seen, patience>>
request == <<found, waitFor, watch, budget, built>>
client == <<code, seen, patience>>

Stage(wanted) == IF wanted = "scan" THEN 1 ELSE IF wanted = "indexing" THEN 2 ELSE 3

TypeOK ==
  /\ found \in {"none", "warm", "late"}
  /\ waitFor \in WaitFor /\ watch \in BOOLEAN /\ budget \in 0..MaxBudget
  /\ stage \in 0..3 /\ seen \in 0..3
  /\ built \in 0..MaxBuild /\ spent \in 0..(MaxBuild + MaxBudget)
  /\ left \in 0..MaxBudget /\ rest \in 0..MaxBudget
  /\ pc \in {"scan", "index", "watcher", "answer", "check", "sleep", "done"}
  /\ code \in {"none", "200", "201", "202"}
  /\ patience \in 0..Timeout

\* A workspace that exists is found by the handler, or by create_blocking when it
\* looks again; for a new one the engine has just been started, on a clock that
\* already ran, and the scan may take the whole budget beside that.
Init ==
  /\ waitFor \in WaitFor /\ watch \in BOOLEAN /\ budget \in 0..MaxBudget
  /\ built \in 0..MaxBuild
  /\ spent = built /\ left = budget /\ rest = 0
  /\ \/ found = "none" /\ stage = 0 /\ pc = "scan"
     \/ found \in {"warm", "late"} /\ built = 0 /\ stage \in 0..(IF watch THEN 3 ELSE 2) /\ pc = "answer"
  /\ code = "none" /\ seen = 0 /\ patience = Timeout

-----------------------------------------------------------------------------
(* The waits of Workspace::create. *)

\* A wait returns when its stage is reached, or when its time is up; that of a watcher
\* that will never come is taken to last its time.
WaitOver(step, wanted) ==
  /\ pc = step
  /\ stage >= wanted \/ left = 0

\* budget.saturating_sub(spent)
Remaining == IF spent < budget THEN budget - spent ELSE 0

\* Mutated form: the watcher is given the whole of what remains.
ScanDone_WholeRest ==
  /\ WaitOver("scan", 1)
  /\ \/ waitFor = "scan" /\ pc' = "answer" /\ UNCHANGED <<left, rest>>
     \/ waitFor = "indexing" /\ pc' = "index" /\ left' = Remaining /\ UNCHANGED rest
     \/ waitFor = "watcher" /\ pc' = "index" /\ left' = Remaining \div 2
          /\ rest' = Remaining
  /\ UNCHANGED <<request, stage, spent, client>>

\* The watcher's wait is split: half of the remaining time for the index it is
\* gated behind, the other half for itself.
ScanDone ==
  /\ WaitOver("scan", 1)
  /\ \/ /\ waitFor = "scan"
        /\ pc' = "answer"
        /\ UNCHANGED <<left, rest>>
     \/ /\ waitFor = "indexing"
        /\ pc' = "index"
        /\ left' = Remaining
        /\ UNCHANGED rest
     \/ /\ waitFor = "watcher"
        /\ pc' = "index"
        /\ left' = Remaining \div 2
        /\ rest' = Remaining - (Remaining \div 2)
  /\ UNCHANGED <<request, stage, spent, client>>

IndexDone ==
  /\ WaitOver("index", 2)
  /\ \/ waitFor = "watcher" /\ pc' = "watcher" /\ left' = rest
     \/ waitFor # "watcher" /\ pc' = "answer" /\ UNCHANGED left
  /\ UNCHANGED <<request, stage, spent, rest, client>>

WatcherDone ==
  /\ WaitOver("watcher", 3)
  /\ pc' = "answer"
  /\ UNCHANGED <<request, stage, spent, left, rest, client>>

-----------------------------------------------------------------------------
(* The answer, and the client. *)

\* WorkspaceResource::build: the status of a snapshot.
Ready(s) == s >= 2

\* 200 for a warm hit; else 201 when the resource is ready, and otherwise 200 for a
\* workspace found late and 202 for a new one.
Code == IF found = "warm" THEN "200"
        ELSE IF Ready(stage) THEN "201"
        ELSE IF found = "late" THEN "200" ELSE "202"

Respond ==
  /\ pc = "answer"
  /\ code' = Code
  /\ seen' = stage
  /\ pc' = "check"
  /\ UNCHANGED <<request, stage, spent, left, rest, patience>>

\* Test-FffWorkspaceReadiness on the resource in hand.
Satisfied == seen >= Stage(waitFor)

\* Mutated form: the client has no deadline.
Check_NoDeadline ==
  /\ pc = "check"
  /\ \/ Satisfied /\ pc' = "done"
     \/ ~Satisfied /\ pc' = "sleep"
  /\ UNCHANGED <<request, stage, spent, left, rest, client>>

Check ==
  /\ pc = "check"
  /\ \/ (Satisfied \/ patience = 0) /\ pc' = "done"
     \/ ~(Satisfied \/ patience = 0) /\ pc' = "sleep"
  /\ UNCHANGED <<request, stage, spent, left, rest, client>>

Poll ==
  /\ pc = "sleep"
  /\ seen' = stage
  /\ pc' = "check"
  /\ UNCHANGED <<request, stage, spent, left, rest, code, patience>>

-----------------------------------------------------------------------------
(* The engine and the clock. *)

Advance ==
  /\ stage < (IF watch THEN 3 ELSE 2)
  /\ stage' = stage + 1
  /\ UNCHANGED <<request, spent, left, rest, pc, client>>

Blocking == pc \in {"scan", "index", "watcher"}

\* A wait that is over returns before the clock moves on; a client may be slow.
Tick ==
  \/ /\ Blocking
     /\ left > 0
     /\ ~(\/ WaitOver("scan", 1) \/ WaitOver("index", 2) \/ WaitOver("watcher", 3))
     /\ left' = left - 1
     /\ spent' = spent + 1
     /\ UNCHANGED <<request, stage, rest, pc, client>>
  \/ /\ pc \in {"check", "sleep"}
     /\ patience > 0
     /\ patience' = patience - 1
     /\ UNCHANGED <<request, stage, spent, left, rest, pc, code, seen>>

Next ==
  \/ ScanDone \/ IndexDone \/ WatcherDone
  \/ Respond \/ Check \/ Poll
  \/ Advance \/ Tick

Spec == Init /\ [][Next]_vars

\* The create and the client run and time passes; the engine may take for ever.
Fairness ==
  /\ WF_vars(ScanDone) /\ WF_vars(IndexDone) /\ WF_vars(WatcherDone)
  /\ WF_vars(Respond) /\ WF_vars(Check) /\ WF_vars(Poll)
  /\ WF_vars(Tick)

FairSpec == Spec /\ Fairness

-----------------------------------------------------------------------------
(* Properties. *)

\* Create "blocks for the requested readiness stage, up to budget" (mod.rs), over all
\* its waits, however the stages fall: only starting the engine comes on top, and only
\* the scan's wait may still run when the budget is spent.
BudgetKept ==
  /\ spent <= built + budget
  /\ pc = "scan" => spent + left <= built + budget
  /\ pc \in {"index", "watcher"} /\ left > 0 => spent + left <= budget

\* The client returns, even for a stage that is never reached.
ClientReturns == <>(pc = "done")

=============================================================================
