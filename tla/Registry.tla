------------------------------ MODULE Registry ------------------------------
(***************************************************************************)
(* What the workspace pool promises its callers: a map from workspace id   *)
(* to live workspace on which every request takes effect in one atomic     *)
(* step.  A workspace is named by the create request that built it.        *)
(*                                                                         *)
(* Module Pool, with its locks taken and dropped between steps, implements *)
(* this specification.                                                     *)
(***************************************************************************)

CONSTANTS
  Ids,        \* workspace ids, one per directory identity
  Creates,    \* create requests, and the workspaces they may build
  Deletes,    \* delete requests
  Uses,       \* requests that look a workspace up and then work on it
  NoWs        \* "no workspace"

VARIABLES
  id,         \* the workspace id each request is about
  registry,   \* the live workspace of each id, or NoWs
  answer      \* what each request has been promised, "none" before it took effect

registryVars == <<id, registry, answer>>

RequestNames == Creates \cup Deletes \cup Uses

Init ==
  /\ id \in [RequestNames -> Ids]
  /\ registry = [i \in Ids |-> NoWs]
  /\ answer = [t \in RequestNames |-> "none"]

Promise(t, what) ==
  /\ answer[t] = "none"
  /\ answer' = [answer EXCEPT ![t] = what]
  /\ UNCHANGED id

\* A root that already has a workspace keeps it.
ReturnExisting(r) ==
  /\ registry[id[r]] # NoWs
  /\ Promise(r, "existing")
  /\ UNCHANGED registry

\* A new workspace appears only where there was none.
InstallNew(r) ==
  /\ registry[id[r]] = NoWs
  /\ Promise(r, "new")
  /\ registry' = [registry EXCEPT ![id[r]] = r]

\* A create that fails leaves the map alone.
Refuse(r) ==
  /\ \E why \in {"conflict", "error"} : Promise(r, why)
  /\ UNCHANGED registry

\* A delete is confirmed in the very step that empties the id.
Remove(d) ==
  /\ registry[id[d]] # NoWs
  /\ Promise(d, "deleted")
  /\ registry' = [registry EXCEPT ![id[d]] = NoWs]

Resolve(u) ==
  /\ registry[id[u]] # NoWs
  /\ Promise(u, "found")
  /\ UNCHANGED registry

NotFound(t) ==
  /\ registry[id[t]] = NoWs
  /\ Promise(t, "notFound")
  /\ UNCHANGED registry

\* A request that found its workspace finishes later, whatever became of the id.
Finish(u) ==
  /\ answer[u] = "found"
  /\ \E how \in {"ok", "notReady"} : answer' = [answer EXCEPT ![u] = how]
  /\ UNCHANGED <<id, registry>>

\* Maintenance and shutdown empty an id on the pool's own account.
Evict(i) ==
  /\ registry[i] # NoWs
  /\ registry' = [registry EXCEPT ![i] = NoWs]
  /\ UNCHANGED <<id, answer>>

Next ==
  \/ \E r \in Creates : ReturnExisting(r) \/ InstallNew(r) \/ Refuse(r)
  \/ \E d \in Deletes : Remove(d)
  \/ \E u \in Uses : Resolve(u) \/ Finish(u)
  \/ \E t \in Deletes \cup Uses : NotFound(t)
  \/ \E i \in Ids : Evict(i)

Spec == Init /\ [][Next]_registryVars

=============================================================================
