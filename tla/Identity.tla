------------------------------ MODULE Identity ------------------------------
(***************************************************************************)
(* From the root a client names to the workspace and the databases it      *)
(* gets: canonicalisation and identity (src/src/paths.rs), the allowed     *)
(* roots (Pool::resolve_root, src/src/workspace/pool.rs), and the guard    *)
(* that keeps a second server away from the databases (src/src/guard.rs,   *)
(* src/src/main.rs), while directories are made, removed and renamed and   *)
(* servers come and go.                                                    *)
(*                                                                         *)
(* A path is a canonical string.  Several may name one place: a share by   *)
(* its short and its full host name, or in another case.                   *)
(***************************************************************************)
EXTENDS Naturals, FiniteSets

CONSTANTS
  Servers,     \* processes that are started over one db_root
  Paths,       \* canonical strings
  PlaceOf,     \* the place each path names, a record [volume, name]
  Folded,      \* each path in lower case
  Forbidden,   \* paths without a parent, or under no allowed root
  WithIds,     \* the volumes that give their directories file ids
  Inodes,      \* the file ids of a volume
  Exclusive,   \* a lock file that is open cannot be opened again (Windows)
  MaxChanges   \* changes of the file system considered

Places == {PlaceOf[p] : p \in Paths}
Volumes == {place.volume : place \in Places}

ASSUME NamesAssumption ==
  /\ Forbidden \subseteq Paths /\ WithIds \subseteq Volumes
  /\ Exclusive \in BOOLEAN /\ MaxChanges \in Nat

\* A directory: its file id, and when it was made, for an id is given again to another
\* directory once its own is gone.
Directory == [volume : Volumes, inode : Inodes, made : 0..MaxChanges]
Nothing == [volume |-> "none"]

VARIABLES
  at,         \* what there is at each place
  link,       \* the path a symbolic link leads to
  changes,    \* changes of the file system so far
  running,    \* servers that hold the instance guard
  call,       \* the create each server is working on
  registered, \* the ids of each server's workspaces, whose databases it has open
  recorded    \* <<id, directory>>: the databases, and what was recorded in them

vars == <<at, link, changes, running, call, registered, recorded>>
filesystem == <<at, link, changes>>
databases == <<registered, recorded>>

Idle == [step |-> "idle"]

TypeOK ==
  /\ at \in [Places -> Directory \cup {Nothing}]
  /\ link \in Paths /\ changes \in 0..MaxChanges /\ running \subseteq Servers
  /\ \A s \in Servers : call[s] = Idle \/ call[s].path \in Paths
  /\ \A pair \in recorded : pair[2] \in Directory \cup {Nothing}

\* Every place but one holds a directory, with the first file id of its volume.
Init ==
  /\ \E empty \in Places : at = [p \in Places |->
       IF p = empty THEN Nothing
       ELSE [volume |-> p.volume, inode |-> CHOOSE i \in Inodes : \A j \in Inodes : i <= j, made |-> 0]]
  /\ \A p, q \in Places : (at[p] # Nothing /\ at[p] = at[q]) => p = q
  /\ link \in Paths /\ changes = 0 /\ running = {}
  /\ call = [s \in Servers |-> Idle]
  /\ registered = [s \in Servers |-> {}] /\ recorded = {}

-----------------------------------------------------------------------------
(* Identity. *)

\* Mutated form: the volume's serial number is left out.
format_file_id_NoVolume(directory) == <<"fid", directory.inode>>

format_file_id(directory) == <<"fid", directory.volume, directory.inode>>

\* Mutated form: the canonical string is the identity.
identity_of_String(path) == <<"path", path>>

\* The file id of what is there now, or the folded string where there is none to be had.
identity_of(path) ==
  LET directory == at[PlaceOf[path]] IN
    IF directory # Nothing /\ directory.volume \in WithIds
      THEN format_file_id(directory)
      ELSE <<"path", Folded[path]>>

\* stable_id, a hash that is the same in every process, taken to be free of collisions.
stable_id(identity) == identity

Step(s, before, after) ==
  /\ s \in running /\ call[s].step = before
  /\ call' = [call EXCEPT ![s] = after]

Refuse(s, step) == Step(s, step, Idle) /\ UNCHANGED <<filesystem, running, databases>>

\* canonicalize follows a link; what is not there is refused (400).
Canonicalize(s) ==
  /\ \E path \in Paths :
       /\ at[PlaceOf[path]] # Nothing
       /\ Step(s, "idle", [step |-> "stat", path |-> path])
  /\ UNCHANGED <<filesystem, running, databases>>

CanonicalizeLink(s) ==
  /\ at[PlaceOf[link]] # Nothing
  /\ Step(s, "idle", [step |-> "stat", path |-> link])
  /\ UNCHANGED <<filesystem, running, databases>>

\* metadata and the checks of the path: what is gone (400), too long, a root of a file
\* system or under no allowed root (403) is refused.
Stat(s) ==
  LET path == call[s].path IN
  \/ /\ call[s].step = "stat"
     /\ at[PlaceOf[path]] # Nothing /\ path \notin Forbidden
     /\ Step(s, "stat", [call[s] EXCEPT !.step = "identify"])
     /\ UNCHANGED <<filesystem, running, databases>>
  \/ call[s].step = "stat" /\ (at[PlaceOf[path]] = Nothing \/ path \in Forbidden) /\ Refuse(s, "stat")

\* The path is looked up once more, for its identity.
Identify(s) ==
  /\ call[s].step = "identify"
  /\ Step(s, "identify", [step |-> "create", path |-> call[s].path,
                          id |-> stable_id(identity_of(call[s].path)),
                          directory |-> at[PlaceOf[call[s].path]]])
  /\ UNCHANGED <<filesystem, running, databases>>

\* The workspace of that id, whose databases are opened when it is new; what the client
\* then reports of its directory is recorded there.
Create(s) ==
  /\ call[s].step = "create"
  /\ registered' = [registered EXCEPT ![s] = @ \cup {call[s].id}]
  /\ recorded' = recorded \cup {<<call[s].id, call[s].directory>>}
  /\ Step(s, "create", Idle)
  /\ UNCHANGED <<filesystem, running>>

-----------------------------------------------------------------------------
(* Servers and the file system. *)

\* Mutated form: the lock file is opened shared.
Start_Shared(s) ==
  /\ s \notin running
  /\ running' = running \cup {s}
  /\ UNCHANGED <<filesystem, call, databases>>

\* InstanceGuard::acquire; a server that cannot have the lock file exits.
Start(s) ==
  /\ s \notin running /\ (Exclusive => running = {})
  /\ running' = running \cup {s}
  /\ UNCHANGED <<filesystem, call, databases>>

\* A server exits, or dies: its handles are closed, the lock file's too.
Stop(s) ==
  /\ s \in running
  /\ running' = running \ {s}
  /\ call' = [call EXCEPT ![s] = Idle]
  /\ registered' = [registered EXCEPT ![s] = {}]
  /\ UNCHANGED <<filesystem, recorded>>

Changed == changes < MaxChanges /\ changes' = changes + 1 /\ UNCHANGED <<running, call, databases>>

\* A directory is made, with a file id that is free.
Make(p) ==
  /\ at[p] = Nothing
  /\ \E i \in Inodes :
       /\ \A q \in Places : at[q] # Nothing => <<at[q].volume, at[q].inode>> # <<p.volume, i>>
       /\ at' = [at EXCEPT ![p] = [volume |-> p.volume, inode |-> i, made |-> changes + 1]]
  /\ Changed /\ UNCHANGED link

Delete(p) == at[p] # Nothing /\ at' = [at EXCEPT ![p] = Nothing] /\ Changed /\ UNCHANGED link

Rename(p, q) ==
  /\ at[p] # Nothing /\ at[q] = Nothing /\ p.volume = q.volume
  /\ at' = [at EXCEPT ![q] = at[p], ![p] = Nothing]
  /\ Changed /\ UNCHANGED link

Relink == \E path \in Paths \ {link} : link' = path /\ Changed /\ UNCHANGED at

Next ==
  \/ \E s \in Servers :
       \/ Start(s) \/ Stop(s)
       \/ Canonicalize(s) \/ CanonicalizeLink(s) \/ Stat(s) \/ Identify(s) \/ Create(s)
  \/ \E p \in Places : Make(p) \/ Delete(p) \/ \E q \in Places : Rename(p, q)
  \/ Relink

Spec == Init /\ [][Next]_vars

-----------------------------------------------------------------------------
(* Properties. *)

\* What is recorded of a directory that has a file id goes into one database, by whatever
\* path or link it was named, before and after it was renamed, and across restarts.
OneDatabasePerDirectory ==
  \A a, b \in recorded :
    (a[2] = b[2] /\ a[2] # Nothing /\ a[2].volume \in WithIds) => a[1] = b[1]

\* Two directories share a database only when one was given the file id of the other, which
\* is gone, or when their volume has no ids and paths to them differ at most in case.
NoSharedDatabase ==
  \A a, b \in recorded :
    (a[1] = b[1] /\ a[2] # Nothing /\ b[2] # Nothing /\ a[2].volume \in WithIds)
      => <<a[2].volume, a[2].inode>> = <<b[2].volume, b[2].inode>>

\* No database is open in two servers: the guard goes with its process, and a workspace's
\* databases with it.
OpenedByOneServer ==
  \A s, t \in Servers : s # t => registered[s] \cap registered[t] = {}
=============================================================================
