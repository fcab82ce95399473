--------------------------- MODULE IdentityProofs ---------------------------
(* Theorems about Identity, for any paths, servers and changes of the file system. *)
EXTENDS Identity, TLAPS

\* The identity that a directory's database goes by.
Names(id, directory) ==
  IF directory # Nothing /\ directory.volume \in WithIds
    THEN id = format_file_id(directory)
    ELSE \E folded : id = <<"path", folded>>

\* A create goes on with the identity of the directory that it looked up with it.
CallNames(c) ==
  \/ c = Idle
  \/ c \in [step : {"stat", "identify"}, path : Paths]
  \/ c.step = "create" /\ Names(c.id, c.directory)

\* What was recorded, or is about to be, is filed under its directory's identity.
FiledByIdentity ==
  /\ link \in Paths
  /\ call = [s \in Servers |-> call[s]]
  /\ \A s \in Servers : CallNames(call[s])
  /\ \A pair \in recorded : Names(pair[1], pair[2])

\* A step of one server that starts or continues its create.
LEMMA StepKeepsFiled ==
  ASSUME FiledByIdentity, NEW s \in Servers, NEW before, NEW after,
         Step(s, before, after), CallNames(after), UNCHANGED <<link, recorded>>
  PROVE  FiledByIdentity'
BY DEF FiledByIdentity, Step, CallNames, Names

\* A look at the names files nothing.
LEMMA CanonicalizeKeepsFiled ==
  ASSUME FiledByIdentity, NEW s \in Servers, Canonicalize(s) \/ CanonicalizeLink(s)
  PROVE  FiledByIdentity'
<1>1. PICK path \in Paths : Step(s, "idle", [step |-> "stat", path |-> path])
  BY DEF Canonicalize, CanonicalizeLink, FiledByIdentity
<1>2. CallNames([step |-> "stat", path |-> path])
  BY DEF CallNames
<1> QED BY <1>1, <1>2, StepKeepsFiled DEF Canonicalize, CanonicalizeLink, filesystem, databases

\* Nor does a look at the directory.
LEMMA StatKeepsFiled ==
  ASSUME FiledByIdentity, NEW s \in Servers, Stat(s)
  PROVE  FiledByIdentity'
<1>0. UNCHANGED <<link, recorded>>
  BY DEF Stat, Refuse, filesystem, databases
<1>1. CASE Step(s, "stat", [call[s] EXCEPT !.step = "identify"])
  <2>1. call[s] \in [step : {"stat", "identify"}, path : Paths]
    BY <1>1 DEF Step, FiledByIdentity, CallNames, Idle
  <2>2. [call[s] EXCEPT !.step = "identify"] \in [step : {"stat", "identify"}, path : Paths]
    BY <2>1
  <2>3. CallNames([call[s] EXCEPT !.step = "identify"])
    BY <2>2 DEF CallNames
  <2> QED BY <1>0, <1>1, <2>3, StepKeepsFiled
<1>2. CASE Step(s, "stat", Idle)
  <2>1. CallNames(Idle)
    BY DEF CallNames
  <2> QED BY <1>0, <1>2, <2>1, StepKeepsFiled
<1> QED BY <1>1, <1>2 DEF Stat, Refuse

\* The identity and the directory are read at one place at one time.
LEMMA IdentifyKeepsFiled ==
  ASSUME FiledByIdentity, NEW s \in Servers, Identify(s)
  PROVE  FiledByIdentity'
<1> DEFINE path == call[s].path
           known == [step |-> "create", path |-> path, id |-> stable_id(identity_of(path)),
                     directory |-> at[PlaceOf[path]]]
<1>1. Names(stable_id(identity_of(path)), at[PlaceOf[path]])
  BY DEF Names, stable_id, identity_of
<1>2. CallNames(known)
  BY <1>1 DEF CallNames
<1>3. Step(s, "identify", known) /\ UNCHANGED <<link, recorded>>
  BY DEF Identify, filesystem, databases
<1> QED BY <1>2, <1>3, StepKeepsFiled

\* A registration files the directory under the identity that was read from it.
LEMMA CreateKeepsFiled ==
  ASSUME FiledByIdentity, NEW s \in Servers, Create(s)
  PROVE  FiledByIdentity'
<1>1. Names(call[s].id, call[s].directory)
  BY DEF Create, FiledByIdentity, CallNames, Idle
<1>2. \A pair \in recorded' : Names(pair[1], pair[2])
  BY <1>1 DEF Create, FiledByIdentity
<1>3. link' \in Paths
  BY DEF Create, FiledByIdentity, filesystem
<1>4. /\ call' = [t \in Servers |-> call'[t]]
      /\ \A t \in Servers : CallNames(call'[t])
  BY DEF Create, Step, FiledByIdentity, CallNames
<1> QED BY <1>2, <1>3, <1>4 DEF FiledByIdentity, CallNames, Names

\* What is filed stays filed under its own identity.
LEMMA FiledInductive == Spec => []FiledByIdentity
<1>1. Init => FiledByIdentity
  BY DEF Init, FiledByIdentity, CallNames
<1>2. FiledByIdentity /\ [Next]_vars => FiledByIdentity'
  <2> SUFFICES ASSUME FiledByIdentity, [Next]_vars PROVE FiledByIdentity'
    OBVIOUS
  <2>1. ASSUME NEW s \in Servers, Start(s) PROVE FiledByIdentity'
    BY <2>1 DEF Start, filesystem, databases, FiledByIdentity, CallNames, Names
  <2>2. ASSUME NEW s \in Servers, Stop(s) PROVE FiledByIdentity'
    BY <2>2 DEF Stop, filesystem, FiledByIdentity, CallNames, Names
  <2>3. ASSUME NEW s \in Servers, Canonicalize(s) \/ CanonicalizeLink(s) PROVE FiledByIdentity'
    BY <2>3, CanonicalizeKeepsFiled
  <2>4. ASSUME NEW s \in Servers, Stat(s) PROVE FiledByIdentity'
    BY <2>4, StatKeepsFiled
  <2>5. ASSUME NEW s \in Servers, Identify(s) PROVE FiledByIdentity'
    BY <2>5, IdentifyKeepsFiled
  <2>6. ASSUME NEW s \in Servers, Create(s) PROVE FiledByIdentity'
    BY <2>6, CreateKeepsFiled
  <2>7. ASSUME NEW p \in Places, Make(p) \/ Delete(p) PROVE FiledByIdentity'
    BY <2>7 DEF Make, Delete, Changed, databases, FiledByIdentity, CallNames, Names
  <2>8. ASSUME NEW p \in Places, NEW q \in Places, Rename(p, q) PROVE FiledByIdentity'
    BY <2>8 DEF Rename, Changed, databases, FiledByIdentity, CallNames, Names
  <2>9. CASE Relink
    BY <2>9 DEF Relink, Changed, databases, FiledByIdentity, CallNames, Names
  <2>10. CASE UNCHANGED vars
    BY <2>10 DEF vars, filesystem, databases, FiledByIdentity, CallNames, Names
  <2> QED BY <2>1, <2>2, <2>3, <2>4, <2>5, <2>6, <2>7, <2>8, <2>9, <2>10 DEF Next
<1> QED BY <1>1, <1>2, PTL DEF Spec

\* A directory with a file id has one database, whatever names lead to it and however the
\* directories around it are renamed, for any paths, volumes and servers.
THEOREM SpecOneDatabasePerDirectory == Spec => []OneDatabasePerDirectory
<1>1. FiledByIdentity => OneDatabasePerDirectory
  BY DEF FiledByIdentity, Names, OneDatabasePerDirectory
<1> QED BY <1>1, FiledInductive, PTL

\* The two forms of an identity do not meet, and a file id determines what it was made of.
LEMMA FileIdIsNoPath ==
  ASSUME NEW volume, NEW inode, NEW folded
  PROVE  <<"fid", volume, inode>> # <<"path", folded>>
<1>1. <<"fid", volume, inode>>[1] = "fid" /\ <<"path", folded>>[1] = "path"
  OBVIOUS
<1> QED BY <1>1

\* Ids made of file ids are the same only where the volume and the file id are.
LEMMA FileIdsDiffer ==
  ASSUME NEW v, NEW i, NEW w, NEW j, <<"fid", v, i>> = <<"fid", w, j>>
  PROVE  v = w /\ i = j
<1>1. <<"fid", v, i>>[2] = v /\ <<"fid", v, i>>[3] = i
  OBVIOUS
<1>2. <<"fid", w, j>>[2] = w /\ <<"fid", w, j>>[3] = j
  OBVIOUS
<1> QED BY <1>1, <1>2

\* Directories share a database only when one was given the file id of the other.
THEOREM SpecNoSharedDatabase == Spec => []NoSharedDatabase
<1>1. FiledByIdentity => NoSharedDatabase
  <2> SUFFICES ASSUME FiledByIdentity, NEW a \in recorded, NEW b \in recorded,
                      a[1] = b[1], a[2] # Nothing, b[2] # Nothing, a[2].volume \in WithIds
               PROVE  <<a[2].volume, a[2].inode>> = <<b[2].volume, b[2].inode>>
    BY DEF NoSharedDatabase
  <2>1. a[1] = <<"fid", a[2].volume, a[2].inode>>
    BY DEF FiledByIdentity, Names, format_file_id
  <2>2. b[2].volume \in WithIds
    <3> SUFFICES ASSUME b[2].volume \notin WithIds PROVE FALSE
      OBVIOUS
    <3>1. PICK folded : b[1] = <<"path", folded>>
      BY DEF FiledByIdentity, Names
    <3> QED BY <2>1, <3>1, FileIdIsNoPath
  <2>3. b[1] = <<"fid", b[2].volume, b[2].inode>>
    BY <2>2 DEF FiledByIdentity, Names, format_file_id
  <2>4. a[2].volume = b[2].volume /\ a[2].inode = b[2].inode
    <3>1. <<"fid", a[2].volume, a[2].inode>> = <<"fid", b[2].volume, b[2].inode>>
      BY <2>1, <2>3
    <3> QED BY <3>1, FileIdsDiffer
  <2> QED BY <2>4
<1> QED BY <1>1, FiledInductive, PTL

-----------------------------------------------------------------------------
(* Servers. *)

\* A database is open only in a server that runs, and one runs at a time.
OneServerRuns ==
  /\ registered = [s \in Servers |-> registered[s]]
  /\ \A s \in Servers : registered[s] # {} => s \in running
  /\ \A s, t \in running : s = t

\* Where a lock file that is open cannot be opened again, no database is open in two
\* servers at once, however they are started, stopped and killed.
THEOREM SpecOpenedByOneServer ==
  ASSUME Exclusive
  PROVE  Spec => []OpenedByOneServer
<1>1. Init => OneServerRuns
  BY DEF Init, OneServerRuns
<1>2. OneServerRuns /\ [Next]_vars => OneServerRuns'
  <2> SUFFICES ASSUME OneServerRuns, [Next]_vars PROVE OneServerRuns'
    OBVIOUS
  <2>1. ASSUME NEW s \in Servers, Start(s) PROVE OneServerRuns'
    BY <2>1 DEF Start, databases, OneServerRuns
  <2>2. ASSUME NEW s \in Servers, Stop(s) PROVE OneServerRuns'
    BY <2>2 DEF Stop, OneServerRuns
  <2>3. ASSUME NEW s \in Servers,
               Canonicalize(s) \/ CanonicalizeLink(s) \/ Stat(s) \/ Identify(s)
        PROVE  OneServerRuns'
    BY <2>3 DEF Canonicalize, CanonicalizeLink, Stat, Refuse, Identify, databases, OneServerRuns
  <2>4. ASSUME NEW s \in Servers, Create(s) PROVE OneServerRuns'
    BY <2>4 DEF Create, Step, OneServerRuns
  <2>5. ASSUME NEW p \in Places, Make(p) \/ Delete(p) PROVE OneServerRuns'
    BY <2>5 DEF Make, Delete, Changed, databases, OneServerRuns
  <2>6. ASSUME NEW p \in Places, NEW q \in Places, Rename(p, q) PROVE OneServerRuns'
    BY <2>6 DEF Rename, Changed, databases, OneServerRuns
  <2>7. CASE Relink \/ UNCHANGED vars
    BY <2>7 DEF Relink, Changed, databases, vars, filesystem, OneServerRuns
  <2> QED BY <2>1, <2>2, <2>3, <2>4, <2>5, <2>6, <2>7 DEF Next
<1>3. OneServerRuns => OpenedByOneServer
  BY DEF OneServerRuns, OpenedByOneServer
<1> QED BY <1>1, <1>2, <1>3, PTL DEF Spec
=============================================================================
