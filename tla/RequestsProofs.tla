--------------------------- MODULE RequestsProofs ---------------------------
(* Theorems about Requests, for any number of requests and of workers. *)
EXTENDS Requests, FiniteSetTheorems, TLAPS

Places == {"new", "answer", "done"} \cup Entry \cup Inside

\* What the abort flags rest on: only the departure of a client sets one, and a search
\* reports what its flag says.
FlagsFollowClients ==
  /\ pc \in [Requests -> Places]
  /\ gone \in [Requests -> BOOLEAN] /\ flag \in [Requests -> BOOLEAN]
  /\ aborted \in [Requests -> BOOLEAN]
  /\ \A r \in Requests : flag[r] => gone[r]
  /\ \A r \in Requests : aborted[r] => gone[r]

\* A step that moves one request and leaves the flags alone.
LEMMA MoveKeepsFlags ==
  ASSUME FlagsFollowClients, NEW r \in Requests, NEW place \in Places,
         Move(r, place), UNCHANGED grepping
  PROVE  FlagsFollowClients'
BY DEF FlagsFollowClients, Move, grepping

\* A request that arrives has no flag yet.
LEMMA ArriveKeepsFlags ==
  ASSUME FlagsFollowClients, NEW r \in Requests, Arrive(r)
  PROVE  FlagsFollowClients'
<1>1. \E place \in Entry \cup {"done"} : Move(r, place)
  BY DEF Arrive
<1>2. PICK place \in Places : Move(r, place)
  BY <1>1 DEF Places
<1> QED BY <1>2, MoveKeepsFlags DEF Arrive

\* The end of a closure moves its request and nothing else.
LEMMA FinishMoves ==
  ASSUME NEW r \in Requests, Finish(r)
  PROVE  \E place \in Places : Move(r, place)
<1>1. CASE flag[r]
  BY <1>1 DEF Finish, Places
<1>2. CASE ~flag[r]
  BY <1>2 DEF Finish, Places
<1> QED BY <1>1, <1>2

\* The end of a search is the one step of a closure that writes `aborted`.
LEMMA LoadKeepsFlags ==
  ASSUME FlagsFollowClients, NEW r \in Requests, Load(r)
  PROVE  FlagsFollowClients'
<1>1. PICK place \in Places : Move(r, place)
  BY FinishMoves DEF Load
<1>2. aborted' = [aborted EXCEPT ![r] = flag[r]] /\ UNCHANGED <<gone, flag>>
  BY DEF Load
<1> QED BY <1>1, <1>2 DEF FlagsFollowClients, Move

\* A closure sets no flag, and reports an abort only from one.
LEMMA ClosureKeepsFlags ==
  ASSUME FlagsFollowClients, NEW r \in Requests, Closure(r)
  PROVE  FlagsFollowClients'
<1>1. CASE Load(r)
  BY <1>1, LoadKeepsFlags
<1>2. CASE ~Load(r)
  <2>1. UNCHANGED grepping
    BY <1>2 DEF Closure, GrepStart, SearchEnds, SearchStart, SearchQueries, Rank, TrackRecord,
         TrackCount, TrackPicker, TrackRescore, SelectQuery, History, PollRead, RefreshPicker,
         RefreshScores
  <2>2. \E place \in Places : Move(r, place)
    <3>1. CASE GrepStart(r)
      <4>1. CASE installed
        BY <3>1, <4>1 DEF GrepStart, Places, Inside
      <4>2. CASE ~installed
        BY <3>1, <4>2, FinishMoves DEF GrepStart
      <4> QED BY <4>1, <4>2
    <3>2. CASE SearchStart(r)
      BY <3>2 DEF SearchStart, Places, Inside
    <3>3. CASE SearchEnds(r) \/ SearchQueries(r) \/ Rank(r)
      BY <3>3 DEF SearchEnds, SearchQueries, Rank, Places, Inside
    <3>4. CASE TrackRecord(r) \/ TrackCount(r) \/ TrackRescore(r)
      BY <3>4 DEF TrackRecord, TrackCount, TrackRescore, Places, Inside
    <3>5. CASE TrackPicker(r) \/ RefreshPicker(r)
      <4>1. CASE installed
        BY <3>5, <4>1 DEF TrackPicker, RefreshPicker, Places, Inside
      <4>2. CASE ~installed
        BY <3>5, <4>2 DEF TrackPicker, RefreshPicker, Places
      <4> QED BY <4>1, <4>2
    <3>6. CASE SelectQuery(r) \/ History(r) \/ PollRead(r) \/ RefreshScores(r)
      BY <3>6 DEF SelectQuery, History, PollRead, RefreshScores, Places
    <3> QED BY <1>2, <3>1, <3>2, <3>3, <3>4, <3>5, <3>6 DEF Closure
  <2> QED BY <2>1, <2>2, MoveKeepsFlags
<1> QED BY <1>1, <1>2

\* Its handler sets the flag only of a client that has gone.
LEMMA HandlerKeepsFlags ==
  ASSUME FlagsFollowClients, NEW r \in Requests, Handler(r)
  PROVE  FlagsFollowClients'
<1>1. CASE Deliver(r)
  <2>1. Move(r, "done") /\ UNCHANGED grepping /\ "done" \in Places
    BY <1>1 DEF Deliver, Places
  <2> QED BY <2>1, MoveKeepsFlags
<1>2. CASE DropHandler(r)
  <2>1. gone[r] /\ flag' = [flag EXCEPT ![r] = TRUE] /\ UNCHANGED <<gone, aborted>>
    BY <1>2 DEF DropHandler
  <2>2. PICK place \in Places : Move(r, place)
    <3>1. pc[r] \in Places /\ "done" \in Places
      BY DEF FlagsFollowClients, Places
    <3>2. CASE pc[r] = "answer"
      BY <1>2, <3>1, <3>2 DEF DropHandler
    <3>3. CASE pc[r] # "answer"
      BY <1>2, <3>1, <3>3 DEF DropHandler
    <3> QED BY <3>2, <3>3
  <2> QED BY <2>1, <2>2 DEF FlagsFollowClients, Move
<1> QED BY <1>1, <1>2 DEF Handler

\* Flags follow the clients in every reachable state.
LEMMA FlagsInductive == Spec => []FlagsFollowClients
<1>1. Init => FlagsFollowClients
  BY DEF Init, FlagsFollowClients, Places
<1>2. FlagsFollowClients /\ [Next]_vars => FlagsFollowClients'
  <2> SUFFICES ASSUME FlagsFollowClients, [Next]_vars PROVE FlagsFollowClients'
    OBVIOUS
  <2>1. ASSUME NEW r \in Requests, Arrive(r) PROVE FlagsFollowClients'
    BY <2>1, ArriveKeepsFlags
  <2>2. ASSUME NEW r \in Requests, Disconnect(r) PROVE FlagsFollowClients'
    BY <2>2 DEF Disconnect, FlagsFollowClients
  <2>3. ASSUME NEW r \in Requests, Closure(r) PROVE FlagsFollowClients'
    BY <2>3, ClosureKeepsFlags
  <2>4. ASSUME NEW r \in Requests, Handler(r) PROVE FlagsFollowClients'
    BY <2>4, HandlerKeepsFlags
  <2>5. CASE Commit \/ Remove \/ DestroyFrecency \/ DestroyQueries
    BY <2>5 DEF Commit, Remove, DestroyFrecency, DestroyQueries, grepping, FlagsFollowClients
  <2>6. CASE UNCHANGED vars
    BY <2>6 DEF vars, FlagsFollowClients
  <2> QED BY <2>1, <2>2, <2>3, <2>4, <2>5, <2>6 DEF Next
<1> QED BY <1>1, <1>2, PTL DEF Spec

\* Whoever stays connected is never told that the search was aborted, on any interleaving
\* of any number of requests.
THEOREM SpecPatientNotAborted == Spec => []PatientNotAborted
<1>1. FlagsFollowClients => PatientNotAborted
  BY DEF FlagsFollowClients, PatientNotAborted
<1> QED BY <1>1, FlagsInductive, PTL

-----------------------------------------------------------------------------
(* The cached scores. *)

Tracking == {"track.count", "track.picker", "track.frecency"}

\* A step of a request that is not recording, and that writes no score: whoever was
\* recording still is.
LEMMA ElsewhereKeepsScores ==
  ASSUME pc \in [Requests -> Places], ScoreSettles, NEW r \in Requests, NEW place,
         pc[r] \notin Tracking, Move(r, place), UNCHANGED <<installed, scores>>
  PROVE  ScoreSettles'
<1>1. UNCHANGED <<installed, count, cached, missed>>
  BY DEF scores
<1>2. At(Tracking) \subseteq At(Tracking)'
  BY DEF At, Move
<1> QED BY <1>1, <1>2 DEF ScoreSettles, Tracking

\* While a request is recording, nothing is promised of the scores.
LEMMA RecordingKeepsScores ==
  ASSUME pc \in [Requests -> Places], NEW r \in Requests, NEW place \in Tracking, Move(r, place)
  PROVE  ScoreSettles'
<1>1. r \in At(Tracking)'
  BY DEF At, Move
<1> QED BY <1>1 DEF ScoreSettles, Tracking

\* Every step of a closure keeps the account of the scores.
LEMMA ClosureKeepsScores ==
  ASSUME pc \in [Requests -> Places], ScoreSettles, NEW r \in Requests, Closure(r)
  PROVE  ScoreSettles'
<1>1. CASE GrepStart(r) \/ SearchEnds(r) \/ Load(r) \/ SearchStart(r) \/ SearchQueries(r) \/ Rank(r)
  <2>1. \E place : Move(r, place)
    BY <1>1 DEF GrepStart, Finish, SearchEnds, Load, SearchStart, SearchQueries, Rank, Move
  <2>2. pc[r] \notin Tracking /\ UNCHANGED <<installed, scores>>
    BY <1>1 DEF GrepStart, SearchEnds, Load, SearchStart, SearchQueries, Rank, Tracking, workspace
  <2> QED BY <2>1, <2>2, ElsewhereKeepsScores
<1>2. CASE TrackRecord(r)
  <2>1. CASE Move(r, "answer") /\ UNCHANGED count
    BY <1>2, <2>1, ElsewhereKeepsScores DEF TrackRecord, Tracking, workspace, scores
  <2>2. CASE Move(r, "track.count")
    BY <2>2, RecordingKeepsScores DEF Tracking
  <2> QED BY <1>2, <2>1, <2>2 DEF TrackRecord
<1>3. CASE TrackCount(r)
  <2>1. CASE Move(r, "track.picker")
    BY <2>1, RecordingKeepsScores DEF Tracking
  <2>2. CASE missed' = TRUE
    BY <2>2 DEF ScoreSettles
  <2> QED BY <1>3, <2>1, <2>2 DEF TrackCount
<1>4. CASE TrackPicker(r)
  <2>1. CASE installed
    BY <1>4, <2>1, RecordingKeepsScores DEF TrackPicker, Tracking
  <2>2. CASE ~installed
    BY <1>4, <2>2 DEF TrackPicker, workspace, ScoreSettles
  <2> QED BY <2>1, <2>2
<1>5. CASE TrackRescore(r)
  BY <1>5 DEF TrackRescore, ScoreSettles
<1>6. CASE SelectQuery(r) \/ History(r) \/ PollRead(r) \/ RefreshPicker(r) \/ RefreshScores(r)
  <2>1. \E place : Move(r, place)
    BY <1>6 DEF SelectQuery, History, PollRead, RefreshPicker, RefreshScores, Move
  <2>2. pc[r] \notin Tracking /\ UNCHANGED <<installed, scores>>
    BY <1>6 DEF SelectQuery, History, PollRead, RefreshPicker, RefreshScores, Tracking, workspace
  <2> QED BY <2>1, <2>2, ElsewhereKeepsScores
<1> QED BY <1>1, <1>2, <1>3, <1>4, <1>5, <1>6 DEF Closure

\* Handlers and clients do not touch the scores.
LEMMA HandlerKeepsScores ==
  ASSUME pc \in [Requests -> Places], ScoreSettles, NEW r \in Requests, Handler(r)
  PROVE  ScoreSettles'
<1>1. UNCHANGED <<installed, scores>>
  BY DEF Handler, Deliver, DropHandler, workspace
<1>2. CASE pc[r] = "answer"
  <2>1. \E place : Move(r, place)
    BY <1>2 DEF Handler, Deliver, DropHandler
  <2> QED BY <1>1, <1>2, <2>1, ElsewhereKeepsScores DEF Tracking
<1>3. CASE pc[r] # "answer"
  BY <1>1, <1>3 DEF Handler, Deliver, DropHandler, Move, ScoreSettles, At, scores
<1> QED BY <1>2, <1>3

\* Between recordings the score that searches rank with accounts for every access, for any
\* number of overlapping calls and wherever the first scan commits, unless a call has
\* failed after recording and nothing has refreshed the score since.
THEOREM SpecScoreSettles == Spec => []ScoreSettles
<1>1. Init => ScoreSettles
  BY DEF Init, ScoreSettles
<1>2. FlagsFollowClients /\ ScoreSettles /\ [Next]_vars => ScoreSettles'
  <2> SUFFICES ASSUME FlagsFollowClients, ScoreSettles, [Next]_vars PROVE ScoreSettles'
    OBVIOUS
  <2>0. pc \in [Requests -> Places]
    BY DEF FlagsFollowClients
  <2>1. ASSUME NEW r \in Requests, Arrive(r) PROVE ScoreSettles'
    <3>1. \E place : Move(r, place)
      BY <2>1 DEF Arrive
    <3>2. pc[r] \notin Tracking /\ UNCHANGED <<installed, scores>>
      BY <2>1 DEF Arrive, Tracking, workspace
    <3> QED BY <2>0, <3>1, <3>2, ElsewhereKeepsScores
  <2>2. ASSUME NEW r \in Requests, Disconnect(r) PROVE ScoreSettles'
    BY <2>2 DEF Disconnect, workspace, scores, ScoreSettles, At
  <2>3. ASSUME NEW r \in Requests, Closure(r) PROVE ScoreSettles'
    BY <2>0, <2>3, ClosureKeepsScores
  <2>4. ASSUME NEW r \in Requests, Handler(r) PROVE ScoreSettles'
    BY <2>0, <2>4, HandlerKeepsScores
  <2>5. CASE Commit
    BY <2>5 DEF Commit, ScoreSettles
  <2>6. CASE Remove \/ DestroyFrecency \/ DestroyQueries \/ UNCHANGED vars
    BY <2>6 DEF Remove, DestroyFrecency, DestroyQueries, scores, vars, ScoreSettles, At
  <2> QED BY <2>1, <2>2, <2>3, <2>4, <2>5, <2>6 DEF Next
<1> QED BY <1>1, <1>2, FlagsInductive, PTL DEF Spec

-----------------------------------------------------------------------------
(* Types.  The counters stay within the number of requests because a       *)
(* request that has passed its entry never comes back to one.              *)

Entered == {r \in Requests : pc[r] \notin {"new"} \cup Entry}

\* Every access recorded is one of a request past its entry, and the index never
\* accounts for more of them than there are.
AccessesBounded ==
  /\ count \in Nat /\ cached \in Nat
  /\ cached <= count
  /\ count <= Cardinality(Entered)

TypeInv ==
  /\ FlagsFollowClients
  /\ installed \in BOOLEAN /\ missed \in BOOLEAN
  /\ open \subseteq {"frecency", "queries"}
  /\ teardown \in {"registered", "frecency", "queries", "released"}
  /\ AccessesBounded

\* The requests past their entry are counted by a natural number.
LEMMA EnteredCounted == /\ IsFiniteSet(Entered)
                        /\ Cardinality(Entered) \in Nat
                        /\ Cardinality(Entered) <= Cardinality(Requests)
<1>1. Entered \subseteq Requests
  BY DEF Entered
<1> QED BY <1>1, RequestsAssumption, FS_Subset, FS_CardinalityType

\* While no request goes back to its entry, no access is lost from the count.
LEMMA EnteredGrows ==
  ASSUME AccessesBounded, Entered \subseteq Entered', count' = count,
         cached' \in {cached, count}
  PROVE  AccessesBounded'
<1>1. IsFiniteSet(Entered') /\ Cardinality(Entered') \in Nat
  <2>1. Entered' \subseteq Requests
    BY DEF Entered
  <2> QED BY <2>1, RequestsAssumption, FS_Subset, FS_CardinalityType
<1>2. Cardinality(Entered) <= Cardinality(Entered')
  BY <1>1, FS_Subset
<1> QED BY <1>1, <1>2, EnteredCounted DEF AccessesBounded

\* A step that moves one request on, from anywhere to past its entry.
LEMMA MovesOn ==
  ASSUME pc \in [Requests -> Places], NEW r \in Requests,
         NEW place \in Places \ ({"new"} \cup Entry), Move(r, place)
  PROVE  Entered' = Entered \cup {r}
BY DEF Entered, Move

\* Recording an access takes a request past its entry: one more of each.
LEMMA RecordKeepsTypes ==
  ASSUME TypeInv, NEW r \in Requests, TrackRecord(r)
  PROVE  AccessesBounded'
<1>1. pc \in [Requests -> Places] /\ pc[r] = "track.record" /\ cached' = cached
  BY DEF TypeInv, FlagsFollowClients, TrackRecord
<1>2. CASE Move(r, "answer") /\ UNCHANGED count
  <2>1. "answer" \in Places \ ({"new"} \cup Entry)
    BY DEF Places, Entry
  <2>2. Entered' = Entered \cup {r}
    BY <1>1, <1>2, <2>1, MovesOn
  <2> QED BY <1>1, <1>2, <2>2, EnteredGrows DEF TypeInv
<1>3. CASE Move(r, "track.count") /\ count' = count + 1
  <2>1. "track.count" \in Places \ ({"new"} \cup Entry)
    BY DEF Places, Entry, Inside
  <2>2. Entered' = Entered \cup {r}
    BY <1>1, <1>3, <2>1, MovesOn
  <2>3. r \notin Entered
    BY <1>1 DEF Entered, Entry
  <2>4. Cardinality(Entered') = Cardinality(Entered) + 1
    BY <2>2, <2>3, EnteredCounted, FS_AddElement
  <2> QED BY <1>1, <1>3, <2>4, EnteredCounted DEF TypeInv, AccessesBounded
<1> QED BY <1>2, <1>3 DEF TrackRecord

\* No other step of a closure brings a request back to its entry or records an access.
LEMMA ClosureKeepsTypes ==
  ASSUME TypeInv, NEW r \in Requests, Closure(r)
  PROVE  TypeInv'
<1>0. pc \in [Requests -> Places]
  BY DEF TypeInv, FlagsFollowClients
<1>1. FlagsFollowClients'
  BY ClosureKeepsFlags DEF TypeInv
<1>2. UNCHANGED workspace /\ missed' \in BOOLEAN
  BY DEF TypeInv, Closure, GrepStart, SearchEnds, Load, SearchStart, SearchQueries, Rank,
       TrackRecord, TrackCount, TrackPicker, TrackRescore, SelectQuery, History, PollRead,
       RefreshPicker, RefreshScores, scores
<1>3. AccessesBounded'
  <2>1. CASE TrackRecord(r)
    BY <2>1, RecordKeepsTypes
  <2>2. CASE ~TrackRecord(r)
    <3>1. count' = count /\ cached' \in {cached, count}
      BY <2>2 DEF Closure, GrepStart, SearchEnds, Load, SearchStart, SearchQueries, Rank,
           TrackCount, TrackPicker, TrackRescore, SelectQuery, History, PollRead,
           RefreshPicker, RefreshScores, scores
    <3>2. \E place \in {"answer", "done"} \cup Inside : Move(r, place)
      <4>1. CASE GrepStart(r) \/ TrackPicker(r) \/ RefreshPicker(r)
        <5>1. CASE installed
          BY <4>1, <5>1 DEF GrepStart, TrackPicker, RefreshPicker, Inside
        <5>2. CASE ~installed /\ flag[r]
          BY <4>1, <5>2 DEF GrepStart, TrackPicker, RefreshPicker, Finish
        <5>3. CASE ~installed /\ ~flag[r]
          BY <4>1, <5>3 DEF GrepStart, TrackPicker, RefreshPicker, Finish
        <5> QED BY <5>1, <5>2, <5>3
      <4>2. CASE Load(r)
        <5>1. CASE flag[r]
          BY <4>2, <5>1 DEF Load, Finish
        <5>2. CASE ~flag[r]
          BY <4>2, <5>2 DEF Load, Finish
        <5> QED BY <5>1, <5>2
      <4>3. CASE SearchStart(r)
        BY <4>3 DEF SearchStart, Inside
      <4>4. CASE SearchEnds(r) \/ SearchQueries(r) \/ Rank(r) \/ TrackCount(r) \/ TrackRescore(r)
        BY <4>4 DEF SearchEnds, SearchQueries, Rank, TrackCount, TrackRescore, Inside
      <4>5. CASE SelectQuery(r) \/ History(r) \/ PollRead(r) \/ RefreshScores(r)
        BY <4>5 DEF SelectQuery, History, PollRead, RefreshScores
      <4> QED BY <2>2, <4>1, <4>2, <4>3, <4>4, <4>5 DEF Closure
    <3>3. PICK place \in Places \ ({"new"} \cup Entry) : Move(r, place)
      BY <3>2 DEF Places, Entry, Inside
    <3> QED BY <1>0, <3>1, <3>3, MovesOn, EnteredGrows DEF TypeInv
  <2> QED BY <2>1, <2>2
<1> QED BY <1>1, <1>2, <1>3 DEF TypeInv, workspace

\* The types hold in every reachable state.
LEMMA TypesInductive == Spec => []TypeInv
<1>1. Init => TypeInv
  <2> SUFFICES ASSUME Init PROVE TypeInv
    OBVIOUS
  <2>1. FlagsFollowClients
    BY DEF Init, FlagsFollowClients, Places
  <2>2. AccessesBounded
    BY EnteredCounted DEF Init, AccessesBounded
  <2> QED BY <2>1, <2>2 DEF Init, TypeInv
<1>2. TypeInv /\ [Next]_vars => TypeInv'
  <2> SUFFICES ASSUME TypeInv, [Next]_vars PROVE TypeInv'
    OBVIOUS
  <2>0. pc \in [Requests -> Places]
    BY DEF TypeInv, FlagsFollowClients
  <2>1. ASSUME NEW r \in Requests, Arrive(r) PROVE TypeInv'
    <3>1. FlagsFollowClients'
      BY <2>1, ArriveKeepsFlags DEF TypeInv
    <3>2. Entered \subseteq Entered'
      BY <2>0, <2>1 DEF Arrive, Move, Entered
    <3>3. AccessesBounded'
      BY <2>1, <3>2, EnteredGrows DEF TypeInv, Arrive, scores
    <3> QED BY <2>1, <3>1, <3>3 DEF TypeInv, Arrive, workspace, scores
  <2>2. ASSUME NEW r \in Requests, Disconnect(r) PROVE TypeInv'
    <3>1. FlagsFollowClients'
      BY <2>2 DEF Disconnect, TypeInv, FlagsFollowClients
    <3>2. Entered' = Entered
      BY <2>2 DEF Disconnect, Entered
    <3>3. AccessesBounded'
      BY <2>2, <3>2, EnteredGrows DEF TypeInv, Disconnect, scores
    <3> QED BY <2>2, <3>1, <3>3 DEF TypeInv, Disconnect, workspace, scores
  <2>3. ASSUME NEW r \in Requests, Closure(r) PROVE TypeInv'
    BY <2>3, ClosureKeepsTypes
  <2>4. ASSUME NEW r \in Requests, Handler(r) PROVE TypeInv'
    <3>1. FlagsFollowClients'
      BY <2>4, HandlerKeepsFlags DEF TypeInv
    <3>2. Entered \subseteq Entered'
      BY <2>0, <2>4 DEF Handler, Deliver, DropHandler, Move, Entered, Entry
    <3>3. AccessesBounded'
      BY <2>4, <3>2, EnteredGrows DEF TypeInv, Handler, Deliver, DropHandler, scores
    <3> QED BY <2>4, <3>1, <3>3 DEF TypeInv, Handler, Deliver, DropHandler, workspace, scores
  <2>5. CASE Commit \/ Remove \/ DestroyFrecency \/ DestroyQueries \/ UNCHANGED vars
    <3>1. FlagsFollowClients'
      BY <2>5 DEF Commit, Remove, DestroyFrecency, DestroyQueries, vars, grepping, TypeInv,
           FlagsFollowClients
    <3>2. Entered' = Entered /\ count' = count /\ cached' \in {cached, count}
      BY <2>5 DEF Commit, Remove, DestroyFrecency, DestroyQueries, vars, scores, Entered
    <3>3. AccessesBounded'
      BY <3>2, EnteredGrows DEF TypeInv
    <3> QED BY <2>5, <3>1, <3>3
         DEF TypeInv, Commit, Remove, DestroyFrecency, DestroyQueries, vars, scores
  <2> QED BY <2>1, <2>2, <2>3, <2>4, <2>5 DEF Next
<1> QED BY <1>1, <1>2, PTL DEF Spec

\* Every variable keeps its type, and no more accesses are counted than there are
\* requests: a request records one at most.
THEOREM SpecTypeOK == Spec => []TypeOK
<1>1. TypeInv => TypeOK
  <2> SUFFICES ASSUME TypeInv PROVE TypeOK
    OBVIOUS
  <2>1. {count, cached} \subseteq 0..Cardinality(Requests)
    <3>1. Cardinality(Requests) \in Nat
      BY RequestsAssumption, FS_CardinalityType
    <3> QED BY <3>1, EnteredCounted DEF TypeInv, AccessesBounded
  <2> QED BY <2>1 DEF TypeInv, FlagsFollowClients, TypeOK, Places
<1> QED BY <1>1, TypesInductive, PTL

-----------------------------------------------------------------------------
(* The locks, which the model derives from where the requests are. *)

\* A picker that is being written has one writer and no reader; and a database that an
\* access is being read back from has not lost its handle to the teardown.
LocksHeld ==
  /\ \A w \in PickerWriters : PickerReaders = {} /\ PickerWriters = {w}
  /\ FrecencyReaders # {} => "frecency" \in open

\* A request that goes nowhere near the picker or the frecency database takes no lock.
LEMMA LeavingKeepsLocks ==
  ASSUME pc \in [Requests -> Places], LocksHeld, NEW r \in Requests, NEW place, Move(r, place),
         UNCHANGED open,
         \/ place \notin Inside
         \/ place \in {"grep.search", "grep.ended", "search.queries", "search.rank",
                       "names.rank"}
              /\ (CanReadPicker \/ r \in PickerReaders)
         \/ place = "track.count" /\ "frecency" \in open
         \/ place \in {"track.frecency", "refresh.scores"} /\ CanWritePicker
         \/ place = "track.picker"
  PROVE  LocksHeld'
<1>1. \A places : At(places)' \subseteq At(places) \cup {r}
  BY DEF At, Move
<1>2. \A places : place \notin places => At(places)' \subseteq At(places)
  BY DEF At, Move
<1>3. place \notin {"track.frecency", "refresh.scores"} =>
        PickerWriters' \subseteq PickerWriters
  BY <1>2 DEF PickerWriters
<1>4. place \notin {"grep.search", "grep.ended", "search.queries", "search.rank",
                    "names.rank"} =>
        PickerReaders' \subseteq PickerReaders
  BY <1>2 DEF PickerReaders
<1>5. \A w \in PickerWriters' : PickerReaders' = {} /\ PickerWriters' = {w}
  <2>1. CASE place \in {"track.frecency", "refresh.scores"}
    <3>1. PickerWriters = {} /\ PickerReaders = {}
      BY <2>1 DEF Inside, CanWritePicker
    <3> QED BY <1>1, <1>4, <2>1, <3>1 DEF PickerWriters
  <2>2. CASE place \in {"grep.search", "grep.ended", "search.queries", "search.rank",
                        "names.rank"}
    <3>1. PickerWriters = {}
      BY <2>2 DEF LocksHeld, CanReadPicker, Inside
    <3> QED BY <1>3, <2>2, <3>1
  <2>3. CASE place \notin {"track.frecency", "refresh.scores", "grep.search", "grep.ended",
                           "search.queries", "search.rank", "names.rank"}
    BY <1>3, <1>4, <2>3 DEF LocksHeld
  <2> QED BY <2>1, <2>2, <2>3
<1>6. FrecencyReaders' # {} => "frecency" \in open'
  BY <1>2 DEF LocksHeld, FrecencyReaders, Inside
<1> QED BY <1>5, <1>6 DEF LocksHeld

\* Every step of a closure keeps it.
LEMMA ClosureKeepsLocks ==
  ASSUME pc \in [Requests -> Places], LocksHeld, NEW r \in Requests, Closure(r)
  PROVE  LocksHeld'
<1>1. UNCHANGED open
  BY DEF Closure, GrepStart, SearchEnds, Load, SearchStart, SearchQueries, Rank, TrackRecord,
       TrackCount, TrackPicker, TrackRescore, SelectQuery, History, PollRead, RefreshPicker,
       RefreshScores, workspace
<1>2. CASE GrepStart(r)
  <2>1. CASE installed
    <3>1. Move(r, "grep.search") /\ CanReadPicker
      BY <1>2, <2>1 DEF GrepStart
    <3> QED BY <1>1, <3>1, LeavingKeepsLocks
  <2>2. CASE ~installed
    <3>1. \E place \in {"answer", "done"} : Move(r, place)
      BY <1>2, <2>2 DEF GrepStart, Finish
    <3> QED BY <1>1, <3>1, LeavingKeepsLocks DEF Inside
  <2> QED BY <2>1, <2>2
<1>3. CASE SearchEnds(r) \/ SearchQueries(r)
  <2>1. r \in PickerReaders /\ \E place \in {"grep.ended", "search.rank"} : Move(r, place)
    BY <1>3 DEF SearchEnds, SearchQueries, PickerReaders, At
  <2> QED BY <1>1, <2>1, LeavingKeepsLocks
<1>4. CASE SearchStart(r)
  <2>1. CanReadPicker
        /\ \E place \in {"answer", "search.queries", "names.rank"} : Move(r, place)
    BY <1>4 DEF SearchStart
  <2> QED BY <1>1, <2>1, LeavingKeepsLocks DEF Inside
<1>5. CASE Load(r) \/ Rank(r) \/ TrackRescore(r) \/ SelectQuery(r) \/ History(r)
           \/ PollRead(r) \/ RefreshScores(r)
  <2>1. \E place \in {"answer", "done"} : Move(r, place)
    BY <1>5 DEF Load, Finish, Rank, TrackRescore, SelectQuery, History, PollRead, RefreshScores
  <2> QED BY <1>1, <2>1, LeavingKeepsLocks DEF Inside
<1>6. CASE TrackRecord(r)
  <2>1. Move(r, "answer") \/ (Move(r, "track.count") /\ "frecency" \in open)
    BY <1>6 DEF TrackRecord
  <2> QED BY <1>1, <2>1, LeavingKeepsLocks DEF Inside
<1>7. CASE TrackCount(r)
  <2>1. Move(r, "track.picker") \/ Move(r, "answer")
    BY <1>7 DEF TrackCount
  <2> QED BY <1>1, <2>1, LeavingKeepsLocks DEF Inside
<1>8. CASE TrackPicker(r) \/ RefreshPicker(r)
  <2>1. CanWritePicker
        /\ \E place \in {"answer", "track.frecency", "refresh.scores"} : Move(r, place)
    BY <1>8 DEF TrackPicker, RefreshPicker
  <2> QED BY <1>1, <2>1, LeavingKeepsLocks DEF Inside
<1> QED BY <1>2, <1>3, <1>4, <1>5, <1>6, <1>7, <1>8 DEF Closure

\* The guards under which the routes take the picker and the frecency database keep the
\* writers of the picker apart from each other and from its readers, and the teardown from
\* a recording that reads its count back, for any number of requests.
THEOREM SpecLocksHeld == Spec => []LocksHeld
<1>1. Init => LocksHeld
  BY DEF Init, LocksHeld, PickerWriters, FrecencyReaders, At
<1>2. FlagsFollowClients /\ LocksHeld /\ [Next]_vars => LocksHeld'
  <2> SUFFICES ASSUME FlagsFollowClients, LocksHeld, [Next]_vars PROVE LocksHeld'
    OBVIOUS
  <2>0. pc \in [Requests -> Places]
    BY DEF FlagsFollowClients
  <2>1. ASSUME NEW r \in Requests, Arrive(r) PROVE LocksHeld'
    <3>1. UNCHANGED open /\ \E place \in Entry \cup {"done"} : Move(r, place)
      BY <2>1 DEF Arrive, workspace
    <3> QED BY <2>0, <3>1, LeavingKeepsLocks DEF Entry, Inside
  <2>2. ASSUME NEW r \in Requests, Closure(r) PROVE LocksHeld'
    BY <2>0, <2>2, ClosureKeepsLocks
  <2>3. ASSUME NEW r \in Requests, Disconnect(r) \/ Handler(r) PROVE LocksHeld'
    <3>1. UNCHANGED open
      BY <2>3 DEF Disconnect, Handler, Deliver, DropHandler, workspace
    <3>2. Move(r, "done") \/ pc' = pc
      BY <2>0, <2>3 DEF Disconnect, Handler, Deliver, DropHandler, Move
    <3>3. CASE Move(r, "done")
      BY <2>0, <3>1, <3>3, LeavingKeepsLocks DEF Inside
    <3>4. CASE pc' = pc
      BY <3>1, <3>4 DEF LocksHeld, PickerWriters, PickerReaders, FrecencyReaders, At
    <3> QED BY <3>2, <3>3, <3>4
  <2>4. CASE Commit \/ Remove \/ DestroyFrecency \/ DestroyQueries \/ UNCHANGED vars
    BY <2>4 DEF Commit, Remove, DestroyFrecency, DestroyQueries, vars, LocksHeld, PickerWriters,
         PickerReaders, FrecencyReaders, At
  <2> QED BY <2>1, <2>2, <2>3, <2>4 DEF Next
<1> QED BY <1>1, <1>2, FlagsInductive, PTL DEF Spec
=============================================================================
