-------------------------- MODULE ReadinessProofs --------------------------
(***************************************************************************)
(* Proofs about Readiness for any number of pollers and rescan requests    *)
(* and any interval: the warmup of a workspace is measured once, and no    *)
(* rescan is asked for before it has ended.                                *)
(***************************************************************************)
EXTENDS Readiness, TLAPS

\* The first goal of a thread is a goal, and neither of the sweep's later ones.
LEMMA FirstGoalType ==
  ASSUME NEW t \in Threads
  PROVE  FirstGoal(t) \in {"report", "gate", "rescan"}
BY KindsDisjoint DEF FirstGoal, Threads

\* A workspace starts warming, with nothing under way but its creation.
LEMMA InitInv == Init => IInv
<1> SUFFICES ASSUME Init PROVE IInv
  OBVIOUS
<1> USE DEF Init
<1>1. TypeOK
  <2>1. \A t \in Threads : FirstGoal(t) \in Goals
    BY FirstGoalType DEF Goals
  <2>2. 1 \in 1..Horizon /\ 0 \in 0..Horizon /\ 0 \in 0..Interval
        /\ NotReady \in 0..NotReady
    BY Bounds DEF NotReady
  <2> QED BY <2>1, <2>2 DEF TypeOK, Steps
<1>2. \A t \in Threads : t \in Actors /\ t # Creator
  BY KindsDisjoint DEF Actors
<1>3. Creator \in Actors
  BY DEF Actors
<1>4. WarmingIsQuiet /\ OneAfterTheOther
  BY <1>2, <1>3 DEF WarmingIsQuiet, OneAfterTheOther, At
<1> QED BY <1>1, <1>4 DEF IInv

\* Where a thread goes when progress() returns, and that a warming engine sends
\* nobody on to a rescan.
LEMMA ReturnedType ==
  ASSUME NEW t \in Threads, NEW ready \in BOOLEAN, TypeOK, Returned(t, ready)
  PROVE  /\ goal' \in [Threads -> Goals]
         /\ \E step \in {"idle", "read", "decide", "trigger"} :
              pc' = [pc EXCEPT ![t] = step]
         /\ ~ready /\ goal[t] \in {"report", "gate", "rescan"} =>
              pc' = [pc EXCEPT ![t] = "idle"] /\ goal' = goal
<1>1. goal' \in [Threads -> Goals]
  BY DEF Returned, Then, Ask, Want, TypeOK, Goals
<1>2. \E step \in {"idle", "read", "decide", "trigger"} : pc' = [pc EXCEPT ![t] = step]
  BY DEF Returned, Then, Ask, Goto
<1>3. ~ready /\ goal[t] \in {"report", "gate", "rescan"} =>
        pc' = [pc EXCEPT ![t] = "idle"] /\ goal' = goal
  BY DEF Returned, Then, Ask, Goto
<1> QED BY <1>1, <1>2, <1>3

\* A thread that was under way, or finds the workspace created, may take any step
\* but one of create's, and read a time that is not before the warmup's end.
LEMMA MovedInOrder ==
  ASSUME TypeOK, OneAfterTheOther, NEW t \in Threads,
         ~At(t, "idle") \/ At(Creator, "idle"),
         NEW step \in Steps \ {"create", "snapshot", "stamp"},
         pc' = [pc EXCEPT ![t] = step],
         UNCHANGED <<life, warmedAt>>,
         \/ step # "store" /\ taken' = taken
         \/ step # "store" /\ taken' = [taken EXCEPT ![t] = 0]
         \/ taken' = [taken EXCEPT ![t] = life]
  PROVE  /\ pc' \in [Actors -> Steps] /\ taken' \in [Actors -> 0..Horizon]
         /\ OneAfterTheOther'
<1>1. t \in Actors /\ Creator \in Actors /\ t # Creator
  BY KindsDisjoint DEF Actors
<1>2. pc'[Creator] = pc[Creator] /\ taken'[Creator] = taken[Creator] /\ At(Creator, "idle")
  BY <1>1 DEF TypeOK, OneAfterTheOther, At
<1>3. 0 \in 0..Horizon /\ life \in 0..Horizon
  BY Bounds DEF TypeOK
<1>4. pc' \in [Actors -> Steps] /\ taken' \in [Actors -> 0..Horizon]
  BY <1>1, <1>3 DEF TypeOK
<1>5. ASSUME NEW u \in Threads
      PROVE  /\ pc'[u] \notin {"create", "snapshot", "stamp"}
             /\ pc'[u] = "store" => taken'[u] >= warmedAt /\ taken'[u] >= taken[Creator]
  <2>1. u \in Actors
    BY DEF Actors
  <2>2. CASE u = t
    BY <1>1, <2>1, <2>2 DEF TypeOK, OneAfterTheOther
  <2>3. CASE u # t
    <3>1. pc'[u] = pc[u] /\ taken'[u] = taken[u]
      BY <2>1, <2>3 DEF TypeOK
    <3> QED BY <3>1 DEF OneAfterTheOther, At
  <2> QED BY <2>2, <2>3
<1> QED BY <1>2, <1>4, <1>5 DEF OneAfterTheOther, At

\* Every step of a thread keeps the invariant.
LEMMA ThreadInv ==
  ASSUME IInv, NEW t \in Threads,
         Begin(t) \/ Progress(t) \/ Rescan(t) \/ Triggered(t)
  PROVE  IInv'
<1> USE DEF IInv
<1>g. FirstGoal(t) \in {"report", "gate", "rescan"}
  BY FirstGoalType
<1>a. t \in Actors /\ Creator \in Actors /\ t # Creator
  BY KindsDisjoint DEF Actors
<1>m. ASSUME NEW step \in Steps \ {"create", "snapshot", "stamp", "store"},
             pc' = [pc EXCEPT ![t] = step], UNCHANGED <<life, warmedAt>>,
             ~At(t, "idle") \/ At(Creator, "idle"),
             taken' = taken \/ taken' = [taken EXCEPT ![t] = 0]
      PROVE  /\ pc' \in [Actors -> Steps] /\ taken' \in [Actors -> 0..Horizon]
             /\ OneAfterTheOther'
  BY <1>m, MovedInOrder
<1>r. NotReady \in 0..NotReady /\ 0 \in 0..Interval
      /\ (\A age \in 0..Interval : age \in 0..NotReady)
  BY Bounds DEF NotReady
<1>1. CASE Begin(t)
  <2>1. OneAfterTheOther' /\ pc' \in [Actors -> Steps] /\ taken' \in [Actors -> 0..Horizon]
    BY <1>1, <1>m DEF Begin, Goto, engineVars, Steps
  <2> QED BY <1>1, <1>a, <1>g, <2>1 DEF Begin, Goto, Want, TypeOK, WarmingIsQuiet,
                                       engineVars, Goals, At
<1>2. CASE Read(t)
  <2>1. OneAfterTheOther' /\ pc' \in [Actors -> Steps] /\ taken' \in [Actors -> 0..Horizon]
    BY <1>2, <1>m DEF Read, Goto, engineVars, Steps, At
  <2> QED BY <1>2, <1>a, <2>1 DEF Read, Goto, TypeOK, WarmingIsQuiet, engineVars, At
<1>3. CASE StoreNotReady(t)
  <2>1. Returned(t, FALSE) /\ readySince' = NotReady /\ At(t, "unready")
        /\ UNCHANGED <<active, queued, warmedAt, ttr, life, stamp, taken>>
    BY <1>3 DEF StoreNotReady, engineVars
  <2>2. PICK step \in {"idle", "read", "decide", "trigger"} : pc' = [pc EXCEPT ![t] = step]
    BY <2>1, ReturnedType
  <2>3. OneAfterTheOther' /\ pc' \in [Actors -> Steps] /\ taken' \in [Actors -> 0..Horizon]
    BY <2>1, <2>2, <1>m DEF Steps, At
  <2>4. goal' \in [Threads -> Goals]
    BY <2>1, ReturnedType
  <2>5. TypeOK'
    BY <2>1, <1>r, <2>3, <2>4 DEF TypeOK
  <2>6. WarmingIsQuiet'
    <3>1. warmedAt = 0 => pc' = [pc EXCEPT ![t] = "idle"] /\ goal' = goal
      BY <2>1, <1>g, ReturnedType DEF WarmingIsQuiet
    <3> SUFFICES ASSUME warmedAt = 0 PROVE WarmingIsQuiet'
      BY <2>1 DEF WarmingIsQuiet
    <3>2. active' /\ ~queued' /\ ttr' = 0
      BY <2>1 DEF WarmingIsQuiet
    <3>3. pc'[Creator] # "stamp"
      BY <3>1, <1>a DEF WarmingIsQuiet, TypeOK, At
    <3>4. ASSUME NEW u \in Threads
          PROVE  pc'[u] \in {"idle", "read", "unready"} /\ goal'[u] = FirstGoal(u)
      <4>1. u \in Actors
        BY DEF Actors
      <4> QED BY <3>1, <4>1, <1>a DEF WarmingIsQuiet, TypeOK
    <3> QED BY <3>2, <3>3, <3>4 DEF WarmingIsQuiet, At
  <2> QED BY <2>3, <2>5, <2>6
<1>4. CASE ReadClock(t)
  <2>1. OneAfterTheOther' /\ pc' \in [Actors -> Steps] /\ taken' \in [Actors -> 0..Horizon]
    BY <1>4, <1>m DEF ReadClock, Goto, engineVars, Steps, At
  <2> QED BY <1>4, <1>a, <2>1 DEF ReadClock, Goto, TypeOK, WarmingIsQuiet, engineVars, At
<1>5. CASE Settle(t)
  <2>1. warmedAt # 0 /\ At(t, "settle")
        /\ UNCHANGED <<active, queued, warmedAt, ttr, life, taken>>
    BY <1>5 DEF Settle, WarmingIsQuiet, engineVars, At
  <2>2. goal' \in [Threads -> Goals]
    <3>1. CASE Returned(t, TRUE)
      BY <3>1, ReturnedType
    <3>2. CASE UNCHANGED goal
      BY <3>2 DEF TypeOK
    <3> QED BY <1>5, <3>1, <3>2 DEF Settle
  <2>3. PICK step \in {"idle", "read", "decide", "trigger", "measure"} :
               pc' = [pc EXCEPT ![t] = step]
    <3>1. CASE Returned(t, TRUE)
      BY <3>1, ReturnedType
    <3>2. CASE Goto(t, "measure")
      BY <3>2 DEF Goto
    <3> QED BY <1>5, <3>1, <3>2 DEF Settle
  <2>4. OneAfterTheOther' /\ pc' \in [Actors -> Steps] /\ taken' \in [Actors -> 0..Horizon]
    BY <2>1, <2>3, <1>m DEF Steps, At
  <2>5. readySince' \in 0..NotReady /\ stamp' \in [Threads -> 0..Interval]
    BY <1>5, <1>r DEF Settle, TypeOK
  <2> QED BY <2>1, <2>2, <2>4, <2>5 DEF TypeOK, WarmingIsQuiet
<1>6. CASE Measure(t)
  <2>1. warmedAt # 0
    BY <1>6 DEF Measure, WarmingIsQuiet, At
  <2>2. OneAfterTheOther' /\ pc' \in [Actors -> Steps] /\ taken' \in [Actors -> 0..Horizon]
    BY <1>6, MovedInOrder DEF Measure, Goto, engineVars, Steps, At
  <2> QED BY <1>6, <2>1, <2>2 DEF Measure, TypeOK, WarmingIsQuiet, engineVars
<1>7. CASE StoreMeasured(t)
  <2>1. warmedAt # 0
    BY <1>7 DEF StoreMeasured, WarmingIsQuiet, At
  <2>2. Returned(t, TRUE) /\ At(t, "store") /\ taken' = [taken EXCEPT ![t] = 0]
        /\ UNCHANGED <<active, queued, warmedAt, readySince, life, stamp>>
    BY <1>7 DEF StoreMeasured, engineVars
  <2>3. PICK step \in {"idle", "read", "decide", "trigger"} : pc' = [pc EXCEPT ![t] = step]
    BY <2>2, ReturnedType
  <2>4. OneAfterTheOther' /\ pc' \in [Actors -> Steps] /\ taken' \in [Actors -> 0..Horizon]
    BY <2>2, <2>3, <1>m DEF Steps, At
  <2>5. goal' \in [Threads -> Goals]
    BY <2>2, ReturnedType
  <2>6. ttr' \in 0..Horizon
    BY <1>7, <1>a DEF StoreMeasured, TypeOK
  <2> QED BY <2>1, <2>2, <2>4, <2>5, <2>6 DEF TypeOK, WarmingIsQuiet
<1>8. CASE Decide(t)
  <2>1. OneAfterTheOther' /\ pc' \in [Actors -> Steps] /\ taken' \in [Actors -> 0..Horizon]
    BY <1>8, <1>m DEF Decide, Goto, engineVars, Steps, At
  <2> QED BY <1>8, <2>1 DEF Decide, Goto, Want, TypeOK, WarmingIsQuiet, engineVars, Goals, At
<1>9. CASE Throttled(t)
  <2>1. OneAfterTheOther' /\ pc' \in [Actors -> Steps] /\ taken' \in [Actors -> 0..Horizon]
    BY <1>9, <1>m DEF Throttled, Goto, engineVars, Steps, At
  <2> QED BY <1>9, <2>1 DEF Throttled, TypeOK, WarmingIsQuiet, engineVars, At
<1>10. CASE Mark(t)
  <2>1. OneAfterTheOther' /\ pc' \in [Actors -> Steps] /\ taken' \in [Actors -> 0..Horizon]
    BY <1>10, <1>m DEF Mark, Goto, engineVars, Steps, At
  <2> QED BY <1>10, <1>r, <2>1 DEF Mark, TypeOK, WarmingIsQuiet, engineVars, At
<1>11. CASE Triggered(t)
  <2>1. OneAfterTheOther' /\ pc' \in [Actors -> Steps] /\ taken' \in [Actors -> 0..Horizon]
    BY <1>11, <1>m DEF Triggered, Goto, Steps, At
  <2> QED BY <1>11, <2>1 DEF Triggered, TypeOK, WarmingIsQuiet, At
<1> QED BY <1>1, <1>2, <1>3, <1>4, <1>5, <1>6, <1>7, <1>8, <1>9, <1>10, <1>11
        DEF Progress, Rescan

\* The last steps of create keep the invariant: nobody else is under way.
LEMMA CreateInv == ASSUME IInv, CreateReturns PROVE IInv'
<1> USE DEF IInv
<1>1. Creator \in Actors /\ (\A t \in Threads : t \in Actors /\ t # Creator)
  BY KindsDisjoint DEF Actors
<1>r. 0 \in 0..NotReady
  BY Bounds DEF NotReady
<1>2. CASE CreateElapsed
  <2>1. TypeOK'
    BY <1>1, <1>2 DEF CreateElapsed, TypeOK, Goto, Steps, engineVars
  <2>2. WarmingIsQuiet'
    BY <1>1, <1>2 DEF CreateElapsed, TypeOK, Goto, WarmingIsQuiet, engineVars, At
  <2>3. OneAfterTheOther'
    BY <1>1, <1>2 DEF CreateElapsed, TypeOK, Goto, OneAfterTheOther, engineVars, At
  <2> QED BY <2>1, <2>2, <2>3
<1>3. CASE CreateSnapshot
  <2>1. TypeOK'
    BY <1>1, <1>3 DEF CreateSnapshot, TypeOK, Goto, Steps, engineVars
  <2>2. WarmingIsQuiet'
    BY <1>1, <1>3 DEF CreateSnapshot, TypeOK, Goto, WarmingIsQuiet, engineVars, At
  <2>3. OneAfterTheOther'
    BY <1>1, <1>3 DEF CreateSnapshot, TypeOK, Goto, OneAfterTheOther, engineVars, At
  <2> QED BY <2>1, <2>2, <2>3
<1>4. CASE CreateStamp
  <2>1. TypeOK'
    BY <1>1, <1>4, <1>r DEF CreateStamp, TypeOK, Goto, Steps, engineVars
  <2>2. WarmingIsQuiet'
    BY <1>1, <1>4 DEF CreateStamp, TypeOK, Goto, WarmingIsQuiet, engineVars, At
  <2>3. OneAfterTheOther'
    BY <1>1, <1>4 DEF CreateStamp, TypeOK, Goto, OneAfterTheOther, engineVars, At
  <2> QED BY <2>1, <2>2, <2>3
<1> QED BY <1>2, <1>3, <1>4 DEF CreateReturns

\* The end of a scan and the passing of time keep the invariant.
LEMMA EngineInv == ASSUME IInv, ScanEnds \/ Tick PROVE IInv'
<1> USE DEF IInv
<1>1. CASE ScanEnds
  <2>1. warmedAt = 0 => ~queued
    BY DEF WarmingIsQuiet
  <2>2. warmedAt' \in 0..Horizon /\ warmedAt' # 0 /\ warmedAt' <= life'
    BY <1>1, <2>1 DEF ScanEnds, TypeOK, OneAfterTheOther
  <2>3. warmedAt' = warmedAt \/ warmedAt = 0
    BY <1>1 DEF ScanEnds
  <2>4. active' \in BOOLEAN /\ queued' \in BOOLEAN
    BY <1>1 DEF ScanEnds, TypeOK
  <2>5. TypeOK'
    BY <1>1, <2>2, <2>4 DEF ScanEnds, TypeOK
  <2>6. OneAfterTheOther'
    <3>1. ASSUME NEW t \in Threads, At(t, "store") PROVE warmedAt # 0
      BY <3>1 DEF WarmingIsQuiet, At
    <3> QED BY <1>1, <2>2, <2>3, <3>1 DEF ScanEnds, OneAfterTheOther, At
  <2> QED BY <2>2, <2>5, <2>6 DEF WarmingIsQuiet
<1>2. CASE Tick
  <2>1. life' \in 1..Horizon /\ life <= life'
    BY <1>2, Bounds DEF Tick, TypeOK, Older
  <2>2. readySince' \in 0..NotReady /\ stamp' \in [Threads -> 0..Interval]
    BY <1>2, Bounds DEF Tick, TypeOK, Older, NotReady
  <2>3. TypeOK'
    BY <1>2, <2>1, <2>2 DEF Tick, TypeOK
  <2>4. WarmingIsQuiet'
    BY <1>2 DEF Tick, WarmingIsQuiet, At
  <2>5. Creator \in Actors
    BY DEF Actors
  <2>6. OneAfterTheOther'
    BY <1>2, <2>1, <2>5 DEF Tick, TypeOK, OneAfterTheOther, At
  <2> QED BY <2>3, <2>4, <2>6
<1> QED BY <1>1, <1>2

\* The invariant is inductive.
LEMMA StepInv == IInv /\ [Next]_vars => IInv'
<1>1. ASSUME IInv, Next PROVE IInv'
  BY <1>1, CreateInv, ThreadInv, EngineInv DEF Next
<1>2. ASSUME IInv, UNCHANGED vars PROVE IInv'
  <2>1. TypeOK'
    BY <1>2 DEF IInv, TypeOK, vars
  <2>2. WarmingIsQuiet' /\ OneAfterTheOther'
    BY <1>2 DEF IInv, WarmingIsQuiet, OneAfterTheOther, At, vars
  <2> QED BY <2>1, <2>2 DEF IInv
<1> QED BY <1>1, <1>2

\* The invariant behind the two theorems below holds in every reachable state.
THEOREM SpecInv == Spec => []IInv
BY InitInv, StepInv, PTL DEF Spec

\* Readiness, clock and threads keep their types, whatever the interval.
THEOREM SpecTypeOK == Spec => []TypeOK
<1>1. IInv => TypeOK
  BY DEF IInv
<1> QED BY <1>1, SpecInv, PTL

\* Nobody asks for a rescan before the first warmup is over.
THEOREM SpecNoRescanWhileWarming == Spec => []NoRescanWhileWarming
<1>1. IInv => NoRescanWhileWarming
  BY DEF IInv, WarmingIsQuiet, NoRescanWhileWarming, At
<1> QED BY <1>1, SpecInv, PTL

\* The time to ready is set once, after the first warmup; unless create set it, to no
\* less than the warmup took, and in any case to no less than create had waited.
THEOREM SpecWarmupMeasuredOnce == Spec => WarmupMeasuredOnce
<1> DEFINE Once == ttr' # ttr =>
                     /\ ttr = 0 /\ warmedAt # 0
                     /\ ttr' >= taken[Creator]
                     /\ At(Creator, "stamp") \/ ttr' >= warmedAt
<1>1. IInv /\ [Next]_vars => [Once]_vars
  <2> SUFFICES ASSUME IInv, Next, ttr' # ttr PROVE Once
    OBVIOUS
  <2>1. CASE CreateStamp
    <3>1. ttr = 0 /\ warmedAt # 0 /\ ttr' = taken[Creator] /\ At(Creator, "stamp")
      BY <2>1 DEF CreateStamp, At, IInv, WarmingIsQuiet, OneAfterTheOther
    <3>2. taken[Creator] \in Nat
      BY DEF IInv, TypeOK, Actors
    <3> QED BY <3>1, <3>2
  <2>2. ASSUME NEW t \in Threads, StoreMeasured(t) PROVE Once
    <3>1. ttr = 0 /\ ttr' = taken[t] /\ At(t, "store")
      BY <2>2 DEF StoreMeasured
    <3>2. warmedAt # 0
      BY <3>1 DEF At, IInv, WarmingIsQuiet
    <3> QED BY <3>1, <3>2 DEF IInv, OneAfterTheOther
  <2> QED BY <2>1, <2>2
          DEF Next, CreateReturns, CreateElapsed, CreateSnapshot, Begin, Progress, Read,
              StoreNotReady, ReadClock, Settle, Measure, Rescan, Decide, Throttled, Mark,
              Triggered, ScanEnds, Tick
<1> QED BY <1>1, SpecInv, PTL DEF Spec, WarmupMeasuredOnce

=============================================================================
