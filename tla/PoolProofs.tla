----------------------------- MODULE PoolProofs -----------------------------
(***************************************************************************)
(* Proofs about Pool for any number of ids and requests.                   *)
(*                                                                         *)
(* Everything rests on IInv.  Its heart is BuildStages, which says what a  *)
(* workspace owns at each step of its create, and HandedOutIsInstalled,    *)
(* which says that nobody gets hold of a workspace before it is installed: *)
(* together they keep the thread that builds a workspace apart from the    *)
(* threads that may shut it down.                                          *)
(***************************************************************************)
EXTENDS Pool, TLAPS

\* Initially nothing is registered, open, running or under way.
LEMMA InitInv == Init => IInv
<1> SUFFICES ASSUME Init PROVE IInv
  OBVIOUS
<1> USE ThreadsDisjoint DEF Init, Workspaces, Requests, Threads, At
<1>1. TypeOK
  BY DEF TypeOK
<1>2. PcByKind
  BY DEF PcByKind
<1>3. BuildStages
  BY DEF BuildStages, Building, ShuttingDown
<1>4. HandedOutIsInstalled /\ TeardownStages /\ TeardownExclusive /\ PromisedOnce
  BY DEF HandedOutIsInstalled, TeardownStages, TeardownStage, PromisedOnce,
         TeardownExclusive, ShuttingDown
<1>5. RegisteredIsOpen /\ NoOrphanedIndex /\ HandlesAccountedFor
  BY DEF RegisteredIsOpen, NoOrphanedIndex, HandlesAccountedFor, NoOrphanedHandle
<1>6. DeletesReleased /\ TrackingHasHandle /\ ExclusiveDatabases
  BY DEF DeletesReleased, ReleasedWhenAnswered, TrackingHasHandle, ExclusiveDatabases
<1> QED
  BY <1>1, <1>2, <1>3, <1>4, <1>5, <1>6 DEF IInv

-----------------------------------------------------------------------------
(* Pool::remove hands one thread the workspace it took out of the map: it is *)
(* registered nowhere else and nobody else is shutting it down.              *)

\* What remove() takes out of the map has no other thread tearing it down.
LEMMA RemoveEntryExclusive ==
  ASSUME IInv, NEW t \in Threads \ Creates, NEW i \in Ids,
         NEW missing \in {"done", "next", "drain"},
         ~ShuttingDown(t), RemoveEntry(t, i, missing)
  PROVE  TeardownExclusive'
<1> USE ThreadsDisjoint DEF IInv, TypeOK, Workspaces, Threads, Requests,
      Victim, ShuttingDown, Registered, Goto, Aim
<1>1. CASE entries[i] = NoWs
  BY <1>1 DEF RemoveEntry, TeardownExclusive
<1>2. CASE entries[i] # NoWs
  <2> DEFINE w == entries[i]
  <2>1. /\ entries' = [entries EXCEPT ![i] = NoWs]
        /\ pc' = [pc EXCEPT ![t] = "stop"]
        /\ target' = [target EXCEPT ![t] = w]
    BY <1>2 DEF RemoveEntry
  <2>2. Victim(t)' = w
    BY <2>1
  <2>3. w \notin Registered'
    BY <1>2, <2>1 DEF RegisteredIsOpen
  <2>4. ASSUME NEW u \in Threads \ {t}
        PROVE  ShuttingDown(u)' = ShuttingDown(u) /\ Victim(u)' = Victim(u)
    BY <2>1
  <2>5. ASSUME NEW u \in Threads \ {t}, ShuttingDown(u)
        PROVE  Victim(u) # w
    BY <1>2, <2>5 DEF TeardownExclusive
  <2>6. Registered' \subseteq Registered
    BY <2>1
  <2>7. ASSUME NEW u \in Threads \ {t}, ShuttingDown(u)
        PROVE  /\ Victim(u) \notin Registered
               /\ \A v \in Threads \ {u} : ShuttingDown(v) => Victim(v) # Victim(u)
    BY <2>7 DEF TeardownExclusive
  <2> HIDE DEF w, Victim, ShuttingDown, Registered
  <2>8. \A u \in Threads : ShuttingDown(u)' => Victim(u)' \notin Registered'
    BY <2>2, <2>3, <2>4, <2>6, <2>7
  <2>9. \A u, v \in Threads :
          u # v /\ ShuttingDown(u)' /\ ShuttingDown(v)' => Victim(u)' # Victim(v)'
    BY <2>2, <2>4, <2>5, <2>7
  <2> QED
    BY <2>8, <2>9 DEF TeardownExclusive
<1> QED
  BY <1>1, <1>2

\* A teardown is as far as it was when neither its thread nor its workspace moved.
LEMMA StageKept ==
  ASSUME NEW v \in Threads, TeardownStage(v),
         pc'[v] = pc[v], Victim(v)' = Victim(v),
         engine'[Victim(v)] = engine[Victim(v)],
         holds'[Victim(v)] = holds[Victim(v)]
  PROVE  TeardownStage(v)'
BY DEF TeardownStage, At

-----------------------------------------------------------------------------
(* The steps of each kind of thread preserve the invariant. *)

\* Every step of a create, from its recheck to its insert, keeps the invariant.
LEMMA CreateInv ==
  ASSUME IInv, NEW r \in Creates, CreateLookup(r) \/ CreateStep(r)
  PROVE  IInv'
<1> USE ThreadsDisjoint DEF IInv, TypeOK, PcByKind, Workspaces, Requests,
      Threads, Databases, Victim, At, Aim, Answer, Goto, CreateStep,
      CreateLookup, CreateRecheck, OpenFrecency, OpenQueries, StartPicker,
      CreateFails, Install, Get, OpenDatabase, InUse
<1>1. TypeOK'
  BY SMTT(20)
<1>2. PcByKind'
  BY SMTT(20) DEF TeardownSteps
<1>3. BuildStages'
  BY SMTT(20) DEF BuildStages, Building, ShuttingDown
<1>4. HandedOutIsInstalled'
  BY SMTT(20) DEF HandedOutIsInstalled, ShuttingDown, BuildStages
<1>5. RegisteredIsOpen'
  BY SMTT(20) DEF RegisteredIsOpen, BuildStages, HandedOutIsInstalled
<1>6. TeardownExclusive'
  BY SMTT(20) DEF TeardownExclusive, Registered, HandedOutIsInstalled,
       BuildStages, ShuttingDown
<1>7. TeardownStages'
  BY SMTT(20) DEF TeardownStages, TeardownStage, BuildStages, HandedOutIsInstalled, ShuttingDown
<1>8. NoOrphanedIndex'
  BY SMTT(20) DEF NoOrphanedIndex, Owned, Registered, Building, ShuttingDown,
       BuildStages
<1>9. HandlesAccountedFor'
  BY SMTT(20) DEF HandlesAccountedFor, NoOrphanedHandle, Owned, Registered,
       Building, ShuttingDown, BuildStages
<1>10. DeletesReleased'
  BY SMTT(20) DEF DeletesReleased, ReleasedWhenAnswered, BuildStages,
       HandedOutIsInstalled
<1>11. TrackingHasHandle'
  BY SMTT(20) DEF TrackingHasHandle, HandedOutIsInstalled, BuildStages
<1>12. ExclusiveDatabases'
  BY SMTT(20) DEF ExclusiveDatabases
<1>13. PromisedOnce'
  BY SMTT(20) DEF PromisedOnce
<1> QED
  BY <1>1, <1>2, <1>3, <1>4, <1>5, <1>6, <1>7, <1>8, <1>9, <1>10, <1>11, <1>12, <1>13

\* A step of a request on an Arc it looked up keeps the invariant, evicted or not.
LEMMA UseInv ==
  ASSUME IInv, NEW u \in Uses, UseLookup(u) \/ UseStep(u)
  PROVE  IInv'
<1> USE ThreadsDisjoint DEF IInv, TypeOK, PcByKind, Workspaces, Requests,
      Threads, Victim, At, Aim, Answer, Goto, UseStep, UseLookup, UseRead,
      TrackBegin, TrackEnd, UseRescan, Get
<1>1. TypeOK' /\ PcByKind'
  BY SMTT(20) DEF TeardownSteps
<1>2. BuildStages'
  BY SMTT(20) DEF BuildStages, Building, ShuttingDown
<1>3. HandedOutIsInstalled'
  BY SMTT(20) DEF HandedOutIsInstalled, ShuttingDown
<1>4. RegisteredIsOpen'
  BY SMTT(20) DEF RegisteredIsOpen
<1>5. TeardownExclusive'
  BY SMTT(20) DEF TeardownExclusive, Registered, ShuttingDown
<1>10. TeardownStages'
  <2>1. ASSUME NEW v \in Threads, v # u
        PROVE  TeardownStage(v)'
    <3>1. pc'[v] = pc[v] /\ Victim(v)' = Victim(v) /\ UNCHANGED <<engine, holds>>
      BY <2>1
    <3>2. TeardownStage(v)
      BY DEF TeardownStages
    <3> QED
      BY <3>1, <3>2, StageKept
  <2>2. TeardownStage(u)'
    BY SMTT(20) DEF TeardownStage
  <2> QED
    BY <2>1, <2>2 DEF TeardownStages
<1>6. NoOrphanedIndex'
  BY SMTT(20) DEF NoOrphanedIndex, Owned, Registered, Building, ShuttingDown
<1>7. HandlesAccountedFor'
  BY SMTT(20) DEF HandlesAccountedFor, NoOrphanedHandle, Owned, Registered,
       Building, ShuttingDown
<1>8. DeletesReleased' /\ ExclusiveDatabases'
  BY SMTT(20) DEF DeletesReleased, ReleasedWhenAnswered, ExclusiveDatabases
<1>9. TrackingHasHandle'
  BY SMTT(20) DEF TrackingHasHandle
<1>11. PromisedOnce'
  BY SMTT(20) DEF PromisedOnce
<1> QED
  BY <1>1, <1>2, <1>3, <1>4, <1>5, <1>6, <1>7, <1>8, <1>9, <1>10, <1>11

\* Marking a workspace as used keeps the invariant.
LEMMA TouchInv ==
  ASSUME IInv, NEW t \in Requests, Touch(t)
  PROVE  IInv'
<1> USE ThreadsDisjoint DEF IInv, TypeOK, PcByKind, Workspaces, Requests,
      Threads, Victim, At, Goto, Touch
<1>1. TypeOK' /\ PcByKind'
  BY SMTT(20) DEF TeardownSteps
<1>2. BuildStages'
  BY SMTT(20) DEF BuildStages, Building, ShuttingDown
<1>3. HandedOutIsInstalled'
  BY SMTT(20) DEF HandedOutIsInstalled, ShuttingDown
<1>4. RegisteredIsOpen'
  BY SMTT(20) DEF RegisteredIsOpen
<1>5. TeardownExclusive'
  BY SMTT(20) DEF TeardownExclusive, Registered, ShuttingDown
<1>10. TeardownStages'
  <2>1. ASSUME NEW v \in Threads, v # t
        PROVE  TeardownStage(v)'
    <3>1. pc'[v] = pc[v] /\ Victim(v)' = Victim(v) /\ UNCHANGED <<engine, holds>>
      BY <2>1
    <3>2. TeardownStage(v)
      BY DEF TeardownStages
    <3> QED
      BY <3>1, <3>2, StageKept
  <2>2. TeardownStage(t)'
    BY SMTT(20) DEF TeardownStage
  <2> QED
    BY <2>1, <2>2 DEF TeardownStages
<1>6. NoOrphanedIndex'
  BY SMTT(20) DEF NoOrphanedIndex, Owned, Registered, Building, ShuttingDown
<1>7. HandlesAccountedFor'
  BY SMTT(20) DEF HandlesAccountedFor, NoOrphanedHandle, Owned, Registered,
       Building, ShuttingDown
<1>8. DeletesReleased' /\ ExclusiveDatabases'
  BY SMTT(20) DEF DeletesReleased, ReleasedWhenAnswered, ExclusiveDatabases
<1>9. TrackingHasHandle'
  BY SMTT(20) DEF TrackingHasHandle
<1>11. PromisedOnce'
  BY SMTT(20) DEF PromisedOnce
<1> QED
  BY <1>1, <1>2, <1>3, <1>4, <1>5, <1>6, <1>7, <1>8, <1>9, <1>10, <1>11

\* A delete's arrival and its removal keep the invariant.
LEMMA DeleteInv ==
  ASSUME IInv, NEW d \in Deletes, DeleteArrive(d) \/ Delete(d)
  PROVE  IInv'
<1>1. TeardownExclusive'
  <2>1. CASE Delete(d)
    BY <2>1, RemoveEntryExclusive, ThreadsDisjoint
       DEF Delete, At, ShuttingDown, IInv, TypeOK, Threads, Requests
  <2>2. CASE DeleteArrive(d)
    BY <2>2, ThreadsDisjoint
       DEF DeleteArrive, IInv, TypeOK, TeardownExclusive, ShuttingDown,
           Registered, Victim, At, Goto, Threads, Requests, Workspaces
  <2> QED
    BY <2>1, <2>2
<1> USE ThreadsDisjoint DEF IInv, TypeOK, PcByKind, Workspaces, Requests,
      Threads, Victim, At, Aim, Answer, Goto, DeleteArrive,
      Delete, RemoveEntry
<1>2. TypeOK' /\ PcByKind'
  BY SMTT(20) DEF TeardownSteps
<1>3. BuildStages'
  BY SMTT(20) DEF BuildStages, Building, ShuttingDown
<1>4. HandedOutIsInstalled'
  BY SMTT(20) DEF HandedOutIsInstalled, ShuttingDown
<1>5. RegisteredIsOpen'
  BY SMTT(20) DEF RegisteredIsOpen
<1>6. TeardownStages'
  <2>1. ASSUME NEW v \in Threads, v # d
        PROVE  TeardownStage(v)'
    <3>1. pc'[v] = pc[v] /\ Victim(v)' = Victim(v) /\ UNCHANGED <<engine, holds>>
      BY <2>1
    <3>2. TeardownStage(v)
      BY DEF TeardownStages
    <3> QED
      BY <3>1, <3>2, StageKept
  <2>2. TeardownStage(d)'
    BY SMTT(20) DEF TeardownStage, RegisteredIsOpen
  <2> QED
    BY <2>1, <2>2 DEF TeardownStages
<1>7. NoOrphanedIndex'
  BY SMTT(20) DEF NoOrphanedIndex, Owned, Registered, Building, ShuttingDown
<1>8. HandlesAccountedFor'
  BY SMTT(20) DEF HandlesAccountedFor, NoOrphanedHandle, Owned, Registered,
       Building, ShuttingDown
<1>9. DeletesReleased' /\ ExclusiveDatabases'
  BY SMTT(20) DEF DeletesReleased, ReleasedWhenAnswered, ExclusiveDatabases
<1>10. TrackingHasHandle'
  BY SMTT(20) DEF TrackingHasHandle
<1>11. PromisedOnce'
  BY SMTT(20) DEF PromisedOnce
<1> QED
  BY <1>1, <1>2, <1>3, <1>4, <1>5, <1>6, <1>7, <1>8, <1>9, <1>10, <1>11

\* Every step of a sweep keeps the invariant.
LEMMA SweepInv ==
  ASSUME IInv, SweepStep
  PROVE  IInv'
<1>1. TeardownExclusive'
  <2>1. CASE SweepEvict
    BY <2>1, RemoveEntryExclusive, ThreadsDisjoint
       DEF SweepEvict, At, ShuttingDown, IInv, TypeOK, HandedOutIsInstalled,
           Threads, Requests, Workspaces
  <2>2. CASE SweepStep /\ ~SweepEvict
    BY <2>2, ThreadsDisjoint
       DEF SweepStep, SweepBegin, SweepEnd, SweepJudge, SweepRescan, SweepPick,
           IInv, TypeOK, TeardownExclusive, ShuttingDown, Registered, Victim,
           At, Aim, Goto, Threads, Requests, Workspaces
  <2> QED
    BY <2>1, <2>2
<1> USE ThreadsDisjoint DEF IInv, TypeOK, PcByKind, Workspaces, Requests,
      Threads, Victim, At, Aim, Goto, SweepStep, SweepBegin, SweepEnd,
      SweepJudge, SweepEvict, SweepRescan, SweepPick, RemoveEntry
<1>2. TypeOK'
  BY SMTT(20) DEF Registered, HandedOutIsInstalled
<1>3. PcByKind'
  BY SMTT(20) DEF TeardownSteps
<1>4. BuildStages'
  BY SMTT(20) DEF BuildStages, Building, ShuttingDown
<1>5. HandedOutIsInstalled'
  BY SMTT(20) DEF HandedOutIsInstalled, Registered, ShuttingDown
<1>6. RegisteredIsOpen'
  BY SMTT(20) DEF RegisteredIsOpen, HandedOutIsInstalled
<1>7. TeardownStages'
  BY SMTT(20) DEF TeardownStages, TeardownStage, RegisteredIsOpen, HandedOutIsInstalled,
       ShuttingDown
<1>8. NoOrphanedIndex'
  BY SMTT(20) DEF NoOrphanedIndex, Owned, Registered, Building, ShuttingDown
<1>9. HandlesAccountedFor'
  BY SMTT(20) DEF HandlesAccountedFor, NoOrphanedHandle, Owned, Registered,
       Building, ShuttingDown
<1>10. DeletesReleased' /\ ExclusiveDatabases'
  BY SMTT(20) DEF DeletesReleased, ReleasedWhenAnswered, ExclusiveDatabases
<1>11. TrackingHasHandle'
  BY SMTT(20) DEF TrackingHasHandle
<1>12. PromisedOnce'
  BY SMTT(20) DEF PromisedOnce
<1> QED
  BY <1>1, <1>2, <1>3, <1>4, <1>5, <1>6, <1>7, <1>8, <1>9, <1>10, <1>11, <1>12

\* Every step of shutdown_all keeps the invariant.
LEMMA DrainInv ==
  ASSUME IInv, NEW t \in Drainers, ShutdownAll(t) \/ DrainStep(t)
  PROVE  IInv'
<1>0. ASSUME DrainEnd(t), NEW u \in Threads PROVE TeardownStage(u)'
  <2>1. /\ pc'[u] = pc[u] \/ pc'[u] = "done"
        /\ engine' = engine /\ holds' = holds /\ target' = target
    BY <1>0 DEF DrainEnd, Goto, IInv, TypeOK
  <2>2. TeardownStage(u)
    BY DEF IInv, TeardownStages
  <2> QED
    BY <2>1, <2>2 DEF TeardownStage, At, Victim
<1>1. TeardownExclusive'
  <2>1. CASE \E i \in drainIds : DrainNext(t, i)
    BY <2>1, RemoveEntryExclusive, ThreadsDisjoint
       DEF DrainNext, At, ShuttingDown, IInv, TypeOK, Threads, Requests
  <2>2. CASE ShutdownAll(t) \/ DrainEnd(t)
    BY <2>2, ThreadsDisjoint
       DEF ShutdownAll, DrainEnd, IInv, TypeOK, TeardownExclusive, ShuttingDown,
           Registered, Victim, At, Goto, Threads, Requests, Workspaces
  <2> QED
    BY <2>1, <2>2 DEF DrainStep
<1> USE ThreadsDisjoint DEF IInv, TypeOK, PcByKind, Workspaces, Requests,
      Threads, Victim, At, Aim, Goto, ShutdownAll, DrainStep, DrainNext,
      DrainEnd, RemoveEntry
<1>2. TypeOK' /\ PcByKind'
  BY SMTT(20) DEF TeardownSteps
<1>3. BuildStages'
  BY SMTT(20) DEF BuildStages, Building, ShuttingDown
<1>4. HandedOutIsInstalled'
  BY SMTT(20) DEF HandedOutIsInstalled, ShuttingDown
<1>5. RegisteredIsOpen'
  BY SMTT(20) DEF RegisteredIsOpen
<1>6. TeardownStages'
  <2>1. CASE \E i \in drainIds : DrainNext(t, i)
    BY <2>1, SMTT(20) DEF TeardownStages, TeardownStage, RegisteredIsOpen, ShuttingDown
  <2>2. CASE ShutdownAll(t)
    BY <2>2, SMTT(20) DEF TeardownStages, TeardownStage, ShuttingDown
  <2>3. CASE DrainEnd(t)
    BY <2>3, <1>0 DEF TeardownStages
  <2> QED
    BY <2>1, <2>2, <2>3
<1>7. NoOrphanedIndex'
  BY SMTT(20) DEF NoOrphanedIndex, Owned, Registered, Building, ShuttingDown
<1>8. HandlesAccountedFor'
  BY SMTT(20) DEF HandlesAccountedFor, NoOrphanedHandle, Owned, Registered,
       Building, ShuttingDown
<1>9. DeletesReleased' /\ ExclusiveDatabases'
  BY SMTT(20) DEF DeletesReleased, ReleasedWhenAnswered, ExclusiveDatabases
<1>10. TrackingHasHandle'
  BY SMTT(20) DEF TrackingHasHandle
<1>11. PromisedOnce'
  BY SMTT(20) DEF PromisedOnce
<1> QED
  BY <1>1, <1>2, <1>3, <1>4, <1>5, <1>6, <1>7, <1>8, <1>9, <1>10, <1>11

\* Every step of Workspace::shutdown, whoever runs it, keeps the invariant.
LEMMA ShutdownInv ==
  ASSUME IInv, NEW t \in Threads, ShutdownStep(t)
  PROVE  IInv'
<1> USE ThreadsDisjoint DEF IInv, TypeOK, PcByKind, Workspaces, Requests,
      Threads, Databases, Victim, At, Goto, ShutdownStep, StopWatches,
      DestroyFrecency, DestroyQueries, Destroy, AfterShutdown
<1>1. TypeOK'
  BY SMTT(20)
<1>2. PcByKind'
  BY SMTT(20) DEF TeardownSteps
<1>3. BuildStages'
  BY SMTT(20) DEF BuildStages, Building, ShuttingDown, HandedOutIsInstalled
<1>4. HandedOutIsInstalled'
  BY SMTT(20) DEF HandedOutIsInstalled, ShuttingDown
<1>5. RegisteredIsOpen'
  BY SMTT(20) DEF RegisteredIsOpen, TeardownExclusive, ShuttingDown, Registered
<1>6. TeardownExclusive'
  BY SMTT(20) DEF TeardownExclusive, Registered, ShuttingDown
<1>7. TeardownStages'
  BY SMTT(20) DEF TeardownStages, TeardownStage, TeardownExclusive, BuildStages,
       HandedOutIsInstalled, ShuttingDown
<1>8. NoOrphanedIndex'
  BY SMTT(20) DEF NoOrphanedIndex, Owned, Registered, Building, ShuttingDown,
       TeardownStages, TeardownStage
<1>9. HandlesAccountedFor'
  BY SMTT(20) DEF HandlesAccountedFor, NoOrphanedHandle, Owned, Registered,
       Building, ShuttingDown, TeardownStages, TeardownStage
<1>10. DeletesReleased'
  BY SMTT(20) DEF DeletesReleased, ReleasedWhenAnswered, TeardownStages, TeardownStage,
       BuildStages, HandedOutIsInstalled, ShuttingDown
<1>11. TrackingHasHandle'
  BY SMTT(20) DEF TrackingHasHandle, HandedOutIsInstalled
<1>12. ExclusiveDatabases'
  BY SMTT(20) DEF ExclusiveDatabases
<1>13. PromisedOnce'
  BY SMTT(20) DEF PromisedOnce
<1> QED
  BY <1>1, <1>2, <1>3, <1>4, <1>5, <1>6, <1>7, <1>8, <1>9, <1>10, <1>11, <1>12, <1>13

\* The clock, the engine and the last drop of an Arc keep the invariant.
LEMMA EnvironmentInv ==
  ASSUME IInv, Environment
  PROVE  IInv'
<1> USE ThreadsDisjoint DEF IInv, TypeOK, PcByKind, Workspaces, Requests,
      Threads, Victim, At, Environment, GoIdle, BecomeWarm, LastDrop, Referenced
<1>1. TypeOK' /\ PcByKind'
  BY SMTT(20) DEF TeardownSteps
<1>2. BuildStages'
  BY SMTT(20) DEF BuildStages, Building, ShuttingDown
<1>3. HandedOutIsInstalled'
  BY SMTT(20) DEF HandedOutIsInstalled, ShuttingDown
<1>4. RegisteredIsOpen'
  BY SMTT(20) DEF RegisteredIsOpen
<1>5. TeardownExclusive'
  BY SMTT(20) DEF TeardownExclusive, Registered, ShuttingDown
<1>6. TeardownStages'
  <2>1. ASSUME NEW v \in Threads, ShuttingDown(v)
        PROVE  TeardownStage(v)'
    <3>1. pc'[v] = pc[v] /\ Victim(v)' = Victim(v) /\ UNCHANGED engine
      BY <2>1
    <3>2. holds'[Victim(v)] = holds[Victim(v)]
      BY <2>1, SMTT(20) DEF ShuttingDown, HandedOutIsInstalled
    <3>3. TeardownStage(v)
      BY DEF TeardownStages
    <3> QED
      BY <3>1, <3>2, <3>3, StageKept
  <2>2. ASSUME NEW v \in Threads, ~ShuttingDown(v)
        PROVE  TeardownStage(v)'
    BY <2>2 DEF TeardownStage, ShuttingDown
  <2> QED
    BY <2>1, <2>2 DEF TeardownStages
<1>7. NoOrphanedIndex'
  BY SMTT(20) DEF NoOrphanedIndex, Owned, Registered, Building, ShuttingDown
<1>8. HandlesAccountedFor'
  BY SMTT(20) DEF HandlesAccountedFor, NoOrphanedHandle, Owned, Registered,
       Building, ShuttingDown
<1>9. DeletesReleased'
  BY SMTT(20) DEF DeletesReleased, ReleasedWhenAnswered, HandedOutIsInstalled
<1>10. TrackingHasHandle'
  BY SMTT(20) DEF TrackingHasHandle, HandedOutIsInstalled
<1>11. ExclusiveDatabases'
  BY SMTT(20) DEF ExclusiveDatabases
<1>12. PromisedOnce'
  BY SMTT(20) DEF PromisedOnce
<1> QED
  BY <1>1, <1>2, <1>3, <1>4, <1>5, <1>6, <1>7, <1>8, <1>9, <1>10, <1>11, <1>12

\* A step that changes nothing keeps the invariant.
LEMMA StutterInv == IInv /\ UNCHANGED vars => IInv'
<1> SUFFICES ASSUME IInv, UNCHANGED vars PROVE IInv'
  OBVIOUS
<1> USE DEF vars, IInv, At, Victim, Registered, Building, ShuttingDown
<1>1. TypeOK' /\ PcByKind' /\ BuildStages' /\ PromisedOnce'
  BY DEF TypeOK, PcByKind, BuildStages, PromisedOnce
<1>2. HandedOutIsInstalled' /\ RegisteredIsOpen' /\ TeardownStages'
  BY DEF HandedOutIsInstalled, RegisteredIsOpen, TeardownStages, TeardownStage
<1>3. TeardownExclusive' /\ TrackingHasHandle' /\ ExclusiveDatabases'
  BY DEF TeardownExclusive, TrackingHasHandle, ExclusiveDatabases
<1>4. NoOrphanedIndex' /\ HandlesAccountedFor' /\ DeletesReleased'
  BY DEF NoOrphanedIndex, HandlesAccountedFor, NoOrphanedHandle, Owned,
         DeletesReleased, ReleasedWhenAnswered
<1> QED
  BY <1>1, <1>2, <1>3, <1>4

\* The invariant is inductive.
LEMMA StepInv == IInv /\ [Next]_vars => IInv'
<1> SUFFICES ASSUME IInv, [Next]_vars PROVE IInv'
  OBVIOUS
<1>1. CASE Arrive
  BY <1>1, CreateInv, DeleteInv, UseInv, DrainInv DEF Arrive
<1>2. CASE (\E r \in Creates : CreateStep(r)) \/ (\E d \in Deletes : Delete(d))
  BY <1>2, CreateInv, DeleteInv
<1>3. CASE \E u \in Uses : UseStep(u)
  BY <1>3, UseInv
<1>4. CASE \E t \in Requests : Touch(t)
  BY <1>4, TouchInv
<1>5. CASE SweepStep
  BY <1>5, SweepInv
<1>6. CASE \E t \in Drainers : DrainStep(t)
  BY <1>6, DrainInv
<1>7. CASE \E t \in Threads : ShutdownStep(t)
  BY <1>7, ShutdownInv
<1>8. CASE Environment
  BY <1>8, EnvironmentInv
<1>9. CASE UNCHANGED vars
  BY <1>9, StutterInv
<1> QED
  BY <1>1, <1>2, <1>3, <1>4, <1>5, <1>6, <1>7, <1>8, <1>9 DEF Next

\* The invariant that carries the proofs below holds in every reachable state.
THEOREM SpecInv == Spec => []IInv
BY InitInv, StepInv, PTL DEF Spec

-----------------------------------------------------------------------------
(* The safety properties. *)

\* Every variable of the pool keeps its type, whatever the number of requests.
THEOREM SpecTypeOK == Spec => []TypeOK
<1>1. IInv => TypeOK
  BY DEF IInv
<1> QED
  BY <1>1, SpecInv, PTL

\* A lookup never returns a workspace that is being shut down or not yet built.
THEOREM SpecRegisteredIsOpen == Spec => []RegisteredIsOpen
<1>1. IInv => RegisteredIsOpen
  BY DEF IInv
<1> QED
  BY <1>1, SpecInv, PTL

\* No create, however it ends, leaves a running index that nobody can reach.
THEOREM SpecNoOrphanedIndex == Spec => []NoOrphanedIndex
<1>1. IInv => NoOrphanedIndex
  BY DEF IInv
<1> QED
  BY <1>1, SpecInv, PTL

\* No two threads shut the same workspace down.
THEOREM SpecTeardownExclusive == Spec => []TeardownExclusive
<1>1. IInv => TeardownExclusive
  BY DEF IInv
<1> QED
  BY <1>1, SpecInv, PTL

\* A recorded access goes through a tracker that is open.
THEOREM SpecTrackingHasHandle == Spec => []TrackingHasHandle
<1>1. IInv => TrackingHasHandle
  BY DEF IInv
<1> QED
  BY <1>1, SpecInv, PTL

\* If destroying a handle cannot fail, no database stays open without an owner.
THEOREM SpecNoOrphanedHandle ==
  ASSUME "failed" \notin DestroyOutcomes
  PROVE  Spec => []NoOrphanedHandle
<1>1. IInv => NoOrphanedHandle
  BY DEF IInv, HandlesAccountedFor
<1> QED
  BY <1>1, SpecInv, PTL

\* If destroying a handle cannot fail, a confirmed delete has released everything.
THEOREM SpecReleasedWhenAnswered ==
  ASSUME "failed" \notin DestroyOutcomes
  PROVE  Spec => []ReleasedWhenAnswered
<1>1. IInv => ReleasedWhenAnswered
  BY DEF IInv, DeletesReleased
<1> QED
  BY <1>1, SpecInv, PTL

\* If the engine never shares a database, create_blocking never loses a race at
\* the insert: its "lost the race" branch is dead code.
THEOREM SpecLostRaceUnreachable ==
  ASSUME "shared" \notin OpenOutcomes
  PROVE  Spec => []LostRaceUnreachable
<1>1. IInv => LostRaceUnreachable
  <2> SUFFICES ASSUME IInv, NEW r \in Creates, At(r, "install"),
                      entries[id[r]] # NoWs
               PROVE  FALSE
    BY DEF LostRaceUnreachable
  <2> DEFINE w == entries[id[r]]
  <2>1. w \in Workspaces /\ id[w] = id[r] /\ holds[w] = Databases /\ resp[w] = "new"
    BY DEF IInv, TypeOK, RegisteredIsOpen, HandedOutIsInstalled, Requests, Workspaces
  <2>2. holds[r] = Databases /\ resp[r] = "none"
    BY DEF IInv, BuildStages, Building, At, Workspaces
  <2> QED
    BY <2>1, <2>2 DEF IInv, ExclusiveDatabases, Databases, Workspaces
<1> QED
  BY <1>1, SpecInv, PTL

\* If destroying a handle cannot fail, a 409 always has a living cause: another
\* workspace of the root that is registered, being built or being shut down.
THEOREM SpecConflictOnlyUnderContention ==
  ASSUME "failed" \notin DestroyOutcomes
  PROVE  Spec => ConflictOnlyUnderContention
<1> DEFINE Contended(r) == \E w \in Workspaces \ {r} : id[w] = id[r] /\ Owned(w)
           Justified == \A r \in Creates :
             resp[r] = "none" /\ resp'[r] = "conflict" => Contended(r)
<1>1. IInv /\ [Next]_vars => [Justified]_vars
  <2> SUFFICES ASSUME IInv, Next, NEW r \in Creates,
                      resp[r] = "none", resp'[r] = "conflict"
               PROVE  Contended(r)
    OBVIOUS
  <2>1. \E db \in Databases : InUse(r, db) /\ db \notin holds[r]
    <3>1. OpenFrecency(r) \/ OpenQueries(r)
      <4> USE ThreadsDisjoint DEF IInv, TypeOK, Requests, Answer
      <4>1. CASE Arrive
        BY <4>1 DEF Arrive, CreateLookup, Get, DeleteArrive, UseLookup, ShutdownAll
      <4>2. CASE \E q \in Creates : CreateStep(q)
        <5>1. PICK q \in Creates : CreateStep(q)
          BY <4>2
        <5>2. ~CreateRecheck(q) /\ ~StartPicker(q)
          BY DEF CreateRecheck, Get, StartPicker
        <5>3. ~CreateFails(q) /\ ~Install(q)
          BY DEF CreateFails, Install
        <5>4. q # r => ~OpenFrecency(q) /\ ~OpenQueries(q)
          BY DEF OpenFrecency, OpenQueries, OpenDatabase
        <5> QED
          BY <5>1, <5>2, <5>3, <5>4 DEF CreateStep
      <4>3. CASE \E d \in Deletes : Delete(d)
        BY <4>3 DEF Delete
      <4>4. CASE (\E u \in Uses : UseStep(u)) \/ (\E t \in Requests : Touch(t))
        BY <4>4 DEF UseStep, UseRead, TrackBegin, TrackEnd, UseRescan, Touch
      <4>5. CASE SweepStep
        BY <4>5 DEF SweepStep, SweepBegin, SweepPick, SweepEnd, SweepJudge, SweepEvict,
                    SweepRescan
      <4>6. CASE \E t \in Drainers : DrainStep(t)
        BY <4>6 DEF DrainStep, DrainNext, DrainEnd
      <4>7. CASE \E t \in Threads : ShutdownStep(t)
        BY <4>7 DEF ShutdownStep, StopWatches, DestroyFrecency, DestroyQueries
      <4>8. CASE Environment
        BY <4>8 DEF Environment, GoIdle, BecomeWarm, LastDrop
      <4> QED
        BY <4>1, <4>2, <4>3, <4>4, <4>5, <4>6, <4>7, <4>8 DEF Next
    <3> QED
      BY <3>1 DEF OpenFrecency, OpenQueries, OpenDatabase, At, IInv, TypeOK,
                  BuildStages, Databases, Workspaces, Requests
  <2>2. PICK w \in Workspaces \ {r} : id[w] = id[r] /\ holds[w] # {}
    BY <2>1 DEF InUse
  <2> QED
    BY <2>2 DEF IInv, HandlesAccountedFor, NoOrphanedHandle
<1> QED
  BY <1>1, SpecInv, PTL DEF Spec, ConflictOnlyUnderContention

-----------------------------------------------------------------------------
(* The pool implements the registry. *)

\* A step of a create is a registry step or a stutter.
LEMMA CreateRefines ==
  ASSUME IInv, NEW r \in Creates, CreateLookup(r) \/ CreateStep(r)
  PROVE  R!ReturnExisting(r) \/ R!InstallNew(r) \/ R!Refuse(r) \/ UNCHANGED R!registryVars
<1> USE DEF IInv, TypeOK, BuildStages, At, Answer, Workspaces, Requests, Building,
      R!ReturnExisting, R!InstallNew, R!Refuse, R!Promise, R!registryVars
<1>1. CASE CreateLookup(r) \/ CreateRecheck(r)
  BY <1>1 DEF CreateLookup, CreateRecheck, Get
<1>2. CASE OpenFrecency(r) \/ OpenQueries(r)
  BY <1>2 DEF OpenFrecency, OpenQueries, OpenDatabase
<1>3. CASE StartPicker(r) \/ CreateFails(r)
  BY <1>3 DEF StartPicker, CreateFails
<1>4. CASE Install(r)
  BY <1>4 DEF Install
<1> QED
  BY <1>1, <1>2, <1>3, <1>4 DEF CreateStep

\* A step of a use is a registry step or a stutter.
LEMMA UseRefines ==
  ASSUME IInv, NEW u \in Uses, UseLookup(u) \/ UseStep(u)
  PROVE  R!Resolve(u) \/ R!Finish(u) \/ R!NotFound(u) \/ UNCHANGED R!registryVars
<1> USE DEF IInv, TypeOK, PromisedOnce, At, Answer, Requests,
      R!Resolve, R!Finish, R!NotFound, R!Promise, R!registryVars
<1>1. CASE UseLookup(u)
  BY <1>1 DEF UseLookup, Get
<1>2. CASE UseStep(u)
  BY <1>2 DEF UseStep, UseRead, TrackBegin, TrackEnd, UseRescan
<1> QED
  BY <1>1, <1>2

\* The unlock of a delete's removal is the registry's Remove.
LEMMA DeleteRefines ==
  ASSUME IInv, NEW d \in Deletes, DeleteArrive(d) \/ Delete(d)
  PROVE  R!Remove(d) \/ R!NotFound(d) \/ UNCHANGED R!registryVars
BY DEF IInv, TypeOK, PromisedOnce, At, Answer, Requests, DeleteArrive, Delete,
       RemoveEntry, R!Remove, R!NotFound, R!Promise, R!registryVars

\* Taking an entry out on the pool's own account is the registry's Evict.
LEMMA EvictRefines ==
  ASSUME NEW t \in Threads, NEW i \in Ids, NEW missing, RemoveEntry(t, i, missing),
         UNCHANGED <<id, resp>>
  PROVE  R!Evict(i) \/ UNCHANGED R!registryVars
BY DEF RemoveEntry, R!Evict, R!registryVars

\* A sweep's step is an eviction of the registry or changes nothing it shows.
LEMMA SweepRefines ==
  ASSUME IInv, SweepStep
  PROVE  (\E i \in Ids : R!Evict(i)) \/ UNCHANGED R!registryVars
<1>1. CASE SweepEvict
  <2>1. id[target[Sweeper]] \in Ids
    BY <1>1 DEF SweepEvict, At, IInv, HandedOutIsInstalled, TypeOK, Workspaces,
                Requests
  <2> QED
    BY <1>1, <2>1, EvictRefines DEF SweepEvict, Threads
<1>2. CASE ~SweepEvict
  BY <1>2 DEF SweepStep, SweepBegin, SweepEnd, SweepJudge, SweepRescan,
              SweepPick, R!registryVars
<1> QED
  BY <1>1, <1>2

\* So is a step of shutdown_all.
LEMMA DrainRefines ==
  ASSUME IInv, NEW t \in Drainers, ShutdownAll(t) \/ DrainStep(t)
  PROVE  (\E i \in Ids : R!Evict(i)) \/ UNCHANGED R!registryVars
<1>1. CASE \E i \in drainIds : DrainNext(t, i)
  BY <1>1, EvictRefines DEF DrainNext, IInv, TypeOK, Threads
<1>2. CASE ShutdownAll(t) \/ DrainEnd(t)
  BY <1>2 DEF ShutdownAll, DrainEnd, R!registryVars
<1> QED
  BY <1>1, <1>2 DEF DrainStep

\* Seen through entries and the promised results, the pool is the atomic registry:
\* each request takes effect in one step between its arrival and its answer.
THEOREM PoolImplementsRegistry == Spec => RegistrySpec
<1>1. Init => R!Init
  BY DEF Init, R!Init, R!RequestNames, Requests
<1>2. IInv /\ [Next]_vars => [R!Next]_(R!registryVars)
  <2> SUFFICES ASSUME IInv, [Next]_vars
               PROVE  R!Next \/ UNCHANGED R!registryVars
    OBVIOUS
  <2>1. CASE Arrive
    BY <2>1, CreateRefines, UseRefines, DeleteRefines, DrainRefines
       DEF Arrive, R!Next
  <2>2. CASE (\E r \in Creates : CreateStep(r)) \/ (\E d \in Deletes : Delete(d))
    BY <2>2, CreateRefines, DeleteRefines DEF R!Next
  <2>3. CASE \E u \in Uses : UseStep(u)
    BY <2>3, UseRefines DEF R!Next
  <2>4. CASE SweepStep
    BY <2>4, SweepRefines DEF R!Next
  <2>5. CASE \E t \in Drainers : DrainStep(t)
    BY <2>5, DrainRefines DEF R!Next
  <2>6. CASE (\E t \in Requests : Touch(t)) \/ (\E t \in Threads : ShutdownStep(t))
    BY <2>6 DEF Touch, ShutdownStep, StopWatches, DestroyFrecency,
                DestroyQueries, R!registryVars
  <2>7. CASE Environment \/ UNCHANGED vars
    BY <2>7 DEF Environment, GoIdle, BecomeWarm, LastDrop, vars, R!registryVars
  <2> QED
    BY <2>1, <2>2, <2>3, <2>4, <2>5, <2>6, <2>7 DEF Next
<1> QED
  BY <1>1, <1>2, SpecInv, PTL DEF Spec, RegistrySpec, R!Spec

=============================================================================
