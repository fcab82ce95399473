-------------------------- MODULE CreateWaitProofs --------------------------
(***************************************************************************)
(* Theorems about the waits of a create and what the client learns, for    *)
(* every block budget, every pace of the engine and every -TimeoutSeconds. *)
(***************************************************************************)
EXTENDS CreateWait, TLAPS

\* What the waits still to come may take together with what has been spent.
WaitBounds ==
  /\ spent <= built + budget
  /\ pc = "scan" => spent + left <= built + budget
  /\ pc = "index" =>
       /\ waitFor \in {"indexing", "watcher"}
       /\ left > 0 => spent + left <= budget
       /\ waitFor = "watcher" /\ (left > 0 \/ rest > 0) => spent + left + rest <= budget
  /\ pc = "watcher" => waitFor = "watcher" /\ (left > 0 => spent + left <= budget)

WaitInv == TypeOK /\ WaitBounds

-----------------------------------------------------------------------------
(* The budget. *)

\* Halving what remains: neither half is more than the whole, and the second is what
\* the first leaves over, for an odd number too.
LEMMA Halves ==
  ASSUME NEW n \in 0..MaxBudget
  PROVE  /\ n \div 2 \in 0..MaxBudget
         /\ n - (n \div 2) \in 0..MaxBudget
         /\ (n \div 2) + (n - (n \div 2)) = n
BY BoundsType

\* A create starts with its whole budget.
LEMMA InitWait == Init => WaitInv
BY BoundsType DEF Init, WaitInv, TypeOK, WaitBounds, WaitFor

\* The end of the scan's wait hands on what the scan has left over.
LEMMA ScanDoneWait ==
  ASSUME WaitInv, ScanDone
  PROVE  WaitInv'
<1>1. /\ Remaining \in 0..MaxBudget
      /\ Remaining > 0 => spent + Remaining = budget
  BY BoundsType DEF WaitInv, TypeOK, Remaining
<1>2. /\ Remaining \div 2 \in 0..MaxBudget
      /\ Remaining - (Remaining \div 2) \in 0..MaxBudget
      /\ (Remaining \div 2) + (Remaining - (Remaining \div 2)) = Remaining
  BY <1>1, Halves
<1>3. /\ pc = "scan"
      /\ UNCHANGED <<request, stage, spent, client>>
      /\ \/ waitFor = "scan" /\ pc' = "answer" /\ UNCHANGED <<left, rest>>
         \/ waitFor = "indexing" /\ pc' = "index" /\ left' = Remaining /\ UNCHANGED rest
         \/ /\ waitFor = "watcher"
            /\ pc' = "index"
            /\ left' = Remaining \div 2
            /\ rest' = Remaining - (Remaining \div 2)
  BY DEF ScanDone, WaitOver
<1>4. TypeOK'
  BY <1>1, <1>2, <1>3 DEF WaitInv, TypeOK, request, client
<1>5. WaitBounds'
  <2>1. CASE pc' = "answer"
    BY <1>3, <2>1 DEF WaitInv, WaitBounds, request
  <2>2. CASE waitFor = "indexing" /\ pc' = "index"
    BY <1>1, <1>3, <2>2, BoundsType DEF WaitInv, WaitBounds, TypeOK, request
  <2>3. CASE waitFor = "watcher" /\ pc' = "index"
    <3>1. left' \in 0..MaxBudget /\ rest' \in 0..MaxBudget /\ left' + rest' = Remaining
      BY <1>2, <1>3, <2>3
    <3> QED
      BY <1>1, <1>3, <2>3, <3>1, BoundsType DEF WaitInv, WaitBounds, TypeOK, request
  <2> QED
    BY <1>3, <2>1, <2>2, <2>3
<1> QED
  BY <1>4, <1>5 DEF WaitInv

\* Every step keeps the waits within the budget.
LEMMA StepWait == WaitInv /\ [Next]_vars => WaitInv'
<1> SUFFICES ASSUME WaitInv, [Next]_vars PROVE WaitInv'
  OBVIOUS
<1> USE BoundsType DEF WaitInv, TypeOK, WaitBounds, WaitFor, request, client
<1>1. CASE ScanDone
  BY <1>1, ScanDoneWait
<1>2. CASE IndexDone \/ WatcherDone
  BY <1>2 DEF IndexDone, WatcherDone, WaitOver
<1>3. CASE Respond \/ Check \/ Poll
  BY <1>3 DEF Respond, Check, Poll, Code
<1>4. CASE Advance
  BY <1>4 DEF Advance
<1>5. CASE Tick
  BY <1>5 DEF Tick, Blocking, WaitOver
<1>6. CASE UNCHANGED vars
  BY <1>6 DEF vars
<1> QED
  BY <1>1, <1>2, <1>3, <1>4, <1>5, <1>6 DEF Next

\* What a create has spent and still waits for stays within its budget.
THEOREM SpecWaitInv == Spec => []WaitInv
BY InitWait, StepWait, PTL DEF Spec

\* Every variable of the waits and the client keeps its type, the clocks their range.
THEOREM SpecTypeOK == Spec => []TypeOK
<1>1. WaitInv => TypeOK
  BY DEF WaitInv
<1> QED
  BY <1>1, SpecWaitInv, PTL

\* The waits of a create take at most its budget together, beside what starting the
\* engine took: the two halves a watcher's wait is split into, and the time the scan
\* took, do not add up to more.
THEOREM SpecBudgetKept == Spec => []BudgetKept
<1>1. WaitInv => BudgetKept
  BY DEF WaitInv, WaitBounds, BudgetKept, Blocking
<1> QED
  BY <1>1, SpecWaitInv, PTL

=============================================================================
