-------------------------- MODULE UserlandProofs --------------------------
(***************************************************************************)
(* Proofs about the code a program is linked with: its mutex and semaphore, *)
(* its promises, the wrappers of the system calls with the kernel's side of *)
(* the gate, its heap, its strings and its conversions of numbers.         *)
(***************************************************************************)
EXTENDS ThreadSync, Promise, SystemCalls, UserHeap, Strings, Conversions, QueueOpsProofs,
        FiniteSetTheorems, SequenceTheorems, TLAPS

-----------------------------------------------------------------------------
(***************************************************************************)
(* The mutex and the semaphore, for any finite number of threads and any   *)
(* size of the counter.  The bound of the queue is inductive with the      *)
(* types: a thread that queues becomes one of those that wait, and only    *)
(* takes itself out of them with the shift of an entry, or when it finds   *)
(* the queue empty.                                                        *)
(***************************************************************************)

LEMMA SyncInitTypes == SyncInit => SyncTypeOK
  <1> SUFFICES ASSUME SyncInit PROVE SyncTypeOK
    OBVIOUS
  <1>1. thread_queue \in Seq(User)
    BY DEF SyncInit
  <1>2. /\ place \in [User -> Places] /\ job \in [User -> Jobs]
        /\ held \in [User -> BOOLEAN]
    BY DEF SyncInit, Places, Jobs
  <1> QED
    BY <1>1, <1>2 DEF SyncInit, SyncTypeOK

\* The two outcomes of a shift.
LEMMA ShiftCases ==
  ASSUME NEW t \in User, UnlockShift(t)
  PROVE  \/ thread_queue = <<>> /\ thread_queue' = <<>>
         \/ thread_queue # <<>> /\ thread_queue' = Tail(thread_queue)
  BY Zenon DEF UnlockShift

LEMMA GoesTyped ==
  ASSUME SyncTypeOK, NEW t \in User, NEW from, NEW to \in Places, Goes(t, from, to)
  PROVE  place' \in [User -> Places]
  BY DEF SyncTypeOK, Goes

LEMMA SyncStepTypes == SyncTypeOK /\ [SyncNext]_syncVars => SyncTypeOK'
  <1> SUFFICES ASSUME SyncTypeOK, [SyncNext]_syncVars PROVE SyncTypeOK'
    OBVIOUS
  <1>1. CASE UNCHANGED syncVars
    BY <1>1 DEF SyncTypeOK, syncVars
  <1>2. CASE SyncNext
    <2> PICK t \in User :
          \/ Calls(t) \/ LockTest(t) \/ LockQueue(t) \/ LockRetest(t)
          \/ LockPark(t) \/ LockResumes(t) \/ LockTake(t)
          \/ Section(t) \/ WaitTest(t) \/ SignalStarts(t) \/ Update(t)
          \/ Unlock(t) \/ UnlockCheck(t) \/ UnlockShift(t) \/ Preempts(t)
      BY <1>2 DEF SyncNext, SyncProceeds
    <2> USE GoesTyped DEF Places
    <2>1. CASE Calls(t)
      BY <2>1 DEF Calls, SyncTypeOK, Jobs
    <2>2. CASE LockTest(t)
      BY <2>2 DEF LockTest, SyncTypeOK
    <2>3. CASE LockQueue(t)
      BY <2>3 DEF LockQueue, SyncTypeOK
    <2>4. CASE LockRetest(t)
      BY <2>4 DEF LockRetest, SyncTypeOK
    <2>5. CASE LockPark(t)
      BY <2>5 DEF LockPark, SyncTypeOK
    <2>6. CASE LockResumes(t)
      BY <2>6 DEF LockResumes, SyncTypeOK
    <2>7. CASE LockTake(t)
      BY <2>7 DEF LockTake, SyncTypeOK
    <2>8. CASE Section(t)
      BY <2>8 DEF Section, SyncTypeOK
    <2>9. CASE WaitTest(t)
      BY <2>9 DEF WaitTest, SyncTypeOK
    <2>10. CASE SignalStarts(t)
      BY <2>10 DEF SignalStarts, SyncTypeOK
    <2>11. CASE Update(t)
      <3>1. counter' \in 0 .. MaxCounter - 1
        BY <2>11, ThreadSyncAssumption DEF Update, SyncTypeOK
      <3> QED
        BY <2>11, <3>1 DEF Update, SyncTypeOK
    <2>12. CASE Unlock(t)
      BY <2>12 DEF Unlock, SyncTypeOK
    <2>13. CASE UnlockCheck(t)
      BY <2>13 DEF UnlockCheck, GoesTo, SyncTypeOK
    <2>14. CASE UnlockShift(t)
      <3>1. thread_queue' \in Seq(User)
        BY <2>14, ShiftCases DEF SyncTypeOK
      <3>2. place' \in [User -> Places]
        BY <2>14 DEF UnlockShift, GoesTo
      <3>3. parked' \subseteq User /\ faulted' \in BOOLEAN
        BY <2>14 DEF UnlockShift, SyncTypeOK
      <3> QED
        BY <2>14, <3>1, <3>2, <3>3 DEF UnlockShift, SyncTypeOK
    <2>15. CASE Preempts(t)
      BY <2>15 DEF Preempts, SyncTypeOK
    <2> QED
      BY <2>1, <2>2, <2>3, <2>4, <2>5, <2>6, <2>7, <2>8, <2>9, <2>10, <2>11, <2>12,
         <2>13, <2>14, <2>15
  <1> QED
    BY <1>1, <1>2

\* Every variable has a value of its type, whatever threads interleave.
THEOREM SyncTypesKept == SyncSpec => []SyncTypeOK
  BY SyncInitTypes, SyncStepTypes, PTL DEF SyncSpec
-----------------------------------------------------------------------------
LEMMA WaitingCounts ==
  ASSUME SyncTypeOK
  PROVE  IsFiniteSet(Waiting) /\ Cardinality(Waiting) \in Nat
  <1>1. Waiting \subseteq User
    BY DEF Waiting
  <1> QED
    BY <1>1, ThreadSyncAssumption, FS_Subset, FS_CardinalityType

\* A step of t changes whether t waits, and nobody else.
LEMMA Enters ==
  ASSUME SyncTypeOK, SyncTypeOK', NEW t \in User, NEW from, NEW to,
         Goes(t, from, to), t \notin Waiting, t \in Waiting'
  PROVE  Cardinality(Waiting') = Cardinality(Waiting) + 1
  <1>1. Waiting' = Waiting \cup {t}
    BY DEF Waiting, Goes, SyncTypeOK
  <1> QED
    BY <1>1, WaitingCounts, FS_AddElement

LEMMA Leaves ==
  ASSUME SyncTypeOK, SyncTypeOK', NEW t \in User, NEW from, NEW to,
         Goes(t, from, to), t \in Waiting, t \notin Waiting'
  PROVE  Cardinality(Waiting') = Cardinality(Waiting) - 1
  <1>1. Waiting' = Waiting \ {t}
    BY DEF Waiting, Goes, SyncTypeOK
  <1> QED
    BY <1>1, WaitingCounts, FS_RemoveElement

LEMMA Stays ==
  ASSUME SyncTypeOK, SyncTypeOK', NEW t \in User, NEW from, NEW to,
         Goes(t, from, to), t \in Waiting <=> t \in Waiting'
  PROVE  Waiting' = Waiting
  BY DEF Waiting, Goes, SyncTypeOK

LEMMA StepBound ==
  ASSUME SyncTypeOK, SyncTypeOK', QueueIsBoundedByWaiters, SyncNext
  PROVE  QueueIsBoundedByWaiters'
  <1> PICK t \in User :
        \/ Calls(t) \/ LockTest(t) \/ LockQueue(t) \/ LockRetest(t)
        \/ LockPark(t) \/ LockResumes(t) \/ LockTake(t)
        \/ Section(t) \/ WaitTest(t) \/ SignalStarts(t) \/ Update(t)
        \/ Unlock(t) \/ UnlockCheck(t) \/ UnlockShift(t) \/ Preempts(t)
    BY DEF SyncNext, SyncProceeds
  <1>c. /\ Cardinality(Waiting) \in Nat
        /\ thread_queue \in Seq(User)
        /\ Len(thread_queue) \in Nat
        /\ Len(thread_queue) <= Cardinality(Waiting)
    BY WaitingCounts DEF QueueIsBoundedByWaiters, SyncTypeOK
  <1>1. CASE LockQueue(t)
    <2>1. Goes(t, "queue", "retest") /\ t \notin Waiting /\ t \in Waiting'
      BY <1>1 DEF LockQueue, Goes, Waiting, SyncTypeOK
    <2>2. Cardinality(Waiting') = Cardinality(Waiting) + 1
      BY <2>1, Enters
    <2>3. Len(thread_queue') = Len(thread_queue) + 1
      BY <1>1, <1>c DEF LockQueue
    <2> QED
      BY <2>2, <2>3, <1>c DEF QueueIsBoundedByWaiters
  <1>2. CASE LockTest(t)
    <2>1. thread_queue' = thread_queue
      BY <1>2 DEF LockTest
    <2>2. CASE locked_by_thread # NoUser
      <3>1. Goes(t, "lock", "queue") /\ (t \in Waiting <=> t \in Waiting')
        BY <1>2, <2>2 DEF LockTest, Goes, Waiting, SyncTypeOK
      <3> QED
        BY <3>1, Stays, <2>1, <1>c DEF QueueIsBoundedByWaiters
    <2>3. CASE locked_by_thread = NoUser
      <3>1. Goes(t, "lock", "take") /\ t \notin Waiting /\ t \in Waiting'
        BY <1>2, <2>3 DEF LockTest, Goes, Waiting, SyncTypeOK
      <3> QED
        BY <3>1, Enters, <2>1, <1>c DEF QueueIsBoundedByWaiters
    <2> QED
      BY <2>2, <2>3
  <1>3. CASE UnlockCheck(t)
    <2>1. thread_queue' = thread_queue
      BY <1>3 DEF UnlockCheck
    <2>2. CASE thread_queue = <<>>
      <3>1. Len(thread_queue') = 0
        BY <2>1, <2>2
      <3>2. Cardinality(Waiting)' \in Nat
        <4>1. Waiting' \subseteq User
          BY DEF Waiting
        <4> QED
          BY <4>1, ThreadSyncAssumption, FS_Subset, FS_CardinalityType
      <3> QED
        BY <3>1, <3>2 DEF QueueIsBoundedByWaiters
    <2>3. CASE thread_queue # <<>>
      <3>1. Goes(t, "check", "shift") /\ (t \in Waiting <=> t \in Waiting')
        BY <1>3, <2>3 DEF UnlockCheck, Goes, Waiting, SyncTypeOK
      <3> QED
        BY <3>1, Stays, <2>1, <1>c DEF QueueIsBoundedByWaiters
    <2> QED
      BY <2>2, <2>3
  <1>4. CASE UnlockShift(t)
    <2>1. /\ Goes(t, "shift", GoesTo(t))
          /\ t \in Waiting /\ t \notin Waiting'
      BY <1>4 DEF UnlockShift, GoesTo, Goes, Waiting, SyncTypeOK
    <2>2. Cardinality(Waiting') = Cardinality(Waiting) - 1
      BY <2>1, Leaves
    <2>3. Waiting # {}
      BY <2>1
    <2>4. Cardinality(Waiting) # 0
      BY <2>3, WaitingCounts, FS_EmptySet
    <2>5. CASE thread_queue = <<>>
      <3>1. Len(thread_queue') = 0
        BY <1>4, <2>5, ShiftCases
      <3> QED
        BY <3>1, <2>2, <2>4, <1>c DEF QueueIsBoundedByWaiters
    <2>6. CASE thread_queue # <<>>
      <3>1. Len(thread_queue') = Len(thread_queue) - 1
        BY <1>4, <2>6, <1>c, ShiftCases
      <3> QED
        BY <3>1, <2>2, <1>c DEF QueueIsBoundedByWaiters
    <2> QED
      BY <2>5, <2>6
  <1>5. CASE \/ Calls(t) \/ Preempts(t) \/ LockRetest(t) \/ LockPark(t) \/ LockResumes(t)
             \/ LockTake(t) \/ Section(t) \/ WaitTest(t) \/ SignalStarts(t) \/ Update(t)
             \/ Unlock(t)
    <2>1. thread_queue' = thread_queue
      BY <1>5 DEF Calls, Preempts, LockRetest, LockPark, LockResumes, LockTake, Section,
                  WaitTest, SignalStarts, Update, Unlock
    <2>2. Waiting' = Waiting
      BY <1>5 DEF Calls, Preempts, LockRetest, LockPark, LockResumes, LockTake, Section,
                  WaitTest, SignalStarts, Update, Unlock, Goes, Waiting, SyncTypeOK
    <2> QED
      BY <2>1, <2>2, <1>c DEF QueueIsBoundedByWaiters
  <1> QED
    BY <1>1, <1>2, <1>3, <1>4, <1>5

LEMMA InitBound == SyncInit => QueueIsBoundedByWaiters
  <1> SUFFICES ASSUME SyncInit PROVE QueueIsBoundedByWaiters
    OBVIOUS
  <1>1. Len(thread_queue) = 0
    BY DEF SyncInit
  <1> QED
    BY <1>1, SyncInitTypes, WaitingCounts DEF QueueIsBoundedByWaiters

\* However many threads lock, wait and signal, and whatever wake-ups are lost or
\* owners double, the queue never holds more entries than there are threads
\* between lock and the end of unlock.
THEOREM QueueBounded == SyncSpec => []QueueIsBoundedByWaiters
  <1> DEFINE Inv == SyncTypeOK /\ QueueIsBoundedByWaiters
  <1>1. SyncInit => Inv
    BY SyncInitTypes, InitBound
  <1>2. Inv /\ [SyncNext]_syncVars => Inv'
    <2> SUFFICES ASSUME Inv, [SyncNext]_syncVars PROVE Inv'
      OBVIOUS
    <2>1. SyncTypeOK'
      BY SyncStepTypes
    <2>2. CASE UNCHANGED syncVars
      BY <2>1, <2>2 DEF syncVars, QueueIsBoundedByWaiters, Waiting
    <2>3. CASE SyncNext
      BY <2>1, <2>3, StepBound
    <2> QED
      BY <2>2, <2>3
  <1>3. Inv => QueueIsBoundedByWaiters
    OBVIOUS
  <1> QED
    BY <1>1, <1>2, <1>3, PTL DEF SyncSpec

-----------------------------------------------------------------------------
(***************************************************************************)
(* Promises, for any number of them.  Neither property is inductive.  The  *)
(* strengthening says of each promise how its capture, its thread and the  *)
(* place of its parent fit: a thread past its result has stored it; what is *)
(* complete stays so; a destructor that finds the promise incomplete on its *)
(* second test has killed the thread, or there never was one.              *)
(***************************************************************************)

\* The captures: counted right, and freed by one side only.
CaptureFits(a) ==
    /\ capture[a] = "freed" => freed[a] = 1
    /\ capture[a] # "freed" => freed[a] = 0
    /\ promise[a].param <=> capture[a] # "none"
    /\ capture[a] = "freed" => child[a] \in {"last", "gone"}
    /\ capture[a] = "freed" => promise[a].complete \/ ~promise[a].alive

\* The thread: what it has stored by when.
ThreadFits(a) ==
    /\ child[a] \in {"complete", "awake", "free", "last"} => promise[a].complete
    /\ child[a] \in {"stored", "complete", "awake", "free", "last"} =>
            promise[a].value = "result"
    /\ promise[a].complete => promise[a].value = "result"
    /\ child[a] = "none" => ~promise[a].param /\ ~promise[a].complete
    /\ child[a] # "none" /\ ~promise[a].started => Is("starting", a)

\* The destructor: what its tests have found still holds.
DestructorFits(a) ==
    /\ Is("killing", a) \/ Is("retesting", a) \/ Is("freeing", a) => promise[a].alive
    /\ Is("killing", a) => promise[a].started
    /\ Is("retesting", a) /\ ~promise[a].complete => child[a] \in {"none", "gone"}
    /\ Is("freeing", a) => /\ child[a] = "gone" /\ capture[a] = "held"
                           /\ ~promise[a].complete

PromisesFit == \A a \in Promise : CaptureFits(a) /\ ThreadFits(a) /\ DestructorFits(a)

ResultsOnly == got # "uninitialised" /\ \A a \in awaited : promise[a].complete

\* Where the parent is determines the place and the promise.
LEMMA ParentEqual ==
  ASSUME NEW p, NEW q, NEW a, NEW b
  PROVE  Parent(p, a) = Parent(q, b) <=> p = q /\ a = b
  BY DEF Parent

LEMMA ParentFree ==
  ASSUME NEW p, NEW a, p # "free"
  PROVE  Parent(p, a) # Free
  BY DEF Parent, Free

LEMMA PromiseInitTypes == PromiseInit => PromiseTypeOK
  <1> SUFFICES ASSUME PromiseInit PROVE PromiseTypeOK
    OBVIOUS
  <1>1. promise \in [Promise ->
            [alive : BOOLEAN, complete : BOOLEAN, waiting : BOOLEAN, started : BOOLEAN,
             param : BOOLEAN, value : {"uninitialised", "result"}]]
    BY DEF PromiseInit, NewPromise
  <1>2. capture \in [Promise -> {"none", "held", "freed"}] /\ freed \in [Promise -> Nat]
    BY DEF PromiseInit
  <1>3. child \in [Promise -> ChildPlaces]
    BY DEF PromiseInit, ChildPlaces
  <1> QED
    BY <1>1, <1>2, <1>3 DEF PromiseInit, PromiseTypeOK

LEMMA InitFits == PromiseInit => PromisesFit /\ ResultsOnly
  BY DEF PromiseInit, PromisesFit, CaptureFits, ThreadFits, DestructorFits, ResultsOnly,
         NewPromise, Free, Is, Parent

\* What the memory of a promise holds.
PromiseRecord ==
    [alive : BOOLEAN, complete : BOOLEAN, waiting : BOOLEAN, started : BOOLEAN,
     param : BOOLEAN, value : {"uninitialised", "result"}]

\* A promise with one component assigned is a promise.
LEMMA Assigned ==
  ASSUME NEW p \in PromiseRecord
  PROVE  /\ [p EXCEPT !.alive = FALSE] \in PromiseRecord
         /\ [p EXCEPT !.complete = TRUE] \in PromiseRecord
         /\ [p EXCEPT !.waiting = TRUE] \in PromiseRecord
         /\ [p EXCEPT !.started = TRUE] \in PromiseRecord
         /\ [p EXCEPT !.value = "result"] \in PromiseRecord
         /\ \A arguments \in BOOLEAN : [p EXCEPT !.param = arguments] \in PromiseRecord
  <1>1. [p EXCEPT !.alive = FALSE] \in PromiseRecord
    BY DEF PromiseRecord
  <1>2. [p EXCEPT !.complete = TRUE] \in PromiseRecord
    BY DEF PromiseRecord
  <1>3. [p EXCEPT !.waiting = TRUE] \in PromiseRecord
    BY DEF PromiseRecord
  <1>4. [p EXCEPT !.started = TRUE] \in PromiseRecord
    BY DEF PromiseRecord
  <1>5. [p EXCEPT !.value = "result"] \in PromiseRecord
    BY DEF PromiseRecord
  <1>6. ASSUME NEW arguments \in BOOLEAN
        PROVE  [p EXCEPT !.param = arguments] \in PromiseRecord
    BY DEF PromiseRecord
  <1> QED
    BY <1>1, <1>2, <1>3, <1>4, <1>5, <1>6

LEMMA AssignedPromise ==
  ASSUME PromiseTypeOK, NEW a \in Promise
  PROVE  /\ [promise EXCEPT ![a].alive = FALSE] \in [Promise -> PromiseRecord]
         /\ [promise EXCEPT ![a].complete = TRUE] \in [Promise -> PromiseRecord]
         /\ [promise EXCEPT ![a].waiting = TRUE] \in [Promise -> PromiseRecord]
         /\ [promise EXCEPT ![a].started = TRUE] \in [Promise -> PromiseRecord]
         /\ [promise EXCEPT ![a].value = "result"] \in [Promise -> PromiseRecord]
  <1>1. promise \in [Promise -> PromiseRecord]
    BY DEF PromiseTypeOK, PromiseRecord
  <1> QED
    BY <1>1, Assigned

LEMMA Dies ==
  ASSUME PromiseTypeOK, NEW a \in Promise, Destroyed(a)
  PROVE  promise' \in [Promise -> PromiseRecord]
  BY AssignedPromise DEF Destroyed

LEMMA PromiseStepTypes == PromiseTypeOK /\ [PromiseNext]_promiseVars => PromiseTypeOK'
  <1> SUFFICES ASSUME PromiseTypeOK, [PromiseNext]_promiseVars PROVE PromiseTypeOK'
    OBVIOUS
  <1>1. CASE UNCHANGED promiseVars
    BY <1>1 DEF PromiseTypeOK, promiseVars
  <1>2. CASE PromiseNext
    <2> PICK a \in Promise :
          \/ \E arguments \in BOOLEAN : Exec(a, arguments)
          \/ ExecStoresId(a)
          \/ Await(a) \/ AwaitTest(a) \/ AwaitParks(a) \/ AwaitResumes(a)
          \/ TakesValue(a)
          \/ Destroy(a) \/ DestroyKills(a) \/ DestroyTests(a) \/ DestroyFrees(a)
          \/ ChildCalls(a) \/ ChildCompletes(a) \/ ChildLooks(a) \/ ChildAwakes(a)
          \/ ChildFrees(a) \/ ChildEnds(a)
      BY <1>2 DEF PromiseNext, ParentDecides, ParentProceeds, ChildRuns
    <2>1. CASE \E arguments \in BOOLEAN : Exec(a, arguments)
      <3> PICK arguments \in BOOLEAN : Exec(a, arguments)
        BY <2>1
      <3>1. promise \in [Promise -> PromiseRecord]
        BY DEF PromiseTypeOK, PromiseRecord
      <3>2. promise' \in [Promise -> PromiseRecord]
        BY <3>1, Assigned DEF Exec
      <3>3. parent' \in {Free} \cup [place : ParentPlaces, at : Promise]
        BY DEF Exec, Parent, ParentPlaces
      <3>4. /\ capture' \in [Promise -> {"none", "held", "freed"}]
            /\ child' \in [Promise -> ChildPlaces]
        BY DEF Exec, PromiseTypeOK, ChildPlaces
      <3> QED
        BY <3>2, <3>3, <3>4 DEF Exec, PromiseTypeOK, PromiseRecord
    <2>2. CASE ExecStoresId(a)
      <3>1. promise' \in [Promise -> PromiseRecord]
        BY <2>2, AssignedPromise DEF ExecStoresId
      <3> QED
        BY <2>2, <3>1 DEF ExecStoresId, Is, Free, Parent, PromiseTypeOK, PromiseRecord, ParentPlaces
    <2>3. CASE Await(a)
      <3>1. promise' \in [Promise -> PromiseRecord]
        BY <2>3, AssignedPromise DEF Await
      <3> QED
        BY <2>3, <3>1 DEF Await, Is, Free, Parent, PromiseTypeOK, PromiseRecord, ParentPlaces
    <2>4. CASE AwaitTest(a)
      BY <2>4 DEF AwaitTest, Is, Free, Parent, PromiseTypeOK,
                   ParentPlaces, ChildPlaces
    <2>5. CASE AwaitParks(a)
      BY <2>5 DEF AwaitParks, Is, Free, Parent, PromiseTypeOK,
                   ParentPlaces, ChildPlaces
    <2>6. CASE AwaitResumes(a)
      BY <2>6 DEF AwaitResumes, Is, Free, Parent, PromiseTypeOK,
                   ParentPlaces, ChildPlaces
    <2>7. CASE TakesValue(a)
      BY <2>7 DEF TakesValue, Is, Free, Parent, PromiseTypeOK,
                   ParentPlaces, ChildPlaces
    <2>8. CASE Destroy(a)
      BY <2>8 DEF Destroy, Is, Free, Parent, PromiseTypeOK,
                   ParentPlaces, ChildPlaces
    <2>9. CASE DestroyKills(a)
      BY <2>9 DEF DestroyKills, Is, Free, Parent, PromiseTypeOK,
                   ParentPlaces, ChildPlaces
    <2>10. CASE DestroyTests(a)
      <3>1. CASE promise[a].param /\ ~promise[a].complete
        BY <2>10, <3>1 DEF DestroyTests, Parent, PromiseTypeOK, ParentPlaces
      <3>2. CASE ~(promise[a].param /\ ~promise[a].complete)
        BY <2>10, <3>2, Dies DEF DestroyTests, PromiseTypeOK, PromiseRecord
      <3> QED
        BY <3>1, <3>2
    <2>11. CASE DestroyFrees(a)
      <3>1. freed' \in [Promise -> Nat] /\ capture' \in [Promise -> {"none", "held", "freed"}]
        BY <2>11 DEF DestroyFrees, Frees, PromiseTypeOK
      <3> QED
        BY <2>11, <3>1, Dies DEF DestroyFrees, PromiseTypeOK, PromiseRecord
    <2>12. CASE ChildCalls(a)
      <3>1. promise' \in [Promise -> PromiseRecord]
        BY <2>12, AssignedPromise DEF ChildCalls
      <3> QED
        BY <2>12, <3>1 DEF ChildCalls, ChildGoes, PromiseTypeOK, PromiseRecord, ChildPlaces
    <2>13. CASE ChildCompletes(a)
      <3>1. promise' \in [Promise -> PromiseRecord]
        BY <2>13, AssignedPromise DEF ChildCompletes
      <3> QED
        BY <2>13, <3>1 DEF ChildCompletes, ChildGoes, PromiseTypeOK, PromiseRecord, ChildPlaces
    <2>14. CASE ChildLooks(a)
      BY <2>14 DEF ChildLooks, ChildGoes, PromiseTypeOK, ParentPlaces, ChildPlaces
    <2>15. CASE ChildAwakes(a)
      BY <2>15 DEF ChildAwakes, ChildGoes, PromiseTypeOK, ParentPlaces, ChildPlaces
    <2>16. CASE ChildFrees(a)
      BY <2>16 DEF ChildFrees, Frees, ChildGoes, PromiseTypeOK, ParentPlaces, ChildPlaces
    <2>17. CASE ChildEnds(a)
      BY <2>17 DEF ChildEnds, ChildGoes, PromiseTypeOK, ParentPlaces, ChildPlaces
    <2> QED
      BY <2>1, <2>2, <2>3, <2>4, <2>5, <2>6, <2>7, <2>8, <2>9, <2>10, <2>11, <2>12, <2>13, <2>14, <2>15, <2>16, <2>17
  <1> QED
    BY <1>1, <1>2

LEMMA StepFits ==
  ASSUME PromiseTypeOK, PromisesFit, ResultsOnly, PromiseNext
  PROVE  PromisesFit' /\ ResultsOnly'
  <1> PICK a \in Promise :
        \/ \E arguments \in BOOLEAN : Exec(a, arguments)
        \/ ExecStoresId(a)
        \/ Await(a) \/ AwaitTest(a) \/ AwaitParks(a) \/ AwaitResumes(a)
        \/ TakesValue(a)
        \/ Destroy(a) \/ DestroyKills(a) \/ DestroyTests(a) \/ DestroyFrees(a)
        \/ ChildCalls(a) \/ ChildCompletes(a) \/ ChildLooks(a) \/ ChildAwakes(a)
        \/ ChildFrees(a) \/ ChildEnds(a)
    BY DEF PromiseNext, ParentDecides, ParentProceeds, ChildRuns
  <1> USE DEF PromisesFit, CaptureFits, ThreadFits, DestructorFits, ResultsOnly
  <1>1. CASE \E arguments \in BOOLEAN : Exec(a, arguments)
    <2>1. ResultsOnly'
      BY <1>1 DEF Exec, PromiseTypeOK
    <2>2. ASSUME NEW b \in Promise PROVE CaptureFits(b)'
      BY <1>1, <2>2 DEF Exec, PromiseTypeOK, Is
    <2>3. ASSUME NEW b \in Promise PROVE ThreadFits(b)'
      BY <1>1, <2>3, ParentEqual, ParentFree DEF Exec, PromiseTypeOK, Is
    <2>4. ASSUME NEW b \in Promise PROVE DestructorFits(b)'
      BY <1>1, <2>4, ParentEqual, ParentFree DEF Exec, PromiseTypeOK, Is
    <2> QED
      BY <2>1, <2>2, <2>3, <2>4
  <1>2. CASE ExecStoresId(a)
    <2>1. ResultsOnly'
      BY <1>2 DEF ExecStoresId, PromiseTypeOK
    <2>2. ASSUME NEW b \in Promise PROVE CaptureFits(b)'
      BY <1>2, <2>2 DEF ExecStoresId, PromiseTypeOK, Is
    <2>3. ASSUME NEW b \in Promise PROVE ThreadFits(b)'
      BY <1>2, <2>3, ParentEqual, ParentFree DEF ExecStoresId, PromiseTypeOK, Is
    <2>4. ASSUME NEW b \in Promise PROVE DestructorFits(b)'
      BY <1>2, <2>4, ParentEqual, ParentFree DEF ExecStoresId, PromiseTypeOK, Is
    <2> QED
      BY <2>1, <2>2, <2>3, <2>4
  <1>3. CASE Await(a)
    <2>1. ResultsOnly'
      BY <1>3 DEF Await, PromiseTypeOK
    <2>2. ASSUME NEW b \in Promise PROVE CaptureFits(b)'
      BY <1>3, <2>2 DEF Await, PromiseTypeOK, Is
    <2>3. ASSUME NEW b \in Promise PROVE ThreadFits(b)'
      BY <1>3, <2>3, ParentEqual, ParentFree DEF Await, PromiseTypeOK, Is
    <2>4. ASSUME NEW b \in Promise PROVE DestructorFits(b)'
      BY <1>3, <2>4, ParentEqual, ParentFree DEF Await, PromiseTypeOK, Is
    <2> QED
      BY <2>1, <2>2, <2>3, <2>4
  <1>4. CASE AwaitTest(a)
    <2>1. ResultsOnly'
      BY <1>4 DEF AwaitTest, PromiseTypeOK
    <2>2. ASSUME NEW b \in Promise PROVE CaptureFits(b)'
      BY <1>4, <2>2 DEF AwaitTest, PromiseTypeOK, Is
    <2>3. ASSUME NEW b \in Promise PROVE ThreadFits(b)'
      BY <1>4, <2>3, ParentEqual, ParentFree DEF AwaitTest, PromiseTypeOK, Is
    <2>4. ASSUME NEW b \in Promise PROVE DestructorFits(b)'
      BY <1>4, <2>4, ParentEqual, ParentFree DEF AwaitTest, PromiseTypeOK, Is
    <2> QED
      BY <2>1, <2>2, <2>3, <2>4
  <1>5. CASE AwaitParks(a)
    BY <1>5 DEF AwaitParks, Is, Free, Parent, PromiseTypeOK, Is, Parent, Free
  <1>6. CASE AwaitResumes(a)
    BY <1>6 DEF AwaitResumes, Is, Free, Parent, PromiseTypeOK, Is, Parent, Free
  <1>7. CASE TakesValue(a)
    <2>1. ResultsOnly'
      BY <1>7 DEF TakesValue, PromiseTypeOK
    <2>2. ASSUME NEW b \in Promise PROVE CaptureFits(b)'
      BY <1>7, <2>2 DEF TakesValue, PromiseTypeOK, Is
    <2>3. ASSUME NEW b \in Promise PROVE ThreadFits(b)'
      BY <1>7, <2>3, ParentEqual, ParentFree DEF TakesValue, PromiseTypeOK, Is
    <2>4. ASSUME NEW b \in Promise PROVE DestructorFits(b)'
      BY <1>7, <2>4, ParentEqual, ParentFree DEF TakesValue, PromiseTypeOK, Is
    <2> QED
      BY <2>1, <2>2, <2>3, <2>4
  <1>8. CASE Destroy(a)
    BY <1>8 DEF Destroy, Is, Free, Parent, PromiseTypeOK, Is, Parent, Free
  <1>9. CASE DestroyKills(a)
    <2>1. ResultsOnly'
      BY <1>9 DEF DestroyKills, PromiseTypeOK
    <2>2. ASSUME NEW b \in Promise PROVE CaptureFits(b)'
      BY <1>9, <2>2 DEF DestroyKills, PromiseTypeOK, Is
    <2>3. ASSUME NEW b \in Promise PROVE ThreadFits(b)'
      BY <1>9, <2>3, ParentEqual, ParentFree DEF DestroyKills, PromiseTypeOK, Is
    <2>4. ASSUME NEW b \in Promise PROVE DestructorFits(b)'
      BY <1>9, <2>4, ParentEqual, ParentFree DEF DestroyKills, PromiseTypeOK, Is
    <2> QED
      BY <2>1, <2>2, <2>3, <2>4
  <1>10. CASE DestroyTests(a)
    <2>1. ResultsOnly'
      BY <1>10 DEF DestroyTests, Destroyed, PromiseTypeOK
    <2>2. ASSUME NEW b \in Promise PROVE CaptureFits(b)'
      BY <1>10, <2>2 DEF DestroyTests, Destroyed, PromiseTypeOK, Is
    <2>3. ASSUME NEW b \in Promise PROVE ThreadFits(b)'
      BY <1>10, <2>3, ParentEqual, ParentFree DEF DestroyTests, Destroyed, PromiseTypeOK, Is
    <2>4. ASSUME NEW b \in Promise PROVE DestructorFits(b)'
      BY <1>10, <2>4, ParentEqual, ParentFree DEF DestroyTests, Destroyed, PromiseTypeOK, Is
    <2> QED
      BY <2>1, <2>2, <2>3, <2>4
  <1>11. CASE DestroyFrees(a)
    <2>1. ResultsOnly'
      BY <1>11 DEF DestroyFrees, Frees, Destroyed, PromiseTypeOK
    <2>2. ASSUME NEW b \in Promise PROVE CaptureFits(b)'
      BY <1>11, <2>2 DEF DestroyFrees, Frees, Destroyed, PromiseTypeOK, Is
    <2>3. ASSUME NEW b \in Promise PROVE ThreadFits(b)'
      BY <1>11, <2>3, ParentEqual, ParentFree DEF DestroyFrees, Frees, Destroyed, PromiseTypeOK, Is
    <2>4. ASSUME NEW b \in Promise PROVE DestructorFits(b)'
      BY <1>11, <2>4, ParentEqual, ParentFree DEF DestroyFrees, Frees, Destroyed, PromiseTypeOK, Is
    <2> QED
      BY <2>1, <2>2, <2>3, <2>4
  <1>12. CASE ChildCalls(a)
    BY <1>12 DEF ChildCalls, ChildGoes, PromiseTypeOK, Is, Parent, Free
  <1>13. CASE ChildCompletes(a)
    BY <1>13 DEF ChildCompletes, ChildGoes, PromiseTypeOK, Is, Parent, Free
  <1>14. CASE ChildLooks(a)
    BY <1>14 DEF ChildLooks, ChildGoes, PromiseTypeOK, Is, Parent, Free
  <1>15. CASE ChildAwakes(a)
    BY <1>15 DEF ChildAwakes, ChildGoes, PromiseTypeOK, Is, Parent, Free
  <1>16. CASE ChildFrees(a)
    BY <1>16 DEF ChildFrees, Frees, ChildGoes, PromiseTypeOK, Is, Parent, Free
  <1>17. CASE ChildEnds(a)
    BY <1>17 DEF ChildEnds, ChildGoes, PromiseTypeOK, Is, Parent, Free
  <1> QED
    BY <1>1, <1>2, <1>3, <1>4, <1>5, <1>6, <1>7, <1>8, <1>9, <1>10, <1>11, <1>12, <1>13, <1>14, <1>15, <1>16, <1>17

LEMMA Invariance == PromiseSpec => [](PromiseTypeOK /\ PromisesFit /\ ResultsOnly)
  <1> DEFINE Inv == PromiseTypeOK /\ PromisesFit /\ ResultsOnly
  <1>1. PromiseInit => Inv
    BY PromiseInitTypes, InitFits
  <1>2. Inv /\ [PromiseNext]_promiseVars => Inv'
    <2> SUFFICES ASSUME Inv, [PromiseNext]_promiseVars PROVE Inv'
      OBVIOUS
    <2>1. PromiseTypeOK'
      BY PromiseStepTypes
    <2>2. CASE UNCHANGED promiseVars
      BY <2>1, <2>2 DEF promiseVars, PromisesFit, CaptureFits, ThreadFits, DestructorFits,
                        ResultsOnly, Is, Parent
    <2>3. CASE PromiseNext
      BY <2>1, <2>3, StepFits
    <2> QED
      BY <2>2, <2>3
  <1> QED
    BY <1>1, <1>2, PTL DEF PromiseSpec

\* Every variable has a value of its type.
THEOREM PromiseTypesKept == PromiseSpec => []PromiseTypeOK
  BY Invariance, PTL

\* Every capture is freed at most once, and by then its thread has ended or is
\* at its end, however threads and destructors interleave; what value returns was
\* stored by the function, and an await that has returned was for a promise that
\* is complete.
THEOREM PromisesKept == PromiseSpec => []PromisesAreKept
  <1>1. PromiseTypeOK /\ PromisesFit => CapturesAreFreedOnce
    <2> SUFFICES ASSUME PromiseTypeOK, PromisesFit, NEW a \in Promise
                 PROVE  freed[a] <= 1 /\ (capture[a] = "freed" => child[a] \in {"last", "gone"})
      BY DEF CapturesAreFreedOnce
    <2>1. freed[a] = 0 \/ freed[a] = 1
      BY DEF PromisesFit, CaptureFits
    <2>2. capture[a] = "freed" => child[a] \in {"last", "gone"}
      BY DEF PromisesFit, CaptureFits
    <2> QED
      BY <2>1, <2>2
  <1>2. ResultsOnly => ValuesAreResults
    BY DEF ResultsOnly, ValuesAreResults
  <1>3. PromiseTypeOK /\ PromisesFit /\ ResultsOnly => PromisesAreKept
    BY <1>1, <1>2 DEF PromisesAreKept
  <1> QED
    BY <1>3, Invariance, PTL

-----------------------------------------------------------------------------
(***************************************************************************)
(* System calls, for any values of the registers and the arguments.  The   *)
(* strengthening says what the registers and the top of the stack hold at  *)
(* each instruction of a wrapper.                                          *)
(***************************************************************************)

\* The kinds of wrappers: by the number of arguments, or with a selector.
LEMMA WrapperKinds ==
    ASSUME NEW w \in Wrappers
    PROVE  /\ w.arity \in 0 .. 3
           /\ w.selector = <<>> \/ (w.arity = 0 /\ \E n \in Nat : w.selector = <<n>>)
  <1> DEFINE Good(v) == /\ v.arity \in 0 .. 3
                        /\ v.selector = <<>> \/ (v.arity = 0 /\ \E n \in Nat : v.selector = <<n>>)
  <1>1. \A name, id : \A n \in Nat : Good(Wrapper(name, 0, id, <<n>>))
    BY DEF Wrapper
  <1>2. \A name, id : \A arity \in 0 .. 3 : Good(Wrapper(name, arity, id, <<>>))
    BY DEF Wrapper
  <1> HIDE DEF Good
  <1>3. Good(w)
    BY <1>1, <1>2 DEF Wrappers
  <1> QED
    BY <1>3 DEF Good

\* Two elements, one behind the other.
LEMMA TwoPushed == ASSUME NEW a, NEW b PROVE <<a>> \o <<b>> = <<a, b>>
  <1> DEFINE S == {a, b}
  <1>1. <<a>> \in Seq(S) /\ <<b>> \in Seq(S) /\ <<a, b>> \in Seq(S)
    OBVIOUS
  <1> HIDE DEF S
  <1>2. <<a>> \o <<b>> \in Seq(S)
    BY <1>1
  <1>3. Len(<<a>> \o <<b>>) = 2 /\ (<<a>> \o <<b>>)[1] = a /\ (<<a>> \o <<b>>)[2] = b
    BY <1>1
  <1>4. \A i \in 1 .. 2 : (<<a>> \o <<b>>)[i] = <<a, b>>[i]
    BY <1>3
  <1> QED
    BY <1>1, <1>2, <1>3, <1>4, SeqEqual

LEMMA SelectorCode ==
    ASSUME NEW w, w.arity = 0, NEW n, w.selector = <<n>>
    PROVE  /\ Len(CodeOf(w)) = 4
           /\ CodeOf(w)[1] = Imm("ecx", w.id)
           /\ CodeOf(w)[2] = Imm("edx", n)
           /\ CodeOf(w)[3] = Op("int", "eax", 0)
           /\ CodeOf(w)[4] = Op("ret", "esp", 0)
  <1>1. CodeOf(w) = (((<<>> \o <<>>) \o <<Imm("ecx", w.id)>>) \o <<Imm("edx", n)>>) \o <<Op("int", "eax", 0), Op("ret", "esp", 0)>>
    BY DEF CodeOf, Moves12, Third
  <1> QED
    BY <1>1

LEMMA NullaryCode ==
    ASSUME NEW w, w.arity = 0, w.selector = <<>>
    PROVE  /\ Len(CodeOf(w)) = 3
           /\ CodeOf(w)[1] = Imm("ecx", w.id)
           /\ CodeOf(w)[2] = Op("int", "eax", 0)
           /\ CodeOf(w)[3] = Op("ret", "esp", 0)
  <1>1. CodeOf(w) = (((<<>> \o <<>>) \o <<Imm("ecx", w.id)>>) \o <<>>) \o <<Op("int", "eax", 0), Op("ret", "esp", 0)>>
    BY DEF CodeOf, Moves12, Third
  <1> QED
    BY <1>1

LEMMA UnaryCode ==
    ASSUME NEW w, w.arity = 1, w.selector = <<>>
    PROVE  /\ Len(CodeOf(w)) = 4
           /\ CodeOf(w)[1] = Mov("edx", "ecx")
           /\ CodeOf(w)[2] = Imm("ecx", w.id)
           /\ CodeOf(w)[3] = Op("int", "eax", 0)
           /\ CodeOf(w)[4] = Op("ret", "esp", 0)
  <1>1. CodeOf(w) = (((<<>> \o <<Mov("edx", "ecx")>>) \o <<Imm("ecx", w.id)>>) \o <<>>) \o <<Op("int", "eax", 0), Op("ret", "esp", 0)>>
    BY DEF CodeOf, Moves12, Third
  <1> QED
    BY <1>1

LEMMA BinaryCode ==
    ASSUME NEW w, w.arity = 2, w.selector = <<>>
    PROVE  /\ Len(CodeOf(w)) = 5
           /\ CodeOf(w)[1] = Mov("eax", "edx")
           /\ CodeOf(w)[2] = Mov("edx", "ecx")
           /\ CodeOf(w)[3] = Imm("ecx", w.id)
           /\ CodeOf(w)[4] = Op("int", "eax", 0)
           /\ CodeOf(w)[5] = Op("ret", "esp", 0)
  <1>1. CodeOf(w) = (((<<Mov("eax", "edx")>> \o <<Mov("edx", "ecx")>>) \o <<Imm("ecx", w.id)>>) \o <<>>) \o <<Op("int", "eax", 0), Op("ret", "esp", 0)>>
    BY DEF CodeOf, Moves12, Third
  <1> QED
    BY <1>1

LEMMA TernaryCode ==
    ASSUME NEW w, w.arity = 3, w.selector = <<>>
    PROVE  /\ Len(CodeOf(w)) = 8
           /\ CodeOf(w)[1] = Mov("eax", "edx")
           /\ CodeOf(w)[2] = Mov("edx", "ecx")
           /\ CodeOf(w)[3] = Imm("ecx", w.id)
           /\ CodeOf(w)[4] = Op("push", "ebx", 0)
           /\ CodeOf(w)[5] = Op("arg", "ebx", 3)
           /\ CodeOf(w)[6] = Op("int", "eax", 0)
           /\ CodeOf(w)[7] = Op("pop", "ebx", 0)
           /\ CodeOf(w)[8] = Op("ret", "esp", 1)
  <1>1. CodeOf(w) = (((<<Mov("eax", "edx")>> \o <<Mov("edx", "ecx")>>) \o <<Imm("ecx", w.id)>>) \o <<>>) \o <<Op("push", "ebx", 0), Op("arg", "ebx", 3), Op("int", "eax", 0),
           Op("pop", "ebx", 0), Op("ret", "esp", 1)>>
    BY DEF CodeOf, Moves12, Third
  <1> QED
    BY <1>1

-----------------------------------------------------------------------------
GprFits == gpr = [eax |-> gpr.eax, ebx |-> gpr.ebx, ecx |-> gpr.ecx, edx |-> gpr.edx]

\* The instruction that runs, and what it leaves.
Runs(i) == CodeOf(calling.wrapper)[calling.at] = i
PartSet(eax, ebx, ecx, edx) == gpr' = [eax |-> eax, ebx |-> ebx, ecx |-> ecx, edx |-> edx]

LEMMA InstructionRuns ==
    ASSUME Executes, NEW i, Runs(i)
    PROVE  /\ calling.at <= Len(CodeOf(calling.wrapper))
           /\ i.op = "int" => SystemCall
           /\ i.op # "int" =>
                /\ gpr' = [gpr EXCEPT ![IF i.dst = "esp" THEN "eax" ELSE i.dst] =
                              CASE i.op = "mov" -> gpr[i.src]
                                [] i.op = "imm" -> i.src
                                [] i.op = "arg" -> callStack[i.src]
                                [] i.op = "pop" -> Head(callStack)
                                [] OTHER -> @]
                /\ callStack' = CASE i.op = "push" -> <<gpr.ebx>> \o callStack
                                  [] i.op = "pop" -> Tail(callStack)
                                  [] i.op = "ret" -> SubSeq(callStack, 2 + i.src, Len(callStack))
                                  [] OTHER -> callStack
                /\ UNCHANGED <<received, replied>>
  BY DEF Executes, Runs

LEMMA CodeLeft == Executes => calling.at <= Len(CodeOf(calling.wrapper))
  BY InstructionRuns DEF Runs

LEMMA MovRuns ==
    ASSUME GprFits, Executes, NEW src \in {"ecx", "edx"}
    PROVE  /\ Runs(Mov("eax", src)) => PartSet(gpr[src], gpr.ebx, gpr.ecx, gpr.edx)
                                       /\ UNCHANGED <<callStack, received, replied>>
           /\ Runs(Mov("edx", src)) => PartSet(gpr.eax, gpr.ebx, gpr.ecx, gpr[src])
                                       /\ UNCHANGED <<callStack, received, replied>>
  <1>1. CASE Runs(Mov("eax", src))
    BY <1>1, InstructionRuns DEF GprFits, PartSet, Mov, Op
  <1>2. CASE Runs(Mov("edx", src))
    BY <1>2, InstructionRuns DEF GprFits, PartSet, Mov, Op
  <1> QED
    BY <1>1, <1>2

LEMMA ImmRuns ==
    ASSUME GprFits, Executes, NEW n
    PROVE  /\ Runs(Imm("ecx", n)) => PartSet(gpr.eax, gpr.ebx, n, gpr.edx)
                                     /\ UNCHANGED <<callStack, received, replied>>
           /\ Runs(Imm("edx", n)) => PartSet(gpr.eax, gpr.ebx, gpr.ecx, n)
                                     /\ UNCHANGED <<callStack, received, replied>>
  <1>1. CASE Runs(Imm("ecx", n))
    BY <1>1, InstructionRuns DEF GprFits, PartSet, Imm, Op
  <1>2. CASE Runs(Imm("edx", n))
    BY <1>2, InstructionRuns DEF GprFits, PartSet, Imm, Op
  <1> QED
    BY <1>1, <1>2

LEMMA StackRuns ==
    ASSUME GprFits, Executes
    PROVE  /\ Runs(Op("push", "ebx", 0)) =>
                /\ PartSet(gpr.eax, gpr.ebx, gpr.ecx, gpr.edx)
                /\ callStack' = <<gpr.ebx>> \o callStack /\ UNCHANGED <<received, replied>>
           /\ Runs(Op("arg", "ebx", 3)) =>
                /\ PartSet(gpr.eax, callStack[3], gpr.ecx, gpr.edx)
                /\ UNCHANGED <<callStack, received, replied>>
           /\ Runs(Op("pop", "ebx", 0)) =>
                /\ PartSet(gpr.eax, Head(callStack), gpr.ecx, gpr.edx)
                /\ callStack' = Tail(callStack) /\ UNCHANGED <<received, replied>>
  <1>1. CASE Runs(Op("push", "ebx", 0))
    BY <1>1, InstructionRuns DEF GprFits, PartSet, Op
  <1>2. CASE Runs(Op("arg", "ebx", 3))
    BY <1>2, InstructionRuns DEF GprFits, PartSet, Op
  <1>3. CASE Runs(Op("pop", "ebx", 0))
    BY <1>3, InstructionRuns DEF GprFits, PartSet, Op
  <1> QED
    BY <1>1, <1>2, <1>3

LEMMA RetRuns ==
    ASSUME GprFits, Executes, NEW n \in {0, 1}
    PROVE  Runs(Op("ret", "esp", n)) =>
                /\ PartSet(gpr.eax, gpr.ebx, gpr.ecx, gpr.edx)
                /\ callStack' = SubSeq(callStack, 2 + n, Len(callStack))
                /\ UNCHANGED <<received, replied>>
  <1>1. CASE Runs(Op("ret", "esp", n))
    BY <1>1, InstructionRuns DEF GprFits, PartSet, Op
  <1> QED
    BY <1>1

LEMMA IntRuns ==
    ASSUME GprFits, Executes
    PROVE  Runs(Op("int", "eax", 0)) =>
                /\ PartSet(replied', gpr.ebx, gpr.ecx, gpr.edx)
                /\ received' = [id |-> gpr.ecx, data |-> gpr.edx, data2 |-> gpr.eax, data3 |-> gpr.ebx]
                /\ UNCHANGED callStack
  <1>1. CASE Runs(Op("int", "eax", 0))
    BY <1>1, InstructionRuns DEF GprFits, SystemCall, PartSet, Op
  <1> QED
    BY <1>1

-----------------------------------------------------------------------------
(***************************************************************************)
(* Where a wrapper is, by its kind: what it has moved, and, behind the     *)
(* interrupt, what the kernel was asked and answered.                      *)
(***************************************************************************)

NullaryAt(w, n) ==
    /\ n \in 1 .. 4 /\ gpr.ebx = Kept
    /\ callStack = IF n = 4 THEN <<>> ELSE <<ReturnTo>>
    /\ n = 2 => gpr.ecx = w.id
    /\ n >= 3 => received.id = w.id /\ gpr.eax = replied

SelectorAt(w, s, n) ==
    /\ n \in 1 .. 5 /\ gpr.ebx = Kept
    /\ callStack = IF n = 5 THEN <<>> ELSE <<ReturnTo>>
    /\ n \in 2 .. 3 => gpr.ecx = w.id
    /\ n = 3 => gpr.edx = s
    /\ n >= 4 => received.id = w.id /\ received.data = s /\ gpr.eax = replied

UnaryAt(w, a, n) ==
    /\ n \in 1 .. 5 /\ gpr.ebx = Kept
    /\ callStack = IF n = 5 THEN <<>> ELSE <<ReturnTo>>
    /\ n = 1 => gpr.ecx = a
    /\ n \in 2 .. 3 => gpr.edx = a
    /\ n = 3 => gpr.ecx = w.id
    /\ n >= 4 => received.id = w.id /\ received.data = a /\ gpr.eax = replied

BinaryAt(w, a, b, n) ==
    /\ n \in 1 .. 6 /\ gpr.ebx = Kept
    /\ callStack = IF n = 6 THEN <<>> ELSE <<ReturnTo>>
    /\ n = 1 => gpr.edx = b
    /\ n \in 1 .. 2 => gpr.ecx = a
    /\ n \in 2 .. 4 => gpr.eax = b
    /\ n \in 3 .. 4 => gpr.edx = a
    /\ n = 4 => gpr.ecx = w.id
    /\ n >= 5 => /\ received.id = w.id /\ received.data = a /\ received.data2 = b
                 /\ gpr.eax = replied

TernaryAt(w, a, b, c, n) ==
    /\ n \in 1 .. 9
    /\ gpr.ebx = IF n \in 6 .. 7 THEN (IF n = 6 THEN c ELSE gpr.ebx) ELSE Kept
    /\ callStack = IF n = 9 THEN <<>>
                   ELSE IF n \in 5 .. 7 THEN <<Kept, ReturnTo, c>>
                   ELSE <<ReturnTo, c>>
    /\ n = 1 => gpr.edx = b
    /\ n \in 1 .. 2 => gpr.ecx = a
    /\ n \in 2 .. 6 => gpr.eax = b
    /\ n \in 3 .. 6 => gpr.edx = a
    /\ n \in 4 .. 6 => gpr.ecx = w.id
    /\ n >= 7 => /\ received.id = w.id /\ received.data = a /\ received.data2 = b
                 /\ received.data3 = c /\ gpr.eax = replied

LEMMA NullaryRuns ==
    ASSUME GprFits, Executes, NEW w, w = calling.wrapper, w.arity = 0, w.selector = <<>>,
           NEW n, n = calling.at, NullaryAt(w, n)
    PROVE  GprFits' /\ NullaryAt(w, n + 1)'
  <1>1. n \in 1 .. 3
    <2>1. Len(CodeOf(w)) = 3
      BY NullaryCode
    <2>2. n <= Len(CodeOf(w))
      BY CodeLeft
    <2>3. n \in 1 .. 4
      BY DEF NullaryAt
    <2> QED
      BY <2>1, <2>2, <2>3
  <1>2. CASE n = 1
    BY <1>2, NullaryCode, ImmRuns DEF GprFits, Runs, PartSet, NullaryAt
  <1>3. CASE n = 2
    BY <1>3, NullaryCode, IntRuns DEF GprFits, Runs, PartSet, NullaryAt
  <1>4. CASE n = 3
    BY <1>4, NullaryCode, RetRuns DEF GprFits, Runs, PartSet, NullaryAt
  <1> QED
    BY <1>1, <1>2, <1>3, <1>4

LEMMA SelectorRuns ==
    ASSUME GprFits, Executes, NEW w, w = calling.wrapper, w.arity = 0, NEW s, w.selector = <<s>>,
           NEW n, n = calling.at, SelectorAt(w, s, n)
    PROVE  GprFits' /\ SelectorAt(w, s, n + 1)'
  <1>1. n \in 1 .. 4
    <2>1. Len(CodeOf(w)) = 4
      BY SelectorCode
    <2>2. n <= Len(CodeOf(w))
      BY CodeLeft
    <2>3. n \in 1 .. 5
      BY DEF SelectorAt
    <2> QED
      BY <2>1, <2>2, <2>3
  <1>2. CASE n = 1
    BY <1>2, SelectorCode, ImmRuns DEF GprFits, Runs, PartSet, SelectorAt
  <1>3. CASE n = 2
    BY <1>3, SelectorCode, ImmRuns DEF GprFits, Runs, PartSet, SelectorAt
  <1>4. CASE n = 3
    BY <1>4, SelectorCode, IntRuns DEF GprFits, Runs, PartSet, SelectorAt
  <1>5. CASE n = 4
    BY <1>5, SelectorCode, RetRuns DEF GprFits, Runs, PartSet, SelectorAt
  <1> QED
    BY <1>1, <1>2, <1>3, <1>4, <1>5

LEMMA UnaryRuns ==
    ASSUME GprFits, Executes, NEW w, w = calling.wrapper, w.arity = 1, w.selector = <<>>, NEW a,
           NEW n, n = calling.at, UnaryAt(w, a, n)
    PROVE  GprFits' /\ UnaryAt(w, a, n + 1)'
  <1>1. n \in 1 .. 4
    <2>1. Len(CodeOf(w)) = 4
      BY UnaryCode
    <2>2. n <= Len(CodeOf(w))
      BY CodeLeft
    <2>3. n \in 1 .. 5
      BY DEF UnaryAt
    <2> QED
      BY <2>1, <2>2, <2>3
  <1>2. CASE n = 1
    BY <1>2, UnaryCode, MovRuns DEF GprFits, Runs, PartSet, UnaryAt
  <1>3. CASE n = 2
    BY <1>3, UnaryCode, ImmRuns DEF GprFits, Runs, PartSet, UnaryAt
  <1>4. CASE n = 3
    BY <1>4, UnaryCode, IntRuns DEF GprFits, Runs, PartSet, UnaryAt
  <1>5. CASE n = 4
    BY <1>5, UnaryCode, RetRuns DEF GprFits, Runs, PartSet, UnaryAt
  <1> QED
    BY <1>1, <1>2, <1>3, <1>4, <1>5

LEMMA BinaryRuns ==
    ASSUME GprFits, Executes, NEW w, w = calling.wrapper, w.arity = 2, w.selector = <<>>, NEW a, NEW b,
           NEW n, n = calling.at, BinaryAt(w, a, b, n)
    PROVE  GprFits' /\ BinaryAt(w, a, b, n + 1)'
  <1>1. n \in 1 .. 5
    <2>1. Len(CodeOf(w)) = 5
      BY BinaryCode
    <2>2. n <= Len(CodeOf(w))
      BY CodeLeft
    <2>3. n \in 1 .. 6
      BY DEF BinaryAt
    <2> QED
      BY <2>1, <2>2, <2>3
  <1>2. CASE n = 1
    BY <1>2, BinaryCode, MovRuns DEF GprFits, Runs, PartSet, BinaryAt
  <1>3. CASE n = 2
    BY <1>3, BinaryCode, MovRuns DEF GprFits, Runs, PartSet, BinaryAt
  <1>4. CASE n = 3
    BY <1>4, BinaryCode, ImmRuns DEF GprFits, Runs, PartSet, BinaryAt
  <1>5. CASE n = 4
    BY <1>5, BinaryCode, IntRuns DEF GprFits, Runs, PartSet, BinaryAt
  <1>6. CASE n = 5
    BY <1>6, BinaryCode, RetRuns DEF GprFits, Runs, PartSet, BinaryAt
  <1> QED
    BY <1>1, <1>2, <1>3, <1>4, <1>5, <1>6

LEMMA TernaryRuns ==
    ASSUME GprFits, Executes, NEW w, w = calling.wrapper, w.arity = 3, w.selector = <<>>, NEW a, NEW b, NEW c,
           NEW n, n = calling.at, TernaryAt(w, a, b, c, n)
    PROVE  GprFits' /\ TernaryAt(w, a, b, c, n + 1)'
  <1>1. n \in 1 .. 8
    <2>1. Len(CodeOf(w)) = 8
      BY TernaryCode
    <2>2. n <= Len(CodeOf(w))
      BY CodeLeft
    <2>3. n \in 1 .. 9
      BY DEF TernaryAt
    <2> QED
      BY <2>1, <2>2, <2>3
  <1>2. CASE n = 1
    BY <1>2, TernaryCode, MovRuns DEF GprFits, Runs, PartSet, TernaryAt
  <1>3. CASE n = 2
    BY <1>3, TernaryCode, MovRuns DEF GprFits, Runs, PartSet, TernaryAt
  <1>4. CASE n = 3
    BY <1>4, TernaryCode, ImmRuns DEF GprFits, Runs, PartSet, TernaryAt
  <1>5. CASE n = 4
    BY <1>5, TernaryCode, StackRuns DEF GprFits, Runs, PartSet, TernaryAt
  <1>6. CASE n = 5
    BY <1>6, TernaryCode, StackRuns DEF GprFits, Runs, PartSet, TernaryAt
  <1>7. CASE n = 6
    BY <1>7, TernaryCode, IntRuns DEF GprFits, Runs, PartSet, TernaryAt
  <1>8. CASE n = 7
    BY <1>8, TernaryCode, StackRuns DEF GprFits, Runs, PartSet, TernaryAt
  <1>9. CASE n = 8
    BY <1>9, TernaryCode, RetRuns DEF GprFits, Runs, PartSet, TernaryAt
  <1> QED
    BY <1>1, <1>2, <1>3, <1>4, <1>5, <1>6, <1>7, <1>8, <1>9

-----------------------------------------------------------------------------
\* Where the wrapper w is, whatever its kind.
WrapperAt(w, args, n) ==
    /\ w.arity = 0 /\ w.selector = <<>> => NullaryAt(w, n)
    /\ w.arity = 0 /\ w.selector # <<>> => SelectorAt(w, w.selector[1], n)
    /\ w.arity = 1 => UnaryAt(w, args[1], n)
    /\ w.arity = 2 => BinaryAt(w, args[1], args[2], n)
    /\ w.arity = 3 => TernaryAt(w, args[1], args[2], args[3], n)

CallInv ==
    /\ GprFits
    /\ calling = [name |-> calling.name, wrapper |-> calling.wrapper,
                  args |-> calling.args, at |-> calling.at]
    /\ calling # NoCall =>
        /\ calling.wrapper \in Wrappers
        /\ calling.args \in [1 .. calling.wrapper.arity -> ArgValues]
        /\ WrapperAt(calling.wrapper, calling.args, calling.at)

LEMMA WrapperRuns ==
    ASSUME GprFits, Executes, NEW w \in Wrappers, w = calling.wrapper, NEW args,
           NEW n, n = calling.at, WrapperAt(w, args, n)
    PROVE  GprFits' /\ WrapperAt(w, args, n + 1)'
  <1>1. CASE w.arity = 0 /\ w.selector = <<>>
    BY <1>1, NullaryRuns DEF WrapperAt
  <1>2. CASE w.arity = 0 /\ w.selector # <<>>
    <2>1. PICK s \in Nat : w.selector = <<s>>
      BY <1>2, WrapperKinds
    <2>2. GprFits' /\ SelectorAt(w, s, n + 1)'
      BY <1>2, <2>1, SelectorRuns DEF WrapperAt
    <2> QED
      BY <1>2, <2>1, <2>2 DEF WrapperAt
  <1>3. CASE w.arity = 1
    <2>1. w.selector = <<>>
      BY <1>3, WrapperKinds
    <2> DEFINE a == args[1]
    <2>2. UnaryAt(w, a, n)
      BY <1>3 DEF WrapperAt
    <2>3. GprFits' /\ UnaryAt(w, a, n + 1)'
      BY <1>3, <2>1, <2>2, UnaryRuns
    <2> QED
      BY <1>3, <2>3 DEF WrapperAt
  <1>4. CASE w.arity = 2
    <2>1. w.selector = <<>>
      BY <1>4, WrapperKinds
    <2> DEFINE a == args[1]
               b == args[2]
    <2>2. BinaryAt(w, a, b, n)
      BY <1>4 DEF WrapperAt
    <2>3. GprFits' /\ BinaryAt(w, a, b, n + 1)'
      BY <1>4, <2>1, <2>2, BinaryRuns
    <2> QED
      BY <1>4, <2>3 DEF WrapperAt
  <1>5. CASE w.arity = 3
    <2>1. w.selector = <<>>
      BY <1>5, WrapperKinds
    <2> DEFINE a == args[1]
               b == args[2]
               c == args[3]
    <2>2. TernaryAt(w, a, b, c, n)
      BY <1>5 DEF WrapperAt
    <2>3. GprFits' /\ TernaryAt(w, a, b, c, n + 1)'
      BY <1>5, <2>1, <2>2, TernaryRuns
    <2> QED
      BY <1>5, <2>3 DEF WrapperAt
  <1> QED
    BY <1>1, <1>2, <1>3, <1>4, <1>5, WrapperKinds

LEMMA InvokedWrapper ==
    ASSUME NEW w \in Wrappers, NEW args \in [1 .. w.arity -> ArgValues], Invokes(w, args)
    PROVE  CallInv'
  <1>1. /\ calling' = [name |-> w.name, wrapper |-> w, args |-> args, at |-> 1]
        /\ gpr' = [eax |-> Junk, ebx |-> Kept,
                   ecx |-> IF w.arity >= 1 THEN args[1] ELSE Junk,
                   edx |-> IF w.arity >= 2 THEN args[2] ELSE Junk]
        /\ callStack' = <<ReturnTo>> \o IF w.arity = 3 THEN <<args[3]>> ELSE <<>>
    BY DEF Invokes
  <1>2. callStack' = IF w.arity = 3 THEN <<ReturnTo, args[3]>> ELSE <<ReturnTo>>
    <2>1. CASE w.arity = 3
      <3>1. callStack' = <<ReturnTo>> \o <<args[3]>>
        BY <1>1, <2>1
      <3> QED
        BY <2>1, <3>1, TwoPushed
    <2>2. CASE w.arity # 3
      <3>1. callStack' = <<ReturnTo>> \o <<>>
        BY <1>1, <2>2
      <3>2. <<ReturnTo>> \in Seq({ReturnTo})
        OBVIOUS
      <3> QED
        BY <2>2, <3>1, <3>2, ConcatEmptySeq
    <2> QED
      BY <2>1, <2>2
  <1>3. GprFits'
    BY <1>1 DEF GprFits
  <1>4. WrapperAt(w, args, 1)'
    <2>1. /\ gpr'.ebx = Kept
          /\ gpr'.ecx = IF w.arity >= 1 THEN args[1] ELSE Junk
          /\ gpr'.edx = IF w.arity >= 2 THEN args[2] ELSE Junk
      BY <1>1
    <2>2. w.arity = 0 => callStack' = <<ReturnTo>>
      BY <1>2
    <2>3. w.arity = 0 /\ w.selector = <<>> => NullaryAt(w, 1)'
      BY <2>1, <2>2 DEF NullaryAt
    <2>4. w.arity = 0 /\ w.selector # <<>> => SelectorAt(w, w.selector[1], 1)'
      BY <2>1, <2>2 DEF SelectorAt
    <2>5. w.arity = 1 => UnaryAt(w, args[1], 1)'
      BY <1>2, <2>1 DEF UnaryAt
    <2>6. w.arity = 2 => BinaryAt(w, args[1], args[2], 1)'
      BY <1>2, <2>1 DEF BinaryAt
    <2>7. w.arity = 3 => TernaryAt(w, args[1], args[2], args[3], 1)'
      BY <1>2, <2>1 DEF TernaryAt
    <2> QED
      BY <2>3, <2>4, <2>5, <2>6, <2>7 DEF WrapperAt
  <1> QED
    BY <1>1, <1>3, <1>4 DEF CallInv

LEMMA CallStep == CallInv /\ [CallNext]_callVars => CallInv'
  <1> SUFFICES ASSUME CallInv, [CallNext]_callVars PROVE CallInv'
    OBVIOUS
  <1>1. CASE \E w \in Wrappers : \E args \in [1 .. w.arity -> ArgValues] : Invokes(w, args)
    BY <1>1, InvokedWrapper
  <1>2. CASE Executes
    <2>1. PICK w, args, n : w = calling.wrapper /\ args = calling.args /\ n = calling.at
      OBVIOUS
    <2>2. /\ w \in Wrappers /\ args \in [1 .. w.arity -> ArgValues]
          /\ GprFits /\ WrapperAt(w, args, n)
      BY <1>2, <2>1 DEF CallInv, Executes
    <2>3. GprFits' /\ WrapperAt(w, args, n + 1)'
      BY <1>2, <2>1, <2>2, WrapperRuns
    <2>4. calling' = [calling EXCEPT !.at = @ + 1]
      BY <1>2 DEF Executes
    <2>5. calling'.wrapper = w /\ calling'.args = args
      BY <2>1, <2>4
    <2>6. calling' = [name |-> calling.name, wrapper |-> w, args |-> args, at |-> n + 1]
      BY <2>1, <2>4 DEF CallInv
    <2> QED
      BY <2>2, <2>3, <2>5, <2>6 DEF CallInv
  <1>3. CASE ShellAnswers
    BY <1>3 DEF ShellAnswers, CallInv, GprFits, WrapperAt, NullaryAt, SelectorAt, UnaryAt, BinaryAt, TernaryAt
  <1>4. CASE Continues
    BY <1>4 DEF Continues, CallInv, GprFits, NoCall
  <1>5. CASE UNCHANGED callVars
    BY <1>5 DEF callVars, CallInv, GprFits, WrapperAt, NullaryAt, SelectorAt, UnaryAt, BinaryAt, TernaryAt
  <1> QED
    BY <1>1, <1>2, <1>3, <1>4, <1>5 DEF CallNext

\* Every call of every wrapper arrives whole and its answer comes back, with
\* whatever arguments, among any calls and answers of the shell.
THEOREM WholeCalls == CallSpec => []CallsArriveWhole
  <1>1. CallInit => CallInv
    BY DEF CallInit, CallInv, GprFits, NoCall
  <1>2. CallInv => CallsArriveWhole
    <2> SUFFICES ASSUME CallInv, Returned PROVE CallsArriveWhole
      BY DEF CallsArriveWhole
    <2>1. PICK w, a, n : w = calling.wrapper /\ a = calling.args /\ n = calling.at
      OBVIOUS
    <2>2. /\ w \in Wrappers /\ a \in [1 .. w.arity -> ArgValues]
          /\ WrapperAt(w, a, n) /\ n > Len(CodeOf(w))
      BY <2>1 DEF CallInv, Returned
    <2> DEFINE args == w.selector \o a
               passed == <<received.data, received.data2, received.data3>>
    <2> SUFFICES /\ received.id = w.id
                 /\ \A i \in 1 .. Len(args) : passed[i] = args[i]
                 /\ gpr.eax = replied /\ gpr.ebx = Kept
                 /\ callStack = <<>>
      BY <2>1 DEF CallsArriveWhole
    <2>3. CASE w.arity = 0 /\ w.selector = <<>>
      <3>1. n = 4 /\ NullaryAt(w, n)
        BY <2>2, <2>3, NullaryCode DEF WrapperAt, NullaryAt
      <3>2. a = <<>>
        BY <2>2, <2>3
      <3>3. Len(args) = 0
        BY <2>3, <3>2
      <3> QED
        BY <3>1, <3>3 DEF NullaryAt
    <2>4. CASE w.arity = 0 /\ w.selector # <<>>
      <3>1. PICK s \in Nat : w.selector = <<s>>
        BY <2>2, <2>4, WrapperKinds
      <3>2. n = 5 /\ SelectorAt(w, s, n)
        BY <2>2, <2>4, <3>1, SelectorCode DEF WrapperAt, SelectorAt
      <3>3. a = <<>>
        BY <2>2, <2>4
      <3>4. Len(args) = 1 /\ args[1] = s
        BY <3>1, <3>3
      <3> QED
        BY <3>2, <3>4 DEF SelectorAt
    <2>5. ASSUME w.arity > 0 PROVE args = a /\ Len(a) = w.arity
      <3>1. w.selector = <<>> /\ w.arity \in 1 .. 3
        BY <2>2, <2>5, WrapperKinds
      <3>2. a \in Seq(ArgValues) /\ Len(a) = w.arity
        BY <2>2, <3>1
      <3> QED
        BY <3>1, <3>2, ConcatEmptySeq
    <2> HIDE DEF args
    <2>6. CASE w.arity = 1
      <3>1. w.selector = <<>>
        BY <2>2, <2>6, WrapperKinds
      <3>2. n = 5 /\ UnaryAt(w, a[1], n)
        BY <2>2, <2>6, <3>1, UnaryCode DEF WrapperAt, UnaryAt
      <3>3. Len(args) = 1 /\ args[1] = a[1]
        BY <2>5, <2>6
      <3>4. passed[1] = a[1]
        BY <3>2 DEF UnaryAt
      <3> HIDE DEF passed
      <3>5. \A i \in 1 .. Len(args) : passed[i] = args[i]
        BY <3>3, <3>4
      <3> QED
        BY <3>2, <3>5 DEF UnaryAt
    <2>7. CASE w.arity = 2
      <3>1. w.selector = <<>>
        BY <2>2, <2>7, WrapperKinds
      <3>2. n = 6 /\ BinaryAt(w, a[1], a[2], n)
        BY <2>2, <2>7, <3>1, BinaryCode DEF WrapperAt, BinaryAt
      <3>3. Len(args) = 2 /\ args[1] = a[1] /\ args[2] = a[2]
        BY <2>5, <2>7
      <3>4. passed[1] = a[1] /\ passed[2] = a[2]
        BY <3>2 DEF BinaryAt
      <3> HIDE DEF passed
      <3>5. \A i \in 1 .. Len(args) : passed[i] = args[i]
        BY <3>3, <3>4
      <3> QED
        BY <3>2, <3>5 DEF BinaryAt
    <2>8. CASE w.arity = 3
      <3>1. w.selector = <<>>
        BY <2>2, <2>8, WrapperKinds
      <3>2. n = 9 /\ TernaryAt(w, a[1], a[2], a[3], n)
        BY <2>2, <2>8, <3>1, TernaryCode DEF WrapperAt, TernaryAt
      <3>3. Len(args) = 3 /\ args[1] = a[1] /\ args[2] = a[2] /\ args[3] = a[3]
        BY <2>5, <2>8
      <3>4. passed[1] = a[1] /\ passed[2] = a[2] /\ passed[3] = a[3]
        BY <3>2 DEF TernaryAt
      <3> HIDE DEF passed
      <3>5. \A i \in 1 .. Len(args) : passed[i] = args[i]
        BY <3>3, <3>4
      <3> QED
        BY <3>2, <3>5 DEF TernaryAt
    <2>9. w.arity = 0 \/ w.arity = 1 \/ w.arity = 2 \/ w.arity = 3
      BY <2>2, WrapperKinds
    <2> HIDE DEF passed
    <2> QED
      BY <2>3, <2>4, <2>6, <2>7, <2>8, <2>9
  <1> QED
    BY <1>1, <1>2, CallStep, PTL DEF CallSpec

-----------------------------------------------------------------------------
(***************************************************************************)
(* The heap of a program, for any sizes.  The headers lie at three places  *)
(* at most; the blocks under the first two have one holder each.           *)
(***************************************************************************)

\* Where the area behind the second block begins, which has no bytes.
LastAt == TailAt + MetaSize

HeadersFit(ms) ==
    /\ {HeadAt, TailAt} \subseteq DOMAIN ms /\ DOMAIN ms \subseteq {HeadAt, TailAt, LastAt}
    /\ ms \in [DOMAIN ms -> [size : Nat, allocated : BOOLEAN, magic : BOOLEAN]]
    /\ ms[HeadAt].size = HeadSize /\ ms[TailAt].size = 0

\* With headers ms, a pointer may hold the block b.
BlockFits(ms, b) ==
    /\ b.size \in Nat
    /\ \/ b.data = HeadAt + MetaSize /\ ms[HeadAt].allocated /\ b.size <= HeadSize
       \/ b.data = TailAt + MetaSize /\ ms[TailAt].allocated /\ b.size = 0
       \/ b.data = LastAt + MetaSize /\ LastAt \in DOMAIN ms /\ b.data + b.size <= HeapPage

\* With headers ms, the pointers may hold hs.
HoldsFit(ms, hs) ==
    /\ DOMAIN hs = Pointer /\ hs = [p \in Pointer |-> hs[p]]
    /\ \A p \in Pointer : hs[p] # NoBlock =>
          /\ BlockFits(ms, hs[p])
          /\ \A q \in Pointer \ {p} :
                hs[q] # NoBlock /\ hs[q].data = hs[p].data => hs[p].data = LastAt + MetaSize

UserHeapInv == ended \in BOOLEAN /\ HeadersFit(metas) /\ HoldsFit(metas, held_by_user)

\* The addresses in question, in their order.
LEMMA Layout ==
    ASSUME UserHeapAssumption
    PROVE  \E m \in Nat \ {0}, h, p \in Nat :
              /\ MetaSize = m /\ HeadSize = h /\ HeapPage = p /\ 3 * m + h < p
              /\ HeadAt = 0 /\ TailAt = m + h /\ LastAt = m + h + m
  BY DEF UserHeapAssumption, HeadAt, TailAt, LastAt

\* What BlockFits says of the addresses.
LiesAt(ms, b, m, h, p, n, d) ==
    /\ MetaSize = m /\ HeadSize = h /\ HeapPage = p /\ 3 * m + h < p
    /\ HeadAt = 0 /\ TailAt = m + h /\ LastAt = m + h + m
    /\ n = b.size /\ d = b.data /\ d - m \in DOMAIN ms
    /\ \/ d = m /\ ms[d - m].allocated /\ n <= h /\ ms[d - m].size = h
       \/ d = m + h + m /\ ms[d - m].allocated /\ n = 0 /\ ms[d - m].size = 0
       \/ d = m + h + m + m /\ d + n <= p

LEMMA BlockPlaces ==
    ASSUME UserHeapAssumption, NEW ms, HeadersFit(ms), NEW b, BlockFits(ms, b)
    PROVE  \E m \in Nat \ {0}, h, p, n, d \in Nat : LiesAt(ms, b, m, h, p, n, d)
  <1>1. PICK m \in Nat \ {0}, h, p \in Nat :
              /\ MetaSize = m /\ HeadSize = h /\ HeapPage = p /\ 3 * m + h < p
              /\ HeadAt = 0 /\ TailAt = m + h /\ LastAt = m + h + m
    BY Layout
  <1>2. PICK n \in Nat : n = b.size
    BY DEF BlockFits
  <1>3. /\ HeadAt \in DOMAIN ms /\ TailAt \in DOMAIN ms
        /\ ms[HeadAt].size = h /\ ms[TailAt].size = 0
    BY <1>1 DEF HeadersFit
  <1>4. CASE b.data = HeadAt + MetaSize /\ ms[HeadAt].allocated /\ b.size <= HeadSize
    <2>1. PICK d \in Nat : d = m /\ d = b.data /\ d - m = HeadAt
      BY <1>1, <1>4
    <2>2. LiesAt(ms, b, m, h, p, n, d)
      BY <1>1, <1>2, <1>3, <1>4, <2>1 DEF LiesAt
    <2> QED
      BY <2>2
  <1>5. CASE b.data = TailAt + MetaSize /\ ms[TailAt].allocated /\ b.size = 0
    <2>1. PICK d \in Nat : d = m + h + m /\ d = b.data /\ d - m = TailAt
      BY <1>1, <1>5
    <2>2. LiesAt(ms, b, m, h, p, n, d)
      BY <1>1, <1>2, <1>3, <1>5, <2>1 DEF LiesAt
    <2> QED
      BY <2>2
  <1>6. CASE b.data = LastAt + MetaSize /\ LastAt \in DOMAIN ms /\ b.data + b.size <= HeapPage
    <2>1. PICK d \in Nat : d = m + h + m + m /\ d = b.data /\ d - m = LastAt
      BY <1>1, <1>6
    <2>2. LiesAt(ms, b, m, h, p, n, d)
      BY <1>1, <1>2, <1>6, <2>1 DEF LiesAt
    <2> QED
      BY <2>2
  <1> QED
    BY <1>4, <1>5, <1>6 DEF BlockFits

LEMMA BlocksApart ==
    ASSUME NEW m \in Nat, NEW h \in Nat, NEW d \in Nat, NEW n \in Nat, NEW c \in Nat, NEW k \in Nat,
           (d = m /\ n <= h) \/ (d = m + h + m /\ n = 0) \/ d = m + h + m + m,
           (c = m /\ k <= h) \/ (c = m + h + m /\ k = 0) \/ c = m + h + m + m,
           c = d => d = m + h + m + m
    PROVE  \/ d + n <= c - m \/ c + k <= d - m
           \/ d = m + h + m + m /\ c = m + h + m + m
  OBVIOUS

LEMMA HeldApart == UserHeapAssumption /\ UserHeapInv => HeldBlocksLieApart
  <1> SUFFICES ASSUME UserHeapAssumption, UserHeapInv, NEW p \in Holding
               PROVE  /\ held_by_user[p].data + held_by_user[p].size <= HeapPage
                      /\ held_by_user[p].data # LastArea =>
                            /\ metas[HeaderOf(p)].allocated
                            /\ metas[HeaderOf(p)].size >= held_by_user[p].size
                      /\ \A q \in Holding \ {p} :
                            \/ held_by_user[p].data + held_by_user[p].size <= HeaderOf(q)
                            \/ held_by_user[q].data + held_by_user[q].size <= HeaderOf(p)
                            \/ held_by_user[p].data = LastArea /\ held_by_user[q].data = LastArea
    BY DEF HeldBlocksLieApart
  <1>0. HeadersFit(metas) /\ HoldsFit(metas, held_by_user) /\ p \in Pointer /\ held_by_user[p] # NoBlock
    BY DEF UserHeapInv, Holding
  <1>1. BlockFits(metas, held_by_user[p])
    BY <1>0 DEF HoldsFit
  <1>2a. PICK m \in Nat \ {0}, h, e, n, d \in Nat : LiesAt(metas, held_by_user[p], m, h, e, n, d)
    BY <1>0, <1>1, BlockPlaces
  <1>2. /\ MetaSize = m /\ HeadSize = h /\ HeapPage = e /\ 3 * m + h < e
        /\ HeadAt = 0 /\ TailAt = m + h /\ LastAt = m + h + m
        /\ n = held_by_user[p].size /\ d = held_by_user[p].data /\ d - m \in DOMAIN metas
        /\ \/ d = m /\ metas[d - m].allocated /\ n <= h /\ metas[d - m].size = h
           \/ d = m + h + m /\ metas[d - m].allocated /\ n = 0 /\ metas[d - m].size = 0
           \/ d = m + h + m + m /\ d + n <= e
    BY <1>2a DEF LiesAt
  <1>3. LastArea = m + h + m + m /\ HeaderOf(p) = d - m
    <2>1. BehindTail = m + h + m
      BY <1>0, <1>2 DEF BehindTail, HeadersFit
    <2> QED
      BY <1>2, <2>1 DEF LastArea, HeaderOf
  <1>4. ASSUME NEW q \in Holding \ {p}
        PROVE  \/ held_by_user[p].data + held_by_user[p].size <= HeaderOf(q)
               \/ held_by_user[q].data + held_by_user[q].size <= HeaderOf(p)
               \/ held_by_user[p].data = LastArea /\ held_by_user[q].data = LastArea
    <2>1. q \in Pointer \ {p} /\ held_by_user[q] # NoBlock
      BY DEF Holding
    <2>2. BlockFits(metas, held_by_user[q])
      BY <1>0, <2>1 DEF HoldsFit
    <2>3a. PICK m2 \in Nat \ {0}, h2, e2, k, c \in Nat : LiesAt(metas, held_by_user[q], m2, h2, e2, k, c)
      BY <1>0, <2>2, BlockPlaces
    <2>3. /\ k = held_by_user[q].size /\ c = held_by_user[q].data
          /\ \/ c = m /\ k <= h
             \/ c = m + h + m /\ k = 0
             \/ c = m + h + m + m
      BY <1>2, <2>3a DEF LiesAt
    <2>4. HeaderOf(q) = c - m
      BY <1>2, <2>3 DEF HeaderOf
    <2>5. c = d => d = m + h + m + m
      BY <1>0, <1>2, <2>1, <2>3 DEF HoldsFit
    <2>6. \/ d + n <= c - m \/ c + k <= d - m
          \/ d = m + h + m + m /\ c = m + h + m + m
      <3>1. \/ d = m /\ n <= h
            \/ d = m + h + m /\ n = 0
            \/ d = m + h + m + m
        BY <1>2
      <3> QED
        BY <3>1, <2>3, <2>5, BlocksApart
    <2> QED
      BY <1>2, <1>3, <2>3, <2>4, <2>6
  <1>5. d + n <= e
    BY <1>2
  <1> QED
    BY <1>2, <1>3, <1>4, <1>5

\* A request of this size is served at d: a block of the two is free, and no
\* other header of the two changes.
Served(ms, ns, d, size) ==
    /\ HeadersFit(ns) /\ DOMAIN ms \subseteq DOMAIN ns
    /\ BlockFits(ns, [data |-> d, size |-> size])
    /\ \A at \in {HeadAt, TailAt} :
          IF d = at + MetaSize THEN ~ms[at].allocated ELSE ns[at] = ms[at]

\* Who holds a block keeps it when others are served.
LEMMA BlockKept ==
    ASSUME UserHeapAssumption, NEW ms, NEW ns, NEW d, NEW size, Served(ms, ns, d, size),
           NEW b, BlockFits(ms, b)
    PROVE  BlockFits(ns, b) /\ (b.data = d => d = LastAt + MetaSize)
  <1>1. PICK m \in Nat \ {0}, h, p \in Nat :
              /\ MetaSize = m /\ HeadSize = h /\ HeapPage = p /\ 3 * m + h < p
              /\ HeadAt = 0 /\ TailAt = m + h /\ LastAt = m + h + m
    BY Layout
  <1>2. CASE b.data = HeadAt + MetaSize /\ ms[HeadAt].allocated /\ b.size <= HeadSize
    <2>1. d # HeadAt + MetaSize /\ ns[HeadAt] = ms[HeadAt]
      BY <1>2 DEF Served
    <2> QED
      BY <1>2, <2>1 DEF BlockFits
  <1>3. CASE b.data = TailAt + MetaSize /\ ms[TailAt].allocated /\ b.size = 0
    <2>1. d # TailAt + MetaSize /\ ns[TailAt] = ms[TailAt]
      BY <1>3 DEF Served
    <2> QED
      BY <1>3, <2>1 DEF BlockFits
  <1>4. CASE b.data = LastAt + MetaSize /\ LastAt \in DOMAIN ms /\ b.data + b.size <= HeapPage
    BY <1>4 DEF BlockFits, Served
  <1> QED
    BY <1>2, <1>3, <1>4 DEF BlockFits

\* A pointer gets the block.
LEMMA BlockTaken ==
    ASSUME UserHeapAssumption, NEW ms, NEW hs, HoldsFit(ms, hs),
           NEW ns, NEW d, NEW size, Served(ms, ns, d, size), NEW p \in Pointer
    PROVE  HoldsFit(ns, [hs EXCEPT ![p] = [data |-> d, size |-> size]])
  <1> DEFINE b == [data |-> d, size |-> size]
             new == [hs EXCEPT ![p] = b]
  <1>1. /\ DOMAIN new = Pointer /\ new = [q \in Pointer |-> new[q]]
        /\ new[p] = b /\ \A q \in Pointer \ {p} : new[q] = hs[q]
    BY DEF HoldsFit
  <1>2. BlockFits(ns, b) /\ b.data = d
    BY DEF Served
  <1>3. \A q \in Pointer : hs[q] # NoBlock =>
            BlockFits(ns, hs[q]) /\ (hs[q].data = d => d = LastAt + MetaSize)
    BY BlockKept DEF HoldsFit
  <1> HIDE DEF b, new
  <1>4. ASSUME NEW q \in Pointer, new[q] # NoBlock
        PROVE  /\ BlockFits(ns, new[q])
               /\ \A r \in Pointer \ {q} :
                     new[r] # NoBlock /\ new[r].data = new[q].data => new[q].data = LastAt + MetaSize
    <2>1. CASE q = p
      BY <1>1, <1>2, <1>3, <2>1
    <2>2. CASE q # p
      <3>1. new[q] = hs[q] /\ BlockFits(ns, hs[q])
        BY <1>1, <1>3, <1>4, <2>2
      <3>2. ASSUME NEW r \in Pointer \ {q}, new[r] # NoBlock, new[r].data = new[q].data
            PROVE  new[q].data = LastAt + MetaSize
        <4>1. CASE r = p
          BY <1>1, <1>2, <1>3, <1>4, <3>1, <3>2, <4>1
        <4>2. CASE r # p
          BY <1>1, <1>4, <3>1, <3>2, <4>2 DEF HoldsFit
        <4> QED
          BY <4>1, <4>2
      <3> QED
        BY <3>1, <3>2
    <2> QED
      BY <2>1, <2>2
  <1> QED
    BY <1>1, <1>4 DEF HoldsFit, new, b

\* A pointer gives its block up.
LEMMA BlockDropped ==
    ASSUME NEW ms, NEW hs, HoldsFit(ms, hs), NEW p \in Pointer
    PROVE  HoldsFit(ms, [hs EXCEPT ![p] = NoBlock])
  BY DEF HoldsFit

\* A header says free that no pointer holds, or the last one.
LEMMA HeaderFreed ==
    ASSUME UserHeapAssumption, NEW ms, NEW hs, HeadersFit(ms), HoldsFit(ms, hs), NEW at \in DOMAIN ms,
           at # LastAt => \A q \in Pointer : hs[q] # NoBlock => hs[q].data # at + MetaSize
    PROVE  /\ HeadersFit([ms EXCEPT ![at].allocated = FALSE])
           /\ HoldsFit([ms EXCEPT ![at].allocated = FALSE], hs)
  <1> DEFINE new == [ms EXCEPT ![at].allocated = FALSE]
  <1>1. /\ DOMAIN new = DOMAIN ms
        /\ new \in [DOMAIN ms -> [size : Nat, allocated : BOOLEAN, magic : BOOLEAN]]
        /\ \A b \in DOMAIN ms : new[b].size = ms[b].size /\ (b # at => new[b] = ms[b])
    BY DEF HeadersFit
  <1> HIDE DEF new
  <1>2. HeadersFit(new)
    BY <1>1 DEF HeadersFit
  <1>3. PICK m \in Nat \ {0}, h, p \in Nat :
              /\ MetaSize = m /\ HeadSize = h /\ HeapPage = p /\ 3 * m + h < p
              /\ HeadAt = 0 /\ TailAt = m + h /\ LastAt = m + h + m
    BY Layout
  <1>4. HeadAt \in DOMAIN ms /\ TailAt \in DOMAIN ms /\ HeadAt # LastAt /\ TailAt # LastAt
    BY <1>3 DEF HeadersFit
  <1>5. ASSUME NEW q \in Pointer, hs[q] # NoBlock PROVE BlockFits(new, hs[q])
    <2>1. BlockFits(ms, hs[q])
      BY <1>5 DEF HoldsFit
    <2>2. CASE hs[q].data = HeadAt + MetaSize /\ ms[HeadAt].allocated /\ hs[q].size <= HeadSize
      <3>1. HeadAt # at
        BY <1>4, <1>5, <2>2
      <3> QED
        BY <1>1, <1>4, <2>1, <2>2, <3>1 DEF BlockFits
    <2>3. CASE hs[q].data = TailAt + MetaSize /\ ms[TailAt].allocated /\ hs[q].size = 0
      <3>1. TailAt # at
        BY <1>4, <1>5, <2>3
      <3> QED
        BY <1>1, <1>4, <2>1, <2>3, <3>1 DEF BlockFits
    <2>4. CASE hs[q].data = LastAt + MetaSize /\ LastAt \in DOMAIN ms /\ hs[q].data + hs[q].size <= HeapPage
      BY <1>1, <2>1, <2>4 DEF BlockFits
    <2> QED
      BY <2>1, <2>2, <2>3, <2>4 DEF BlockFits
  <1>6. HoldsFit(new, hs)
    BY <1>5 DEF HoldsFit
  <1> QED
    BY <1>2, <1>6 DEF new

LEMMA SmallRemainder == ASSUME NEW p \in Nat \ {0}, NEW n \in 0 .. p - 1 PROVE n % p = n
  OBVIOUS

\* What malloc does, by the block it takes.
LEMMA MallocShape ==
    ASSUME UserHeapAssumption, UserHeapInv, NEW size \in Nat
    PROVE  /\ Malloc(size).survives \in BOOLEAN
           /\ Malloc(size).survives => Served(metas, Malloc(size).metas, Malloc(size).data, size)
           /\ ~Malloc(size).survives =>
                 HeadersFit(Malloc(size).metas) /\ HoldsFit(Malloc(size).metas, held_by_user)
  <1> DEFINE new == Malloc(size)
  <1>1. PICK m \in Nat \ {0}, h, p \in Nat :
              /\ MetaSize = m /\ HeadSize = h /\ HeapPage = p /\ 3 * m + h < p
              /\ HeadAt = 0 /\ TailAt = m + h /\ LastAt = m + h + m
    BY Layout
  <1>2. HeadersFit(metas) /\ HoldsFit(metas, held_by_user)
    BY DEF UserHeapInv
  <1>3. /\ {HeadAt, TailAt} \subseteq DOMAIN metas
        /\ \A b \in DOMAIN metas : metas[b] \in [size : Nat, allocated : BOOLEAN, magic : BOOLEAN]
        /\ metas[HeadAt].size = h /\ metas[TailAt].size = 0
    BY <1>1, <1>2 DEF HeadersFit
  <1>4. ASSUME NEW at \in {HeadAt, TailAt}, Serves(at, size)
        PROVE  Served(metas, [metas EXCEPT ![at].allocated = TRUE], at + MetaSize, size)
    <2> DEFINE ns == [metas EXCEPT ![at].allocated = TRUE]
    <2>1. ~metas[at].allocated /\ size <= metas[at].size
      BY <1>4 DEF Serves
    <2>2. /\ DOMAIN ns = DOMAIN metas
          /\ ns \in [DOMAIN metas -> [size : Nat, allocated : BOOLEAN, magic : BOOLEAN]]
          /\ \A b \in DOMAIN metas : ns[b].size = metas[b].size /\ (b # at => ns[b] = metas[b])
          /\ ns[at].allocated
      BY <1>2, <1>3 DEF HeadersFit
    <2> HIDE DEF ns
    <2>3. HeadersFit(ns)
      BY <1>2, <1>3, <2>2 DEF HeadersFit
    <2>4. BlockFits(ns, [data |-> at + MetaSize, size |-> size])
      <3>1. CASE at = HeadAt
        BY <1>1, <1>3, <2>1, <2>2, <3>1 DEF BlockFits
      <3>2. CASE at = TailAt
        <4>1. size = 0
          BY <1>3, <2>1, <3>2
        <4> QED
          BY <2>2, <3>2, <4>1 DEF BlockFits
      <3> QED
        BY <3>1, <3>2
    <2>5. ASSUME NEW b \in {HeadAt, TailAt}
          PROVE  IF at + MetaSize = b + MetaSize THEN ~metas[b].allocated ELSE ns[b] = metas[b]
      <3>1. at + MetaSize = b + MetaSize => at = b
        BY <1>1
      <3> QED
        BY <1>3, <2>1, <2>2, <3>1
    <2>6. Served(metas, ns, at + MetaSize, size)
      BY <2>2, <2>3, <2>4, <2>5 DEF Served
    <2> QED
      BY <2>6 DEF ns
  <1>5. CASE Serves(HeadAt, size)
    <2>1. new = [metas |-> [metas EXCEPT ![HeadAt].allocated = TRUE],
                 data |-> HeadAt + MetaSize, survives |-> TRUE]
      BY <1>5 DEF Malloc
    <2>2. Served(metas, [metas EXCEPT ![HeadAt].allocated = TRUE], HeadAt + MetaSize, size)
      BY <1>4, <1>5
    <2> HIDE DEF new
    <2> QED
      BY <2>1, <2>2 DEF new
  <1>6. CASE ~Serves(HeadAt, size) /\ Serves(TailAt, size)
    <2>1. new = [metas |-> [metas EXCEPT ![TailAt].allocated = TRUE],
                 data |-> TailAt + MetaSize, survives |-> TRUE]
      BY <1>6 DEF Malloc
    <2>2. Served(metas, [metas EXCEPT ![TailAt].allocated = TRUE], TailAt + MetaSize, size)
      BY <1>4, <1>6
    <2> HIDE DEF new
    <2> QED
      BY <2>1, <2>2 DEF new
  <1>7. CASE ~Serves(HeadAt, size) /\ ~Serves(TailAt, size)
    <2>1. BehindTail = LastAt /\ PageRest = p - LastAt /\ LastAt \in Nat /\ PageRest \in Nat
      <3>1. BehindTail = LastAt
        BY <1>1, <1>3 DEF BehindTail
      <3>2. LastAt \in 0 .. p - 1 /\ p \in Nat \ {0}
        BY <1>1
      <3>3. LastAt % p = LastAt
        BY <3>2, SmallRemainder
      <3> QED
        BY <1>1, <3>1, <3>2, <3>3 DEF PageRest
    <2> DEFINE fits == MetaSize + size <= PageRest
               fills == PageRest >= MetaSize + UserFiller
               e == Meta(IF fits THEN size ELSE PageRest - MetaSize, TRUE, TRUE)
               ns == With(metas, LastAt, e)
    <2>2. new = [metas |-> IF fits \/ fills THEN ns ELSE metas,
                 data |-> LastAt + MetaSize, survives |-> fits]
      BY <1>7, <2>1 DEF Malloc
    <2>3. e \in [size : Nat, allocated : BOOLEAN, magic : BOOLEAN]
      <3>1. fits \/ fills => (IF fits THEN size ELSE PageRest - MetaSize) \in Int
        BY <1>1, <2>1
      <3>2. (IF fits THEN size ELSE PageRest - MetaSize) \in Nat
        BY <1>1, <2>1
      <3> QED
        BY <3>2 DEF Meta
    <2> HIDE DEF e
    <2>4. /\ DOMAIN ns = DOMAIN metas \cup {LastAt} /\ ns = [b \in DOMAIN ns |-> ns[b]]
          /\ ns[LastAt] = e /\ \A b \in DOMAIN metas : b # LastAt => ns[b] = metas[b]
      BY DEF With
    <2> HIDE DEF ns
    <2>5. HeadAt # LastAt /\ TailAt # LastAt
      BY <1>1
    <2>6. HeadersFit(ns)
      <3>1. \A b \in DOMAIN ns : ns[b] \in [size : Nat, allocated : BOOLEAN, magic : BOOLEAN]
        BY <1>3, <2>3, <2>4
      <3>2. ns \in [DOMAIN ns -> [size : Nat, allocated : BOOLEAN, magic : BOOLEAN]]
        BY <2>4, <3>1
      <3> QED
        BY <1>2, <1>3, <2>4, <2>5, <3>2 DEF HeadersFit
    <2>7. ASSUME fits PROVE Served(metas, ns, LastAt + MetaSize, size)
      <3>1. BlockFits(ns, [data |-> LastAt + MetaSize, size |-> size])
        <4>1. (LastAt + MetaSize) + size <= HeapPage
          BY <1>1, <2>1, <2>7
        <4> QED
          BY <2>4, <4>1 DEF BlockFits
      <3>2. ASSUME NEW b \in {HeadAt, TailAt}
            PROVE  LastAt + MetaSize # b + MetaSize /\ ns[b] = metas[b]
        BY <1>1, <1>3, <2>4, <2>5
      <3> QED
        BY <2>4, <2>6, <3>1, <3>2 DEF Served
    <2>8. HoldsFit(ns, held_by_user)
      <3>1. ASSUME NEW b, BlockFits(metas, b) PROVE BlockFits(ns, b)
        BY <1>3, <2>4, <2>5, <3>1 DEF BlockFits
      <3> QED
        BY <1>2, <3>1 DEF HoldsFit
    <2> HIDE DEF fits, fills, new
    <2>9. /\ new.survives = fits /\ new.data = LastAt + MetaSize
          /\ new.metas = IF fits \/ fills THEN ns ELSE metas
      BY <2>2
    <2>10. fits \in BOOLEAN
      BY DEF fits
    <2> QED
      BY <1>2, <2>6, <2>7, <2>8, <2>9, <2>10 DEF new
  <1> HIDE DEF new
  <1> QED
    BY <1>5, <1>6, <1>7

LEMMA UserHeapStep ==
    ASSUME UserHeapAssumption, UserHeapInv, [UserHeapNext]_userHeapVars
    PROVE  UserHeapInv'
  <1>0. HeadersFit(metas) /\ HoldsFit(metas, held_by_user) /\ ended \in BOOLEAN
    BY DEF UserHeapInv
  <1>1. ASSUME NEW p \in Pointer, NEW size \in MallocSizes, UserMalloc(p, size) PROVE UserHeapInv'
    <2>1. size \in Nat
      BY DEF UserHeapAssumption
    <2> DEFINE new == Malloc(size)
    <2>2. /\ metas' = new.metas /\ ended' = ~new.survives
          /\ held_by_user' = IF new.survives
                               THEN [held_by_user EXCEPT ![p] = [data |-> new.data, size |-> size]]
                               ELSE held_by_user
      BY <1>1 DEF UserMalloc, Block
    <2>3. /\ new.survives \in BOOLEAN
          /\ new.survives => Served(metas, new.metas, new.data, size)
          /\ ~new.survives => HeadersFit(new.metas) /\ HoldsFit(new.metas, held_by_user)
      BY <2>1, MallocShape
    <2> HIDE DEF new
    <2>4. CASE new.survives
      <3>1. HeadersFit(new.metas)
        BY <2>3, <2>4 DEF Served
      <3>2. HoldsFit(new.metas, [held_by_user EXCEPT ![p] = [data |-> new.data, size |-> size]])
        BY <1>0, <2>3, <2>4, BlockTaken
      <3> QED
        BY <2>2, <2>4, <3>1, <3>2 DEF UserHeapInv
    <2>5. CASE ~new.survives
      BY <2>2, <2>3, <2>5 DEF UserHeapInv
    <2> QED
      BY <2>4, <2>5
  <1>2. ASSUME NEW p \in Holding
        PROVE  /\ p \in Pointer /\ held_by_user[p] # NoBlock
               /\ HeaderOf(p) \in DOMAIN metas /\ HeaderOf(p) + MetaSize = held_by_user[p].data
               /\ HeaderOf(p) # LastAt =>
                     /\ held_by_user[p].data # LastAt + MetaSize
                     /\ metas[HeaderOf(p)].allocated /\ HeaderOf(p) \in {HeadAt, TailAt}
    <2>1. p \in Pointer /\ held_by_user[p] # NoBlock
      BY DEF Holding
    <2>2. BlockFits(metas, held_by_user[p])
      BY <1>0, <2>1 DEF HoldsFit
    <2>3a. PICK m \in Nat \ {0}, h, e, n, d \in Nat : LiesAt(metas, held_by_user[p], m, h, e, n, d)
      BY <1>0, <2>2, BlockPlaces
    <2>3. /\ MetaSize = m /\ HeadAt = 0 /\ TailAt = m + h /\ LastAt = m + h + m
          /\ d = held_by_user[p].data /\ d - m \in DOMAIN metas
          /\ \/ d = m /\ metas[d - m].allocated
             \/ d = m + h + m /\ metas[d - m].allocated
             \/ d = m + h + m + m
      BY <2>3a DEF LiesAt
    <2>4. HeaderOf(p) = d - m
      BY <2>3 DEF HeaderOf
    <2> QED
      BY <2>1, <2>3, <2>4
  <1>3. ASSUME NEW p \in Pointer, UserFree(p) PROVE UserHeapInv'
    <2> DEFINE at == HeaderOf(p)
               hs == [held_by_user EXCEPT ![p] = NoBlock]
    <2>1. /\ at \in DOMAIN metas /\ at + MetaSize = held_by_user[p].data /\ held_by_user[p] # NoBlock
          /\ at # LastAt => held_by_user[p].data # LastAt + MetaSize
      BY <1>2, <1>3 DEF UserFree
    <2>2. \/ /\ metas' = [metas EXCEPT ![at].allocated = FALSE]
             /\ held_by_user' = hs /\ ended' = ended
          \/ ended' = TRUE /\ UNCHANGED <<metas, held_by_user>>
      BY <1>3 DEF UserFree
    <2>3. HoldsFit(metas, hs)
      BY <1>0, BlockDropped
    <2>4. at # LastAt => \A q \in Pointer : hs[q] # NoBlock => hs[q].data # at + MetaSize
      <3> SUFFICES ASSUME at # LastAt, NEW q \in Pointer, hs[q] # NoBlock
                   PROVE  hs[q].data # at + MetaSize
        OBVIOUS
      <3>1. q # p /\ hs[q] = held_by_user[q]
        BY <1>0 DEF HoldsFit
      <3> QED
        BY <1>0, <2>1, <3>1 DEF HoldsFit
    <2> HIDE DEF at, hs
    <2>5. /\ HeadersFit([metas EXCEPT ![at].allocated = FALSE])
          /\ HoldsFit([metas EXCEPT ![at].allocated = FALSE], hs)
      BY <1>0, <2>1, <2>3, <2>4, HeaderFreed
    <2> QED
      BY <1>0, <2>2, <2>5 DEF UserHeapInv
  <1>4. ASSUME NEW p \in Pointer, NEW size \in MallocSizes, UserRealloc(p, size)
        PROVE  UserHeapInv'
    <2>1. size \in Nat /\ p \in Holding
      BY <1>4 DEF UserHeapAssumption, UserRealloc
    <2> DEFINE at == HeaderOf(p)
               new == Malloc(size)
               hs == [held_by_user EXCEPT ![p] = [data |-> new.data, size |-> size]]
    <2>2. /\ at \in DOMAIN metas /\ at + MetaSize = held_by_user[p].data /\ held_by_user[p] # NoBlock
          /\ at # LastAt => held_by_user[p].data # LastAt + MetaSize
          /\ at # LastAt => metas[at].allocated /\ at \in {HeadAt, TailAt}
      BY <1>2, <2>1
    <2>3. \/ /\ new.survives
             /\ metas' = [new.metas EXCEPT ![at].allocated = FALSE]
             /\ held_by_user' = hs /\ ended' = ended
          \/ ended' = TRUE /\ UNCHANGED <<metas, held_by_user>>
      BY <1>4 DEF UserRealloc, Block
    <2>4. new.survives => Served(metas, new.metas, new.data, size)
      BY <2>1, MallocShape
    <2> HIDE DEF at, new
    <2> SUFFICES ASSUME new.survives
                 PROVE  /\ HeadersFit([new.metas EXCEPT ![at].allocated = FALSE])
                        /\ HoldsFit([new.metas EXCEPT ![at].allocated = FALSE], hs)
      BY <1>0, <2>3 DEF UserHeapInv
    <2>5. HoldsFit(new.metas, hs) /\ HeadersFit(new.metas) /\ at \in DOMAIN new.metas
      BY <1>0, <2>2, <2>4, BlockTaken DEF Served
    <2>6. at # LastAt => \A q \in Pointer : hs[q] # NoBlock => hs[q].data # at + MetaSize
      <3> SUFFICES ASSUME at # LastAt, NEW q \in Pointer, hs[q] # NoBlock, hs[q].data = at + MetaSize
                   PROVE  FALSE
        OBVIOUS
      <3>1. CASE q = p
        <4>1. hs[q] = [data |-> new.data, size |-> size]
          BY <1>0, <3>1 DEF HoldsFit
        <4>2. new.data = at + MetaSize
          BY <4>1
        <4> QED
          BY <2>2, <2>4, <4>2 DEF Served
      <3>2. CASE q # p
        <4>1. hs[q] = held_by_user[q]
          BY <1>0, <3>2 DEF HoldsFit
        <4> QED
          BY <1>0, <2>1, <2>2, <3>2, <4>1 DEF HoldsFit
      <3> QED
        BY <3>1, <3>2
    <2> HIDE DEF hs
    <2> QED
      BY <2>5, <2>6, HeaderFreed
  <1>5. CASE UNCHANGED userHeapVars
    BY <1>0, <1>5 DEF userHeapVars, UserHeapInv
  <1> QED
    BY <1>1, <1>3, <1>4, <1>5 DEF UserHeapNext

\* For a heap page, headers, requests of any size and any number of pointers:
\* what a program holds lies apart, except that all requests which the two
\* linked blocks do not serve get the same address.
THEOREM HeldApartKept == UserHeapSpec => []HeldBlocksLieApart
  <1>1. UserHeapInit => UserHeapInv
    <2> SUFFICES ASSUME UserHeapInit PROVE UserHeapInv
      OBVIOUS
    <2>1. PICK m \in Nat \ {0}, h, p \in Nat :
              /\ MetaSize = m /\ HeadSize = h /\ HeapPage = p /\ 3 * m + h < p
              /\ HeadAt = 0 /\ TailAt = m + h /\ LastAt = m + h + m
      BY Layout, UserHeapAssumption
    <2>2. HoldsFit(metas, held_by_user)
      BY DEF UserHeapInit, HoldsFit
    <2>3. HeadersFit(metas)
      <3>1. metas = [at \in {HeadAt, TailAt} |->
                        IF at = HeadAt THEN Meta(HeadSize, FALSE, TRUE) ELSE Meta(0, FALSE, FALSE)]
        BY DEF UserHeapInit
      <3>2. HeadAt # TailAt /\ HeadSize \in Nat
        BY <2>1
      <3> QED
        BY <3>1, <3>2 DEF HeadersFit, Meta
    <2> QED
      BY <2>2, <2>3 DEF UserHeapInit, UserHeapInv
  <1>2. UserHeapInv => HeldBlocksLieApart
    BY HeldApart, UserHeapAssumption
  <1>3. UserHeapInv /\ [UserHeapNext]_userHeapVars => UserHeapInv'
    BY UserHeapStep, UserHeapAssumption
  <1> QED
    BY <1>1, <1>2, <1>3, PTL DEF UserHeapSpec

-----------------------------------------------------------------------------
(***************************************************************************)
(* Strings.                                                                *)
(***************************************************************************)

\* The string s holds the text t.
Holds(s, t) ==
    /\ t \in Seq(Char)
    /\ s.storage = Append(t, Terminator) /\ s.length = Len(t) + 1
    /\ s.hash = HashStringFnv1a(t)

LEMMA CharsAre == Char \subseteq Int /\ 0 \notin Char /\ Delim \in Char /\ Terminator = 0
  BY StringsAssumption DEF Terminator

LEMMA StorageIs ==
  ASSUME NEW t \in Seq(Char), NEW s, s = Append(t, Terminator)
  PROVE  /\ s \in Seq(Int) /\ Len(s) = Len(t) + 1 /\ Len(t) \in Nat
         /\ DOMAIN s = 1 .. Len(t) + 1 /\ s[Len(t) + 1] = 0
         /\ \A i \in 1 .. Len(t) : s[i] = t[i] /\ t[i] \in Char /\ s[i] # 0
  <1>1. t \in Seq(Int)
    BY CharsAre, SeqMonotonic
  <1>2. Terminator \in Int
    BY CharsAre
  <1>3. /\ s \in Seq(Int) /\ Len(s) = Len(t) + 1
        /\ \A i \in 1 .. Len(t) : s[i] = t[i]
        /\ s[Len(t) + 1] = Terminator
    BY <1>1, <1>2, AppendProperties
  <1>4. \A i \in 1 .. Len(t) : t[i] \in Char
    BY ElementOfSeq
  <1>5. Len(t) \in Nat /\ DOMAIN s = 1 .. Len(s)
    BY <1>3, LenProperties
  <1> QED
    BY <1>3, <1>4, <1>5, CharsAre

\* The start of a storage is that of its text.
LEMMA PiecesAre ==
  ASSUME NEW t \in Seq(Char), NEW s, s = Append(t, Terminator),
         NEW a \in Nat, NEW b \in Int, a >= 1, b <= Len(t)
  PROVE  SubSeq(s, a, b) = SubSeq(t, a, b) /\ SubSeq(t, a, b) \in Seq(Char)
  <1>1. \A i \in a .. b : s[i] = t[i] /\ t[i] \in Char
    <2>1. ASSUME NEW i \in a .. b PROVE i \in 1 .. Len(t)
      <3>1. Len(t) \in Nat
        BY LenProperties
      <3> QED
        BY <3>1
    <2> QED
      BY <2>1, StorageIs
  <1>2. /\ SubSeq(s, a, b) \in Seq(Char) /\ SubSeq(t, a, b) \in Seq(Char)
        /\ Len(SubSeq(s, a, b)) = IF a <= b THEN b - a + 1 ELSE 0
        /\ Len(SubSeq(t, a, b)) = IF a <= b THEN b - a + 1 ELSE 0
        /\ \A i \in 1 .. b - a + 1 : SubSeq(s, a, b)[i] = s[a + i - 1]
        /\ \A i \in 1 .. b - a + 1 : SubSeq(t, a, b)[i] = t[a + i - 1]
    <2>1. \A i \in a .. b : s[i] \in Char
      BY <1>1
    <2>2. \A i \in a .. b : t[i] \in Char
      BY <1>1
    <2>3. /\ SubSeq(s, a, b) \in Seq(Char)
          /\ Len(SubSeq(s, a, b)) = IF a <= b THEN b - a + 1 ELSE 0
          /\ \A i \in 1 .. b - a + 1 : SubSeq(s, a, b)[i] = s[a + i - 1]
      BY <2>1, SubSeqProperties
    <2>4. /\ SubSeq(t, a, b) \in Seq(Char)
          /\ Len(SubSeq(t, a, b)) = IF a <= b THEN b - a + 1 ELSE 0
          /\ \A i \in 1 .. b - a + 1 : SubSeq(t, a, b)[i] = t[a + i - 1]
      BY <2>2, SubSeqProperties
    <2> QED
      BY <2>3, <2>4
  <1>3. ASSUME NEW i \in 1 .. Len(SubSeq(s, a, b))
        PROVE  SubSeq(s, a, b)[i] = SubSeq(t, a, b)[i]
    <2>1. i \in 1 .. b - a + 1 /\ a + i - 1 \in a .. b
      BY <1>2
    <2> QED
      BY <1>1, <1>2, <2>1
  <1> QED
    BY <1>2, <1>3, SeqEqual

LEMMA TextInIs ==
  ASSUME NEW t \in Seq(Char), NEW s, s = Append(t, Terminator)
  PROVE  TextIn(s) = t /\ SubSeq(s, 1, Len(s) - 1) = t
  <1> DEFINE Ends(i) == s[i] = Terminator /\ \A j \in 1 .. i - 1 : s[j] # Terminator
             end == CHOOSE i \in DOMAIN s : Ends(i)
             n == Len(t)
  <1>1. /\ n \in Nat /\ DOMAIN s = 1 .. n + 1 /\ s[n + 1] = Terminator /\ Len(s) = n + 1
        /\ \A i \in 1 .. n : s[i] # Terminator
    BY StorageIs, CharsAre
  <1>2. n + 1 \in DOMAIN s /\ Ends(n + 1)
    BY <1>1
  <1>3. \A i \in DOMAIN s : Ends(i) => i = n + 1
    BY <1>1
  <1>4. end = n + 1
    <2> HIDE DEF Ends
    <2> QED
      BY <1>2, <1>3
  <1>5. TextIn(s) = SubSeq(s, 1, end - 1)
    BY DEF TextIn
  <1> HIDE DEF end
  <1>6. SubSeq(s, 1, n) = t
    <2>1. SubSeq(s, 1, n) = SubSeq(t, 1, n)
      BY <1>1, PiecesAre
    <2> QED
      BY <2>1, SubSeqFull
  <1> QED
    BY <1>1, <1>4, <1>5, <1>6

LEMMA NewHolds ==
  ASSUME NEW key \in Seq(Char) PROVE Holds(NewString(key), key)
  BY DEF Holds, NewString, Length

LEMMA ConcatHolds ==
  ASSUME NEW s, NEW t, Holds(s, t), NEW src \in Seq(Char)
  PROVE  Holds(Concatenated(s, src), t \o src)
  <1>1. t \in Seq(Char) /\ s.storage = Append(t, Terminator) /\ s.length = Len(t) + 1
    BY DEF Holds
  <1>2. Len(t) \in Nat /\ Len(src) \in Nat
    BY <1>1, LenProperties
  <1>3. SubSeq(s.storage, 1, s.length - 1) = t
    <2>1. Len(s.storage) = s.length
      BY <1>1, StorageIs
    <2> QED
      BY <1>1, <2>1, TextInIs
  <1>4. /\ t \o src \in Seq(Char) /\ Len(t \o src) = Len(t) + Len(src)
    BY <1>1, ConcatProperties
  <1>5. (t \o src) \o <<Terminator>> = Append(t \o src, Terminator)
    <2>1. PICK u : u = t \o src /\ u \in Seq(Char)
      BY <1>4
    <2>2. u \in Seq(Int)
      BY <2>1, CharsAre, SeqMonotonic
    <2>3. Terminator \in Int
      BY CharsAre
    <2> QED
      BY <2>1, <2>2, <2>3, AppendIsConcat
  <1> DEFINE w == t \o src \o <<Terminator>>
  <1>6. w = Append(t \o src, Terminator)
    BY <1>5
  <1>7. Concatenated(s, src) =
          [storage |-> w, length |-> Len(src) + (Len(t) + 1), hash |-> HashStringFnv1a(TextIn(w))]
    BY <1>1, <1>3 DEF Concatenated, Length
  <1>8. TextIn(w) = t \o src
    BY <1>4, <1>6, TextInIs
  <1> HIDE DEF w
  <1> QED
    BY <1>2, <1>4, <1>6, <1>7, <1>8 DEF Holds

\* The rounds of joining m parts.
JoinRuns(w, parts, m) ==
    w = [k \in 0 .. m |-> IF k = 0 THEN <<>> ELSE Glued(parts, w[k - 1], k)]

LEMMA JoinExists ==
  ASSUME NEW parts, NEW n \in Nat PROVE \E w : JoinRuns(w, parts, n)
  <1> DEFINE S == {m \in Nat : ~ \E w : JoinRuns(w, parts, m)}
  <1> SUFFICES ASSUME S # {} PROVE FALSE
    OBVIOUS
  <1>0. S \in SUBSET Nat
    OBVIOUS
  <1>1. PICK m \in S : \A y \in S : m <= y
    BY <1>0, LeastNat
  <1>2. m \in Nat /\ ~ \E w : JoinRuns(w, parts, m)
    OBVIOUS
  <1>3. CASE m = 0
    <2>1. PICK w : w = [k \in 0 .. 0 |-> <<>>]
      OBVIOUS
    <2>2. JoinRuns(w, parts, 0)
      BY <2>1 DEF JoinRuns
    <2> QED
      BY <1>2, <1>3, <2>2
  <1>4. CASE m # 0
    <2>1. m - 1 \in Nat /\ m - 1 \notin S
      BY <1>1, <1>2, <1>4
    <2>2. PICK w : JoinRuns(w, parts, m - 1)
      BY <2>1
    <2>3. PICK v : v = [k \in 0 .. m |-> IF k = m THEN Glued(parts, w[m - 1], m) ELSE w[k]]
      OBVIOUS
    <2>4. ASSUME NEW k \in 0 .. m
          PROVE  v[k] = IF k = 0 THEN <<>> ELSE Glued(parts, v[k - 1], k)
      <3>1. k # 0 => k - 1 \in 0 .. m /\ k - 1 # m
        BY <1>2
      <3>2. k # 0 => v[k - 1] = w[k - 1]
        BY <2>3, <3>1
      <3>3. CASE k = m
        BY <1>4, <2>3, <3>2, <3>3
      <3>4. CASE k # m
        <4>1. k \in 0 .. m - 1
          BY <1>2, <3>4
        <4>2. w[k] = IF k = 0 THEN <<>> ELSE Glued(parts, w[k - 1], k)
          BY <2>2, <4>1 DEF JoinRuns
        <4> QED
          BY <2>3, <3>2, <3>4, <4>2
      <3> QED
        BY <3>3, <3>4
    <2>5. v = [k \in 0 .. m |-> v[k]]
      BY <2>3
    <2>6. JoinRuns(v, parts, m)
      BY <2>4, <2>5 DEF JoinRuns
    <2> QED
      BY <1>2, <2>6
  <1> QED
    BY <1>3, <1>4

AgreeUpTo(p, q, m, n) == m \in Nat /\ n \in Nat /\ m <= n /\ \A k \in 1 .. m : p[k] = q[k]

\* Joining depends on the parts that are joined only.
LEMMA JoinUnique ==
  ASSUME NEW p, NEW q, NEW m, NEW n, AgreeUpTo(p, q, m, n),
         NEW w, JoinRuns(w, p, m), NEW v, JoinRuns(v, q, n)
  PROVE  w[m] = v[m]
  <1>0. m \in Nat /\ n \in Nat /\ m <= n /\ \A k \in 1 .. m : p[k] = q[k]
    BY DEF AgreeUpTo
  <1> DEFINE S == {k \in Nat : k <= m /\ w[k] # v[k]}
  <1>1. S = {}
    <2> SUFFICES ASSUME S # {} PROVE FALSE
      OBVIOUS
    <2>0. S \in SUBSET Nat
      OBVIOUS
    <2>1. PICK k \in S : \A y \in S : k <= y
      BY <2>0, LeastNat
    <2>2. k \in Nat /\ k <= m /\ w[k] # v[k] /\ k \in 0 .. m /\ k \in 0 .. n
      BY <1>0
    <2>3. /\ w[k] = IF k = 0 THEN <<>> ELSE Glued(p, w[k - 1], k)
          /\ v[k] = IF k = 0 THEN <<>> ELSE Glued(q, v[k - 1], k)
      BY <2>2 DEF JoinRuns
    <2>4. k # 0
      BY <2>2, <2>3
    <2>5. k - 1 \in Nat /\ k - 1 \notin S /\ k \in 1 .. m /\ k - 1 <= m
      BY <1>0, <2>1, <2>2, <2>4
    <2>6. w[k - 1] = v[k - 1]
      BY <2>5
    <2>7. p[k] = q[k] /\ (k = 1 => p[1] = q[1])
      BY <1>0, <2>5
    <2>8. Glued(p, w[k - 1], k) = Glued(q, v[k - 1], k)
      BY <2>6, <2>7 DEF Glued
    <2> QED
      BY <2>2, <2>3, <2>4, <2>8
  <1>2. m \in Nat /\ m <= m /\ m \notin S
    BY <1>0, <1>1
  <1> QED
    BY <1>2

LEMMA JoinedIs ==
  ASSUME NEW parts, Len(parts) \in Nat, NEW v, JoinRuns(v, parts, Len(parts))
  PROVE  Joined(parts) = v[Len(parts)]
  <1> DEFINE w == CHOOSE w : w = [k \in 0 .. Len(parts) |->
                                    IF k = 0 THEN <<>> ELSE Glued(parts, w[k - 1], k)]
  <1>1. Joined(parts) = w[Len(parts)]
    BY DEF Joined
  <1>2. JoinRuns(w, parts, Len(parts))
    BY DEF JoinRuns
  <1> HIDE DEF w
  <1>3. AgreeUpTo(parts, parts, Len(parts), Len(parts))
    BY DEF AgreeUpTo
  <1> QED
    BY <1>1, <1>2, <1>3, JoinUnique

LEMMA JoinedAppend ==
  ASSUME NEW parts \in Seq(Seq(Char)), NEW p \in Seq(Char)
  PROVE  Joined(Append(parts, p)) = IF parts = <<>> THEN p ELSE Joined(parts) \o <<Delim>> \o p
  <1>1. PICK q : /\ q = Append(parts, p) /\ Len(q) = Len(parts) + 1 /\ q[Len(parts) + 1] = p
                 /\ \A k \in 1 .. Len(parts) : q[k] = parts[k]
    <2>1. PICK S : S = Seq(Char)
      OBVIOUS
    <2>2. parts \in Seq(S) /\ p \in S
      BY <2>1
    <2>3. /\ Len(Append(parts, p)) = Len(parts) + 1
          /\ Append(parts, p)[Len(parts) + 1] = p
          /\ \A k \in 1 .. Len(parts) : Append(parts, p)[k] = parts[k]
      BY <2>2, AppendProperties
    <2> QED
      BY <2>3
  <1>2. PICK m : m = Len(parts) /\ m \in Nat
    BY LenProperties
  <1>3. PICK w : JoinRuns(w, parts, m)
    BY <1>2, JoinExists
  <1>e. PICK e : e = m + 1 /\ e \in Nat
    BY <1>2
  <1>4. PICK v : JoinRuns(v, q, e)
    BY <1>e, JoinExists
  <1>5. w[m] = v[m]
    <2>1. AgreeUpTo(parts, q, m, e)
      BY <1>1, <1>2, <1>e DEF AgreeUpTo
    <2> QED
      BY <1>3, <1>4, <2>1, JoinUnique
  <1>6. Joined(parts) = w[m]
    BY <1>2, <1>3, JoinedIs
  <1>7. Joined(q) = v[m + 1]
    <2>1. Len(q) = e
      BY <1>1, <1>2, <1>e
    <2> QED
      BY <1>4, <1>e, <2>1, JoinedIs
  <1>8. v[m + 1] = Glued(q, v[m], m + 1)
    <2>1. m + 1 \in 0 .. m + 1 /\ m + 1 # 0 /\ (m + 1) - 1 = m
      BY <1>2
    <2> QED
      BY <1>4, <1>e, <2>1 DEF JoinRuns
  <1>9. q[m + 1] = p
    BY <1>1, <1>2
  <1>10. CASE parts = <<>>
    <2>1. m = 0
      BY <1>2, <1>10
    <2> QED
      BY <1>1, <1>7, <1>8, <1>9, <1>10, <2>1 DEF Glued
  <1>11. CASE parts # <<>>
    <2>1. m # 0
      BY <1>2, <1>11
    <2>2. m + 1 # 1
      BY <1>2, <2>1
    <2>3. Glued(q, v[m], m + 1) = v[m] \o <<Delim>> \o p
      BY <1>9, <2>2 DEF Glued
    <2> QED
      BY <1>1, <1>5, <1>6, <1>7, <1>8, <1>11, <2>3
  <1> QED
    BY <1>10, <1>11

\* What the parts cut off the first i characters of a text have in common.
Splits(c, t, i) ==
    /\ c.parts \in Seq(Seq(Char)) /\ c.prev \in 0 .. i
    /\ c.parts = <<>> <=> c.prev = 0
    /\ \A k \in DOMAIN c.parts : \A j \in DOMAIN c.parts[k] : c.parts[k][j] # Delim
    /\ \A j \in c.prev + 1 .. i : j <= Len(t) /\ t[j] # Delim
    /\ c.prev # 0 => Joined(c.parts) = SubSeq(t, 1, c.prev - 1)
    /\ c.prev # 0 /\ c.prev <= Len(t) => t[c.prev] = Delim

LEMMA CutSplits ==
  ASSUME NEW s, NEW t, Holds(s, t), NEW i \in Nat, i <= Len(t), NEW c, Splits(c, t, i)
  PROVE  Splits(Cut(s, Delim, c, i + 1), t, i + 1)
  <1>1. t \in Seq(Char) /\ s.storage = Append(t, Terminator) /\ Len(t) \in Nat
    BY LenProperties DEF Holds
  <1>2. PICK n : n = Len(t) /\ n \in Nat /\ i <= n
    BY <1>1
  <1>3. PICK ps, a : /\ ps = c.parts /\ a = c.prev /\ ps \in Seq(Seq(Char)) /\ a \in 0 .. i
                     /\ ps = <<>> <=> a = 0
                     /\ \A k \in DOMAIN ps : \A j \in DOMAIN ps[k] : ps[k][j] # Delim
                     /\ \A j \in a + 1 .. i : j <= n /\ t[j] # Delim
                     /\ a # 0 => Joined(ps) = SubSeq(t, 1, a - 1)
                     /\ a # 0 /\ a <= n => t[a] = Delim
    BY <1>2 DEF Splits
  <1>4. \A j \in 1 .. n : t[j] \in Char /\ s.storage[j] = t[j] /\ t[j] # Terminator
    BY <1>1, <1>2, StorageIs, CharsAre
  <1>5. s.storage[n + 1] = Terminator
    BY <1>1, <1>2, StorageIs, CharsAre
  <1>6. CASE s.storage[i + 1] \notin {Delim, Terminator}
    <2>1. Cut(s, Delim, c, i + 1) = c
      BY <1>6 DEF Cut
    <2>2. i + 1 <= n
      BY <1>2, <1>5, <1>6
    <2>3. t[i + 1] # Delim
      BY <1>2, <1>4, <1>6, <2>2
    <2>4. \A j \in a + 1 .. i + 1 : j <= n /\ t[j] # Delim
      BY <1>2, <1>3, <2>2, <2>3
    <2> QED
      BY <1>2, <1>3, <2>1, <2>4 DEF Splits
  <1>7. CASE s.storage[i + 1] \in {Delim, Terminator}
    <2>1. PICK p : /\ p = SubSeq(s.storage, a + 1, (i + 1) - 1)
                   /\ p = SubSeq(t, a + 1, i) /\ p \in Seq(Char)
      <3>1. PICK b : b = a + 1 /\ (i + 1) - 1 = i /\ b \in Nat /\ i \in Int /\ b >= 1 /\ i <= Len(t)
        BY <1>2, <1>3
      <3>2. SubSeq(s.storage, b, i) = SubSeq(t, b, i) /\ SubSeq(t, b, i) \in Seq(Char)
        BY <1>1, <3>1, PiecesAre
      <3> QED
        BY <3>1, <3>2
    <2>2. PICK d : d = Cut(s, Delim, c, i + 1)
      OBVIOUS
    <2>3. d.parts = Append(ps, p) /\ d.prev = i + 1
      BY <1>3, <1>7, <2>1, <2>2 DEF Cut
    <2>4. /\ d.parts \in Seq(Seq(Char)) /\ d.parts # <<>> /\ Len(d.parts) = Len(ps) + 1
          /\ d.parts[Len(ps) + 1] = p /\ \A k \in 1 .. Len(ps) : d.parts[k] = ps[k]
      <3>1. PICK S : S = Seq(Char)
        OBVIOUS
      <3>2. ps \in Seq(S) /\ p \in S
        BY <1>3, <2>1, <3>1
      <3>3. /\ Append(ps, p) \in Seq(S) /\ Append(ps, p) # <<>>
            /\ Len(Append(ps, p)) = Len(ps) + 1 /\ Append(ps, p)[Len(ps) + 1] = p
            /\ \A k \in 1 .. Len(ps) : Append(ps, p)[k] = ps[k]
        BY <3>2, AppendProperties
      <3> QED
        BY <2>3, <3>1, <3>3
    <2>5. /\ Len(ps) \in Nat /\ DOMAIN ps = 1 .. Len(ps) /\ DOMAIN d.parts = 1 .. Len(ps) + 1
      BY <1>3, <2>4, LenProperties
    <2>6. \A j \in DOMAIN p : p[j] # Delim
      <3>1. ASSUME NEW j \in DOMAIN p PROVE p[j] # Delim
        <4>1. \A k \in a + 1 .. i : t[k] \in Char
          BY <1>2, <1>3, <1>4
        <4>2. /\ Len(p) = IF a + 1 <= i THEN i - (a + 1) + 1 ELSE 0
              /\ \A k \in 1 .. i - (a + 1) + 1 : p[k] = t[a + 1 + k - 1]
          <5>1. PICK b : b = a + 1 /\ b \in Int /\ i \in Int
            BY <1>3
          <5>2. \A k \in b .. i : t[k] \in Char
            BY <4>1, <5>1
          <5>3. /\ Len(SubSeq(t, b, i)) = IF b <= i THEN i - b + 1 ELSE 0
                /\ \A k \in 1 .. i - b + 1 : SubSeq(t, b, i)[k] = t[b + k - 1]
            BY <5>1, <5>2, SubSeqProperties
          <5> QED
            BY <2>1, <5>1, <5>3
        <4>3. DOMAIN p = 1 .. Len(p)
          BY <2>1, LenProperties
        <4>4. j \in 1 .. i - (a + 1) + 1 /\ a + 1 + j - 1 \in a + 1 .. i
          <5>1. PICK l : l = Len(p) /\ l = IF a + 1 <= i THEN i - (a + 1) + 1 ELSE 0
            BY <4>2
          <5>2. j \in 1 .. l
            BY <4>3, <5>1
          <5>3. a \in Int /\ i \in Int
            BY <1>3
          <5> QED
            BY <5>1, <5>2, <5>3
        <4>5. p[j] = t[a + 1 + j - 1]
          BY <4>2, <4>4
        <4> QED
          BY <1>3, <4>4, <4>5
      <3> QED
        BY <3>1
    <2>7. ASSUME NEW k \in DOMAIN d.parts, NEW j \in DOMAIN d.parts[k]
          PROVE  d.parts[k][j] # Delim
      <3>1. CASE k = Len(ps) + 1
        BY <2>4, <2>6, <2>7, <3>1
      <3>2. CASE k # Len(ps) + 1
        <4>1. k \in 1 .. Len(ps)
          BY <2>5, <3>2
        <4> QED
          BY <1>3, <2>4, <2>5, <2>7, <4>1
      <3> QED
        BY <3>1, <3>2
    <2>8. Joined(d.parts) = SubSeq(t, 1, i)
      <3>1. Joined(d.parts) = IF ps = <<>> THEN p ELSE Joined(ps) \o <<Delim>> \o p
        BY <1>3, <2>1, <2>3, JoinedAppend
      <3>2. CASE a = 0
        <4>1. a + 1 = 1
          BY <3>2
        <4> QED
          BY <1>3, <2>1, <3>1, <3>2, <4>1
      <3>3. CASE a # 0
        <4>1. a \in 1 .. n /\ t[a] = Delim /\ a \in Nat /\ 1 \in Nat
          BY <1>2, <1>3, <3>3
        <4>2. PICK u : u = SubSeq(t, 1, a) /\ u = SubSeq(t, 1, a - 1) \o <<t[a]>>
          <5>1. 1 \in 1 .. Len(t) /\ a \in 1 .. Len(t)
            BY <1>2, <4>1
          <5> QED
            BY <1>1, <5>1, SubSeqRecursiveSecond
        <4>3. u \o p = SubSeq(t, 1, i)
          <5>1. 1 \in 1 .. Len(t) + 1 /\ a \in 1 - 1 .. Len(t) /\ i \in a .. Len(t)
            BY <1>2, <1>3, <4>1
          <5> QED
            BY <1>1, <2>1, <4>2, <5>1, ConcatAdjacentSubSeq
        <4> QED
          BY <1>3, <3>1, <3>3, <4>1, <4>2, <4>3
      <3> QED
        BY <3>2, <3>3
    <2>9. i + 1 <= n => t[i + 1] = Delim
      BY <1>2, <1>4, <1>7
    <2>10. /\ d.prev \in 0 .. i + 1 /\ d.prev # 0 /\ d.prev - 1 = i
           /\ \A j \in d.prev + 1 .. i + 1 : j <= Len(t) /\ t[j] # Delim
      BY <2>3
    <2>11. Splits(d, t, i + 1)
      BY <1>2, <2>3, <2>4, <2>7, <2>8, <2>9, <2>10 DEF Splits
    <2> QED
      BY <2>2, <2>11
  <1> QED
    BY <1>6, <1>7

\* The rounds of split_by.
SplitRuns(u, s, n) ==
    u = [i \in 0 .. n |->
            IF i = 0 THEN [parts |-> <<>>, prev |-> 0] ELSE Cut(s, Delim, u[i - 1], i)]

LEMMA SplitExists ==
  ASSUME NEW s, NEW n \in Nat PROVE \E u : SplitRuns(u, s, n)
  <1> DEFINE S == {m \in Nat : ~ \E u : SplitRuns(u, s, m)}
  <1> SUFFICES ASSUME S # {} PROVE FALSE
    OBVIOUS
  <1>0. S \in SUBSET Nat
    OBVIOUS
  <1>1. PICK m \in S : \A y \in S : m <= y
    BY <1>0, LeastNat
  <1>2. m \in Nat /\ ~ \E u : SplitRuns(u, s, m)
    OBVIOUS
  <1>3. CASE m = 0
    <2>1. PICK u : u = [i \in 0 .. 0 |-> [parts |-> <<>>, prev |-> 0]]
      OBVIOUS
    <2>2. SplitRuns(u, s, 0)
      BY <2>1 DEF SplitRuns
    <2> QED
      BY <1>2, <1>3, <2>2
  <1>4. CASE m # 0
    <2>1. m - 1 \in Nat /\ m - 1 \notin S
      BY <1>1, <1>2, <1>4
    <2>2. PICK u : SplitRuns(u, s, m - 1)
      BY <2>1
    <2>3. PICK v : v = [i \in 0 .. m |-> IF i = m THEN Cut(s, Delim, u[m - 1], m) ELSE u[i]]
      OBVIOUS
    <2>4. ASSUME NEW i \in 0 .. m
          PROVE  v[i] = IF i = 0 THEN [parts |-> <<>>, prev |-> 0] ELSE Cut(s, Delim, v[i - 1], i)
      <3>1. i # 0 => i - 1 \in 0 .. m /\ i - 1 # m
        BY <1>2
      <3>2. i # 0 => v[i - 1] = u[i - 1]
        BY <2>3, <3>1
      <3>3. CASE i = m
        BY <1>4, <2>3, <3>2, <3>3
      <3>4. CASE i # m
        <4>1. i \in 0 .. m - 1
          BY <1>2, <3>4
        <4>2. u[i] = IF i = 0 THEN [parts |-> <<>>, prev |-> 0] ELSE Cut(s, Delim, u[i - 1], i)
          BY <2>2, <4>1 DEF SplitRuns
        <4> QED
          BY <2>3, <3>2, <3>4, <4>2
      <3> QED
        BY <3>3, <3>4
    <2>5. v = [i \in 0 .. m |-> v[i]]
      BY <2>3
    <2>6. SplitRuns(v, s, m)
      BY <2>4, <2>5 DEF SplitRuns
    <2> QED
      BY <1>2, <2>6
  <1> QED
    BY <1>3, <1>4

LEMMA RoundsSplit ==
  ASSUME NEW s, NEW t, Holds(s, t), NEW u, SplitRuns(u, s, s.length)
  PROVE  Splits(u[s.length], t, s.length)
  <1>1. t \in Seq(Char) /\ Len(t) \in Nat /\ s.length = Len(t) + 1
    BY LenProperties DEF Holds
  <1>2. PICK n : n = Len(t) /\ n \in Nat /\ s.length = n + 1
    BY <1>1
  <1> DEFINE S == {i \in Nat : i <= n + 1 /\ ~Splits(u[i], t, i)}
  <1>3. S = {}
    <2> SUFFICES ASSUME S # {} PROVE FALSE
      OBVIOUS
    <2>0. S \in SUBSET Nat
      OBVIOUS
    <2>1. PICK i \in S : \A y \in S : i <= y
      BY <2>0, LeastNat
    <2>2. i \in Nat /\ i <= n + 1 /\ ~Splits(u[i], t, i) /\ i \in 0 .. n + 1
      BY <1>2
    <2>3. u[i] = IF i = 0 THEN [parts |-> <<>>, prev |-> 0] ELSE Cut(s, Delim, u[i - 1], i)
      BY <1>2, <2>2 DEF SplitRuns
    <2>4. CASE i = 0
      <3>1. u[i] = [parts |-> <<>>, prev |-> 0]
        BY <2>3, <2>4
      <3>2. u[i].parts = <<>> /\ u[i].prev = 0
        BY <3>1
      <3>3. <<>> \in Seq(Seq(Char)) /\ DOMAIN <<>> = {}
        BY EmptySeq
      <3>4. \A j \in u[i].prev + 1 .. i : FALSE
        BY <2>4, <3>2
      <3>5. Splits(u[i], t, i)
        BY <2>4, <3>2, <3>3, <3>4 DEF Splits
      <3> QED
        BY <2>2, <3>5
    <2>5. CASE i # 0
      <3>1. PICK k : k = i - 1 /\ k \in Nat /\ k <= n /\ k < i /\ k \notin S /\ i = k + 1
        BY <1>2, <2>1, <2>2, <2>5
      <3>2. Splits(u[k], t, k)
        BY <1>2, <3>1
      <3>3. Splits(Cut(s, Delim, u[k], k + 1), t, k + 1)
        BY <1>2, <3>1, <3>2, CutSplits
      <3> QED
        BY <2>2, <2>3, <2>5, <3>1, <3>3
    <2> QED
      BY <2>4, <2>5
  <1>4. n + 1 \in Nat /\ n + 1 <= n + 1 /\ n + 1 \notin S
    BY <1>2, <1>3
  <1> QED
    BY <1>2, <1>4

LEMMA SplitKeeps ==
  ASSUME NEW s, NEW t, Holds(s, t)
  PROVE  /\ Joined(SplitBy(s, Delim)) = t
         /\ \A k \in DOMAIN SplitBy(s, Delim) :
                \A i \in DOMAIN SplitBy(s, Delim)[k] : SplitBy(s, Delim)[k][i] # Delim
  <1> DEFINE u == CHOOSE u : u = [i \in 0 .. s.length |->
                    IF i = 0 THEN [parts |-> <<>>, prev |-> 0] ELSE Cut(s, Delim, u[i - 1], i)]
  <1>1. SplitBy(s, Delim) = u[s.length].parts
    BY DEF SplitBy
  <1>2. t \in Seq(Char) /\ Len(t) \in Nat /\ s.length = Len(t) + 1 /\ s.length \in Nat
        /\ s.storage = Append(t, Terminator)
    BY LenProperties DEF Holds
  <1>3. SplitRuns(u, s, s.length)
    BY <1>2, SplitExists DEF SplitRuns
  <1> HIDE DEF u
  <1>4. Splits(u[s.length], t, s.length)
    BY <1>3, RoundsSplit
  <1>5. PICK m, c : m = s.length /\ c = u[s.length] /\ m = Len(t) + 1
    BY <1>2
  <1>6. /\ Splits(c, t, m) /\ SplitBy(s, Delim) = c.parts
    BY <1>1, <1>4, <1>5
  <1>7. c.prev = m
    <2>1. c.prev \in 0 .. m /\ \A j \in c.prev + 1 .. m : j <= Len(t)
      BY <1>6 DEF Splits
    <2> QED
      BY <1>2, <1>5, <2>1
  <1>8. Joined(c.parts) = SubSeq(t, 1, Len(t))
    <2>1. c.prev # 0 /\ c.prev - 1 = Len(t)
      BY <1>2, <1>5, <1>7
    <2> QED
      BY <1>6, <2>1 DEF Splits
  <1>9. Joined(c.parts) = t
    BY <1>2, <1>8, SubSeqFull
  <1> QED
    BY <1>6, <1>9 DEF Splits

StrInv == \E t : Holds(string, t)

LEMMA StringHolds ==
  ASSUME StrInv
  PROVE  /\ string.length = Len(string.storage)
         /\ TextIn(string.storage) = SubSeq(string.storage, 1, string.length - 1)
         /\ string.hash = HashStringFnv1a(TextIn(string.storage))
         /\ Append(TextIn(string.storage), Terminator) = string.storage
         /\ Holds(string, TextIn(string.storage))
  <1>1. PICK t : Holds(string, t)
    BY DEF StrInv
  <1>2. /\ t \in Seq(Char) /\ string.storage = Append(t, Terminator) /\ string.length = Len(t) + 1
        /\ string.hash = HashStringFnv1a(t)
    BY <1>1 DEF Holds
  <1>3. TextIn(string.storage) = t /\ SubSeq(string.storage, 1, Len(string.storage) - 1) = t
    BY <1>2, TextInIs
  <1>4. Len(string.storage) = Len(t) + 1
    BY <1>2, StorageIs
  <1> QED
    BY <1>1, <1>2, <1>3, <1>4

LEMMA TextsAre == Texts \subseteq Seq(Char)
  <1>1. ASSUME NEW n \in 0 .. 2, NEW t \in [1 .. n -> Char] PROVE t \in Seq(Char)
    <2>1. n \in Nat
      OBVIOUS
    <2> QED
      BY <2>1, SeqDef
  <1> QED
    BY <1>1 DEF Texts

\* What the last answer has to do with the string.
Copied == asked[1] = "copy" => Append(strReply, Terminator) = string.storage

LEMMA StrStep ==
  ASSUME StrInv, Copied, SplitsIntoParts, [StrNext]_strVars
  PROVE  StrInv' /\ Copied' /\ SplitsIntoParts'
  <1>1. CASE UNCHANGED strVars
    BY <1>1 DEF strVars, StrInv, Copied, SplitsIntoParts, Holds
  <1>2. ASSUME NEW key \in Texts, StrNew(key) PROVE StrInv' /\ Copied' /\ SplitsIntoParts'
    <2>1. Holds(string', key)
      BY <1>2, TextsAre, NewHolds DEF StrNew
    <2>2. StrInv'
      BY <2>1 DEF StrInv, Holds
    <2>3. asked'[1] = "none"
      BY <1>2 DEF StrNew
    <2> QED
      BY <2>2, <2>3 DEF Copied, SplitsIntoParts
  <1>3. ASSUME NEW key \in Texts, StrConcat(key) PROVE StrInv' /\ Copied' /\ SplitsIntoParts'
    <2>1. PICK t : Holds(string', t)
      <3>1. PICK t : Holds(string, t)
        BY DEF StrInv
      <3>2. key \in Seq(Char)
        BY TextsAre
      <3>3. Holds(Concatenated(string, key), t \o key)
        BY <3>1, <3>2, ConcatHolds
      <3> QED
        BY <1>3, <3>3 DEF StrConcat
    <2>2. StrInv'
      BY <2>1 DEF StrInv, Holds
    <2>3. asked'[1] = "none"
      BY <1>3 DEF StrConcat
    <2> QED
      BY <2>2, <2>3 DEF Copied, SplitsIntoParts
  <1>4. ASSUME string' = string, asked'[1] \notin {"split", "copy"}
        PROVE  StrInv' /\ Copied' /\ SplitsIntoParts'
    BY <1>4 DEF StrInv, Copied, SplitsIntoParts, Holds
  <1>5. ASSUME NEW key \in Texts,
               StrStartsWith(key) \/ StrEquals(key) \/ StrPlus(key)
               \/ StrJoinSome(key, <<>>) \/ StrJoinSome(<<Delim>>, key)
        PROVE  StrInv' /\ Copied' /\ SplitsIntoParts'
    <2>1. /\ string' = string
          /\ \/ asked' = <<"starts", key>> \/ asked' = <<"equals", key>>
             \/ asked' = <<"plus", key>> \/ asked' = <<"join", key, <<>>>>
             \/ asked' = <<"join", <<Delim>>, key>>
      BY <1>5 DEF StrStartsWith, StrEquals, StrPlus, StrJoinSome, Answer
    <2>2. asked'[1] \notin {"split", "copy"}
      BY <2>1
    <2> QED
      BY <1>4, <2>1, <2>2
  <1>6. ASSUME NEW i, StrCharAt(i) PROVE StrInv' /\ Copied' /\ SplitsIntoParts'
    <2>1. string' = string /\ asked' = <<"at", i>>
      BY <1>6 DEF StrCharAt, Answer
    <2>2. asked'[1] \notin {"split", "copy"}
      BY <2>1
    <2> QED
      BY <1>4, <2>1, <2>2
  <1>7. CASE StrSplitBy(Delim)
    <2>1. string' = string /\ asked' = <<"split", Delim>> /\ strReply' = SplitBy(string, Delim)
      BY <1>7 DEF StrSplitBy, Answer
    <2>2. asked'[1] = "split"
      BY <2>1
    <2>3. StrInv'
      BY <2>1 DEF StrInv, Holds
    <2>4. SplitsIntoParts'
      <3>1. Holds(string, TextIn(string.storage))
        BY StringHolds
      <3> QED
        BY <2>1, <3>1, SplitKeeps DEF SplitsIntoParts
    <2> QED
      BY <2>2, <2>3, <2>4 DEF Copied
  <1>8. CASE StrCharCopy
    <2>1. string' = string /\ asked' = <<"copy">> /\ strReply' = TextIn(string.storage)
      BY <1>8 DEF StrCharCopy, Answer
    <2>2. asked'[1] = "copy"
      BY <2>1
    <2>3. StrInv'
      BY <2>1 DEF StrInv, Holds
    <2>4. Copied'
      BY <2>1, StringHolds DEF Copied
    <2> QED
      BY <2>2, <2>3, <2>4 DEF SplitsIntoParts
  <1> QED
    BY <1>1, <1>2, <1>3, <1>5, <1>6, <1>7, <1>8 DEF StrNext

\* TextsAreKept for any characters, hash and lengths: after any operations the
\* storage, the length and the hash of a string are those of one text, a copy is
\* the whole text, and the parts it is split into make it up again.
THEOREM TextsKept == StrSpec => []TextsAreKept
  <1>1. StrInit => StrInv /\ Copied /\ SplitsIntoParts
    <2> SUFFICES ASSUME StrInit PROVE StrInv /\ Copied /\ SplitsIntoParts
      OBVIOUS
    <2>1. Holds(string, <<>>)
      <3>1. PICK e : e = <<>> /\ e \in Seq(Char)
        BY EmptySeq
      <3> QED
        BY <3>1, NewHolds DEF StrInit
    <2>2. asked[1] = "none"
      BY DEF StrInit
    <2> QED
      BY <2>1, <2>2 DEF StrInv, Copied, SplitsIntoParts
  <1>2. StrInv /\ Copied /\ SplitsIntoParts /\ [StrNext]_strVars
            => (StrInv /\ Copied /\ SplitsIntoParts)'
    BY StrStep
  <1>3. StrInv /\ Copied /\ SplitsIntoParts => TextsAreKept
    BY StringHolds DEF Copied, TextsAreKept, StringsHoldTheirText
  <1> QED
    BY <1>1, <1>2, <1>3, PTL DEF StrSpec

-----------------------------------------------------------------------------
(***************************************************************************)
(* Numbers and texts.  A loop is a function of its rounds.                 *)
(***************************************************************************)

\* The values w that step F gives in n rounds.
Rounds(w, b, F, n) ==
    w = [k \in 0 .. n |-> IF k = 0 THEN b ELSE F[<<w[k - 1], k>>]]

\* b is a value and F a step that gives a value in each of n rounds.
Steps(X, b, F, n) == b \in X /\ n \in Nat /\ F \in [X \X (1 .. n) -> X]

LEMMA RoundsExist ==
  ASSUME NEW X, NEW b, NEW n, NEW F, Steps(X, b, F, n)
  PROVE  \E w \in [0 .. n -> X] : Rounds(w, b, F, n)
  <1>0. b \in X /\ n \in Nat /\ F \in [X \X (1 .. n) -> X]
    BY DEF Steps
  <1> DEFINE S == {m \in Nat : m <= n /\ ~ \E w \in [0 .. m -> X] : Rounds(w, b, F, m)}
  <1>1. S = {}
    <2> SUFFICES ASSUME S # {} PROVE FALSE
      OBVIOUS
    <2>0. S \in SUBSET Nat
      OBVIOUS
    <2>1. PICK m \in S : \A y \in S : m <= y
      BY <2>0, LeastNat
    <2>2. m \in Nat /\ m <= n /\ ~ \E w \in [0 .. m -> X] : Rounds(w, b, F, m)
      OBVIOUS
    <2>3. CASE m = 0
      <3>1. PICK w : w = [k \in 0 .. 0 |-> b]
        OBVIOUS
      <3>2. Rounds(w, b, F, 0) /\ w \in [0 .. 0 -> X]
        BY <1>0, <3>1 DEF Rounds
      <3> QED
        BY <2>2, <2>3, <3>2
    <2>4. CASE m # 0
      <3>1. m - 1 \in Nat /\ m - 1 <= n /\ m - 1 \notin S
        BY <1>0, <2>1, <2>2, <2>4
      <3>2. PICK u \in [0 .. m - 1 -> X] : Rounds(u, b, F, m - 1)
        BY <3>1
      <3>3. PICK v : v = [k \in 0 .. m |-> IF k = m THEN F[<<u[m - 1], m>>] ELSE u[k]]
        OBVIOUS
      <3>4. F[<<u[m - 1], m>>] \in X
        <4>1. u[m - 1] \in X /\ m \in 1 .. n
          BY <1>0, <2>2, <2>4, <3>1
        <4> QED
          BY <1>0, <4>1
      <3>5. ASSUME NEW k \in 0 .. m
            PROVE  v[k] \in X /\ v[k] = IF k = 0 THEN b ELSE F[<<v[k - 1], k>>]
        <4>1. k # 0 => k - 1 \in 0 .. m /\ k - 1 # m
          BY <2>2
        <4>2. k # 0 => v[k - 1] = u[k - 1]
          BY <3>3, <4>1
        <4>3. CASE k = m
          BY <2>4, <3>3, <3>4, <4>2, <4>3
        <4>4. CASE k # m
          <5>1. k \in 0 .. m - 1
            BY <2>2, <4>4
          <5>2. u[k] = IF k = 0 THEN b ELSE F[<<u[k - 1], k>>]
            BY <3>2, <5>1 DEF Rounds
          <5> QED
            BY <3>2, <3>3, <4>2, <4>4, <5>1, <5>2
        <4> QED
          BY <4>3, <4>4
      <3>6. v = [k \in 0 .. m |-> v[k]]
        BY <3>3
      <3>7. Rounds(v, b, F, m) /\ v \in [0 .. m -> X]
        BY <3>5, <3>6 DEF Rounds
      <3> QED
        BY <2>2, <3>7
    <2> QED
      BY <2>3, <2>4
  <1>2. n <= n /\ n \notin S
    BY <1>0, <1>1
  <1> QED
    BY <1>0, <1>2

(***************************************************************************)
(* Powers.                                                                 *)
(***************************************************************************)
\* The rounds of Power.
Powers(w, b, n) == w = [k \in 0 .. n |-> IF k = 0 THEN 1 ELSE b * w[k - 1]]

LEMMA PowersExist ==
  ASSUME NEW b \in Nat, NEW n \in Nat PROVE \E w \in [0 .. n -> Int] : Powers(w, b, n)
  <1> DEFINE F == [p \in Int \X (1 .. n) |-> b * p[1]]
  <1>1. F \in [Int \X (1 .. n) -> Int] /\ \A x \in Int, k \in 1 .. n : F[<<x, k>>] = b * x
    OBVIOUS
  <1> HIDE DEF F
  <1>2. PICK w \in [0 .. n -> Int] : Rounds(w, 1, F, n)
    <2>1. Steps(Int, 1, F, n)
      BY <1>1 DEF Steps
    <2> QED
      BY <2>1, RoundsExist
  <1>3. ASSUME NEW k \in 0 .. n PROVE w[k] = IF k = 0 THEN 1 ELSE b * w[k - 1]
    <2>1. w[k] = IF k = 0 THEN 1 ELSE F[<<w[k - 1], k>>]
      BY <1>2 DEF Rounds
    <2>2. k # 0 => k \in 1 .. n /\ w[k - 1] \in Int
      OBVIOUS
    <2> QED
      BY <1>1, <2>1, <2>2
  <1>4. w = [k \in 0 .. n |-> w[k]]
    OBVIOUS
  <1>5. Powers(w, b, n)
    BY <1>3, <1>4 DEF Powers
  <1> QED
    BY <1>5

\* Two numbers of rounds, the first no more than the second.
Within(m, n) == m \in Nat /\ n \in Nat /\ m <= n

LEMMA PowersAgree ==
  ASSUME NEW b, NEW m, NEW n, Within(m, n),
         NEW w, NEW v, Powers(w, b, m), Powers(v, b, n)
  PROVE  w[m] = v[m]
  <1>0. m \in Nat /\ n \in Nat /\ m <= n
    BY DEF Within
  <1> DEFINE S == {k \in Nat : k <= m /\ w[k] # v[k]}
  <1>1. S = {}
    <2> SUFFICES ASSUME S # {} PROVE FALSE
      OBVIOUS
    <2>0. S \in SUBSET Nat
      OBVIOUS
    <2>1. PICK k \in S : \A y \in S : k <= y
      BY <2>0, LeastNat
    <2>2. k \in Nat /\ k <= m /\ w[k] # v[k] /\ k \in 0 .. m /\ k \in 0 .. n
      BY <1>0
    <2>3. (w[k] = IF k = 0 THEN 1 ELSE b * w[k - 1]) /\ (v[k] = IF k = 0 THEN 1 ELSE b * v[k - 1])
      BY <2>2 DEF Powers
    <2>4. k # 0
      BY <2>2, <2>3
    <2>5. k - 1 \in Nat /\ k - 1 <= m /\ k - 1 \notin S
      BY <1>0, <2>1, <2>2, <2>4
    <2>6. w[k - 1] = v[k - 1]
      BY <2>5
    <2> QED
      BY <2>2, <2>3, <2>4, <2>6
  <1>2. m <= m /\ m \notin S
    BY <1>0, <1>1
  <1> QED
    BY <1>0, <1>2

LEMMA PowerIs ==
  ASSUME NEW b \in Nat, NEW m, NEW n, Within(m, n), NEW v, Powers(v, b, n)
  PROVE  Power(b, m) = v[m]
  <1> DEFINE w == CHOOSE w : w = [k \in 0 .. m |-> IF k = 0 THEN 1 ELSE b * w[k - 1]]
  <1>1. Power(b, m) = w[m]
    BY DEF Power
  <1>2. m \in Nat
    BY DEF Within
  <1>3. Powers(w, b, m)
    <2>1. \E u : Powers(u, b, m)
      BY <1>2, PowersExist
    <2> QED
      BY <2>1 DEF Powers
  <1> HIDE DEF w
  <1> QED
    BY <1>1, <1>3, PowersAgree

LEMMA PowerNext ==
  ASSUME NEW b \in Nat, b > 0, NEW n \in Nat
  PROVE  /\ Power(b, 0) = 1 /\ Power(b, n + 1) = b * Power(b, n)
         /\ Power(b, n) \in Nat /\ Power(b, n) > 0
  <1>1. PICK m : m = n + 1 /\ m \in Nat
    OBVIOUS
  <1>2. PICK v \in [0 .. m -> Int] : Powers(v, b, m)
    BY <1>1, PowersExist
  <1>3. Within(0, m) /\ Within(n, m) /\ Within(m, m)
    BY <1>1 DEF Within
  <1>4. Power(b, 0) = v[0] /\ Power(b, n) = v[n] /\ Power(b, m) = v[m]
    BY <1>2, <1>3, PowerIs
  <1>5. \A k \in 0 .. m : v[k] = IF k = 0 THEN 1 ELSE b * v[k - 1]
    BY <1>2 DEF Powers
  <1>6. v[0] = 1 /\ v[m] = b * v[n]
    <2>1. 0 \in 0 .. m /\ m \in 0 .. m /\ m # 0 /\ m - 1 = n
      BY <1>1
    <2> QED
      BY <1>5, <2>1
  <1> DEFINE S == {k \in Nat : k <= m /\ ~(v[k] \in Nat /\ v[k] > 0)}
  <1>7. S = {}
    <2> SUFFICES ASSUME S # {} PROVE FALSE
      OBVIOUS
    <2>0. S \in SUBSET Nat
      OBVIOUS
    <2>1. PICK k \in S : \A y \in S : k <= y
      BY <2>0, LeastNat
    <2>2. k \in Nat /\ k <= m /\ ~(v[k] \in Nat /\ v[k] > 0) /\ k \in 0 .. m
      BY <1>1
    <2>3. k # 0
      BY <1>6, <2>2
    <2>4. k - 1 \in Nat /\ k - 1 <= m /\ k - 1 \notin S
      BY <1>1, <2>1, <2>2, <2>3
    <2>5. PICK x : x = v[k - 1] /\ x \in Nat /\ x > 0
      BY <2>4
    <2>6. b * x \in Nat /\ b * x > 0
      BY <2>5, SMT
    <2>7. v[k] = b * x
      BY <1>5, <2>2, <2>3, <2>5
    <2> QED
      BY <2>2, <2>6, <2>7
  <1>8. v[n] \in Nat /\ v[n] > 0
    <2>1. n <= m /\ n \notin S
      BY <1>1, <1>7
    <2> QED
      BY <2>1
  <1> QED
    BY <1>1, <1>4, <1>6, <1>8

LEMMA TenPowers == \A k \in Nat : Power(10, k) \in Nat /\ Power(10, k + 1) = 10 * Power(10, k)
  BY PowerNext

LEMMA PowerGrows ==
  ASSUME NEW m \in Nat, NEW n \in Nat, m <= n PROVE Power(10, m) <= Power(10, n)
  <1> DEFINE S == {k \in Nat : m <= k /\ ~(Power(10, m) <= Power(10, k))}
  <1>0. \A k \in Nat : /\ Power(10, k) \in Nat /\ Power(10, k + 1) = 10 * Power(10, k)
    BY TenPowers
  <1>1. S = {}
    <2> SUFFICES ASSUME S # {} PROVE FALSE
      OBVIOUS
    <2>0. S \in SUBSET Nat
      OBVIOUS
    <2>1. PICK k \in S : \A y \in S : k <= y
      BY <2>0, LeastNat
    <2>2. k \in Nat /\ m <= k /\ ~(Power(10, m) <= Power(10, k))
      OBVIOUS
    <2>3. k # m
      BY <1>0, <2>2
    <2>4. PICK j : j = k - 1 /\ j \in Nat /\ m <= j /\ j \notin S /\ k = j + 1
      BY <2>1, <2>2, <2>3
    <2>5. Power(10, m) <= Power(10, j)
      BY <2>4
    <2>6. Power(10, k) = 10 * Power(10, j)
      BY <1>0, <2>4
    <2> QED
      BY <1>0, <2>2, <2>4, <2>5, <2>6
  <1> QED
    BY <1>1

(***************************************************************************)
(* Numbers of a word.                                                      *)
(***************************************************************************)
LEMMA WordIs ==
  \E h \in Nat : h >= 8 /\ Word = 2 * h /\ Word \div 2 = h /\ Word \in Nat
  <1>1. PICK n : n \in Nat /\ Nibbles = n + 1 /\ Word = Power(16, Nibbles)
    <2>1. Nibbles \in Nat \ {0} /\ Word = Power(16, Nibbles)
      BY ConversionsAssumption
    <2>2. Nibbles - 1 \in Nat /\ Nibbles = (Nibbles - 1) + 1
      BY <2>1
    <2> QED
      BY <2>1, <2>2
  <1>a. \A k \in Nat : /\ Power(16, k) \in Nat /\ Power(16, k) > 0
                       /\ Power(16, k + 1) = 16 * Power(16, k)
    BY PowerNext
  <1>2. PICK p : p = Power(16, n) /\ p \in Nat /\ p > 0
    BY <1>1, <1>a
  <1>3. Word = 16 * p
    BY <1>1, <1>2, <1>a
  <1>4. Word = 2 * (8 * p) /\ (2 * (8 * p)) \div 2 = 8 * p /\ 8 * p \in Nat /\ 8 * p >= 8
    BY <1>2, <1>3
  <1>5. Word \in Nat
    BY <1>2, <1>3
  <1> QED
    BY <1>4, <1>5

\* x and y are the same number of the word.
Congruent(x, y) == x \in Int /\ y \in Int /\ \E q \in Int : x = y + q * Word

LEMMA Remainder ==
  ASSUME NEW x \in Int
  PROVE  /\ x % Word \in 0 .. Word - 1 /\ Congruent(x % Word, x)
  <1>1. PICK w : w = Word /\ w \in Nat /\ w > 0
    BY WordIs
  <1>2. x % w \in 0 .. w - 1 /\ x = w * (x \div w) + (x % w) /\ x \div w \in Int
    BY <1>1, SMT
  <1>3. PICK d, r : d = x \div w /\ r = x % w /\ d \in Int /\ r \in 0 .. w - 1 /\ x = w * d + r
    BY <1>2
  <1>4. PICK c \in Int : r = x + c * w
    <2>1. PICK c \in Int : c = -d
      BY <1>3
    <2>2. PICK e \in Int : e = w * d
      BY <1>1, <1>3
    <2>3. c * w = -e
      BY <1>1, <1>3, <2>1, <2>2, SMT
    <2>5. x = e + r
      BY <1>3, <2>2
    <2>4. r = x + c * w
      BY <1>3, <2>3, <2>5
    <2> QED
      BY <2>4
  <1>5. r \in Int
    BY <1>3
  <1> QED
    BY <1>1, <1>3, <1>4, <1>5 DEF Congruent

LEMMA CongruentChain ==
  ASSUME NEW x, NEW y, NEW z, Congruent(x, y), Congruent(y, z)
  PROVE  Congruent(x, z)
  <1>1. PICK w : w = Word /\ w \in Nat
    BY WordIs
  <1>2. PICK q \in Int : x = y + q * w
    BY <1>1 DEF Congruent
  <1>3. PICK p \in Int : y = z + p * w
    BY <1>1 DEF Congruent
  <1>4. x \in Int /\ y \in Int /\ z \in Int
    BY DEF Congruent
  <1>5. PICK a, b : a = q * w /\ b = p * w /\ a \in Int /\ b \in Int
    BY <1>1
  <1>6. PICK r \in Int : r = p + q
    OBVIOUS
  <1>7. r * w = b + a
    BY <1>1, <1>5, <1>6, SMT
  <1>8. x = z + r * w
    BY <1>2, <1>3, <1>4, <1>5, <1>7
  <1> QED
    BY <1>1, <1>4, <1>8 DEF Congruent

LEMMA CongruentBack ==
  ASSUME NEW x, NEW y, Congruent(x, y) PROVE Congruent(y, x)
  <1>1. PICK w : w = Word /\ w \in Nat
    BY WordIs
  <1>2. PICK q \in Int : x = y + q * w
    BY <1>1 DEF Congruent
  <1>3. x \in Int /\ y \in Int
    BY DEF Congruent
  <1>4. PICK r \in Int : r = -q
    OBVIOUS
  <1>5. PICK a \in Int : a = q * w
    BY <1>1
  <1>6. r * w = -a
    BY <1>1, <1>4, <1>5, SMT
  <1>7. y = x + r * w
    BY <1>2, <1>3, <1>5, <1>6
  <1> QED
    BY <1>1, <1>3, <1>7 DEF Congruent

LEMMA CongruentNegated ==
  ASSUME NEW x, NEW y, Congruent(x, y) PROVE Congruent(-x, -y)
  <1>1. PICK w : w = Word /\ w \in Nat
    BY WordIs
  <1>2. PICK q \in Int : x = y + q * w
    BY <1>1 DEF Congruent
  <1>3. x \in Int /\ y \in Int
    BY DEF Congruent
  <1>4. PICK a : a = q * w /\ a \in Int /\ (-q) * w = -a
    BY <1>1, SMT
  <1>5. -x = -y + (-q) * w
    BY <1>2, <1>3, <1>4
  <1> QED
    BY <1>1, <1>3, <1>5 DEF Congruent

LEMMA SignedIs == \E h \in Nat : h >= 8 /\ Word = 2 * h /\ Word \div 2 = h /\ Signed = -h .. h - 1
  BY WordIs DEF Signed

LEMMA AsSignedIs ==
  ASSUME NEW x \in Int PROVE AsSigned(x) \in Signed /\ Congruent(AsSigned(x), x)
  <1>1. PICK h \in Nat : h >= 8 /\ Word = 2 * h /\ Word \div 2 = h /\ Signed = -h .. h - 1
    BY SignedIs
  <1>2. PICK r : r = x % Word /\ r \in 0 .. Word - 1 /\ Congruent(r, x)
    BY Remainder
  <1>3. AsSigned(x) = IF r < h THEN r ELSE r - Word
    BY <1>1, <1>2 DEF AsSigned
  <1>4. CASE r < h
    BY <1>1, <1>2, <1>3, <1>4
  <1>5. CASE ~(r < h)
    <2>1. PICK y : y = r - Word /\ y \in Int
      BY <1>1, <1>2
    <2>2. y = r + (-1) * Word
      BY <1>1, <1>2, <2>1
    <2>3. Congruent(y, r)
      BY <1>1, <1>2, <2>1, <2>2 DEF Congruent
    <2>4. Congruent(y, x)
      BY <1>2, <2>3, CongruentChain
    <2>5. y \in Signed
      BY <1>1, <1>2, <1>5, <2>1
    <2> QED
      BY <1>3, <1>5, <2>1, <2>4, <2>5
  <1> QED
    BY <1>4, <1>5

LEMMA SignedAreFew ==
  ASSUME NEW x \in Signed, NEW y \in Signed, Congruent(x, y) PROVE x = y
  <1>1. PICK h \in Nat : h >= 8 /\ Word = 2 * h /\ Signed = -h .. h - 1
    BY SignedIs
  <1>2. PICK w : w = Word /\ w \in Nat /\ w = 2 * h
    BY <1>1
  <1>3. PICK q \in Int : x = y + q * w
    BY <1>2 DEF Congruent
  <1>4. x \in -h .. h - 1 /\ y \in -h .. h - 1
    BY <1>1
  <1>5. PICK a : a = q * w /\ a \in Int
    BY <1>2
  <1>6. CASE q >= 1
    <2>1. a >= w
      BY <1>2, <1>5, <1>6, SMT
    <2> QED
      BY <1>2, <1>3, <1>4, <1>5, <2>1
  <1>7. CASE q <= -1
    <2>1. a <= -w
      BY <1>2, <1>5, <1>7, SMT
    <2> QED
      BY <1>2, <1>3, <1>4, <1>5, <2>1
  <1>8. CASE q = 0
    <2>1. a = 0
      BY <1>2, <1>5, <1>8
    <2> QED
      BY <1>3, <1>4, <1>5, <2>1
  <1> QED
    BY <1>6, <1>7, <1>8

LEMMA AsSignedSame ==
  ASSUME NEW x, NEW y, Congruent(x, y)
  PROVE  AsSigned(x) = AsSigned(y) /\ (y \in Signed => AsSigned(x) = y)
  <1>1. x \in Int /\ y \in Int
    BY DEF Congruent
  <1>2. PICK a : a = AsSigned(x) /\ a \in Signed /\ Congruent(a, x)
    BY <1>1, AsSignedIs
  <1>3. PICK b : b = AsSigned(y) /\ b \in Signed /\ Congruent(b, y)
    BY <1>1, AsSignedIs
  <1>4. Congruent(a, y)
    BY <1>2, CongruentChain
  <1>5. Congruent(y, b)
    BY <1>3, CongruentBack
  <1>6. Congruent(a, b)
    BY <1>4, <1>5, CongruentChain
  <1> QED
    BY <1>2, <1>3, <1>4, <1>6, SignedAreFew

(***************************************************************************)
(* Reading a text: from the last digit, with the place's value, or from    *)
(* the first.                                                              *)
(***************************************************************************)

\* h holds the values of the first digits of the text d.
Values(h, d, n) ==
    /\ n \in Nat /\ h \in [0 .. n -> Int] /\ h[0] = 0
    /\ \A k \in 1 .. n : d[k] \in 48 .. 57 /\ h[k] = 10 * h[k - 1] + (d[k] - 48)

\* The places' values and the totals of char_to_s_int.
PlaceRuns(p, n) == p = [k \in 0 .. n |-> IF k = 0 THEN 1 ELSE AsUnsigned(10 * p[k - 1])]

TotalRuns(w, p, d, n) ==
    w = [k \in 0 .. n |->
            IF k = 0 THEN 0
            ELSE AsSigned(w[k - 1] + UCharToInt(d[n + 1 - k]) * p[k - 1])]

LEMMA PlacesExist == ASSUME NEW n \in Nat PROVE \E p \in [0 .. n -> Int] : PlaceRuns(p, n)
  <1> DEFINE F == [x \in Int \X (1 .. n) |-> AsUnsigned(10 * x[1])]
  <1>0. \A x \in Int : AsUnsigned(10 * x) \in Int
    <2>1. ASSUME NEW x \in Int PROVE AsUnsigned(10 * x) \in Int
      <3>1. PICK y \in Int : y = 10 * x
        OBVIOUS
      <3>2. y % Word \in 0 .. Word - 1
        BY Remainder
      <3> QED
        BY <3>1, <3>2, WordIs DEF AsUnsigned
    <2> QED
      BY <2>1
  <1>1. F \in [Int \X (1 .. n) -> Int] /\ \A x \in Int, k \in 1 .. n : F[<<x, k>>] = AsUnsigned(10 * x)
    BY <1>0
  <1> HIDE DEF F
  <1>2. PICK w \in [0 .. n -> Int] : Rounds(w, 1, F, n)
    <2>1. Steps(Int, 1, F, n)
      BY <1>1 DEF Steps
    <2> QED
      BY <2>1, RoundsExist
  <1>3. ASSUME NEW k \in 0 .. n PROVE w[k] = IF k = 0 THEN 1 ELSE AsUnsigned(10 * w[k - 1])
    <2>1. w[k] = IF k = 0 THEN 1 ELSE F[<<w[k - 1], k>>]
      BY <1>2 DEF Rounds
    <2>2. k # 0 => k \in 1 .. n /\ w[k - 1] \in Int
      OBVIOUS
    <2> QED
      BY <1>1, <2>1, <2>2
  <1>4. w = [k \in 0 .. n |-> w[k]]
    OBVIOUS
  <1>5. PlaceRuns(w, n)
    BY <1>3, <1>4 DEF PlaceRuns
  <1> QED
    BY <1>5

LEMMA PlacesAreInts ==
  ASSUME NEW n \in Nat, NEW p, PlaceRuns(p, n), NEW k \in 0 .. n PROVE p[k] \in Int
  <1> DEFINE S == {j \in Nat : j <= n /\ p[j] \notin Int}
  <1>0. \A j \in 0 .. n : p[j] = IF j = 0 THEN 1 ELSE AsUnsigned(10 * p[j - 1])
    BY DEF PlaceRuns
  <1>1. S = {}
    <2> SUFFICES ASSUME S # {} PROVE FALSE
      OBVIOUS
    <2>0. S \in SUBSET Nat
      OBVIOUS
    <2>1. PICK j \in S : \A y \in S : j <= y
      BY <2>0, LeastNat
    <2>2. j \in Nat /\ j <= n /\ p[j] \notin Int /\ j \in 0 .. n
      OBVIOUS
    <2>3. j # 0
      BY <1>0, <2>2
    <2>4. j - 1 \in Nat /\ j - 1 <= n /\ j - 1 \notin S
      BY <2>1, <2>2, <2>3
    <2>5. PICK y \in Int : y = 10 * p[j - 1]
      BY <2>4
    <2>6. p[j] = y % Word
      BY <1>0, <2>2, <2>3, <2>5 DEF AsUnsigned
    <2>7. y % Word \in 0 .. Word - 1
      BY Remainder
    <2> QED
      BY <2>2, <2>6, <2>7, WordIs
  <1>2. k \in Nat /\ k <= n /\ k \notin S
    BY <1>1
  <1> QED
    BY <1>2

LEMMA TotalsExist ==
  ASSUME NEW n \in Nat, NEW p, PlaceRuns(p, n), NEW d, \A k \in 1 .. n : UCharToInt(d[k]) \in Int
  PROVE  \E w \in [0 .. n -> Int] : TotalRuns(w, p, d, n)
  <1> DEFINE T(x, k) == AsSigned(x + UCharToInt(d[n + 1 - k]) * p[k - 1])
             F == [x \in Int \X (1 .. n) |-> T(x[1], x[2])]
  <1>0. \A x \in Int, k \in 1 .. n : T(x, k) \in Int
    <2>1. ASSUME NEW x \in Int, NEW k \in 1 .. n PROVE T(x, k) \in Int
      <3>1. n + 1 - k \in 1 .. n /\ k - 1 \in 0 .. n
        OBVIOUS
      <3>2. PICK c \in Int, q \in Int : c = UCharToInt(d[n + 1 - k]) /\ q = p[k - 1]
        BY <3>1, PlacesAreInts
      <3>3. PICK y \in Int : y = x + c * q
        OBVIOUS
      <3>4. AsSigned(y) \in Int
        <4>1. PICK h \in Nat : Signed = -h .. h - 1
          BY SignedIs
        <4> QED
          BY <4>1, AsSignedIs
      <3> QED
        BY <3>2, <3>3, <3>4
    <2> QED
      BY <2>1
  <1> HIDE DEF T
  <1>1. F \in [Int \X (1 .. n) -> Int] /\ \A x \in Int, k \in 1 .. n : F[<<x, k>>] = T(x, k)
    BY <1>0
  <1> HIDE DEF F
  <1>2. PICK w \in [0 .. n -> Int] : Rounds(w, 0, F, n)
    <2>1. Steps(Int, 0, F, n)
      BY <1>1 DEF Steps
    <2> QED
      BY <2>1, RoundsExist
  <1>3. ASSUME NEW k \in 0 .. n PROVE w[k] = IF k = 0 THEN 0 ELSE T(w[k - 1], k)
    <2>1. w[k] = IF k = 0 THEN 0 ELSE F[<<w[k - 1], k>>]
      BY <1>2 DEF Rounds
    <2>2. k # 0 => k \in 1 .. n /\ w[k - 1] \in Int
      OBVIOUS
    <2> QED
      BY <1>1, <2>1, <2>2
  <1>4. w = [k \in 0 .. n |-> w[k]]
    OBVIOUS
  <1>5. TotalRuns(w, p, d, n)
    BY <1>3, <1>4 DEF TotalRuns, T
  <1> QED
    BY <1>5

\* Adding a digit at its place, instead of appending it, makes no difference.
LEMMA PlacedDigit ==
  ASSUME NEW w \in Int, NEW c \in Int, NEW p \in Int, NEW f \in Int, NEW g, NEW x, NEW v, NEW q,
         g = 10 * f + c, Congruent(w + g * p, x), Congruent(v, w + c * p), Congruent(q, 10 * p)
  PROVE  Congruent(v + f * q, x)
  <1>1. PICK m : m = Word /\ m \in Nat
    BY WordIs
  <1>2. PICK a \in Int : v = w + c * p + a * m
    BY <1>1 DEF Congruent
  <1>3. PICK b \in Int : q = 10 * p + b * m
    BY <1>1 DEF Congruent
  <1>4. v \in Int /\ q \in Int
    BY DEF Congruent
  <1>5. PICK fp \in Int, cp \in Int, am \in Int, bm \in Int :
            fp = f * p /\ cp = c * p /\ am = a * m /\ bm = b * m
    BY <1>1
  <1>6. PICK fbm \in Int, e \in Int : fbm = f * bm /\ e = a + f * b
    OBVIOUS
  <1>7. e * m = am + fbm
    BY <1>1, <1>5, <1>6, SMT
  <1>8. g * p = 10 * fp + cp
    BY <1>5, SMT
  <1>9. f * q = 10 * fp + fbm
    <2>1. q = 10 * p + bm
      BY <1>3, <1>5
    <2> QED
      BY <1>5, <1>6, <2>1, SMT
  <1>10. PICK y, z : y = v + f * q /\ z = w + g * p /\ y = z + e * m /\ y \in Int /\ z \in Int
    <2>1. v = w + cp + am
      BY <1>2, <1>5
    <2> QED
      BY <1>4, <1>5, <1>6, <1>7, <1>8, <1>9, <2>1
  <1>11. Congruent(y, z)
    BY <1>1, <1>6, <1>10 DEF Congruent
  <1>12. Congruent(z, x)
    BY <1>10
  <1>13. Congruent(y, x)
    BY <1>11, <1>12, CongruentChain
  <1> QED
    BY <1>10, <1>13

LEMMA TotalIsValue ==
  ASSUME NEW n, NEW p, NEW d, NEW h, NEW w, Values(h, d, n), PlaceRuns(p, n), TotalRuns(w, p, d, n)
  PROVE  w[n] \in Signed /\ Congruent(w[n], h[n])
  <1>0. n \in Nat /\ h \in [0 .. n -> Int] /\ h[0] = 0
    BY DEF Values
  <1>a. \A k \in 1 .. n : d[k] \in 48 .. 57 /\ h[k] = 10 * h[k - 1] + (d[k] - 48)
    BY DEF Values
  <1>z. 0 \in Signed /\ Signed \subseteq Int
    <2>1. PICK m \in Nat : m >= 8 /\ Signed = -m .. m - 1
      BY SignedIs
    <2> QED
      BY <2>1
  <1> DEFINE Good(k) == w[k] \in Signed /\ Congruent(w[k] + h[n - k] * p[k], h[n])
             S == {k \in Nat : k <= n /\ ~Good(k)}
  <1>1. S = {}
    <2> SUFFICES ASSUME S # {} PROVE FALSE
      OBVIOUS
    <2>0. S \in SUBSET Nat
      OBVIOUS
    <2>1. PICK k \in S : \A y \in S : k <= y
      BY <2>0, LeastNat
    <2>2. k \in Nat /\ k <= n /\ ~Good(k) /\ k \in 0 .. n
      BY <1>0
    <2>3. CASE k = 0
      <3>1. w[0] = 0 /\ p[0] = 1
        BY <1>0, <2>2, <2>3 DEF TotalRuns, PlaceRuns
      <3>2. PICK x \in Int : x = h[n]
        BY <1>0
      <3>3. w[0] + h[n - 0] * p[0] = x
        BY <1>0, <3>1, <3>2
      <3>4. Congruent(x, x)
        <4>1. x = x + 0 * Word
          BY WordIs
        <4> QED
          BY <4>1 DEF Congruent
      <3>5. Good(0)
        BY <1>z, <3>1, <3>2, <3>3, <3>4
      <3> QED
        BY <2>2, <2>3, <3>5
    <2>4. CASE k # 0
      <3>1. PICK j : /\ j = k - 1 /\ j \in Nat /\ j <= n /\ j \notin S /\ j \in 0 .. n
                     /\ n + 1 - k = n - j /\ n - j \in 1 .. n /\ n - k \in 0 .. n /\ (n - j) - 1 = n - k
        BY <1>0, <2>1, <2>2, <2>4
      <3>2. Good(j)
        BY <3>1
      <3>3. PICK a, c, b, f, g : /\ a = w[j] /\ c = d[n - j] - 48 /\ b = p[j] /\ f = h[n - k] /\ g = h[n - j]
                                 /\ a \in Int /\ c \in Int /\ b \in Int /\ f \in Int /\ g \in Int
                                 /\ g = 10 * f + c
        <4>1. p[j] \in Int
          BY <1>0, <3>1, PlacesAreInts
        <4>2. w[j] \in Int
          BY <1>z, <3>2
        <4>3. h[n - k] \in Int /\ h[n - j] \in Int
          BY <1>0, <3>1
        <4>4. d[n - j] \in 48 .. 57 /\ h[n - j] = 10 * h[n - k] + (d[n - j] - 48)
          BY <1>a, <3>1
        <4> QED
          BY <4>1, <4>2, <4>3, <4>4
      <3>4. UCharToInt(d[n - j]) = c
        <4>1. d[n - j] \in 48 .. 57
          BY <1>a, <3>1
        <4> QED
          BY <3>3, <4>1 DEF UCharToInt, Zero
      <3>5. Congruent(a + g * b, h[n])
        BY <3>2, <3>3
      <3>6. PICK v : v = w[k] /\ v \in Signed /\ Congruent(v, a + c * b)
        <4>1. w[k] = AsSigned(a + c * b)
          <5>1. w[k] = AsSigned(w[k - 1] + UCharToInt(d[n + 1 - k]) * p[k - 1])
            BY <2>2, <2>4 DEF TotalRuns
          <5> QED
            BY <3>1, <3>3, <3>4, <5>1
        <4>2. PICK y \in Int : y = a + c * b
          BY <3>3
        <4> QED
          BY <4>1, <4>2, AsSignedIs
      <3>7. PICK q : q = p[k] /\ Congruent(q, 10 * b)
        <4>1. p[k] = (10 * b) % Word
          <5>1. p[k] = AsUnsigned(10 * p[k - 1])
            BY <2>2, <2>4 DEF PlaceRuns
          <5> QED
            BY <3>1, <3>3, <5>1 DEF AsUnsigned
        <4>2. PICK y \in Int : y = 10 * b
          BY <3>3
        <4> QED
          BY <4>1, <4>2, Remainder
      <3>8. Congruent(v + f * q, h[n])
        BY <3>3, <3>5, <3>6, <3>7, PlacedDigit
      <3>9. Good(k)
        BY <3>3, <3>6, <3>7, <3>8
      <3> QED
        BY <2>2, <3>9
    <2> QED
      BY <2>3, <2>4
  <1>2. Good(n)
    <2>1. n \in Nat /\ n <= n /\ n \notin S
      BY <1>0, <1>1
    <2> QED
      BY <2>1
  <1>3. w[n] + h[n - n] * p[n] = w[n]
    <2>1. p[n] \in Int
      BY <1>0, PlacesAreInts
    <2>2. n - n = 0
      BY <1>0
    <2>3. w[n] \in Signed
      BY <1>2
    <2>4. w[n] \in Int
      BY <1>z, <2>3
    <2>5. h[n - n] = 0
      BY <1>0, <2>2
    <2> QED
      BY <2>1, <2>4, <2>5
  <1> QED
    BY <1>2, <1>3

\* d is a text of n digits whose value is x.
Shows(d, n, x) == \E h : Values(h, d, n) /\ h[n] = x

\* A text of digits, with or without a sign.
LEMMA TextRead ==
  ASSUME NEW t, t # <<>>, t # <<Minus>>, NEW d, d = Number(t), NEW n, n = Len(d), DOMAIN d = 1 .. n,
         NEW x, Shows(d, n, x)
  PROVE  CharToSInt(t) = AsSigned(IF t[1] = Minus THEN -x ELSE x)
  <1>1. PICK h : Values(h, d, n) /\ h[n] = x
    BY DEF Shows
  <1>2. n \in Nat /\ x \in Int /\ \A k \in 1 .. n : d[k] \in 48 .. 57
    BY <1>1 DEF Values
  <1>3. \A k \in 1 .. n : UCharToInt(d[k]) \in Int /\ UCharToInt(d[k]) # -1
    BY <1>2 DEF UCharToInt, Zero
  <1> DEFINE worth == CHOOSE p : p = [k \in 0 .. n |-> IF k = 0 THEN 1 ELSE AsUnsigned(10 * p[k - 1])]
             sum == CHOOSE w : w = [k \in 0 .. n |->
                IF k = 0 THEN 0
                ELSE AsSigned(w[k - 1] + UCharToInt(d[n + 1 - k]) * worth[k - 1])]
  <1>4. CharToSInt(t) =
            IF \/ t = <<>> \/ t = <<Minus>> \/ \E k \in DOMAIN d : UCharToInt(d[k]) = -1
            THEN 0
            ELSE IF t[1] = Minus THEN AsSigned(-sum[n]) ELSE sum[n]
    BY DEF CharToSInt
  <1>5. PlaceRuns(worth, n)
    <2>1. \E p : PlaceRuns(p, n)
      BY <1>2, PlacesExist
    <2> QED
      BY <2>1 DEF PlaceRuns
  <1> HIDE DEF worth
  <1>6. TotalRuns(sum, worth, d, n)
    <2>1. \E w : TotalRuns(w, worth, d, n)
      BY <1>2, <1>3, <1>5, TotalsExist
    <2> QED
      BY <2>1 DEF TotalRuns
  <1> HIDE DEF sum
  <1>7. PICK w : w = sum[n] /\ w \in Signed /\ Congruent(w, x)
    BY <1>1, <1>5, <1>6, TotalIsValue
  <1>8. CharToSInt(t) = IF t[1] = Minus THEN AsSigned(-w) ELSE w
    BY <1>3, <1>4, <1>7
  <1>9. AsSigned(-w) = AsSigned(-x)
    BY <1>7, CongruentNegated, AsSignedSame
  <1>10. w = AsSigned(x)
    BY <1>7, CongruentBack, AsSignedSame
  <1> QED
    BY <1>8, <1>9, <1>10

(***************************************************************************)
(* Digits of a number.                                                     *)
(***************************************************************************)
\* The rounds of Digits.
DigitRuns(v, n) ==
    v = [m \in 0 .. n |-> IF m = 0 THEN <<>> ELSE Append(v[m \div 10], m % 10)]

LEMMA Tenth ==
  ASSUME NEW m \in Nat, m # 0
  PROVE  \E q \in Nat : m \div 10 = q /\ q < m /\ m % 10 \in 0 .. 9 /\ m = 10 * q + (m % 10)
  OBVIOUS

LEMMA DigitsExist == ASSUME NEW n \in Nat PROVE \E v : DigitRuns(v, n)
  <1> DEFINE S == {m \in Nat : ~ \E v : DigitRuns(v, m)}
  <1> SUFFICES ASSUME S # {} PROVE FALSE
    OBVIOUS
  <1>0. S \in SUBSET Nat
    OBVIOUS
  <1>1. PICK m \in S : \A y \in S : m <= y
    BY <1>0, LeastNat
  <1>2. m \in Nat /\ ~ \E v : DigitRuns(v, m)
    OBVIOUS
  <1>3. CASE m = 0
    <2>1. PICK v : v = [k \in 0 .. 0 |-> <<>>]
      OBVIOUS
    <2>2. DigitRuns(v, 0)
      BY <2>1 DEF DigitRuns
    <2> QED
      BY <1>2, <1>3, <2>2
  <1>4. CASE m # 0
    <2>1. m - 1 \in Nat /\ m - 1 \notin S
      BY <1>1, <1>2, <1>4
    <2>2. PICK u : DigitRuns(u, m - 1)
      BY <2>1
    <2>3. PICK v : v = [k \in 0 .. m |-> IF k = m THEN Append(u[m \div 10], m % 10) ELSE u[k]]
      OBVIOUS
    <2>4. ASSUME NEW k \in 0 .. m
          PROVE  v[k] = IF k = 0 THEN <<>> ELSE Append(v[k \div 10], k % 10)
      <3>1. CASE k = 0
        <4>1. 0 \in 0 .. m - 1 /\ 0 # m
          BY <1>2, <1>4
        <4>2. u[0] = <<>>
          BY <2>2, <4>1 DEF DigitRuns
        <4> QED
          BY <2>3, <3>1, <4>1, <4>2
      <3>2. CASE k # 0
        <4>1. PICK q \in Nat : k \div 10 = q /\ q < k
          BY <3>2, Tenth
        <4>2. q \in 0 .. m /\ q # m
          BY <4>1
        <4>3. v[q] = u[q]
          BY <2>3, <4>2
        <4>4. CASE k = m
          BY <2>3, <3>2, <4>1, <4>3, <4>4
        <4>5. CASE k # m
          <5>1. k \in 0 .. m - 1
            BY <1>2, <4>5
          <5>2. u[k] = Append(u[k \div 10], k % 10)
            BY <2>2, <3>2, <5>1 DEF DigitRuns
          <5> QED
            BY <2>3, <3>2, <4>1, <4>3, <4>5, <5>2
        <4> QED
          BY <4>4, <4>5
      <3> QED
        BY <3>1, <3>2
    <2>5. v = [k \in 0 .. m |-> v[k]]
      BY <2>3
    <2>6. DigitRuns(v, m)
      BY <2>4, <2>5 DEF DigitRuns
    <2> QED
      BY <1>2, <2>6
  <1> QED
    BY <1>3, <1>4

\* The characters of the digits s.
Figures(s) == [k \in DOMAIN s |-> Zero + s[k]]

\* s are the digits of m: their text shows it, and there are no more than needed.
DigitsOf(s, m) ==
    /\ s \in Seq(0 .. 9) /\ Len(s) \in Nat
    /\ Shows(Figures(s), Len(s), m)
    /\ s = <<>> <=> m = 0
    /\ m # 0 => \E k \in Nat : Len(s) = k + 1 /\ Power(10, k) <= m

LEMMA FiguresAre ==
  ASSUME NEW s \in Seq(0 .. 9)
  PROVE  /\ DOMAIN Figures(s) = 1 .. Len(s) /\ Len(Figures(s)) = Len(s) /\ Len(s) \in Nat
         /\ \A k \in 1 .. Len(s) : Figures(s)[k] = 48 + s[k] /\ Figures(s)[k] \in 48 .. 57
         /\ Figures(s) \in Seq(Int)
  <1>1. Len(s) \in Nat /\ DOMAIN s = 1 .. Len(s) /\ \A k \in 1 .. Len(s) : s[k] \in 0 .. 9
    BY LenProperties, ElementOfSeq
  <1>2. PICK n : n = Len(s) /\ n \in Nat
    BY <1>1
  <1>3. DOMAIN Figures(s) = 1 .. n /\ \A k \in 1 .. n : Figures(s)[k] = 48 + s[k]
    BY <1>1, <1>2 DEF Figures, Zero
  <1>4. \A k \in 1 .. n : 48 + s[k] \in 48 .. 57 /\ 48 + s[k] \in Int
    BY <1>1, <1>2
  <1>5. Figures(s) \in [1 .. n -> Int]
    <2>1. Figures(s) = [k \in 1 .. n |-> 48 + s[k]]
      BY <1>1, <1>2 DEF Figures, Zero
    <2> QED
      BY <1>4, <2>1
  <1>6. Figures(s) \in Seq(Int)
    BY <1>2, <1>5, SeqDef
  <1>7. Len(Figures(s)) \in Nat /\ DOMAIN Figures(s) = 1 .. Len(Figures(s))
    BY <1>6, LenProperties
  <1>8. Len(Figures(s)) = n
    <2>1. PICK l : l = Len(Figures(s)) /\ l \in Nat /\ 1 .. l = 1 .. n
      BY <1>3, <1>7
    <2>2. l = n
      <3>1. CASE l < n
        <4>1. n \in 1 .. n /\ n \notin 1 .. l
          BY <1>2, <2>1, <3>1
        <4> QED
          BY <2>1, <4>1
      <3>2. CASE n < l
        <4>1. l \in 1 .. l /\ l \notin 1 .. n
          BY <1>2, <2>1, <3>2
        <4> QED
          BY <2>1, <4>1
      <3> QED
        BY <1>2, <2>1, <3>1, <3>2
    <2> QED
      BY <2>1, <2>2
  <1> QED
    BY <1>2, <1>3, <1>4, <1>6, <1>8

LEMMA NoDigits == DigitsOf(<<>>, 0)
  <1>1. <<>> \in Seq(0 .. 9) /\ Len(<<>>) = 0
    BY EmptySeq
  <1>2. PICK d : d = Figures(<<>>)
    OBVIOUS
  <1>3. PICK h : h = [k \in 0 .. 0 |-> 0]
    OBVIOUS
  <1>4. Values(h, d, 0) /\ h[0] = 0
    BY <1>3 DEF Values
  <1>5. Shows(d, 0, 0)
    BY <1>4 DEF Shows
  <1> QED
    BY <1>1, <1>2, <1>5 DEF DigitsOf

LEMMA OneMoreDigit ==
  ASSUME NEW m \in Nat, m # 0, NEW q \in Nat, NEW c \in 0 .. 9, m = 10 * q + c,
         NEW s, DigitsOf(s, q)
  PROVE  DigitsOf(Append(s, c), m)
  <1>1. s \in Seq(0 .. 9) /\ Shows(Figures(s), Len(s), q)
    BY DEF DigitsOf
  <1>2. PICK n : n = Len(s) /\ n \in Nat
    BY <1>1, LenProperties
  <1>3. PICK t : /\ t = Append(s, c) /\ t \in Seq(0 .. 9) /\ t # <<>> /\ Len(t) = n + 1
                 /\ t[n + 1] = c /\ \A k \in 1 .. n : t[k] = s[k]
    <2>1. PICK S : S = 0 .. 9
      OBVIOUS
    <2>2. s \in Seq(S) /\ c \in S
      BY <1>1, <2>1
    <2>3. /\ Append(s, c) \in Seq(S) /\ Append(s, c) # <<>> /\ Len(Append(s, c)) = Len(s) + 1
          /\ Append(s, c)[Len(s) + 1] = c /\ \A k \in 1 .. Len(s) : Append(s, c)[k] = s[k]
      BY <2>2, AppendProperties
    <2> QED
      BY <1>2, <2>1, <2>3
  <1>4. PICK h : Values(h, Figures(s), n) /\ h[n] = q
    BY <1>1, <1>2 DEF Shows
  <1>5. PICK g : g = [k \in 0 .. n + 1 |-> IF k = n + 1 THEN m ELSE h[k]]
    OBVIOUS
  <1>6. Values(g, Figures(t), n + 1)
    <2>1. n + 1 \in Nat /\ h \in [0 .. n -> Int] /\ h[0] = 0
      BY <1>2, <1>4 DEF Values
    <2>2. g \in [0 .. n + 1 -> Int]
      <3>1. ASSUME NEW k \in 0 .. n + 1 PROVE (IF k = n + 1 THEN m ELSE h[k]) \in Int
        <4>1. k # n + 1 => k \in 0 .. n
          BY <1>2
        <4> QED
          BY <2>1, <4>1
      <3> QED
        BY <1>5, <3>1
    <2>3. g[0] = 0
      <3>1. 0 \in 0 .. n + 1 /\ 0 # n + 1
        BY <1>2
      <3> QED
        BY <1>5, <2>1, <3>1
    <2>4. ASSUME NEW k \in 1 .. n + 1
          PROVE  Figures(t)[k] \in 48 .. 57 /\ g[k] = 10 * g[k - 1] + (Figures(t)[k] - 48)
      <3>1. k - 1 \in 0 .. n /\ k - 1 \in 0 .. n + 1 /\ k - 1 # n + 1 /\ k \in 0 .. n + 1
        BY <1>2
      <3>2. g[k - 1] = h[k - 1]
        BY <1>5, <3>1
      <3>3. Figures(t)[k] = 48 + t[k] /\ Figures(t)[k] \in 48 .. 57
        BY <1>3, FiguresAre
      <3>4. CASE k = n + 1
        <4>1. g[k] = m /\ h[k - 1] = q /\ t[k] = c
          BY <1>2, <1>3, <1>4, <1>5, <3>1, <3>4
        <4> QED
          BY <3>2, <3>3, <4>1
      <3>5. CASE k # n + 1
        <4>1. k \in 1 .. n
          BY <1>2, <3>5
        <4>2. Figures(s)[k] = 48 + s[k] /\ t[k] = s[k]
          BY <1>1, <1>2, <1>3, <4>1, FiguresAre
        <4>3. h[k] = 10 * h[k - 1] + (Figures(s)[k] - 48)
          BY <1>4, <4>1 DEF Values
        <4>4. g[k] = h[k]
          BY <1>5, <3>1, <3>5
        <4> QED
          BY <3>2, <3>3, <4>2, <4>3, <4>4
      <3> QED
        BY <3>4, <3>5
    <2> QED
      BY <2>1, <2>2, <2>3, <2>4 DEF Values
  <1>7. g[n + 1] = m
    BY <1>2, <1>5
  <1>8. Shows(Figures(t), Len(t), m)
    BY <1>3, <1>6, <1>7 DEF Shows
  <1>9. Power(10, n) <= m
    <2>0. \A k \in Nat : /\ Power(10, k) \in Nat /\ Power(10, k + 1) = 10 * Power(10, k)
      BY TenPowers
    <2>a. Power(10, 0) = 1
      <3>1. 10 \in Nat /\ 10 > 0 /\ 0 \in Nat
        OBVIOUS
      <3> QED
        BY <3>1, PowerNext
    <2>1. CASE q = 0
      <3>1. s = <<>>
        BY <2>1 DEF DigitsOf
      <3>2. n = 0
        BY <1>2, <3>1
      <3>3. Power(10, n) = 1
        BY <1>2, <2>a, <3>2
      <3> QED
        BY <3>3
    <2>2. CASE q # 0
      <3>1. PICK k \in Nat : n = k + 1 /\ Power(10, k) <= q
        BY <1>2, <2>2 DEF DigitsOf
      <3>2. Power(10, n) = 10 * Power(10, k) /\ Power(10, k) \in Nat
        BY <2>0, <3>1
      <3> QED
        BY <3>1, <3>2
    <2> QED
      BY <2>1, <2>2
  <1>10. Len(t) \in Nat
    BY <1>2, <1>3
  <1> QED
    BY <1>2, <1>3, <1>8, <1>9, <1>10 DEF DigitsOf

LEMMA DigitsAre == ASSUME NEW n \in Nat PROVE DigitsOf(Digits(n), n)
  <1> DEFINE v == CHOOSE v : v = [m \in 0 .. n |-> IF m = 0 THEN <<>> ELSE Append(v[m \div 10], m % 10)]
  <1>1. Digits(n) = v[n]
    BY DEF Digits
  <1>2. DigitRuns(v, n)
    <2>1. \E u : DigitRuns(u, n)
      BY DigitsExist
    <2> QED
      BY <2>1 DEF DigitRuns
  <1> HIDE DEF v
  <1> DEFINE S == {m \in Nat : m <= n /\ ~DigitsOf(v[m], m)}
  <1>3. S = {}
    <2> SUFFICES ASSUME S # {} PROVE FALSE
      OBVIOUS
    <2>0. S \in SUBSET Nat
      OBVIOUS
    <2>1. PICK m \in S : \A y \in S : m <= y
      BY <2>0, LeastNat
    <2>2. m \in Nat /\ m <= n /\ ~DigitsOf(v[m], m) /\ m \in 0 .. n
      OBVIOUS
    <2>3. v[m] = IF m = 0 THEN <<>> ELSE Append(v[m \div 10], m % 10)
      BY <1>2, <2>2 DEF DigitRuns
    <2>4. m # 0
      BY <2>2, <2>3, NoDigits
    <2>5. PICK q \in Nat, c \in 0 .. 9 : m \div 10 = q /\ q < m /\ m % 10 = c /\ m = 10 * q + c
      BY <2>2, <2>4, Tenth
    <2>6. q \notin S /\ q <= n
      BY <2>1, <2>2, <2>5
    <2>7. DigitsOf(v[q], q)
      BY <2>6
    <2>8. DigitsOf(Append(v[q], c), m)
      BY <2>2, <2>4, <2>5, <2>7, OneMoreDigit
    <2> QED
      BY <2>2, <2>3, <2>4, <2>5, <2>8
  <1>4. n <= n /\ n \notin S
    BY <1>3
  <1> QED
    BY <1>1, <1>4

(***************************************************************************)
(* Numbers to text and back.                                               *)
(***************************************************************************)

\* What is written of a number that is not negative.
LEMMA NumeralIs ==
  ASSUME NEW m \in Nat
  PROVE  \E t \in Seq(Int), n \in Nat :
            /\ t = Numeral(Digits(m)) /\ n = Len(t) /\ n >= 1 /\ Shows(t, n, m)
            /\ n = 1 \/ \E k \in Nat : n = k + 1 /\ Power(10, k) <= m
            /\ m = 0 => t = <<Zero>>
  <1>1. DigitsOf(Digits(m), m)
    BY DigitsAre
  <1>2. CASE m = 0
    <2>1. Digits(m) = <<>>
      BY <1>1, <1>2 DEF DigitsOf
    <2>2. PICK t : t = <<48>> /\ t = Numeral(Digits(m)) /\ t = <<Zero>>
      BY <2>1 DEF Numeral, Zero
    <2>3. t \in Seq(Int) /\ Len(t) = 1 /\ t[1] = 48
      BY <2>2
    <2>4. PICK h : h = [k \in 0 .. 1 |-> 0]
      OBVIOUS
    <2>5. Values(h, t, 1) /\ h[1] = 0
      <3>1. h \in [0 .. 1 -> Int] /\ h[0] = 0 /\ h[1] = 0
        BY <2>4
      <3>2. ASSUME NEW k \in 1 .. 1 PROVE t[k] \in 48 .. 57 /\ h[k] = 10 * h[k - 1] + (t[k] - 48)
        <4>1. k = 1
          OBVIOUS
        <4> QED
          BY <2>3, <3>1, <4>1
      <3> QED
        BY <3>1, <3>2 DEF Values
    <2>6. Shows(t, 1, m)
      BY <1>2, <2>5 DEF Shows
    <2>7. PICK n \in Nat : n = 1
      OBVIOUS
    <2>8. n = Len(t) /\ n >= 1 /\ Shows(t, n, m) /\ t = Numeral(Digits(m)) /\ t \in Seq(Int)
      BY <2>2, <2>3, <2>6, <2>7
    <2> QED
      BY <2>2, <2>7, <2>8
  <1>3. CASE m # 0
    <2>1. PICK s : s = Digits(m) /\ s \in Seq(0 .. 9) /\ s # <<>> /\ Shows(Figures(s), Len(s), m)
                   /\ \E k \in Nat : Len(s) = k + 1 /\ Power(10, k) <= m
      BY <1>1, <1>3 DEF DigitsOf
    <2>2. PICK t : t = Figures(s) /\ t \in Seq(Int) /\ Len(t) = Len(s) /\ Len(s) \in Nat
      BY <2>1, FiguresAre
    <2>3. t = Numeral(Digits(m))
      BY <2>1, <2>2 DEF Numeral, Figures
    <2>4. Len(s) >= 1 /\ Shows(t, Len(t), m)
      BY <2>1, <2>2
    <2> QED
      BY <1>3, <2>1, <2>2, <2>3, <2>4
  <1> QED
    BY <1>2, <1>3

\* The first character of a text of digits is no sign.
LEMMA DigitsOnly ==
  ASSUME NEW t \in Seq(Int), NEW n \in Nat, n = Len(t), n >= 1, NEW m, Shows(t, n, m)
  PROVE  /\ t # <<>> /\ t # <<Minus>> /\ t[1] # Minus /\ Number(t) = t /\ DOMAIN t = 1 .. n
         /\ \A k \in 1 .. n : UCharToInt(t[k]) # -1
  <1>1. \A k \in 1 .. n : t[k] \in 48 .. 57
    BY DEF Shows, Values
  <1>2. 1 \in 1 .. n /\ DOMAIN t = 1 .. n
    BY LenProperties
  <1>3. t[1] \in 48 .. 57
    BY <1>1, <1>2
  <1>4. t[1] # Minus
    BY <1>3 DEF Minus
  <1>5. t # <<>> /\ t # <<Minus>>
    <2>1. Len(<<>>) = 0 /\ <<Minus>>[1] = Minus
      OBVIOUS
    <2> QED
      BY <1>4, <2>1
  <1>6. ASSUME NEW k \in 1 .. n PROVE UCharToInt(t[k]) # -1
    <2>1. PICK c : c = t[k] /\ c \in 48 .. 57
      BY <1>1
    <2>2. UCharToInt(c) = c - 48
      BY <2>1 DEF UCharToInt, Zero
    <2> QED
      BY <2>1, <2>2
  <1> QED
    BY <1>2, <1>4, <1>5, <1>6 DEF Number

\* A sign in front.
LEMMA SignedText ==
  ASSUME NEW s \in Seq(Int), NEW n \in Nat, n = Len(s), n >= 1, NEW t, t = <<Minus>> \o s
  PROVE  /\ t \in Seq(Int) /\ Len(t) = n + 1 /\ t # <<>> /\ t # <<Minus>> /\ t[1] = Minus
         /\ Number(t) = s
  <1>0. Minus \in Int
    BY DEF Minus
  <1>1. PICK u : u = <<Minus>> /\ u \in Seq(Int) /\ Len(u) = 1 /\ u[1] = Minus
    <2>1. PICK c : c = Minus /\ c \in Int
      BY <1>0
    <2>2. <<c>> \in Seq(Int) /\ Len(<<c>>) = 1 /\ <<c>>[1] = c
      BY <2>1
    <2> QED
      BY <2>1, <2>2
  <1>2. /\ u \o s \in Seq(Int) /\ Len(u \o s) = Len(u) + Len(s)
        /\ \A i \in 1 .. Len(u) + Len(s) : (u \o s)[i] = IF i <= Len(u) THEN u[i] ELSE s[i - Len(u)]
    BY <1>1, ConcatProperties
  <1>3. /\ t = u \o s /\ t \in Seq(Int) /\ Len(t) = n + 1
        /\ \A i \in 1 .. n + 1 : t[i] = IF i <= 1 THEN u[i] ELSE s[i - 1]
    BY <1>1, <1>2
  <1>4. t[1] = Minus
    <2>1. 1 \in 1 .. n + 1
      OBVIOUS
    <2> QED
      BY <1>1, <1>3, <2>1
  <1>5. t # <<>> /\ t # <<Minus>>
    <2>1. Len(t) # 0 /\ Len(t) # 1
      BY <1>3
    <2> QED
      BY <1>1, <2>1
  <1>6. /\ Tail(t) \in Seq(Int) /\ Len(Tail(t)) = Len(t) - 1
        /\ \A i \in 1 .. Len(Tail(t)) : Tail(t)[i] = t[i + 1]
    BY <1>3, <1>5, HeadTailProperties
  <1>7. Tail(t) = s
    <2>1. Len(Tail(t)) = n
      BY <1>3, <1>6
    <2>2. ASSUME NEW i \in 1 .. n PROVE Tail(t)[i] = s[i]
      <3>1. i + 1 \in 1 .. n + 1 /\ ~(i + 1 <= 1) /\ (i + 1) - 1 = i
        OBVIOUS
      <3> QED
        BY <1>3, <1>6, <2>1, <3>1
    <2> QED
      BY <1>6, <2>1, <2>2, SeqEqual
  <1> QED
    BY <1>3, <1>4, <1>5, <1>7 DEF Number

LEMMA SignedComesBack ==
  ASSUME NEW i \in Signed
  PROVE  /\ CharValidSInt(SIntToChar(i)) /\ CharToSInt(SIntToChar(i)) = i
         /\ Len(SIntToChar(i)) < TextSize /\ SIntToChar(i) \in Seq(Int)
         /\ i = 0 => SIntToChar(i) = <<Zero>>
  <1>1. PICK h \in Nat : h >= 8 /\ Word = 2 * h /\ Word \div 2 = h /\ Signed = -h .. h - 1
    BY SignedIs
  <1>2. i \in Int /\ -h <= i /\ i < h
    BY <1>1
  <1>3. PICK m \in Nat : m = (IF i < 0 THEN -i ELSE i) /\ m <= h
    BY <1>2
  <1>4. SIntToChar(i) = (IF i < 0 THEN <<Minus>> ELSE <<>>) \o Numeral(Digits(m))
    <2>1. CASE i < 0
      <3>1. ~(i >= 0) /\ -i = m
        BY <1>2, <1>3, <2>1
      <3> QED
        BY <2>1, <3>1 DEF SIntToChar
    <2>2. CASE ~(i < 0)
      <3>1. i >= 0 /\ m = i
        BY <1>2, <1>3, <2>2
      <3>2. PICK x : x = -i /\ x \in Signed /\ x \in Int /\ -x = m
        BY <1>1, <1>2, <3>1
      <3>3. AsSigned(x) = x
        <4>1. AsSigned(x) \in Signed /\ Congruent(AsSigned(x), x)
          BY <3>2, AsSignedIs
        <4> QED
          BY <3>2, <4>1, SignedAreFew
      <3>4. AsSigned(-i) = x
        BY <3>2, <3>3
      <3> QED
        BY <2>2, <3>1, <3>2, <3>4 DEF SIntToChar
    <2> QED
      BY <2>1, <2>2
  <1>5. PICK s \in Seq(Int), n \in Nat :
            /\ s = Numeral(Digits(m)) /\ n = Len(s) /\ n >= 1 /\ Shows(s, n, m)
            /\ n = 1 \/ \E k \in Nat : n = k + 1 /\ Power(10, k) <= m
            /\ m = 0 => s = <<Zero>>
    BY NumeralIs
  <1>6. TextSize \in Nat /\ TextSize >= 3 /\ n <= TextSize - 2
    <2>1. TextSize \in Nat /\ TextSize >= 3 /\ Power(10, TextSize - 2) > h
      BY <1>1, ConversionsAssumption
    <2>2. CASE n = 1
      BY <2>1, <2>2
    <2>3. ASSUME NEW k \in Nat, n = k + 1, Power(10, k) <= m PROVE n <= TextSize - 2
      <3>1. SUFFICES ASSUME n > TextSize - 2 PROVE FALSE
        BY <2>1
      <3>2. PICK j \in Nat : j = TextSize - 2 /\ j <= k
        BY <2>1, <2>3, <3>1
      <3>3. Power(10, j) <= Power(10, k)
        BY <3>2, PowerGrows
      <3>4. Power(10, j) \in Nat /\ Power(10, k) \in Nat
        BY <3>2, TenPowers
      <3>5. Power(10, j) > h
        BY <2>1, <3>2
      <3> QED
        BY <1>3, <2>3, <3>3, <3>4, <3>5
    <2> QED
      BY <1>5, <2>1, <2>2, <2>3
  <1>7. /\ s # <<>> /\ s # <<Minus>> /\ s[1] # Minus /\ Number(s) = s /\ DOMAIN s = 1 .. n
        /\ \A k \in 1 .. n : UCharToInt(s[k]) # -1
    BY <1>5, DigitsOnly
  <1>8. PICK t : /\ t = SIntToChar(i) /\ t \in Seq(Int) /\ t # <<>> /\ t # <<Minus>> /\ Number(t) = s /\ (t[1] = Minus <=> i < 0)
                 /\ (IF i < 0 THEN Len(t) = n + 1 ELSE Len(t) = n) /\ (i = 0 => t = <<Zero>>)
    <2>1. CASE i < 0
      <3>1. PICK t : t = SIntToChar(i) /\ t = <<Minus>> \o s
        BY <1>4, <1>5, <2>1
      <3>2. t \in Seq(Int) /\ Len(t) = n + 1 /\ t # <<>> /\ t # <<Minus>> /\ t[1] = Minus /\ Number(t) = s
        BY <1>5, <3>1, SignedText
      <3>3. i # 0
        BY <1>2, <2>1
      <3> QED
        BY <2>1, <3>1, <3>2, <3>3
    <2>2. CASE ~(i < 0)
      <3>1. SIntToChar(i) = <<>> \o s
        BY <1>4, <1>5, <2>2
      <3>2. <<>> \o s = s
        BY ConcatEmptySeq
      <3>3. i = 0 => s = <<Zero>>
        BY <1>3, <1>5
      <3> QED
        BY <1>5, <1>7, <2>2, <3>1, <3>2, <3>3
    <2> QED
      BY <2>1, <2>2
  <1>9. Len(t) < TextSize /\ Len(t) - 1 <= TextSize - 2
    BY <1>6, <1>8
  <1>10. CharValidSInt(t)
    BY <1>7, <1>8, <1>9 DEF CharValidSInt
  <1>11. CharToSInt(t) = AsSigned(IF t[1] = Minus THEN -m ELSE m)
    BY <1>5, <1>7, <1>8, TextRead
  <1>12. (IF t[1] = Minus THEN -m ELSE m) = i
    BY <1>2, <1>3, <1>8
  <1>13. AsSigned(i) = i
    <2>1. AsSigned(i) \in Signed /\ Congruent(AsSigned(i), i)
      BY <1>2, AsSignedIs
    <2> QED
      BY <2>1, SignedAreFew
  <1> QED
    BY <1>8, <1>9, <1>10, <1>11, <1>12, <1>13

\* A text of n digits shows a number below 10^n.
LEMMA ShownBelow ==
  ASSUME NEW t, NEW n \in Nat, NEW m, Shows(t, n, m)
  PROVE  m \in Int /\ m < Power(10, n)
  <1>1. PICK h : Values(h, t, n) /\ h[n] = m
    BY DEF Shows
  <1>2. /\ h \in [0 .. n -> Int] /\ h[0] = 0
        /\ \A k \in 1 .. n : t[k] \in 48 .. 57 /\ h[k] = 10 * h[k - 1] + (t[k] - 48)
    BY <1>1 DEF Values
  <1>3. \A k \in Nat : Power(10, k) \in Nat /\ Power(10, k + 1) = 10 * Power(10, k)
    BY TenPowers
  <1>4. Power(10, 0) = 1
    BY PowerNext
  <1> DEFINE S == {k \in Nat : k <= n /\ ~(h[k] < Power(10, k))}
  <1>5. S = {}
    <2> SUFFICES ASSUME S # {} PROVE FALSE
      OBVIOUS
    <2>0. S \in SUBSET Nat
      OBVIOUS
    <2>1. PICK k \in S : \A y \in S : k <= y
      BY <2>0, LeastNat
    <2>2. k \in Nat /\ k <= n /\ ~(h[k] < Power(10, k))
      OBVIOUS
    <2>3. k # 0
      BY <1>2, <1>4, <2>2
    <2>4. PICK j \in Nat : k = j + 1 /\ j <= n /\ j \notin S
      <3>1. k - 1 \in Nat /\ k = (k - 1) + 1 /\ k - 1 <= n /\ k - 1 \notin S
        BY <2>1, <2>2, <2>3
      <3> QED
        BY <3>1
    <2>5. PICK x \in Int, p \in Nat : x = h[j] /\ p = Power(10, j) /\ x < p
      <3>1. j \in 0 .. n
        BY <2>4
      <3>2. h[j] \in Int /\ Power(10, j) \in Nat /\ h[j] < Power(10, j)
        BY <1>2, <1>3, <2>4, <3>1
      <3> QED
        BY <3>2
    <2>6. k \in 1 .. n /\ k - 1 = j
      BY <2>2, <2>4
    <2>7. PICK c \in 48 .. 57 : c = t[k]
      BY <1>2, <2>6
    <2>8. h[k] = 10 * x + (c - 48) /\ Power(10, k) = 10 * p
      BY <1>2, <1>3, <2>4, <2>5, <2>6, <2>7
    <2>9. 10 * x + (c - 48) < 10 * p
      BY <2>5
    <2> QED
      BY <2>2, <2>8, <2>9
  <1>6. n \notin S /\ n \in 0 .. n
    BY <1>5
  <1> QED
    BY <1>1, <1>2, <1>6

\* The digits of a number fit the buffer if there are not too many.
LEMMA UnsignedFits ==
  ASSUME NEW i \in Nat
  PROVE  /\ Len(UIntToChar(i)) \in Nat
         /\ Len(UIntToChar(i)) < TextSize <=> i < Power(10, TextSize - 1)
  <1>1. PICK s \in Seq(Int), n \in Nat :
            /\ s = Numeral(Digits(i)) /\ n = Len(s) /\ n >= 1 /\ Shows(s, n, i)
            /\ n = 1 \/ \E k \in Nat : n = k + 1 /\ Power(10, k) <= i
    BY NumeralIs
  <1>2. PICK m \in Nat : m = TextSize - 1 /\ m >= 2 /\ TextSize = m + 1
    <2>1. TextSize \in Nat /\ TextSize >= 3
      BY ConversionsAssumption
    <2> QED
      BY <2>1
  <1>3. UIntToChar(i) = s
    BY <1>1 DEF UIntToChar
  <1>4. i < Power(10, n) /\ Power(10, n) \in Nat /\ Power(10, m) \in Nat
    BY <1>1, ShownBelow, TenPowers
  <1>5. n <= m => i < Power(10, m)
    <2> SUFFICES ASSUME n <= m PROVE i < Power(10, m)
      OBVIOUS
    <2>1. Power(10, n) <= Power(10, m)
      BY PowerGrows
    <2> QED
      BY <1>4, <2>1
  <1>6. n > m => i >= Power(10, m)
    <2> SUFFICES ASSUME n > m PROVE i >= Power(10, m)
      OBVIOUS
    <2>1. PICK k \in Nat : n = k + 1 /\ Power(10, k) <= i
      BY <1>1, <1>2
    <2>2. Power(10, m) <= Power(10, k) /\ Power(10, k) \in Nat
      BY <2>1, PowerGrows, TenPowers
    <2> QED
      BY <1>4, <2>1, <2>2
  <1>7. n < TextSize <=> n <= m
    BY <1>2
  <1>8. n < TextSize <=> i < Power(10, m)
    BY <1>4, <1>5, <1>6, <1>7
  <1> QED
    BY <1>1, <1>2, <1>3, <1>8

\* Every number of the word has room.
LEMMA WordFits == Word <= Power(10, TextSize - 1) /\ Power(10, TextSize - 1) \in Nat
  <1>1. PICK h \in Nat : h >= 8 /\ Word = 2 * h /\ Word \div 2 = h
    BY WordIs
  <1>2. PICK k \in Nat : k = TextSize - 2 /\ TextSize - 1 = k + 1 /\ Power(10, k) > h
    <2>1. TextSize \in Nat /\ TextSize >= 3 /\ Power(10, TextSize - 2) > h
      BY <1>1, ConversionsAssumption
    <2>2. TextSize - 2 \in Nat /\ TextSize - 1 = (TextSize - 2) + 1
      BY <2>1
    <2> QED
      BY <2>1, <2>2
  <1>3. PICK p \in Nat : p = Power(10, k) /\ Power(10, k + 1) = 10 * p
    BY TenPowers
  <1> QED
    BY <1>1, <1>2, <1>3

LEMMA UnsignedComesBack ==
  ASSUME NEW i \in Nat PROVE CharToSInt(UIntToChar(i)) = AsSigned(i)
  <1>1. PICK s \in Seq(Int), n \in Nat :
            s = Numeral(Digits(i)) /\ n = Len(s) /\ n >= 1 /\ Shows(s, n, i)
    BY NumeralIs
  <1>2. s # <<>> /\ s # <<Minus>> /\ s[1] # Minus /\ Number(s) = s /\ DOMAIN s = 1 .. n
    BY <1>1, DigitsOnly
  <1>3. CharToSInt(s) = AsSigned(IF s[1] = Minus THEN -i ELSE i)
    BY <1>1, <1>2, TextRead
  <1>4. UIntToChar(i) = s
    BY <1>1 DEF UIntToChar
  <1> QED
    BY <1>2, <1>3, <1>4

(***************************************************************************)
(* The value of a text.                                                    *)
(***************************************************************************)

\* The rounds of Reading.
ReadRuns(h, t, n, base) ==
    h = [k \in 0 .. n |-> IF k = 0 THEN 0 ELSE base * h[k - 1] + DigitOf(t[k])]

\* The values of the first digits of t.
ReadsTo(h, t, n, base) ==
    /\ h \in [0 .. n -> Int] /\ h[0] = 0
    /\ \A k \in 1 .. n : h[k] = base * h[k - 1] + DigitOf(t[k])

\* Every one of the n characters of t has a value as a digit.
DigitsIn(t, n) == n \in Nat /\ n = Len(t) /\ \A k \in 1 .. n : DigitOf(t[k]) \in Int

LEMMA ReadingIs ==
  ASSUME NEW t, NEW n, DigitsIn(t, n), NEW base \in Nat
  PROVE  \E h : ReadsTo(h, t, n, base) /\ Reading(t, base) = h[n]
  <1>0. n \in Nat /\ n = Len(t) /\ \A k \in 1 .. n : DigitOf(t[k]) \in Int
    BY DEF DigitsIn
  <1> DEFINE value == CHOOSE v : v = [k \in 0 .. n |->
                IF k = 0 THEN 0 ELSE base * v[k - 1] + DigitOf(t[k])]
  <1>1. Reading(t, base) = value[n]
    BY <1>0 DEF Reading
  <1>2. \E h \in [0 .. n -> Int] : ReadRuns(h, t, n, base)
    <2> DEFINE F == [p \in Int \X (1 .. n) |-> base * p[1] + DigitOf(t[p[2]])]
    <2>1. F \in [Int \X (1 .. n) -> Int]
          /\ \A x \in Int, k \in 1 .. n : F[<<x, k>>] = base * x + DigitOf(t[k])
      <3>1. ASSUME NEW p \in Int \X (1 .. n) PROVE base * p[1] + DigitOf(t[p[2]]) \in Int
        <4>1. p[1] \in Int /\ p[2] \in 1 .. n
          OBVIOUS
        <4>2. PICK a \in Int, c \in Int : a = p[1] /\ c = DigitOf(t[p[2]])
          BY <1>0, <4>1
        <4> QED
          BY <4>2
      <3>2. ASSUME NEW x \in Int, NEW k \in 1 .. n PROVE F[<<x, k>>] = base * x + DigitOf(t[k])
        OBVIOUS
      <3> QED
        BY <3>1, <3>2
    <2> HIDE DEF F
    <2>2. PICK w \in [0 .. n -> Int] : Rounds(w, 0, F, n)
      <3>1. Steps(Int, 0, F, n)
        BY <1>0, <2>1 DEF Steps
      <3> QED
        BY <3>1, RoundsExist
    <2>3. ASSUME NEW k \in 0 .. n
          PROVE  w[k] = IF k = 0 THEN 0 ELSE base * w[k - 1] + DigitOf(t[k])
      <3>1. w[k] = IF k = 0 THEN 0 ELSE F[<<w[k - 1], k>>]
        BY <2>2 DEF Rounds
      <3>2. k # 0 => k \in 1 .. n /\ w[k - 1] \in Int
        BY <1>0
      <3> QED
        BY <2>1, <3>1, <3>2
    <2>4. w = [k \in 0 .. n |-> w[k]]
      OBVIOUS
    <2>5. ReadRuns(w, t, n, base)
      BY <2>3, <2>4 DEF ReadRuns
    <2> QED
      BY <2>5
  <1>3. ReadRuns(value, t, n, base)
    BY <1>2 DEF ReadRuns
  <1>4. PICK h \in [0 .. n -> Int] : ReadRuns(h, t, n, base)
    BY <1>2
  <1> HIDE DEF value
  <1>5. \A k \in 0 .. n : value[k] = h[k]
    <2> DEFINE S == {k \in Nat : k <= n /\ value[k] # h[k]}
    <2>1. S = {}
      <3> SUFFICES ASSUME S # {} PROVE FALSE
        OBVIOUS
      <3>0. S \in SUBSET Nat
        OBVIOUS
      <3>1. PICK k \in S : \A y \in S : k <= y
        BY <3>0, LeastNat
      <3>2. k \in Nat /\ k <= n /\ value[k] # h[k] /\ k \in 0 .. n
        BY <1>0
      <3>3. /\ value[k] = IF k = 0 THEN 0 ELSE base * value[k - 1] + DigitOf(t[k])
            /\ h[k] = IF k = 0 THEN 0 ELSE base * h[k - 1] + DigitOf(t[k])
        <4>1. value[k] = IF k = 0 THEN 0 ELSE base * value[k - 1] + DigitOf(t[k])
          BY <1>3, <3>2 DEF ReadRuns
        <4>2. h[k] = IF k = 0 THEN 0 ELSE base * h[k - 1] + DigitOf(t[k])
          BY <1>4, <3>2 DEF ReadRuns
        <4> QED
          BY <4>1, <4>2
      <3>4. k # 0
        BY <3>2, <3>3
      <3>5. k - 1 \in Nat /\ k - 1 <= n /\ k - 1 \notin S
        BY <1>0, <3>1, <3>2, <3>4
      <3>6. value[k - 1] = h[k - 1]
        BY <3>5
      <3> QED
        BY <3>2, <3>3, <3>4, <3>6
    <2> QED
      BY <1>0, <2>1
  <1>6. Reading(t, base) = h[n]
    BY <1>0, <1>1, <1>5
  <1>7. ReadsTo(h, t, n, base)
    <2>1. h[0] = 0
      BY <1>0, <1>4 DEF ReadRuns
    <2>2. ASSUME NEW k \in 1 .. n PROVE h[k] = base * h[k - 1] + DigitOf(t[k])
      <3>1. k \in 0 .. n /\ k # 0
        BY <1>0
      <3> QED
        BY <1>4, <3>1 DEF ReadRuns
    <2> QED
      BY <1>4, <2>1, <2>2 DEF ReadsTo
  <1> QED
    BY <1>6, <1>7

(***************************************************************************)
(* Hex digits.                                                             *)
(***************************************************************************)
\* A number has one quotient by m.
LEMMA SameQuotient ==
  ASSUME NEW m \in Nat, NEW y \in Int, NEW a \in Int, NEW r \in Int, NEW s \in Int,
         m * y + r = m * a + s, 0 <= r, r < m, 0 <= s, s < m
  PROVE  y = a
  <1>1. ASSUME NEW d \in Int, d >= 1 PROVE m * d >= m
    BY <1>1, SMT
  <1>2. CASE y < a
    <2>1. PICK d \in Int : d = a - y /\ d >= 1 /\ a = y + d
      BY <1>2
    <2>2. PICK u \in Int, v \in Int : u = m * y /\ v = m * d
      OBVIOUS
    <2>3. m * a = u + v
      BY <2>1, <2>2, SMT
    <2>4. v >= m
      BY <1>1, <2>1, <2>2
    <2> QED
      BY <2>2, <2>3, <2>4
  <1>3. CASE a < y
    <2>1. PICK d \in Int : d = y - a /\ d >= 1 /\ y = a + d
      BY <1>3
    <2>2. PICK u \in Int, v \in Int : u = m * a /\ v = m * d
      OBVIOUS
    <2>3. m * y = u + v
      BY <2>1, <2>2, SMT
    <2>4. v >= m
      BY <1>1, <2>1, <2>2
    <2> QED
      BY <2>2, <2>3, <2>4
  <1> QED
    BY <1>2, <1>3

\* The values of two neighbouring places.
SixteenTimes(m, p) == p \in Nat /\ p > 0 /\ m = 16 * p

LEMMA DividedTwice ==
  ASSUME NEW x \in Nat, NEW p, NEW m, SixteenTimes(m, p)
  PROVE  x \div p \in Nat /\ x \div p = 16 * (x \div m) + ((x \div p) % 16)
  <1>0. p \in Nat /\ p > 0 /\ m \in Nat /\ m > 0
    BY DEF SixteenTimes
  <1>p. m = 16 * p
    BY DEF SixteenTimes
  <1>1. PICK q \in Int, r \in Int : q = x \div p /\ x = p * q + r /\ 0 <= r /\ r < p
    <2>1. x = p * (x \div p) + (x % p) /\ x \div p \in Int /\ x % p \in Int /\ 0 <= x % p /\ x % p < p
      BY <1>0, SMT
    <2> QED
      BY <2>1
  <1>2. q >= 0
    <2> SUFFICES ASSUME q < 0 PROVE FALSE
      OBVIOUS
    <2>1. PICK d \in Nat : q = -d /\ d >= 1
      BY <1>1
    <2>2. PICK v \in Int : v = p * d /\ v >= p
      BY <1>0, <2>1, SMT
    <2>3. p * q = -v
      BY <1>0, <1>1, <2>1, <2>2, SMT
    <2> QED
      BY <1>0, <1>1, <2>2, <2>3, p * q \in Int
  <1>3. PICK a \in Int, b \in Int : a = q \div 16 /\ b = q % 16 /\ q = 16 * a + b /\ 0 <= b /\ b < 16
    BY <1>1
  <1>4. PICK y \in Int, s \in Int : y = x \div m /\ x = m * y + s /\ 0 <= s /\ s < m
    <2>2. x = m * (x \div m) + (x % m) /\ x \div m \in Int /\ x % m \in Int /\ 0 <= x % m /\ x % m < m
      BY <1>0, SMT
    <2> QED
      BY <2>2
  <1>5. PICK e \in Int : e = p * b /\ 0 <= e /\ e <= 15 * p
    BY <1>0, <1>3, SMT
  <1>6. p * q = m * a + e
    <2>1. PICK u \in Int : u = p * a
      BY <1>0
    <2>2. m * a = 16 * u
      BY <1>0, <1>p, <1>3, <2>1, SMT
    <2>3. p * q = 16 * u + e
      BY <1>0, <1>3, <1>5, <2>1, SMT
    <2> QED
      BY <2>2, <2>3
  <1>7. PICK r2 \in Int : r2 = e + r /\ 0 <= r2 /\ r2 < m
    BY <1>0, <1>p, <1>1, <1>5
  <1>8. m * y + s = m * a + r2
    <2>1. PICK u \in Int, v \in Int, f \in Int : u = m * a /\ v = m * y /\ f = p * q
      BY <1>0
    <2>2. x = v + s /\ x = f + r /\ f = u + e
      BY <1>1, <1>4, <1>6, <2>1
    <2>3. v + s = u + r2
      BY <1>7, <2>2
    <2> QED
      BY <2>1, <2>3
  <1>9. y = a
    <2>1. 0 <= s /\ s < m /\ 0 <= r2 /\ r2 < m
      BY <1>4, <1>7
    <2> QED
      BY <1>0, <1>8, <2>1, SameQuotient
  <1>10. q \in Nat
    BY <1>2
  <1>11. q = 16 * y + (q % 16)
    <2>1. q = 16 * y + b
      BY <1>3, <1>9
    <2>2. b = q % 16
      BY <1>3
    <2> QED
      BY <2>1, <2>2
  <1> QED
    BY <1>1, <1>4, <1>10, <1>11

LEMMA HexDigitOf == ASSUME NEW d \in 0 .. 15 PROVE DigitOf(HexDigit(d)) = d
  <1>1. CASE d < 10
    <2>1. PICK c \in Int : c = HexDigit(d) /\ c = 48 + d
      BY <1>1 DEF HexDigit, Zero
    <2> QED
      BY <1>1, <2>1 DEF DigitOf, Zero
  <1>2. CASE ~(d < 10)
    <2>1. PICK c \in Int : c = HexDigit(d) /\ c = 55 + d
      BY <1>2 DEF HexDigit
    <2> QED
      BY <1>2, <2>1 DEF DigitOf, Zero
  <1> QED
    BY <1>1, <1>2

LEMMA SixteenPowers ==
  \A k \in Nat : /\ Power(16, k) \in Nat /\ Power(16, k) > 0
                 /\ Power(16, 0) = 1 /\ Power(16, k + 1) = 16 * Power(16, k)
  BY PowerNext

LEMMA HexComesBack ==
  ASSUME NEW num \in Unsigned PROVE HexValueOf(UInt32ToHex(num)) = num
  <1>1. PICK n : n \in Nat /\ n > 0 /\ Nibbles = n /\ Word = Power(16, n)
    BY ConversionsAssumption
  <1>2. num \in Nat /\ num < Word /\ Word \in Nat
    BY WordIs DEF Unsigned
  <1> DEFINE P(k) == Power(16, n - k)
             D(k) == (num \div P(k)) % 16
  <1>3. ASSUME NEW k \in 0 .. n PROVE P(k) \in Nat /\ P(k) > 0
    <2>1. PICK j : j = n - k /\ j \in Nat
      BY <1>1
    <2> QED
      BY <2>1, SixteenPowers
  <1>4. ASSUME NEW k \in 1 .. n PROVE SixteenTimes(P(k - 1), P(k))
    <2>1. PICK j : j = n - k /\ j \in Nat /\ n - (k - 1) = j + 1
      BY <1>1
    <2>2. Power(16, j + 1) = 16 * Power(16, j) /\ Power(16, j) \in Nat /\ Power(16, j) > 0
      BY <2>1, SixteenPowers
    <2> QED
      BY <2>1, <2>2 DEF SixteenTimes
  <1>5. ASSUME NEW k \in 0 .. n PROVE num \div P(k) \in Int
    <2>1. PICK p : p = P(k) /\ p \in Nat /\ p > 0
      BY <1>3
    <2>2. num \div p \in Int
      BY <1>2, <2>1
    <2> QED
      BY <2>1, <2>2
  <1>6. ASSUME NEW k \in 1 .. n PROVE D(k) \in 0 .. 15
    <2>1. k \in 0 .. n
      BY <1>1
    <2>2. PICK q \in Int : q = num \div P(k)
      BY <1>5, <2>1
    <2>3. q % 16 \in 0 .. 15
      BY <2>2
    <2> QED
      BY <2>2, <2>3
  <1>7. PICK t : t = UInt32ToHex(num) /\ Len(t) = n /\ \A k \in 1 .. n : t[k] = HexDigit(D(k))
    <2>1. PICK t : t = [k \in 1 .. n |-> HexDigit(D(k))]
      OBVIOUS
    <2>2. t = UInt32ToHex(num)
      BY <1>1, <2>1 DEF UInt32ToHex
    <2>3. Len(t) = n
      BY <1>1, <2>1
    <2> QED
      BY <2>1, <2>2, <2>3
  <1>8. \A k \in 1 .. n : DigitOf(t[k]) = D(k) /\ DigitOf(t[k]) \in Int
    <2> SUFFICES ASSUME NEW k \in 1 .. n PROVE DigitOf(t[k]) = D(k) /\ DigitOf(t[k]) \in Int
      OBVIOUS
    <2>1. PICK d \in 0 .. 15 : d = D(k)
      BY <1>6
    <2>2. t[k] = HexDigit(d)
      BY <1>7, <2>1
    <2>3. DigitOf(HexDigit(d)) = d /\ d \in Int
      BY HexDigitOf
    <2> QED
      BY <2>1, <2>2, <2>3
  <1>9. PICK h : ReadsTo(h, t, n, 16) /\ HexValueOf(t) = h[n]
    <2>1. DigitsIn(t, n)
      BY <1>1, <1>7, <1>8 DEF DigitsIn
    <2>2. PICK b : b = 16 /\ b \in Nat
      OBVIOUS
    <2>3. PICK h : ReadsTo(h, t, n, b) /\ Reading(t, b) = h[n]
      BY <2>1, <2>2, ReadingIs
    <2> QED
      BY <2>2, <2>3 DEF HexValueOf
  <1>10. ASSUME NEW k \in 1 .. n PROVE num \div P(k) = 16 * (num \div P(k - 1)) + D(k)
    BY <1>2, <1>4, DividedTwice
  <1>11. num \div P(0) = 0
    <2>1. PICK w : w = Word /\ w = P(0) /\ w \in Nat /\ num < w
      <3>1. n - 0 = n
        BY <1>1
      <3> QED
        BY <1>1, <1>2, <3>1
    <2>2. num \div w = 0
      BY <1>2, <2>1, SMT
    <2> QED
      BY <2>1, <2>2
  <1>12. num \div P(n) = num
    <2>1. n - n = 0
      BY <1>1
    <2>2. P(n) = 1
      BY <2>1, SixteenPowers
    <2> QED
      BY <1>2, <2>2
  <1>13. \A k \in 0 .. n : h[k] = num \div P(k)
    <2> DEFINE S == {k \in Nat : k <= n /\ h[k] # num \div P(k)}
    <2>1. S = {}
      <3> SUFFICES ASSUME S # {} PROVE FALSE
        OBVIOUS
      <3>0. S \in SUBSET Nat
        OBVIOUS
      <3>1. PICK k \in S : \A y \in S : k <= y
        BY <3>0, LeastNat
      <3>2. k \in Nat /\ k <= n /\ h[k] # num \div P(k)
        OBVIOUS
      <3>3. k # 0
        BY <1>9, <1>11, <3>2 DEF ReadsTo
      <3>4. k - 1 \in Nat /\ k - 1 <= n /\ k - 1 \notin S /\ k \in 1 .. n
        BY <1>1, <3>1, <3>2, <3>3
      <3>5. h[k - 1] = num \div P(k - 1)
        BY <3>4
      <3>6. h[k] = 16 * h[k - 1] + DigitOf(t[k])
        BY <1>9, <3>4 DEF ReadsTo
      <3>7. DigitOf(t[k]) = D(k)
        BY <1>8, <3>4
      <3>8. num \div P(k) = 16 * (num \div P(k - 1)) + D(k)
        BY <1>10, <3>4
      <3> HIDE DEF P, D, S
      <3> QED
        BY <3>2, <3>5, <3>6, <3>7, <3>8
    <2> QED
      BY <1>1, <2>1
  <1> QED
    BY <1>1, <1>7, <1>9, <1>12, <1>13

(***************************************************************************)
(* Whole floats.                                                           *)
(***************************************************************************)
LEMMA NothingToScale == ASSUME NEW n \in Nat PROVE Scaled(0, n) = 0
  <1> DEFINE after == CHOOSE v : v = [i \in 0 .. n |->
                IF i = 0 THEN 0
                ELSE IF v[i - 1] % Parts = 0 THEN v[i - 1] ELSE 10 * v[i - 1]]
  <1>1. Scaled(0, n) = after[n]
    BY DEF Scaled
  <1>2. 0 % Parts = 0
    <2>1. PICK m : m = Parts /\ m \in Nat /\ m > 0
      BY ConversionsAssumption
    <2>2. 0 % m = 0
      BY <2>1, SMT
    <2> QED
      BY <2>1, <2>2
  <1>3. \E v : v = [i \in 0 .. n |->
                IF i = 0 THEN 0
                ELSE IF v[i - 1] % Parts = 0 THEN v[i - 1] ELSE 10 * v[i - 1]]
    <2>1. PICK v : v = [i \in 0 .. n |-> 0]
      OBVIOUS
    <2>2. ASSUME NEW i \in 0 .. n
          PROVE  0 = IF i = 0 THEN 0 ELSE IF v[i - 1] % Parts = 0 THEN v[i - 1] ELSE 10 * v[i - 1]
      <3>1. i # 0 => v[i - 1] = 0
        BY <2>1
      <3> QED
        BY <1>2, <3>1
    <2>3. v = [i \in 0 .. n |->
                IF i = 0 THEN 0
                ELSE IF v[i - 1] % Parts = 0 THEN v[i - 1] ELSE 10 * v[i - 1]]
      BY <2>1, <2>2
    <2> QED
      BY <2>3
  <1>4. after = [i \in 0 .. n |->
                IF i = 0 THEN 0
                ELSE IF after[i - 1] % Parts = 0 THEN after[i - 1] ELSE 10 * after[i - 1]]
    BY <1>3
  <1> HIDE DEF after
  <1>5. \A i \in 0 .. n : after[i] = 0
    <2> DEFINE S == {k \in Nat : k <= n /\ after[k] # 0}
    <2>1. S = {}
      <3> SUFFICES ASSUME S # {} PROVE FALSE
        OBVIOUS
      <3>0. S \in SUBSET Nat
        OBVIOUS
      <3>1. PICK k \in S : \A y \in S : k <= y
        BY <3>0, LeastNat
      <3>2. k \in Nat /\ k <= n /\ after[k] # 0 /\ k \in 0 .. n
        OBVIOUS
      <3>3. after[k] = IF k = 0 THEN 0
                       ELSE IF after[k - 1] % Parts = 0 THEN after[k - 1] ELSE 10 * after[k - 1]
        BY <1>4, <3>2
      <3>4. k # 0
        BY <3>2, <3>3
      <3>5. k - 1 \in Nat /\ k - 1 <= n /\ k - 1 \notin S
        BY <3>1, <3>2, <3>4
      <3>6. after[k - 1] = 0
        BY <3>5
      <3> QED
        BY <1>2, <3>2, <3>3, <3>4, <3>6
    <2> QED
      BY <2>1
  <1> QED
    BY <1>1, <1>5

\* num / Parts is whole, and among those that are tried.
WholeFloat(num) == num \in Nat /\ num < 4 * Parts /\ num % Parts = 0

LEMMA WholeFloats ==
  ASSUME NEW num, WholeFloat(num), NEW precision \in {2, 3}
  PROVE  SFloatToChar(num, precision, FALSE) = SIntToChar(num \div Parts) \o <<Point, Zero>>
  <1>1. PICK m : m = Parts /\ m \in Nat /\ m > 0
    BY ConversionsAssumption
  <1>2. PICK turns \in Nat : turns = precision + IF FALSE THEN 1 ELSE 0
    OBVIOUS
  <1>3. num % Parts = 0
    BY DEF WholeFloat
  <1>4. Scaled(num % Parts, precision + IF FALSE THEN 1 ELSE 0) = 0
    BY <1>2, <1>3, NothingToScale
  <1>5. 0 \div Parts = 0
    <2>1. 0 \div m = 0
      BY <1>1, SMT
    <2> QED
      BY <1>1, <2>1
  <1>6. SFloatToChar(num, precision, FALSE) = SIntToChar(num \div Parts) \o <<Point>> \o SIntToChar(0)
    BY <1>4, <1>5 DEF SFloatToChar
  <1>7. PICK h \in Nat : h >= 8 /\ Signed = -h .. h - 1
    BY SignedIs
  <1>8. SIntToChar(0) = <<Zero>>
    <2>1. PICK i : i = 0 /\ i \in Signed
      BY <1>7
    <2> QED
      BY <2>1, SignedComesBack
  <1>9. PICK q : q = num \div Parts /\ q \in Signed
    <2>1. num \in Nat /\ num < 4 * m
      BY <1>1 DEF WholeFloat
    <2>2. PICK q \in Int, r \in Int : q = num \div m /\ num = m * q + r /\ 0 <= r /\ r < m
      <3>1. num = m * (num \div m) + (num % m) /\ num \div m \in Int /\ num % m \in Int
            /\ 0 <= num % m /\ num % m < m
        BY <1>1, <2>1, SMT
      <3> QED
        BY <3>1
    <2>3. q >= 0
      <3> SUFFICES ASSUME q < 0 PROVE FALSE
        OBVIOUS
      <3>1. PICK d \in Nat : q = -d /\ d >= 1
        <4>1. -q \in Nat /\ q = -(-q) /\ -q >= 1
          OBVIOUS
        <4> QED
          BY <4>1
      <3>2. PICK v \in Int : v = m * d /\ v >= m
        BY <1>1, <3>1, SMT
      <3>3. m * q = -v
        BY <1>1, <2>2, <3>1, <3>2, SMT
      <3> QED
        BY <1>1, <2>1, <2>2, <3>2, <3>3
    <2>4. q < 4
      <3> SUFFICES ASSUME q >= 4 PROVE FALSE
        BY <2>2
      <3>1. PICK d \in Nat : q = 4 + d
        <4>1. q - 4 \in Nat /\ q = 4 + (q - 4)
          BY <2>2
        <4> QED
          BY <4>1
      <3>2. PICK v \in Nat : v = m * d
        BY <1>1, SMT
      <3>3. m * q = 4 * m + v
        BY <1>1, <2>2, <3>1, <3>2, SMT
      <3> QED
        BY <1>1, <2>1, <2>2, <3>2, <3>3
    <2> QED
      BY <1>1, <1>7, <2>2, <2>3, <2>4
  <1>10. PICK s : s = SIntToChar(q) /\ s \in Seq(Int)
    BY <1>9, SignedComesBack
  <1>11. PICK a, b, c : a = <<Point>> /\ b = <<Zero>> /\ c = <<Point, Zero>> /\ a \in Seq(Int)
                        /\ b \in Seq(Int) /\ a \o b = c
    <2>1. PICK p, z : p = Point /\ z = Zero /\ p \in Int /\ z \in Int
      BY DEF Point, Zero
    <2>2. PICK a : a = <<p>> /\ a \in Seq(Int) /\ Len(a) = 1 /\ a[1] = p
      <3>1. <<p>> \in Seq(Int) /\ Len(<<p>>) = 1 /\ <<p>>[1] = p
        BY <2>1
      <3> QED
        BY <3>1
    <2>3. PICK b : b = <<z>> /\ b \in Seq(Int) /\ Len(b) = 1 /\ b[1] = z
      <3>1. <<z>> \in Seq(Int) /\ Len(<<z>>) = 1 /\ <<z>>[1] = z
        BY <2>1
      <3> QED
        BY <3>1
    <2>4. PICK c : c = <<p, z>> /\ c \in Seq(Int) /\ Len(c) = 2 /\ c[1] = p /\ c[2] = z
      <3>1. /\ <<p, z>> \in Seq(Int) /\ Len(<<p, z>>) = 2
            /\ <<p, z>>[1] = p /\ <<p, z>>[2] = z
        BY <2>1
      <3> QED
        BY <3>1
    <2>5. /\ a \o b \in Seq(Int) /\ Len(a \o b) = Len(a) + Len(b)
          /\ \A i \in 1 .. Len(a) + Len(b) : (a \o b)[i] = IF i <= Len(a) THEN a[i] ELSE b[i - Len(a)]
      BY <2>2, <2>3, ConcatProperties
    <2>6. Len(a) + Len(b) = 2 /\ 1 \in 1 .. 2 /\ 2 \in 1 .. 2 /\ 1 <= 1 /\ ~(2 <= 1) /\ 2 - 1 = 1
      BY <2>2, <2>3
    <2>7. (a \o b)[1] = c[1] /\ (a \o b)[2] = c[2]
      BY <2>2, <2>3, <2>4, <2>5, <2>6
    <2>8. \A i \in 1 .. 2 : i = 1 \/ i = 2
      OBVIOUS
    <2>9. a \o b = c
      BY <2>4, <2>5, <2>6, <2>7, <2>8, SeqEqual
    <2> QED
      BY <2>1, <2>2, <2>3, <2>4, <2>9
  <1>12. (s \o a) \o b = s \o c
    <2>1. (s \o a) \o b = s \o (a \o b)
      BY <1>10, <1>11, ConcatAssociative
    <2> QED
      BY <1>11, <2>1
  <1> QED
    BY <1>6, <1>8, <1>9, <1>10, <1>11, <1>12

(***************************************************************************)
(* Typed texts.                                                            *)
(***************************************************************************)
\* What a user can have typed.
TypedText(t) == t \in Seq(Int) /\ Len(t) <= TextSize

LEMMA TypedTexts ==
  ASSUME NEW t, TypedText(t)
  PROVE  IF CharValidSInt(t) THEN CharToSInt(t) = ValueOf(t)
         ELSE Len(t) = TextSize \/ CharToSInt(t) = 0
  <1>0. t \in Seq(Int) /\ Len(t) <= TextSize /\ TextSize \in Nat /\ Len(t) \in Nat
    BY ConversionsAssumption DEF TypedText
  <1>1. CASE CharValidSInt(t)
    <2>1. /\ t # <<>> /\ t # <<Minus>>
          /\ \A k \in DOMAIN Number(t) : UCharToInt(Number(t)[k]) # -1
      BY <1>1 DEF CharValidSInt
    <2>2. PICK d : d = Number(t) /\ d \in Seq(Int)
      <3>1. Tail(t) \in Seq(Int)
        BY <1>0, <2>1, HeadTailProperties
      <3> QED
        BY <1>0, <3>1 DEF Number
    <2>3. PICK n \in Nat : n = Len(d) /\ DOMAIN d = 1 .. n
      BY <2>2
    <2>4. ASSUME NEW k \in 1 .. n
          PROVE  d[k] \in 48 .. 57 /\ DigitOf(d[k]) = d[k] - 48 /\ DigitOf(d[k]) \in Int
      <3>1. PICK c \in Int : c = d[k] /\ UCharToInt(c) # -1
        BY <2>1, <2>2, <2>3
      <3>2. ~(c > 57 \/ c < 48)
        BY <3>1 DEF UCharToInt
      <3>3. DigitOf(c) = c - 48
        BY <3>2 DEF DigitOf, Zero
      <3> QED
        BY <3>1, <3>2, <3>3
    <2>5. PICK b \in Nat : b = 10
      OBVIOUS
    <2>6. PICK h : ReadsTo(h, d, n, b) /\ Reading(d, b) = h[n]
      <3>1. DigitsIn(d, n)
        BY <2>3, <2>4 DEF DigitsIn
      <3> QED
        BY <3>1, ReadingIs
    <2>7. Values(h, d, n)
      <3>1. h \in [0 .. n -> Int] /\ h[0] = 0
        BY <2>6 DEF ReadsTo
      <3>2. ASSUME NEW k \in 1 .. n PROVE d[k] \in 48 .. 57 /\ h[k] = 10 * h[k - 1] + (d[k] - 48)
        <4>1. h[k] = b * h[k - 1] + DigitOf(d[k])
          BY <2>6 DEF ReadsTo
        <4> QED
          BY <2>4, <2>5, <4>1
      <3> QED
        BY <3>1, <3>2 DEF Values
    <2>8. PICK x : x = h[n] /\ Shows(d, n, x)
      BY <2>7 DEF Shows
    <2>9. CharToSInt(t) = AsSigned(IF t[1] = Minus THEN -x ELSE x)
      BY <2>1, <2>2, <2>3, <2>8, TextRead
    <2>10. ValueOf(t) = AsSigned(IF t[1] = Minus THEN -Reading(d, 10) ELSE Reading(t, 10))
      BY <2>2 DEF ValueOf
    <2>11. Reading(d, 10) = x /\ (t[1] # Minus => d = t)
      BY <2>2, <2>5, <2>6, <2>8 DEF Number
    <2>12. CharToSInt(t) = ValueOf(t)
      <3>1. CASE t[1] = Minus
        BY <2>9, <2>10, <2>11, <3>1
      <3>2. CASE t[1] # Minus
        BY <2>9, <2>10, <2>11, <3>2
      <3> QED
        BY <3>1, <3>2
    <2> QED
      BY <1>1, <2>12
  <1>2. CASE ~CharValidSInt(t)
    <2>1. \/ t = <<>> \/ t = <<Minus>> \/ ~(Len(t) - 1 <= TextSize - 2)
          \/ \E k \in DOMAIN Number(t) : UCharToInt(Number(t)[k]) = -1
      BY <1>2 DEF CharValidSInt
    <2>2. CASE ~(Len(t) - 1 <= TextSize - 2)
      BY <1>0, <1>2, <2>2
    <2>3. CASE \/ t = <<>> \/ t = <<Minus>>
               \/ \E k \in DOMAIN Number(t) : UCharToInt(Number(t)[k]) = -1
      <3>1. CharToSInt(t) = 0
        BY <2>3 DEF CharToSInt
      <3> QED
        BY <1>2, <3>1
    <2> QED
      BY <2>1, <2>2, <2>3
  <1> QED
    BY <1>1, <1>2

\* The text that was given or returned is the one of the call.
ConvInv ==
    /\ call = "none" => text = <<>>
    /\ call = "typed" => TypedText(text)
    /\ call = "signed" => number \in Signed /\ text = SIntToChar(number)
    /\ call = "unsigned" => /\ number \in Nat /\ text = UIntToChar(number)
                            /\ number < Power(10, TextSize - 1)
    /\ call = "spilled" => number >= Word /\ number >= Power(10, TextSize - 1)
    /\ call = "hex" => number \in Unsigned /\ text = UInt32ToHex(number)
    /\ call = "float" =>
            /\ number \in Nat /\ number < 4 * Parts
            /\ \E precision \in {2, 3} : text = SFloatToChar(number, precision, FALSE)

LEMMA EmptyTypedText == TypedText(<<>>)
  <1>1. <<>> \in Seq(Int) /\ Len(<<>>) = 0
    OBVIOUS
  <1>2. TextSize \in Nat /\ TextSize >= 3
    BY ConversionsAssumption
  <1> QED
    BY <1>1, <1>2 DEF TypedText

LEMMA ConvStep ==
  ASSUME ConvInv, [ConvNext]_convVars
  PROVE  ConvInv'
  <1>1. ASSUME NEW i \in Signed, ConvertSigned(i) PROVE ConvInv'
    <2>1. Len(SIntToChar(i)) < TextSize
      BY SignedComesBack
    <2>2. call' = "signed" /\ number' = i /\ text' = SIntToChar(i)
      BY <1>1, <2>1 DEF ConvertSigned, ConvertInBuffer, Convert
    <2> QED
      BY <2>2 DEF ConvInv
  <1>2. ASSUME NEW i \in Unsigned \cup LongNumbers, ConvertUnsigned(i) PROVE ConvInv'
    <2>1. PICK w \in Nat : w = Word
      BY WordIs
    <2>2. i \in Nat
      <3>1. CASE i \in Unsigned
        BY <2>1, <3>1 DEF Unsigned
      <3>2. CASE i \in LongNumbers
        <4>1. PICK v \in Nat : v = w * w
          BY SMT
        <4>2. i \in 0 .. v - 1
          BY <2>1, <3>2, <4>1, ConversionsAssumption
        <4> QED
          BY <4>2
      <3> QED
        BY <3>1, <3>2
    <2>3. PICK p \in Nat : p = Power(10, TextSize - 1) /\ w <= p
      BY <2>1, WordFits
    <2>4. Len(UIntToChar(i)) < TextSize <=> i < p
      BY <2>2, <2>3, UnsignedFits
    <2>5. CASE i < p
      <3>1. call' = "unsigned" /\ number' = i /\ text' = UIntToChar(i)
        BY <1>2, <2>4, <2>5 DEF ConvertUnsigned, ConvertInBuffer, Convert
      <3> QED
        BY <2>2, <2>3, <2>5, <3>1 DEF ConvInv
    <2>6. CASE ~(i < p)
      <3>1. call' = "spilled" /\ number' = i
        BY <1>2, <2>4, <2>6 DEF ConvertUnsigned, ConvertInBuffer, Convert
      <3>2. i >= w /\ i >= p
        BY <2>2, <2>3, <2>6
      <3> QED
        BY <2>1, <2>3, <3>1, <3>2 DEF ConvInv
    <2> QED
      BY <2>5, <2>6
  <1>3. CASE \E i \in Unsigned : ConvertHex(i)
    BY <1>3 DEF ConvertHex, Convert, ConvInv
  <1>4. ASSUME NEW i \in 0 .. 4 * Parts - 1, NEW precision \in {2, 3}, ConvertFloat(i, precision)
        PROVE  ConvInv'
    <2>1. PICK m : m = 4 * Parts /\ m \in Nat
      BY ConversionsAssumption
    <2>2. i \in 0 .. m - 1
      BY <2>1
    <2>3. i \in Nat /\ i < m
      BY <2>1, <2>2
    <2>4. call' = "float" /\ number' = i /\ text' = SFloatToChar(i, precision, FALSE)
      BY <1>4 DEF ConvertFloat, Convert
    <2>5. number' \in Nat /\ number' < 4 * Parts
      BY <2>1, <2>3, <2>4
    <2>6. \E p \in {2, 3} : text' = SFloatToChar(number', p, FALSE)
      BY <2>4
    <2> QED
      BY <2>4, <2>5, <2>6 DEF ConvInv
  <1>5. ASSUME NEW c \in Typed, Type(c) PROVE ConvInv'
    <2>1. call \in {"none", "typed"} /\ Len(text) < TextSize /\ call' = "typed" /\ text' = Append(text, c)
      BY <1>5 DEF Type
    <2>2. text \in Seq(Int)
      BY <2>1, EmptyTypedText DEF ConvInv, TypedText
    <2>3. c \in Int
      BY DEF Typed, Minus
    <2>4. text' \in Seq(Int) /\ Len(text') = Len(text) + 1
      BY <2>1, <2>2, <2>3, AppendProperties
    <2>5. TextSize \in Nat /\ Len(text) \in Nat
      BY <2>2, ConversionsAssumption
    <2>6. TypedText(text')
      BY <2>1, <2>4, <2>5 DEF TypedText
    <2> QED
      BY <2>1, <2>6 DEF ConvInv, TypedText
  <1>6. CASE ConvReturn
    BY <1>6 DEF ConvReturn, ConvInv
  <1>7. CASE UNCHANGED convVars
    BY <1>7 DEF convVars, ConvInv, TypedText
  <1> QED
    BY <1>1, <1>2, <1>3, <1>4, <1>5, <1>6, <1>7 DEF ConvNext

LEMMA ConvInvAgrees ==
  ASSUME ConvInv
  PROVE  TextsAndNumbersAgree
  <1>1. ASSUME call = "signed"
        PROVE  CharValidSInt(text) /\ CharToSInt(text) = number
    BY <1>1, SignedComesBack DEF ConvInv
  <1>2. ASSUME call = "unsigned"
        PROVE  CharToSInt(text) = AsSigned(number) /\ number < Power(10, TextSize - 1)
    <2>1. number \in Nat /\ text = UIntToChar(number) /\ number < Power(10, TextSize - 1)
      BY <1>2 DEF ConvInv
    <2>2. CharToSInt(UIntToChar(number)) = AsSigned(number)
      BY <2>1, UnsignedComesBack
    <2> QED
      BY <2>1, <2>2
  <1>3. ASSUME call = "hex" PROVE HexValueOf(text) = number
    BY <1>3, HexComesBack DEF ConvInv
  <1>4. ASSUME call = "float", number % Parts = 0
        PROVE  text = SIntToChar(number \div Parts) \o <<Point, Zero>>
    <2>1. PICK precision \in {2, 3} : text = SFloatToChar(number, precision, FALSE)
      BY <1>4 DEF ConvInv
    <2>2. WholeFloat(number)
      BY <1>4 DEF ConvInv, WholeFloat
    <2> QED
      BY <2>1, <2>2, WholeFloats
  <1>5. NumbersComeBack
    BY <1>1, <1>2, <1>3, <1>4 DEF NumbersComeBack, ConvInv
  <1>6. AcceptedTextsAreNumbers
    BY TypedTexts DEF ConvInv, AcceptedTextsAreNumbers
  <1> QED
    BY <1>5, <1>6 DEF TextsAndNumbersAgree

\* Numbers and texts agree (conversions.cpp), for every signed number of the
\* word, every unsigned one of two words and every text that a user types: a
\* number's text gives the number back modulo the word, also the least number's,
\* whose negation does not exist; what the check of a typed number lets through
\* is read as the number it shows, modulo the word.  A number runs out of the
\* buffer exactly if it has more digits than there is room for, and none of the
\* word does.
THEOREM NumbersAndTexts == ConvSpec => []TextsAndNumbersAgree
  <1>1. ConvInit => ConvInv
    BY DEF ConvInit, ConvInv
  <1>2. ConvInv /\ [ConvNext]_convVars => ConvInv'
    BY ConvStep
  <1>3. ConvInv => TextsAndNumbersAgree
    BY ConvInvAgrees
  <1> QED
    BY <1>1, <1>2, <1>3, PTL DEF ConvSpec
=============================================================================
