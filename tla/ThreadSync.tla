----------------------------- MODULE ThreadSync ------------------------------
(***************************************************************************)
(* The mutex and the semaphore of userland (software/include/mutex.cpp,    *)
(* semaphore.cpp), used by threads of one process.  A thread may be        *)
(* preempted anywhere, so that every access to a shared field is a step of *)
(* its own; a call of the queue is one step, as is a system call.          *)
(*                                                                         *)
(* A thread locks the mutex for a section of its own, or inside wait and   *)
(* signal of the semaphore, and unlocks it from there.                     *)
(***************************************************************************)
EXTENDS Integers, Sequences, FiniteSets

CONSTANTS
    User,           \* threads
    NoUser,         \* thread id 0
    MaxCounter      \* the counter of the semaphore is taken modulo this

ASSUME ThreadSyncAssumption ==
    /\ IsFiniteSet(User) /\ NoUser \notin User
    /\ MaxCounter \in Nat \ {0}

VARIABLES
    locked_by_thread,   \* the owner, or NoUser
    thread_queue,       \* threads that wait, or have waited
    counter,            \* permits of the semaphore
    parked,             \* the threads the kernel keeps parked
    place,              \* where each thread is
    job,                \* what it locks the mutex for
    held,               \* whether its wait has found a permit
    faulted             \* the process was killed by a page fault

syncVars == <<locked_by_thread, thread_queue, counter, parked, place, job, held,
              faulted>>

Jobs == {"section", "wait", "signal"}

SyncInit ==
    /\ locked_by_thread = NoUser
    /\ thread_queue = <<>>
    /\ counter \in 0 .. MaxCounter - 1
    /\ parked = {}
    /\ place = [t \in User |-> "idle"]
    /\ job = [t \in User |-> "section"]
    /\ held = [t \in User |-> FALSE]
    /\ faulted = FALSE

\* Thread t takes the step that leads from one place to another.
Goes(t, from, to) == ~faulted /\ place[t] = from /\ place' = [place EXCEPT ![t] = to]
-----------------------------------------------------------------------------
Calls(t) ==
    /\ Goes(t, "idle", "lock")
    /\ \E j \in Jobs : job' = [job EXCEPT ![t] = j]
    /\ UNCHANGED <<locked_by_thread, thread_queue, counter, parked, held, faulted>>

\* lock: the test, the queue, the loop that parks, and the assignment.
LockTest(t) ==
    /\ Goes(t, "lock", IF locked_by_thread # NoUser THEN "queue" ELSE "take")
    /\ UNCHANGED <<locked_by_thread, thread_queue, counter, parked, job, held, faulted>>

LockQueue(t) ==
    /\ Goes(t, "queue", "retest")
    /\ thread_queue' = Append(thread_queue, t)
    /\ UNCHANGED <<locked_by_thread, counter, parked, job, held, faulted>>

\* Faulty variant: a thread queues again on each turn of the loop.
LockRetestQueueing(t) ==
    /\ Goes(t, "retest", IF locked_by_thread # NoUser THEN "park" ELSE "take")
    /\ thread_queue' = IF locked_by_thread # NoUser THEN Append(thread_queue, t)
                       ELSE thread_queue
    /\ UNCHANGED <<locked_by_thread, counter, parked, job, held, faulted>>

LockRetest(t) ==
    /\ Goes(t, "retest", IF locked_by_thread # NoUser THEN "park" ELSE "take")
    /\ UNCHANGED <<locked_by_thread, thread_queue, counter, parked, job, held, faulted>>

\* System call 17: the thread is not scheduled until it is awoken.
LockPark(t) ==
    /\ Goes(t, "park", "parked")
    /\ parked' = parked \cup {t}
    /\ UNCHANGED <<locked_by_thread, thread_queue, counter, job, held, faulted>>

LockResumes(t) ==
    /\ t \notin parked
    /\ Goes(t, "parked", "retest")
    /\ UNCHANGED <<locked_by_thread, thread_queue, counter, parked, job, held, faulted>>

LockTake(t) ==
    /\ Goes(t, "take", "in")
    /\ locked_by_thread' = t
    /\ UNCHANGED <<thread_queue, counter, parked, job, held, faulted>>

\* Inside: a section does what it does; wait takes a permit if there is one,
\* and signal adds one.
Section(t) ==
    /\ Goes(t, "in", "unlock")
    /\ job[t] = "section"
    /\ UNCHANGED <<locked_by_thread, thread_queue, counter, parked, job, held, faulted>>

WaitTest(t) ==
    /\ job[t] = "wait"
    /\ Goes(t, "in", IF counter > 0 THEN "update" ELSE "unlock")
    /\ held' = [held EXCEPT ![t] = counter > 0]
    /\ UNCHANGED <<locked_by_thread, thread_queue, counter, parked, job, faulted>>

SignalStarts(t) ==
    /\ job[t] = "signal"
    /\ Goes(t, "in", "update")
    /\ UNCHANGED <<locked_by_thread, thread_queue, counter, parked, job, held, faulted>>

\* The counter is changed by one instruction.
Update(t) ==
    /\ Goes(t, "update", "unlock")
    /\ counter' = (counter + (IF job[t] = "wait" THEN MaxCounter - 1 ELSE 1)) % MaxCounter
    /\ UNCHANGED <<locked_by_thread, thread_queue, parked, job, held, faulted>>

\* unlock: the flag, the test of the queue, the shift, the system call 18.
Unlock(t) ==
    /\ Goes(t, "unlock", "check")
    /\ locked_by_thread' = NoUser
    /\ UNCHANGED <<thread_queue, counter, parked, job, held, faulted>>

\* Where a thread goes when unlock returns: wait tries again without a permit.
GoesTo(t) == IF job[t] = "wait" /\ ~held[t] THEN "preempt" ELSE "idle"

UnlockCheck(t) ==
    /\ Goes(t, "check", IF thread_queue = <<>> THEN GoesTo(t) ELSE "shift")
    /\ UNCHANGED <<locked_by_thread, thread_queue, counter, parked, job, held, faulted>>

\* A shift of a queue that another thread has emptied meanwhile writes behind
\* the null pointer at its end: the page fault kills the process.
UnlockShift(t) ==
    /\ Goes(t, "shift", GoesTo(t))
    /\ faulted' = (thread_queue = <<>>)
    /\ thread_queue' = IF faulted' THEN <<>> ELSE Tail(thread_queue)
    /\ parked' = IF faulted' THEN parked ELSE parked \ {Head(thread_queue)}
    /\ UNCHANGED <<locked_by_thread, counter, job, held>>

\* System call 20, in the loop of wait.
Preempts(t) ==
    /\ Goes(t, "preempt", "lock")
    /\ UNCHANGED <<locked_by_thread, thread_queue, counter, parked, job, held, faulted>>

\* What a thread does once it has called.
SyncProceeds(t) ==
    \/ LockTest(t) \/ LockQueue(t) \/ LockRetest(t)
    \/ LockPark(t) \/ LockResumes(t) \/ LockTake(t)
    \/ Section(t) \/ WaitTest(t) \/ SignalStarts(t) \/ Update(t)
    \/ Unlock(t) \/ UnlockCheck(t) \/ UnlockShift(t) \/ Preempts(t)

SyncNext == \E t \in User : Calls(t) \/ SyncProceeds(t)

SyncSpec == SyncInit /\ [][SyncNext]_syncVars
-----------------------------------------------------------------------------
Places == {"idle", "lock", "queue", "retest", "park", "parked", "take", "in",
           "update", "unlock", "check", "shift", "preempt"}

\* Every variable has a value of its type.
SyncTypeOK ==
    /\ locked_by_thread \in User \cup {NoUser}
    /\ thread_queue \in Seq(User)
    /\ counter \in 0 .. MaxCounter - 1
    /\ parked \subseteq User
    /\ place \in [User -> Places] /\ job \in [User -> Jobs] /\ held \in [User -> BOOLEAN]
    /\ faulted \in BOOLEAN

\* The threads that may have an entry in the queue: they have queued, and their
\* own unlock has not taken an entry from it.
Waiting == {t \in User : place[t] \in {"retest", "park", "parked", "take", "in", "update",
                                       "unlock", "check", "shift"}}

\* The queue does not grow by what went wrong: though entries of threads that
\* got the mutex without being shifted stay in it and two owners shift at once,
\* it never holds more entries than there are threads between lock and the end
\* of unlock, and is empty when no thread is.
QueueIsBoundedByWaiters == Len(thread_queue) <= Cardinality(Waiting)

\* "If the resource is already in use, the thread will be parked and wait for
\* the resource to be free" (mutex.h:11): one thread at a time.
MutualExclusion ==
    \A t, u \in User : place[t] \in {"in", "update"} /\ place[u] \in {"in", "update"} => t = u
=============================================================================
