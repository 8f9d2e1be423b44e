------------------------------ MODULE Scheduler -----------------------------
(***************************************************************************)
(* The preemptive round-robin scheduler of the kernel: its processes and   *)
(* threads, the execution queue, the event queue, the timer tick and the   *)
(* system calls that create, kill, park, suspend and wake threads          *)
(* (kernel/src/cpp/scheduling/{scheduler,events,syscalls}.cpp).            *)
(*                                                                         *)
(* The machine has one core and the kernel runs with interrupts off, so a  *)
(* handler and the context switch it ends with are one step.  Between two  *)
(* steps either a program runs (current_thread) or the core is halted      *)
(* waiting for an interrupt (NoThread), and any interrupt may come next.   *)
(* Programs are arbitrary: they may make any system call at any time.      *)
(***************************************************************************)
EXTENDS QueueOps

CONSTANTS
    UserProcess,        \* the programs that may be loaded
    SchedulerEvents,    \* the virtual process that emits process events
    KeyboardDriver,     \* the virtual process that emits key events
    ThreadAddr,         \* the heap blocks a Thread structure may occupy
    NoThread,           \* nullptr
    NBlocks,            \* kernel areas in the thread page of a process
    TimeSlice,          \* milliseconds of a time slice
    TimeWrap,           \* 2^w: where the w-bit millisecond clock wraps
    Delays,             \* the arguments programs give to suspend_thread
    Masks,              \* the event sets programs register for
    EmitIds,            \* the event ids programs emit, as sets of bits
    KeyEvents,          \* the event ids the keyboard emits, as sets of bits
    UninitState,        \* what a Thread holds in the fields new leaves alone
    UninitSuspended,    \* what process.state.suspended holds after new
    Disciplined,        \* programs name no dead thread (see Live) nor id 0
    MaxThreadId,        \* bound on the thread ids given out
    MaxEvents,          \* bound on the length of the event queue
    MaxListeners        \* bound on the listeners of a process

Process == UserProcess \cup {SchedulerEvents, KeyboardDriver}
ThreadId == 1 .. MaxThreadId
Policy == {"NORMAL", "EVENT_ONLY", "BUSY"}

\* What a register set holds, as far as the scheduler tells: the context of
\* the program (0), or of the event handler that thread n registered (n).
Context == 0 .. MaxThreadId

Uninitialised ==
    [execution_policy : Policy, suspended : BOOLEAN, parked : BOOLEAN,
     processing_event : BOOLEAN, resume_time : 0 .. TimeWrap - 1]

Thread ==
    [id : Context, process : Process, execution_policy : Policy,
     suspended : BOOLEAN, parked : BOOLEAN, processing_event : BOOLEAN,
     resume_time : 0 .. TimeWrap - 1, registers : Context,
     backup_registers : Context, block : 0 .. NBlocks - 1]

Listener == [thread_id : ThreadId, enabled_event_ids : SUBSET {1, 2, 4, 8}]
ThreadEvent ==
    [thread : ThreadAddr, event_id : SUBSET {1, 2, 4, 8}, handler : ThreadId]

ProcessState ==
    [threads : Seq(ThreadAddr), hooked_threads : Seq(Listener),
     suspended : BOOLEAN, blocks : SUBSET (0 .. NBlocks - 1)]

ASSUME ConstantsAssumption ==
    /\ SchedulerEvents # KeyboardDriver
    /\ {SchedulerEvents, KeyboardDriver} \cap UserProcess = {}
    /\ NoThread \notin ThreadAddr
    /\ NBlocks \in Nat \ {0}
    /\ TimeWrap \in Nat \ {0}
    /\ TimeSlice \in 0 .. TimeWrap - 1
    /\ Delays \subseteq 0 .. TimeWrap - 1
    /\ Delays # {} => TimeWrap > 1
    /\ Masks \subseteq SUBSET {1, 2, 4, 8}
    /\ EmitIds \subseteq SUBSET {1, 2, 4, 8}
    /\ KeyEvents \subseteq SUBSET {1, 2, 4, 8}
    /\ UninitState \subseteq Uninitialised
    /\ UninitSuspended \subseteq BOOLEAN
    /\ Disciplined \in BOOLEAN
    /\ {MaxThreadId, MaxEvents, MaxListeners} \subseteq Nat

VARIABLES
    heap,                   \* contents of the Thread blocks, free ones too
    allocated,              \* the blocks kallocated() holds of
    thread_list,            \* thread id -> block; ids are given in order
    process_list,           \* the processes that exist
    process,                \* contents of the Process structures
    thread_execution_queue,
    thread_event_queue,
    current_thread,
    elapsed_ms,
    cpu                     \* "boot", "running", "halted" or "undefined"

vars == <<heap, allocated, thread_list, process_list, process,
          thread_execution_queue, thread_event_queue, current_thread,
          elapsed_ms, cpu>>

ZeroThread ==
    [id |-> 0, process |-> SchedulerEvents, execution_policy |-> "NORMAL",
     suspended |-> FALSE, parked |-> FALSE, processing_event |-> FALSE,
     resume_time |-> 0, registers |-> 0, backup_registers |-> 0, block |-> 0]

NoProcess ==
    [threads |-> <<>>, hooked_threads |-> <<>>, suspended |-> FALSE,
     blocks |-> {}]

Init ==
    /\ heap = [a \in ThreadAddr |-> ZeroThread]
    /\ allocated = {}
    /\ thread_list = <<>>
    /\ process_list = {SchedulerEvents, KeyboardDriver}
    /\ process = [p \in Process |-> NoProcess]
    /\ thread_execution_queue = <<>>
    /\ thread_event_queue = <<>>
    /\ current_thread = NoThread
    /\ elapsed_ms = 0
    /\ cpu = "boot"
-----------------------------------------------------------------------------
(***************************************************************************)
(* State formulae.                                                         *)
(***************************************************************************)

\* Thread id n names a thread that exists.  thread_list keeps the ids of
\* killed threads, so exists(n) does not tell.
Live(n) ==
    /\ n \in DOMAIN thread_list
    /\ thread_list[n] \in allocated
    /\ heap[thread_list[n]].id = n

\* A program runs, so it may make a system call.
InProgram == cpu = "running" /\ current_thread # NoThread

\* Faulty variant: the running thread goes back to the front.
RequeuedInFront ==
    IF current_thread = NoThread THEN thread_execution_queue
    ELSE <<current_thread>> \o thread_execution_queue

\* The execution queue once the running thread, if any, is pushed back.
Requeued ==
    IF current_thread = NoThread THEN thread_execution_queue
    ELSE Append(thread_execution_queue, current_thread)

\* Faulty variant: the run loop does not look at parked.
RunnableParked(h, ps, a, now) ==
    /\ h[a].execution_policy = "EVENT_ONLY" => h[a].processing_event
    /\ ~ps[h[a].process].suspended
    /\ h[a].suspended => h[a].resume_time # 0 /\ h[a].resume_time <= now

\* The run loop executes thread a: it is not waiting for an event, its
\* process is not suspended, it is not parked, and if it is suspended then
\* for a time that has passed.
Runnable(h, ps, a, now) ==
    /\ h[a].execution_policy = "EVENT_ONLY" => h[a].processing_event
    /\ ~ps[h[a].process].suspended
    /\ ~h[a].parked
    /\ h[a].suspended => h[a].resume_time # 0 /\ h[a].resume_time <= now

\* Clears a suspension that is over.
Resumed(t) ==
    IF t.suspended THEN [t EXCEPT !.suspended = FALSE, !.resume_time = 0]
    ELSE t
-----------------------------------------------------------------------------
(***************************************************************************)
(* Events.                                                                 *)
(***************************************************************************)

\* emit_event looks at a listener: its mask selects an id of the event.
Hears(l, ids) == l.enabled_event_ids \cap ids # {}

\* The listeners that emit_event unlinks, and those it pushes an event for:
\* the thread exists (in thread_list) and its policy takes events.
Forgotten(ls, ids, tl) ==
    {i \in DOMAIN ls : Hears(ls[i], ids) /\ ls[i].thread_id \notin DOMAIN tl}

Notified(ls, ids, h, tl) ==
    {i \in DOMAIN ls : /\ Hears(ls[i], ids)
                       /\ ls[i].thread_id \in DOMAIN tl
                       /\ h[tl[ls[i].thread_id]].execution_policy # "BUSY"}

\* The event queue and the sender's listeners after emit_event.
Emitted(evq, ls, ids, h, tl) ==
    LET told == Keep(ls, Notified(ls, ids, h, tl))
    IN  evq \o [i \in DOMAIN told |-> [thread   |-> tl[told[i].thread_id],
                                       event_id |-> ids,
                                       handler  |-> told[i].thread_id]]

StillHooked(ls, ids, tl) == Keep(ls, DOMAIN ls \ Forgotten(ls, ids, tl))

\* The processes when p has the listeners ls.
Hooked(ps, p, ls) == [ps EXCEPT ![p].hooked_threads = ls]

\* A bound, and the discipline programs and drivers may be assumed to keep:
\* no event is emitted to a listener whose thread has been killed.
MayEmit(evq, ls, ids, h, tl, alloc) ==
    LET told == Notified(ls, ids, h, tl)
    IN  /\ Len(evq) + Cardinality(told) <= MaxEvents
        /\ Disciplined => \A i \in told : /\ tl[ls[i].thread_id] \in alloc
                                          /\ h[tl[ls[i].thread_id]].id
                                                = ls[i].thread_id

\* The event loop of handle_context_switch.  A thread whose handler runs
\* keeps its events queued, a BUSY one loses them, and any other takes the
\* first of its events.
Dropped(h, evq) ==
    {i \in DOMAIN evq : /\ ~h[evq[i].thread].processing_event
                        /\ h[evq[i].thread].execution_policy = "BUSY"}

\* Faulty variants: the handler of an event interrupts another; a later event
\* overtakes an earlier one; a parked thread is not woken.
DeliveredNested(h, evq) ==
    {i \in DOMAIN evq : /\ h[evq[i].thread].execution_policy # "BUSY"
                        /\ \A j \in 1 .. i - 1 : evq[j].thread # evq[i].thread}

DeliveredLast(h, evq) ==
    {i \in DOMAIN evq : /\ ~h[evq[i].thread].processing_event
                        /\ h[evq[i].thread].execution_policy # "BUSY"
                        /\ \A j \in i + 1 .. Len(evq) :
                                evq[j].thread # evq[i].thread}

DeliveredAwake(h, evq) ==
    {i \in DOMAIN evq : /\ ~h[evq[i].thread].processing_event
                        /\ ~h[evq[i].thread].parked
                        /\ h[evq[i].thread].execution_policy # "BUSY"
                        /\ \A j \in 1 .. i - 1 : evq[j].thread # evq[i].thread}

Delivered(h, evq) ==
    {i \in DOMAIN evq : /\ ~h[evq[i].thread].processing_event
                        /\ h[evq[i].thread].execution_policy # "BUSY"
                        /\ \A j \in 1 .. i - 1 : evq[j].thread # evq[i].thread}

\* Thread t enters the handler of an event.
InHandler(t, handler) ==
    [t EXCEPT !.parked = FALSE, !.backup_registers = t.registers,
              !.registers = handler, !.processing_event = TRUE]

AfterEvents(h, evq) ==
    [a \in ThreadAddr |->
        IF \E i \in Delivered(h, evq) : evq[i].thread = a
        THEN InHandler(h[a], evq[CHOOSE i \in Delivered(h, evq) :
                                    evq[i].thread = a].handler)
        ELSE h[a]]

RemainingEvents(h, evq) ==
    Keep(evq, DOMAIN evq \ (Dropped(h, evq) \cup Delivered(h, evq)))
-----------------------------------------------------------------------------
(***************************************************************************)
(* handle_context_switch, entered with the thread contents h, the blocks   *)
(* alloc, the processes ps, the two queues and the time; the thread that   *)
(* ran, if it lives on, is at the end of exq.                              *)
(***************************************************************************)

\* Faulty variant: those before it are not pushed back.
RunLosingSkipped(h, ps, exq, now, k) ==
    /\ Runnable(h, ps, exq[k], now)
    /\ \A j \in 1 .. k - 1 : ~Runnable(h, ps, exq[j], now)
    /\ current_thread' = exq[k]
    /\ heap' = [h EXCEPT ![exq[k]] = Resumed(@)]
    /\ thread_execution_queue' = SubSeq(exq, k + 1, Len(exq))

\* The run loop finds thread exq[k] first: those before it go to the end.
Run(h, ps, exq, now, k) ==
    /\ Runnable(h, ps, exq[k], now)
    /\ \A j \in 1 .. k - 1 : ~Runnable(h, ps, exq[j], now)
    /\ current_thread' = exq[k]
    /\ heap' = [h EXCEPT ![exq[k]] = Resumed(@)]
    /\ thread_execution_queue' = TakenAt(exq, k)

\* No thread can run: the core sleeps until the next interrupt.
Sleep(h, ps, exq, now) ==
    /\ \A j \in DOMAIN exq : ~Runnable(h, ps, exq[j], now)
    /\ current_thread' = NoThread
    /\ heap' = h
    /\ thread_execution_queue' = exq

\* The assertion at the head of the event loop finds an event for a Thread
\* that has been freed: the kernel panics.
StaleEvent(alloc, evq) == \E i \in DOMAIN evq : evq[i].thread \notin alloc

Panic == cpu' = "halted"

\* All of it: the panic, or the events and then the thread to run.  A panicked
\* kernel never runs again, so what it delivered before is left out.
ContextSwitch(h, alloc, ps, evq, exq, now) ==
    \/ /\ StaleEvent(alloc, evq)
       /\ Panic
       /\ heap' = h
       /\ thread_event_queue' = evq
       /\ thread_execution_queue' = exq
       /\ current_thread' = NoThread
    \/ /\ ~StaleEvent(alloc, evq)
       /\ cpu' = "running"
       /\ thread_event_queue' = RemainingEvents(h, evq)
       /\ LET woken == AfterEvents(h, evq)
          IN  \/ \E k \in DOMAIN exq : Run(woken, ps, exq, now, k)
              \/ Sleep(woken, ps, exq, now)
-----------------------------------------------------------------------------
(***************************************************************************)
(* Boot and interrupts.                                                    *)
(***************************************************************************)

\* A new Thread: the fields that neither its declaration nor create_process
\* and create_thread assign hold what the block of memory held (u).
NewThread(p, b, u) ==
    [id |-> Len(thread_list) + 1, process |-> p, registers |-> 0, block |-> b,
     execution_policy |-> u.execution_policy, suspended |-> u.suspended,
     parked |-> u.parked, processing_event |-> u.processing_event,
     resume_time |-> u.resume_time, backup_registers |-> 0]

MayCreate(a) == a \notin allocated /\ Len(thread_list) < MaxThreadId

\* create_process, from the loader at boot: the process and its main thread,
\* which takes the first kernel area and is scheduled.
CreateProcess(p, a, u, suspended) ==
    LET ls == process[SchedulerEvents].hooked_threads
        tl == Append(thread_list, a)
        h  == [heap EXCEPT ![a] = NewThread(p, 0, u)]
    IN  /\ cpu = "boot"
        /\ p \notin process_list
        /\ MayCreate(a)
        /\ MayEmit(thread_event_queue, ls, {1}, h, tl, allocated \cup {a})
        /\ heap' = h
        /\ allocated' = allocated \cup {a}
        /\ thread_list' = tl
        /\ process_list' = process_list \cup {p}
        /\ process' = Hooked([process EXCEPT ![p] =
                                [threads |-> <<a>>, hooked_threads |-> <<>>,
                                 suspended |-> suspended, blocks |-> {0}]],
                             SchedulerEvents, StillHooked(ls, {1}, tl))
        /\ thread_execution_queue' = Append(thread_execution_queue, a)
        /\ thread_event_queue' = Emitted(thread_event_queue, ls, {1}, h, tl)
        /\ UNCHANGED <<current_thread, elapsed_ms, cpu>>

\* The loader finds the pages of a segment taken and kills the process it
\* has just created: what is left is the thread's id in thread_list.  No
\* program has run yet, so nobody listens to the two events.
LoadFails(p, a, u) ==
    /\ cpu = "boot"
    /\ p \notin process_list
    /\ MayCreate(a)
    /\ heap' = [heap EXCEPT ![a] = NewThread(p, 0, u)]
    /\ thread_list' = Append(thread_list, a)
    /\ UNCHANGED <<allocated, process_list, process, thread_execution_queue,
                   thread_event_queue, current_thread, elapsed_ms, cpu>>

\* The timer interrupt preempts the program or wakes the core.
TimerTick ==
    LET now == (elapsed_ms + TimeSlice) % TimeWrap
    IN  /\ cpu \in {"boot", "running"}
        /\ elapsed_ms' = now
        /\ ContextSwitch(heap, allocated, process, thread_event_queue,
                         Requeued, now)
        /\ UNCHANGED <<allocated, thread_list, process_list, process>>

\* The keyboard interrupt queues an event and the program goes on.
KeyboardInterrupt(ids) ==
    LET ls == process[KeyboardDriver].hooked_threads
    IN  /\ cpu \in {"boot", "running"}
        /\ MayEmit(thread_event_queue, ls, ids, heap, thread_list, allocated)
        /\ thread_event_queue' =
                Emitted(thread_event_queue, ls, ids, heap, thread_list)
        /\ process' = Hooked(process, KeyboardDriver,
                             StillHooked(ls, ids, thread_list))
        /\ UNCHANGED <<heap, allocated, thread_list, process_list,
                       thread_execution_queue, current_thread, elapsed_ms, cpu>>

\* A panic ends in cli; hlt, and of a corrupted kernel nothing is known.
Halted == cpu \in {"halted", "undefined"} /\ UNCHANGED vars
-----------------------------------------------------------------------------
(***************************************************************************)
(* Death of a process and of a thread.                                     *)
(***************************************************************************)

\* Faulty variant: the event queue is left alone.
EventsKept(dead) == thread_event_queue

\* The events left when those of the threads dead are unlinked.
EventsWithout(dead) ==
    Keep(thread_event_queue,
         {i \in DOMAIN thread_event_queue :
                thread_event_queue[i].thread \notin dead})

\* System call 2, and a page fault that cannot be served: kill_process for
\* the process p of the running thread.  Each of its threads leaves the
\* queues and is freed, and then its end is announced to the threads that
\* listen for it.
EndProcess ==
    LET p     == heap[current_thread].process
        dead  == Entries(process[p].threads)
        alloc == allocated \ dead
        ls    == process[SchedulerEvents].hooked_threads
        evq   == EventsWithout(dead)
        ps    == Hooked([process EXCEPT ![p] = NoProcess], SchedulerEvents,
                        StillHooked(ls, {2}, thread_list))
    IN  /\ InProgram
        /\ MayEmit(evq, ls, {2}, heap, thread_list, alloc)
        /\ allocated' = alloc
        /\ process_list' = process_list \ {p}
        /\ process' = ps
        /\ ContextSwitch(heap, alloc, ps,
                         Emitted(evq, ls, {2}, heap, thread_list),
                         Without(thread_execution_queue, dead), elapsed_ms)
        /\ UNCHANGED <<thread_list, elapsed_ms>>

\* Faulty variant: the thread stays in the list of its process.
ProcessesWith(a) ==
    LET p == heap[a].process
    IN  [process EXCEPT ![p].blocks = @ \ {heap[a].block}]

\* The processes when kill_thread has taken the thread in block a out of its
\* own and given its kernel area back.
ProcessesWithout(a) ==
    LET p == heap[a].process
    IN  [process EXCEPT ![p].threads = Without(@, {a}),
                        ![p].blocks = @ \ {heap[a].block}]

\* System call 16 without a thread id or with one's own.
KillSelf ==
    LET a == current_thread
    IN  /\ InProgram
        /\ allocated' = allocated \ {a}
        /\ process' = ProcessesWithout(a)
        /\ ContextSwitch(heap, allocated \ {a}, ProcessesWithout(a),
                         EventsWithout({a}),
                         Without(thread_execution_queue, {a}), elapsed_ms)
        /\ UNCHANGED <<thread_list, process_list, elapsed_ms>>

\* A freed block is written, or the running thread is freed and runs on:
\* nothing is known of what the kernel does next.
Corrupt ==
    /\ cpu' = "undefined"
    /\ UNCHANGED <<heap, allocated, thread_list, process_list, process,
                   thread_execution_queue, thread_event_queue,
                   current_thread, elapsed_ms>>

\* The running program names thread n in a system call, and not itself.
Names(n) ==
    /\ InProgram
    /\ n \in DOMAIN thread_list
    /\ n # heap[current_thread].id
    /\ Disciplined => Live(n)

\* System call 16 with the id of another thread.
KillThread(n) ==
    LET a == thread_list[n]
    IN  /\ Names(n)
        /\ \/ /\ a \in allocated /\ a # current_thread
              /\ allocated' = allocated \ {a}
              /\ process' = ProcessesWithout(a)
              /\ thread_event_queue' = EventsWithout({a})
              /\ thread_execution_queue' = Without(thread_execution_queue, {a})
              /\ UNCHANGED <<heap, thread_list, process_list, current_thread,
                             elapsed_ms, cpu>>
           \/ /\ a \notin allocated \/ a = current_thread
              /\ Corrupt
-----------------------------------------------------------------------------
(***************************************************************************)
(* The other system calls.                                                 *)
(***************************************************************************)

\* The call returns to the program after changing the thread in block a.
Assign(a, t) ==
    IF a \in allocated
    THEN /\ heap' = [heap EXCEPT ![a] = t]
         /\ UNCHANGED <<allocated, thread_list, process_list, process,
                        thread_execution_queue, thread_event_queue,
                        current_thread, elapsed_ms, cpu>>
    ELSE Corrupt

\* The call leaves the running thread with contents t, pushes it back and
\* switches (manual_context_switch_return, return 1).
Yield(t) ==
    /\ ContextSwitch([heap EXCEPT ![current_thread] = t], allocated, process,
                     thread_event_queue, Requeued, elapsed_ms)
    /\ UNCHANGED <<allocated, thread_list, process_list, process, elapsed_ms>>

\* 3: suspend the thread for d milliseconds.
SuspendThread(d) ==
    /\ InProgram
    /\ Yield([heap[current_thread] EXCEPT
                !.suspended = TRUE,
                !.resume_time = IF d = 0 THEN 1
                                ELSE (elapsed_ms + d) % TimeWrap])

\* 6: the event handler is done, resume what the event interrupted.
EndEvent ==
    /\ InProgram
    /\ heap[current_thread].processing_event
    /\ Yield([heap[current_thread] EXCEPT
                !.processing_event = FALSE,
                !.registers = heap[current_thread].backup_registers])

\* 7: listen to the events of process p.
RegisterEvent(p, mask) ==
    /\ InProgram
    /\ p \in process_list
    /\ Len(process[p].hooked_threads) < MaxListeners
    /\ process' = Hooked(process, p,
                         Append(process[p].hooked_threads,
                                [thread_id |-> heap[current_thread].id,
                                 enabled_event_ids |-> mask]))
    /\ UNCHANGED <<heap, allocated, thread_list, process_list,
                   thread_execution_queue, thread_event_queue,
                   current_thread, elapsed_ms, cpu>>

\* 8: emit an event to the listeners of one's own process.
EmitEvent(ids) ==
    LET p  == heap[current_thread].process
        ls == process[p].hooked_threads
    IN  /\ InProgram
        /\ MayEmit(thread_event_queue, ls, ids, heap, thread_list, allocated)
        /\ thread_event_queue' =
                Emitted(thread_event_queue, ls, ids, heap, thread_list)
        /\ process' = Hooked(process, p, StillHooked(ls, ids, thread_list))
        /\ UNCHANGED <<heap, allocated, thread_list, process_list,
                       thread_execution_queue, current_thread, elapsed_ms, cpu>>

\* 9: change one's own execution policy; a thread that becomes event-only
\* outside a handler gives up the core.
SetOwnPolicy(policy) ==
    LET t == [heap[current_thread] EXCEPT !.execution_policy = policy]
    IN  /\ InProgram
        /\ IF policy = "EVENT_ONLY" /\ ~t.processing_event
           THEN Yield(t)
           ELSE Assign(current_thread, t)

\* 9: change the policy of thread n.
SetPolicy(n, policy) ==
    /\ Names(n)
    /\ Assign(thread_list[n],
              [heap[thread_list[n]] EXCEPT !.execution_policy = policy])

\* 7 and 18 with id 0, which nothing was ever given: exists() claims it while
\* entry 0 of the list is empty (see HashMap), and the kernel writes through
\* a null Process or Thread.
NamesNobody == InProgram /\ ~Disciplined /\ Corrupt

\* 13: ask for a line of input.  The thread is suspended with no time to
\* resume at; waking it is up to the shell, which is not in the repository.
GetInput ==
    /\ InProgram
    /\ Yield([heap[current_thread] EXCEPT !.suspended = TRUE,
                                         !.resume_time = 0])

\* Faulty variants: one area too many; the bitmap is not looked at.
FreeAreasPast(p) == (0 .. NBlocks) \ process[p].blocks
FreeAreasAll(p) == 0 .. NBlocks - 1

\* The kernel areas that no thread of p is thought to use.
FreeAreas(p) == (0 .. NBlocks - 1) \ process[p].blocks

\* 15: create a thread.  The search for a free kernel area does not stop at
\* the first: it takes every free one and the thread uses the last.
CreateThread(a, u) ==
    LET p    == heap[current_thread].process
        free == FreeAreas(p)
    IN  /\ InProgram
        /\ MayCreate(a)
        /\ IF free = {}
           THEN /\ Panic
                /\ UNCHANGED <<heap, allocated, thread_list, process,
                               thread_execution_queue>>
           ELSE \E b \in free :
                /\ \A c \in free : c <= b
                /\ heap' = [heap EXCEPT ![a] = NewThread(p, b, u)]
                /\ allocated' = allocated \cup {a}
                /\ thread_list' = Append(thread_list, a)
                /\ process' = [process EXCEPT
                                ![p].threads = Append(@, a),
                                ![p].blocks = 0 .. NBlocks - 1]
                /\ thread_execution_queue' = Append(thread_execution_queue, a)
                /\ UNCHANGED cpu
        /\ UNCHANGED <<process_list, thread_event_queue, current_thread,
                       elapsed_ms>>

\* 17: park the thread itself, or thread n.
ParkSelf ==
    InProgram /\ Yield([heap[current_thread] EXCEPT !.parked = TRUE])

ParkThread(n) ==
    /\ Names(n)
    /\ Assign(thread_list[n], [heap[thread_list[n]] EXCEPT !.parked = TRUE])

\* 18: unpark thread n (unparking oneself changes nothing).
UnparkThread(n) ==
    /\ Names(n)
    /\ Assign(thread_list[n], [heap[thread_list[n]] EXCEPT !.parked = FALSE])

\* 20: give up the rest of the time slice.
Preempt == InProgram /\ Yield(heap[current_thread])
-----------------------------------------------------------------------------
Boot ==
    \/ \E p \in UserProcess, a \in ThreadAddr, u \in UninitState,
          s \in UninitSuspended : CreateProcess(p, a, u, s)
    \/ \E p \in UserProcess, a \in ThreadAddr, u \in UninitState :
            LoadFails(p, a, u)

Interrupt ==
    \/ TimerTick
    \/ \E ids \in KeyEvents : KeyboardInterrupt(ids)

SystemCall ==
    \/ EndProcess
    \/ \E d \in Delays : SuspendThread(d)
    \/ EndEvent
    \/ \E p \in Process, mask \in Masks : RegisterEvent(p, mask)
    \/ \E ids \in EmitIds : EmitEvent(ids)
    \/ \E policy \in Policy : SetOwnPolicy(policy)
    \/ \E n \in ThreadId, policy \in Policy : SetPolicy(n, policy)
    \/ NamesNobody
    \/ GetInput
    \/ \E a \in ThreadAddr, u \in UninitState : CreateThread(a, u)
    \/ KillSelf
    \/ \E n \in ThreadId : KillThread(n)
    \/ ParkSelf
    \/ \E n \in ThreadId : ParkThread(n)
    \/ \E n \in ThreadId : UnparkThread(n)
    \/ Preempt

Next == Boot \/ Interrupt \/ SystemCall \/ Halted

Spec == Init /\ [][Next]_vars

\* The timer interrupt keeps coming; programs need never make a call.
FairSpec == Spec /\ WF_vars(TimerTick)
-----------------------------------------------------------------------------
(***************************************************************************)
(* Properties.                                                             *)
(***************************************************************************)

\* Every variable holds a value of its C type, and the queues hold blocks.
TypeOK ==
    /\ heap \in [ThreadAddr -> Thread]
    /\ allocated \subseteq ThreadAddr
    /\ thread_list \in Seq(ThreadAddr)
    /\ Len(thread_list) <= MaxThreadId
    /\ process_list \subseteq Process
    /\ process \in [Process -> ProcessState]
    /\ thread_execution_queue \in Seq(ThreadAddr)
    /\ thread_event_queue \in Seq(ThreadEvent)
    /\ current_thread \in ThreadAddr \cup {NoThread}
    /\ elapsed_ms \in 0 .. TimeWrap - 1
    /\ cpu \in {"boot", "running", "halted", "undefined"}

\* No thread is ever lost or scheduled twice: the execution queue holds every
\* existing thread but the running one, once, and no freed thread, whatever
\* creations, deaths, yields and preemptions came before.
EveryThreadScheduledOnce ==
    /\ current_thread \in allocated \cup {NoThread}
    /\ Distinct(thread_execution_queue)
    /\ Entries(thread_execution_queue) = allocated \ {current_thread}

\* The thread list of a process is exact, so that the death of the process
\* frees all of its threads, and none of another process: it holds each
\* existing thread of the process once.
ThreadsBelongToProcess ==
    \A p \in Process :
        /\ Distinct(process[p].threads)
        /\ Entries(process[p].threads)
                = {a \in allocated : heap[a].process = p}

\* Two threads of a process never save their registers in the same kernel
\* area, and the area of an existing thread is never up for allocation.
AreasAreExclusive ==
    \A a \in allocated :
        /\ heap[a].block \in process[heap[a].process].blocks
        /\ \A b \in allocated : /\ heap[a].process = heap[b].process
                                /\ heap[a].block = heap[b].block
                                => a = b

\* A thread that parked, suspended itself, or waits for an event outside a
\* handler does not hold the core, and neither does one of a process that is
\* gone.
RunningMayRun ==
    InProgram =>
        LET t == heap[current_thread]
        IN  /\ t.process \in process_list
            /\ ~t.parked
            /\ ~t.suspended
            /\ t.execution_policy = "EVENT_ONLY" => t.processing_event

\* The assertion of the event loop (sch.events.thread.heap): a queued event
\* is for a thread that exists.
EventThreadExists == ~StaleEvent(allocated, thread_event_queue)

\* An event reaches the thread that registered its handler, and no handler is
\* entered while another runs: backup_registers then still hold the program's
\* context, which end_event brings back.
HandlersDoNotNest ==
    /\ \A i \in DOMAIN thread_event_queue :
            thread_event_queue[i].handler
                = heap[thread_event_queue[i].thread].id
    /\ \A a \in allocated :
            IF heap[a].processing_event
            THEN heap[a].registers = heap[a].id /\ heap[a].backup_registers = 0
            ELSE heap[a].registers = 0

EventsFor(q, a) == Keep(q, {i \in DOMAIN q : q[i].thread = a})

IsPrefixOf(s, t) == Len(s) <= Len(t) /\ \A i \in DOMAIN s : s[i] = t[i]

\* What a step may do to the events queued for a thread that lives on: add
\* more behind them, take the first one while the thread enters its handler,
\* or drop those of a BUSY thread outside a handler.  No event is lost,
\* overtaken or handled twice.
EventsInOrder ==
    [][\A a \in allocated \cap allocated' :
        LET old == EventsFor(thread_event_queue, a)
            new == EventsFor(thread_event_queue', a)
        IN  \/ IsPrefixOf(old, new) /\ (heap'[a].processing_event =>
                                            heap[a].processing_event)
            \/ /\ heap'[a].processing_event
               /\ ~heap'[a].parked
               /\ old # <<>> => /\ IsPrefixOf(Tail(old), new)
                               /\ heap'[a].registers = old[1].handler
            \/ heap'[a].execution_policy = "BUSY" /\ ~heap'[a].processing_event
      ]_vars

\* Round robin: a thread that can run does, or is killed, or stops being able
\* to (parked by another, policy changed, the clock wrapped below its resume
\* time), however long the other threads compute or however often they yield.
RunnableThreadRuns ==
    \A a \in ThreadAddr :
        LET waiting == /\ cpu = "running"
                       /\ a \in Entries(thread_execution_queue)
                       /\ Runnable(heap, process, a, elapsed_ms)
        IN  waiting ~> ~waiting

\* An event for a thread does not stay queued unless the thread's handler
\* runs.
EventIsDelivered ==
    \A a \in ThreadAddr :
        (cpu = "running" /\ EventsFor(thread_event_queue, a) # <<>>)
            ~> \/ cpu # "running"
               \/ heap[a].processing_event
               \/ EventsFor(thread_event_queue, a) = <<>>
=============================================================================
