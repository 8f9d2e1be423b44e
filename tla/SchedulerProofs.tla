--------------------------- MODULE SchedulerProofs --------------------------
(***************************************************************************)
(* Proofs about Scheduler: its type invariant, the bookkeeping of the      *)
(* threads, the thread that runs, its handlers and its events, for any     *)
(* number of processes, threads, areas and events, any time slice and any  *)
(* programs; where Disciplined is assumed, programs that name no dead      *)
(* thread.                                                                 *)
(***************************************************************************)
EXTENDS Scheduler, QueueOpsProofs

\* The threads alloc, with contents h, are accounted for by the processes ps,
\* of which pl exist: each has the id it was given and an existing process,
\* whose thread list and area bitmap agree with it.
Owned(h, alloc, pl, ps) ==
    /\ \A a \in alloc : h[a].id \in ThreadId /\ h[a].process \in pl
    /\ \A p \in Process :
        /\ Distinct(ps[p].threads)
        /\ Entries(ps[p].threads) = {a \in alloc : h[a].process = p}
    /\ \A a \in alloc :
        /\ h[a].block \in ps[h[a].process].blocks
        /\ \A b \in alloc :
            h[a].process = h[b].process /\ h[a].block = h[b].block => a = b

\* The inductive invariant.
IInv == /\ TypeOK
        /\ EveryThreadScheduledOnce
        /\ Owned(heap, allocated, process_list, process)

\* The contents h and g give every block the same id, process and area.
SameOwners(h, g) ==
    \A a \in ThreadAddr : /\ g[a].id = h[a].id
                          /\ g[a].process = h[a].process
                          /\ g[a].block = h[a].block

\* Scheduling fields do not matter to the accounts.
LEMMA SameOwnersOwned ==
    ASSUME NEW h, NEW g, NEW alloc \in SUBSET ThreadAddr, NEW pl, NEW ps,
           SameOwners(h, g), Owned(h, alloc, pl, ps)
    PROVE  Owned(g, alloc, pl, ps)
<1>1. \A a \in alloc : /\ g[a].id = h[a].id
                       /\ g[a].process = h[a].process
                       /\ g[a].block = h[a].block
  BY DEF SameOwners
<1>2. \A p \in Process : {a \in alloc : g[a].process = p}
                            = {a \in alloc : h[a].process = p}
  BY <1>1
<1> QED BY <1>1, <1>2 DEF Owned
-----------------------------------------------------------------------------
(***************************************************************************)
(* The context switch.                                                     *)
(***************************************************************************)

\* The event loop changes nothing but the scheduling fields.
LEMMA AfterEventsFacts ==
    ASSUME NEW h \in [ThreadAddr -> Thread], NEW evq \in Seq(ThreadEvent)
    PROVE  /\ AfterEvents(h, evq) \in [ThreadAddr -> Thread]
           /\ SameOwners(h, AfterEvents(h, evq))
<1>1. ASSUME NEW a \in ThreadAddr, NEW n \in ThreadId
      PROVE  /\ InHandler(h[a], n) \in Thread
             /\ InHandler(h[a], n).id = h[a].id
             /\ InHandler(h[a], n).process = h[a].process
             /\ InHandler(h[a], n).block = h[a].block
  <2>1. h[a] \in Thread /\ n \in Context
    BY DEF ThreadId, Context
  <2> QED BY <2>1 DEF InHandler, Thread
<1>2. \A i \in Delivered(h, evq) : i \in DOMAIN evq
  BY DEF Delivered
<1>3. \A i \in Delivered(h, evq) : evq[i].handler \in ThreadId
  <2>1. \A i \in DOMAIN evq : evq[i] \in ThreadEvent
    OBVIOUS
  <2>2. \A e \in ThreadEvent : e.handler \in ThreadId
    BY DEF ThreadEvent
  <2> QED BY <1>2, <2>1, <2>2
<1>4. ASSUME NEW a \in ThreadAddr
      PROVE  \/ AfterEvents(h, evq)[a] = h[a]
             \/ \E n \in ThreadId : AfterEvents(h, evq)[a] = InHandler(h[a], n)
  <2>1. CASE \E i \in Delivered(h, evq) : evq[i].thread = a
    <3> DEFINE c == CHOOSE i \in Delivered(h, evq) : evq[i].thread = a
    <3>1. c \in Delivered(h, evq)
      BY <2>1
    <3>2. AfterEvents(h, evq)[a] = InHandler(h[a], evq[c].handler)
      BY <2>1 DEF AfterEvents
    <3> HIDE DEF c
    <3> QED BY <3>1, <3>2, <1>3
  <2>2. CASE ~ \E i \in Delivered(h, evq) : evq[i].thread = a
    BY <2>2 DEF AfterEvents
  <2> QED BY <2>1, <2>2
<1>5. \A a \in ThreadAddr : AfterEvents(h, evq)[a] \in Thread
  BY <1>1, <1>4
<1>6. SameOwners(h, AfterEvents(h, evq))
  BY <1>1, <1>4 DEF SameOwners
<1>7. AfterEvents(h, evq)
        = [a \in ThreadAddr |-> AfterEvents(h, evq)[a]]
  BY DEF AfterEvents
<1> QED BY <1>5, <1>6, <1>7

\* The event loop leaves a queue of events.
LEMMA RemainingEventsType ==
    ASSUME NEW h, NEW evq \in Seq(ThreadEvent)
    PROVE  RemainingEvents(h, evq) \in Seq(ThreadEvent)
<1>1. DOMAIN evq \ (Dropped(h, evq) \cup Delivered(h, evq))
        \in SUBSET DOMAIN evq
  OBVIOUS
<1> QED BY <1>1, KeepType DEF RemainingEvents

\* Clearing a suspension leaves a thread of the same owner.
LEMMA ResumedFacts ==
    ASSUME NEW t \in Thread
    PROVE  /\ Resumed(t) \in Thread
           /\ Resumed(t).id = t.id
           /\ Resumed(t).process = t.process
           /\ Resumed(t).block = t.block
<1>1. 0 \in 0 .. TimeWrap - 1
  BY ConstantsAssumption
<1>2. CASE t.suspended
  <2>1. Resumed(t) = [t EXCEPT !.suspended = FALSE, !.resume_time = 0]
    BY <1>2 DEF Resumed
  <2> QED BY <1>1, <2>1 DEF Thread
<1>3. CASE ~ t.suspended
  BY <1>3 DEF Resumed
<1> QED BY <1>2, <1>3

\* A context switch that is entered with every existing thread in the
\* execution queue, once, leaves every one but the running one in it, once.
LEMMA ContextSwitchFacts ==
    ASSUME NEW h \in [ThreadAddr -> Thread], NEW alloc \in SUBSET ThreadAddr,
           NEW ps, NEW evq \in Seq(ThreadEvent), NEW exq \in Seq(ThreadAddr),
           NEW now, Distinct(exq), Entries(exq) = alloc,
           ContextSwitch(h, alloc, ps, evq, exq, now)
    PROVE  /\ heap' \in [ThreadAddr -> Thread]
           /\ SameOwners(h, heap')
           /\ thread_event_queue' \in Seq(ThreadEvent)
           /\ thread_execution_queue' \in Seq(ThreadAddr)
           /\ current_thread' \in alloc \cup {NoThread}
           /\ Distinct(thread_execution_queue')
           /\ Entries(thread_execution_queue') = alloc \ {current_thread'}
           /\ cpu' \in {"running", "halted"}
<1>1. NoThread \notin alloc
  BY ConstantsAssumption
<1>2. CASE StaleEvent(alloc, evq)
  <2>1. /\ cpu' = "halted"
        /\ heap' = h
        /\ thread_event_queue' = evq
        /\ thread_execution_queue' = exq
        /\ current_thread' = NoThread
    BY <1>2 DEF ContextSwitch, Panic
  <2> QED BY <1>1, <2>1 DEF SameOwners
<1>3. CASE ~ StaleEvent(alloc, evq)
  <2> DEFINE woken == AfterEvents(h, evq)
  <2>1. /\ cpu' = "running"
        /\ thread_event_queue' = RemainingEvents(h, evq)
        /\ \/ \E k \in DOMAIN exq : Run(woken, ps, exq, now, k)
           \/ Sleep(woken, ps, exq, now)
    BY <1>3 DEF ContextSwitch
  <2>2. woken \in [ThreadAddr -> Thread] /\ SameOwners(h, woken)
    BY AfterEventsFacts
  <2>3. thread_event_queue' \in Seq(ThreadEvent)
    BY <2>1, RemainingEventsType
  <2> HIDE DEF woken
  <2>4. CASE Sleep(woken, ps, exq, now)
    <3>1. /\ current_thread' = NoThread
          /\ heap' = woken
          /\ thread_execution_queue' = exq
      BY <2>4 DEF Sleep
    <3> QED BY <1>1, <2>1, <2>2, <2>3, <3>1
  <2>5. ASSUME NEW k \in DOMAIN exq, Run(woken, ps, exq, now, k)
        PROVE  /\ heap' \in [ThreadAddr -> Thread]
               /\ SameOwners(h, heap')
               /\ thread_execution_queue' \in Seq(ThreadAddr)
               /\ current_thread' \in alloc
               /\ Distinct(thread_execution_queue')
               /\ Entries(thread_execution_queue') = alloc \ {current_thread'}
    <3>1. /\ current_thread' = exq[k]
          /\ heap' = [woken EXCEPT ![exq[k]] = Resumed(woken[exq[k]])]
          /\ thread_execution_queue' = TakenAt(exq, k)
      BY <2>5 DEF Run
    <3>2. exq[k] \in alloc
      BY DEF Entries
    <3>3. woken[exq[k]] \in Thread
      BY <2>2, <3>2
    <3>4. heap' \in [ThreadAddr -> Thread] /\ SameOwners(h, heap')
      BY <2>2, <3>1, <3>3, ResumedFacts DEF SameOwners
    <3>5. k \in 1 .. Len(exq)
      OBVIOUS
    <3>6. /\ thread_execution_queue' \in Seq(ThreadAddr)
          /\ Distinct(thread_execution_queue')
          /\ Entries(thread_execution_queue') = Entries(exq) \ {exq[k]}
      BY <3>1, <3>5, TakenAtFacts
    <3> QED BY <3>1, <3>2, <3>4, <3>6
  <2> QED BY <2>1, <2>2, <2>3, <2>4, <2>5
<1> QED BY <1>2, <1>3
-----------------------------------------------------------------------------
(***************************************************************************)
(* The invariant after a context switch.                                   *)
(***************************************************************************)

\* A step that ends in a context switch keeps the invariant if it hands the
\* switch good contents, accounts and queues.
LEMMA SwitchKeepsIInv ==
    ASSUME NEW h \in [ThreadAddr -> Thread], NEW alloc \in SUBSET ThreadAddr,
           NEW ps \in [Process -> ProcessState], NEW evq \in Seq(ThreadEvent),
           NEW exq \in Seq(ThreadAddr), NEW now,
           Distinct(exq), Entries(exq) = alloc,
           ContextSwitch(h, alloc, ps, evq, exq, now),
           allocated' = alloc, process' = ps,
           process_list' \in SUBSET Process,
           Owned(h, alloc, process_list', ps),
           thread_list' \in Seq(ThreadAddr), Len(thread_list') <= MaxThreadId,
           elapsed_ms' \in 0 .. TimeWrap - 1
    PROVE  IInv'
<1>1. /\ heap' \in [ThreadAddr -> Thread]
      /\ SameOwners(h, heap')
      /\ thread_event_queue' \in Seq(ThreadEvent)
      /\ thread_execution_queue' \in Seq(ThreadAddr)
      /\ current_thread' \in alloc \cup {NoThread}
      /\ Distinct(thread_execution_queue')
      /\ Entries(thread_execution_queue') = alloc \ {current_thread'}
      /\ cpu' \in {"running", "halted"}
  BY ContextSwitchFacts
<1>2. Owned(heap', alloc, process_list', ps)
  BY <1>1, SameOwnersOwned
<1>3. TypeOK'
  BY <1>1 DEF TypeOK
<1>4. EveryThreadScheduledOnce'
  BY <1>1 DEF EveryThreadScheduledOnce
<1>5. Owned(heap, allocated, process_list, process)'
  BY <1>2
<1> QED BY <1>3, <1>4, <1>5 DEF IInv

\* With the running thread pushed back, the execution queue holds every
\* existing thread once.
LEMMA RequeuedFacts ==
    ASSUME IInv
    PROVE  /\ Requeued \in Seq(ThreadAddr)
           /\ Distinct(Requeued)
           /\ Entries(Requeued) = allocated
<1>1. /\ thread_execution_queue \in Seq(ThreadAddr)
      /\ allocated \subseteq ThreadAddr
      /\ current_thread \in allocated \cup {NoThread}
      /\ Distinct(thread_execution_queue)
      /\ Entries(thread_execution_queue) = allocated \ {current_thread}
      /\ NoThread \notin allocated
  BY ConstantsAssumption DEF IInv, TypeOK, EveryThreadScheduledOnce
<1>2. CASE current_thread = NoThread
  BY <1>1, <1>2 DEF Requeued
<1>3. CASE current_thread # NoThread
  <2>1. /\ current_thread \in ThreadAddr
        /\ current_thread \in allocated
        /\ current_thread \notin Entries(thread_execution_queue)
    BY <1>1, <1>3
  <2>2. Requeued = Append(thread_execution_queue, current_thread)
    BY <1>3 DEF Requeued
  <2>3. PICK r : r = Append(thread_execution_queue, current_thread)
    OBVIOUS
  <2>4. /\ r \in Seq(ThreadAddr)
        /\ Entries(r) = Entries(thread_execution_queue) \cup {current_thread}
        /\ Distinct(r)
    BY <1>1, <2>1, <2>3, AppendFacts
  <2> QED BY <1>1, <2>1, <2>2, <2>3, <2>4
<1> QED BY <1>2, <1>3

\* A program that runs is an existing thread.
LEMMA InProgramFacts ==
    ASSUME IInv, InProgram
    PROVE  /\ current_thread \in allocated
           /\ current_thread \in ThreadAddr
           /\ heap[current_thread] \in Thread
           /\ heap[current_thread].id \in ThreadId
           /\ heap[current_thread].process \in Process
           /\ heap[current_thread].process \in process_list
<1>1. current_thread \in allocated /\ current_thread \in ThreadAddr
  BY DEF IInv, InProgram, EveryThreadScheduledOnce, TypeOK
<1>2. heap[current_thread] \in Thread
  BY <1>1 DEF IInv, TypeOK
<1>3. heap[current_thread].process \in Process
  BY <1>2 DEF Thread
<1>4. /\ heap[current_thread].id \in ThreadId
      /\ heap[current_thread].process \in process_list
  BY <1>1 DEF IInv, Owned
<1> QED BY <1>1, <1>2, <1>3, <1>4

\* A system call that changes scheduling fields of the caller and switches.
LEMMA YieldKeepsIInv ==
    ASSUME IInv, InProgram, NEW t \in Thread,
           t.id = heap[current_thread].id,
           t.process = heap[current_thread].process,
           t.block = heap[current_thread].block,
           Yield(t)
    PROVE  IInv'
<1> DEFINE h == [heap EXCEPT ![current_thread] = t]
<1>1. heap \in [ThreadAddr -> Thread]
  BY DEF IInv, TypeOK
<1>2. h \in [ThreadAddr -> Thread] /\ SameOwners(heap, h)
  BY <1>1, InProgramFacts DEF SameOwners
<1>3. /\ ContextSwitch(h, allocated, process, thread_event_queue, Requeued,
                       elapsed_ms)
      /\ UNCHANGED <<allocated, thread_list, process_list, process, elapsed_ms>>
  BY DEF Yield
<1>4. /\ allocated \in SUBSET ThreadAddr
      /\ process \in [Process -> ProcessState]
      /\ thread_event_queue \in Seq(ThreadEvent)
      /\ process_list \in SUBSET Process
      /\ thread_list \in Seq(ThreadAddr)
      /\ Len(thread_list) <= MaxThreadId
      /\ elapsed_ms \in 0 .. TimeWrap - 1
      /\ Owned(heap, allocated, process_list, process)
  BY DEF IInv, TypeOK
<1> HIDE DEF h
<1>5. Owned(h, allocated, process_list, process)
  BY <1>2, <1>4, SameOwnersOwned
<1>6. /\ Requeued \in Seq(ThreadAddr)
      /\ Distinct(Requeued)
      /\ Entries(Requeued) = allocated
  BY RequeuedFacts
<1>7. /\ allocated' = allocated
      /\ process' = process
      /\ process_list' \in SUBSET Process
      /\ Owned(h, allocated, process_list', process)
      /\ thread_list' \in Seq(ThreadAddr) /\ Len(thread_list') <= MaxThreadId
      /\ elapsed_ms' \in 0 .. TimeWrap - 1
  BY <1>3, <1>4, <1>5
<1> QED BY <1>2, <1>3, <1>4, <1>6, <1>7, SwitchKeepsIInv
-----------------------------------------------------------------------------
(***************************************************************************)
(* The parts of the steps.                                                 *)
(***************************************************************************)

\* What the invariant says of each variable.
LEMMA IInvFacts ==
    ASSUME IInv
    PROVE  /\ heap \in [ThreadAddr -> Thread]
           /\ allocated \in SUBSET ThreadAddr
           /\ thread_list \in Seq(ThreadAddr)
           /\ Len(thread_list) <= MaxThreadId
           /\ process_list \in SUBSET Process
           /\ process \in [Process -> ProcessState]
           /\ thread_event_queue \in Seq(ThreadEvent)
           /\ thread_execution_queue \in Seq(ThreadAddr)
           /\ Distinct(thread_execution_queue)
           /\ Entries(thread_execution_queue) = allocated \ {current_thread}
           /\ current_thread \in allocated \cup {NoThread}
           /\ elapsed_ms \in 0 .. TimeWrap - 1
           /\ Owned(heap, allocated, process_list, process)
BY DEF IInv, TypeOK, EveryThreadScheduledOnce

\* The queue r is q with events behind.
Extends(q, r) == \E new \in Seq(ThreadEvent) : r = q \o new

\* emit_event queues events for threads with an id behind those that are there.
LEMMA EmittedAppends ==
    ASSUME NEW evq \in Seq(ThreadEvent), NEW ls \in Seq(Listener),
           NEW ids \in SUBSET {1, 2, 4, 8}, NEW h, NEW tl \in Seq(ThreadAddr)
    PROVE  Extends(evq, Emitted(evq, ls, ids, h, tl))
<1> DEFINE K == Notified(ls, ids, h, tl)
           told == Keep(ls, K)
           e(l) == [thread |-> tl[l.thread_id], event_id |-> ids,
                    handler |-> l.thread_id]
<1>1. K \in SUBSET DOMAIN ls
  BY DEF Notified
<1>2. \A i \in K : ls[i].thread_id \in DOMAIN tl
  BY DEF Notified
<1>3. told \in Seq(Listener)
      /\ \E f \in [DOMAIN told -> K] : \A j \in DOMAIN told : told[j] = ls[f[j]]
  <2> HIDE DEF K
  <2>1. told \in Seq(Listener)
    BY <1>1, KeepType
  <2>2. \E f \in [DOMAIN told -> K] : ReadsInOrder(told, ls, K, f)
    BY <1>1, KeepFacts
  <2> HIDE DEF told
  <2> QED BY <2>1, <2>2 DEF ReadsInOrder
<1> HIDE DEF told, K
<1>4. \A j \in DOMAIN told : told[j].thread_id \in DOMAIN tl
  BY <1>2, <1>3
<1>5. \A j \in DOMAIN told : e(told[j]) \in ThreadEvent
  <2> SUFFICES ASSUME NEW j \in DOMAIN told PROVE e(told[j]) \in ThreadEvent
    OBVIOUS
  <2>1. tl[told[j].thread_id] \in ThreadAddr
    BY <1>4
  <2>2. told[j].thread_id \in ThreadId
    <3>1. told[j] \in Listener
      BY <1>3
    <3> QED BY <3>1 DEF Listener
  <2> QED BY <2>1, <2>2 DEF ThreadEvent
<1>6. [j \in DOMAIN told |-> e(told[j])] \in Seq(ThreadEvent)
  <2> HIDE DEF e
  <2>1. PICK n \in Nat : DOMAIN told = 1 .. n
    BY <1>3
  <2> QED BY <1>5, <2>1
<1>7. Emitted(evq, ls, ids, h, tl) = evq \o [j \in DOMAIN told |-> e(told[j])]
  BY DEF Emitted, told, K
<1> HIDE DEF e
<1> QED BY <1>6, <1>7 DEF Extends

\* emit_event leaves a queue of events, and a list of listeners.
LEMMA EmittedType ==
    ASSUME NEW evq \in Seq(ThreadEvent), NEW ls \in Seq(Listener),
           NEW ids \in SUBSET {1, 2, 4, 8}, NEW h, NEW tl \in Seq(ThreadAddr)
    PROVE  /\ Emitted(evq, ls, ids, h, tl) \in Seq(ThreadEvent)
           /\ StillHooked(ls, ids, tl) \in Seq(Listener)
<1>1. Emitted(evq, ls, ids, h, tl) \in Seq(ThreadEvent)
  <2>1. Extends(evq, Emitted(evq, ls, ids, h, tl))
    BY EmittedAppends
  <2> QED BY <2>1 DEF Extends
<1>2. DOMAIN ls \ Forgotten(ls, ids, tl) \in SUBSET DOMAIN ls
  OBVIOUS
<1>3. StillHooked(ls, ids, tl) \in Seq(Listener)
  BY <1>2, KeepType DEF StillHooked
<1> QED BY <1>1, <1>3

\* Unlinking events leaves a queue of events.
LEMMA EventsWithoutType ==
    ASSUME IInv, NEW dead
    PROVE  EventsWithout(dead) \in Seq(ThreadEvent)
<1> DEFINE K == {i \in DOMAIN thread_event_queue :
                    thread_event_queue[i].thread \notin dead}
<1>1. K \in SUBSET DOMAIN thread_event_queue
  OBVIOUS
<1> HIDE DEF K
<1> QED BY <1>1, IInvFacts, KeepType DEF EventsWithout, K

\* Listeners and the suspension of a process do not matter to the accounts.
LEMMA SameThreadsOwned ==
    ASSUME NEW h, NEW alloc, NEW pl, NEW ps, NEW qs,
           Owned(h, alloc, pl, ps),
           \A a \in alloc : h[a].process \in Process,
           \A p \in Process : /\ qs[p].threads = ps[p].threads
                              /\ qs[p].blocks = ps[p].blocks
    PROVE  Owned(h, alloc, pl, qs)
<1>1. \A p \in Process :
        /\ Distinct(qs[p].threads)
        /\ Entries(qs[p].threads) = {a \in alloc : h[a].process = p}
  BY DEF Owned
<1> QED BY <1>1 DEF Owned

\* A changed list of listeners.
LEMMA HookedFacts ==
    ASSUME NEW ps \in [Process -> ProcessState], NEW p \in Process,
           NEW ls \in Seq(Listener)
    PROVE  /\ Hooked(ps, p, ls) \in [Process -> ProcessState]
           /\ \A r \in Process :
                /\ Hooked(ps, p, ls)[r].threads = ps[r].threads
                /\ Hooked(ps, p, ls)[r].blocks = ps[r].blocks
<1> DEFINE new == [ps[p] EXCEPT !.hooked_threads = ls]
<1>1. \A r \in Process : ps[r] \in ProcessState
  OBVIOUS
<1>2. /\ new \in ProcessState
      /\ new.threads = ps[p].threads
      /\ new.blocks = ps[p].blocks
  BY <1>1 DEF ProcessState
<1>3. Hooked(ps, p, ls) = [ps EXCEPT ![p] = new]
  BY DEF Hooked
<1> HIDE DEF new
<1> QED BY <1>1, <1>2, <1>3

\* A step that adds events and changes listeners, as emit_event does.
LEMMA EventStepKeepsIInv ==
    ASSUME IInv, NEW p \in Process, NEW ls \in Seq(Listener),
           process' = Hooked(process, p, ls),
           thread_event_queue' \in Seq(ThreadEvent),
           UNCHANGED <<heap, allocated, thread_list, process_list,
                       thread_execution_queue, current_thread, elapsed_ms, cpu>>
    PROVE  IInv'
<1>1. /\ process' \in [Process -> ProcessState]
      /\ \A r \in Process : /\ process'[r].threads = process[r].threads
                            /\ process'[r].blocks = process[r].blocks
  BY IInvFacts, HookedFacts
<1>2. \A a \in allocated : heap[a].process \in Process
  BY IInvFacts DEF Thread
<1>3. Owned(heap, allocated, process_list, process')
  BY <1>1, <1>2, IInvFacts, SameThreadsOwned
<1>4. TypeOK'
  BY <1>1 DEF IInv, TypeOK
<1>5. EveryThreadScheduledOnce'
  BY DEF IInv, EveryThreadScheduledOnce
<1> QED BY <1>3, <1>4, <1>5 DEF IInv

\* A step that changes only cpu, or nothing.
LEMMA CpuStepKeepsIInv ==
    ASSUME IInv, cpu' \in {"boot", "running", "halted", "undefined"},
           UNCHANGED <<heap, allocated, thread_list, process_list, process,
                       thread_execution_queue, thread_event_queue,
                       current_thread, elapsed_ms>>
    PROVE  IInv'
<1>1. TypeOK'
  BY DEF IInv, TypeOK
<1>2. EveryThreadScheduledOnce'
  BY DEF IInv, EveryThreadScheduledOnce
<1>3. Owned(heap, allocated, process_list, process)'
  BY IInvFacts
<1> QED BY <1>1, <1>2, <1>3 DEF IInv

\* A system call that changes scheduling fields of a thread and returns.
LEMMA AssignKeepsIInv ==
    ASSUME IInv, NEW a \in ThreadAddr, NEW t \in Thread,
           t.id = heap[a].id, t.process = heap[a].process,
           t.block = heap[a].block, Assign(a, t)
    PROVE  IInv'
<1>1. CASE a \in allocated
  <2>1. /\ heap' = [heap EXCEPT ![a] = t]
        /\ UNCHANGED <<allocated, thread_list, process_list, process,
                       thread_execution_queue, thread_event_queue,
                       current_thread, elapsed_ms, cpu>>
    BY <1>1 DEF Assign
  <2>2. heap' \in [ThreadAddr -> Thread] /\ SameOwners(heap, heap')
    BY <2>1, IInvFacts DEF SameOwners
  <2>3. Owned(heap', allocated, process_list, process)
    BY <2>2, IInvFacts, SameOwnersOwned
  <2>4. TypeOK'
    BY <2>1, <2>2 DEF IInv, TypeOK
  <2>5. EveryThreadScheduledOnce'
    BY <2>1 DEF IInv, EveryThreadScheduledOnce
  <2> QED BY <2>1, <2>3, <2>4, <2>5 DEF IInv
<1>2. CASE a \notin allocated
  BY <1>2, CpuStepKeepsIInv DEF Assign, Corrupt
<1> QED BY <1>1, <1>2
-----------------------------------------------------------------------------
(***************************************************************************)
(* Interrupts and the system calls that move no thread between processes.  *)
(***************************************************************************)

LEMMA TimerTickStep == ASSUME IInv, TimerTick PROVE IInv'
<1> DEFINE now == (elapsed_ms + TimeSlice) % TimeWrap
<1>1. now \in 0 .. TimeWrap - 1
  BY IInvFacts, ConstantsAssumption
<1>2. /\ elapsed_ms' = now
      /\ ContextSwitch(heap, allocated, process, thread_event_queue, Requeued,
                       now)
      /\ UNCHANGED <<allocated, thread_list, process_list, process>>
  BY DEF TimerTick
<1> HIDE DEF now
<1>3. Owned(heap, allocated, process_list', process)
  BY <1>2, IInvFacts
<1>4. elapsed_ms' \in 0 .. TimeWrap - 1
  BY <1>1, <1>2
<1>5. /\ process_list' \in SUBSET Process
      /\ thread_list' \in Seq(ThreadAddr)
      /\ Len(thread_list') <= MaxThreadId
  BY <1>2, IInvFacts
<1> QED
  BY <1>2, <1>3, <1>4, <1>5, IInvFacts, RequeuedFacts, SwitchKeepsIInv

LEMMA KeyboardInterruptStep ==
    ASSUME IInv, NEW ids \in KeyEvents, KeyboardInterrupt(ids) PROVE IInv'
<1>1. KeyboardDriver \in Process /\ ids \in SUBSET {1, 2, 4, 8}
  BY ConstantsAssumption DEF Process
<1>2. process[KeyboardDriver].hooked_threads \in Seq(Listener)
  BY <1>1, IInvFacts DEF ProcessState
<1>3. thread_event_queue' \in Seq(ThreadEvent)
  BY <1>1, <1>2, IInvFacts, EmittedType DEF KeyboardInterrupt
<1>4. StillHooked(process[KeyboardDriver].hooked_threads, ids, thread_list)
        \in Seq(Listener)
  BY <1>1, <1>2, IInvFacts, EmittedType
<1> QED BY <1>1, <1>3, <1>4, EventStepKeepsIInv DEF KeyboardInterrupt

LEMMA EmitEventStep ==
    ASSUME IInv, NEW ids \in EmitIds, EmitEvent(ids) PROVE IInv'
<1> DEFINE p == heap[current_thread].process
<1>1. p \in Process /\ ids \in SUBSET {1, 2, 4, 8}
  BY ConstantsAssumption, InProgramFacts DEF EmitEvent
<1>2. process[p].hooked_threads \in Seq(Listener)
  BY <1>1, IInvFacts DEF ProcessState
<1>3. /\ thread_event_queue' = Emitted(thread_event_queue,
                        process[p].hooked_threads, ids, heap, thread_list)
      /\ process' = Hooked(process, p,
                StillHooked(process[p].hooked_threads, ids, thread_list))
      /\ UNCHANGED <<heap, allocated, thread_list, process_list,
                     thread_execution_queue, current_thread, elapsed_ms, cpu>>
  BY DEF EmitEvent
<1> HIDE DEF p
<1>4. thread_event_queue' \in Seq(ThreadEvent)
  BY <1>1, <1>2, <1>3, IInvFacts, EmittedType
<1>5. StillHooked(process[p].hooked_threads, ids, thread_list)
        \in Seq(Listener)
  BY <1>1, <1>2, IInvFacts, EmittedType
<1> QED BY <1>1, <1>3, <1>4, <1>5, EventStepKeepsIInv

LEMMA RegisterEventStep ==
    ASSUME IInv, NEW p \in Process, NEW mask \in Masks, RegisterEvent(p, mask)
    PROVE  IInv'
<1> DEFINE l == [thread_id |-> heap[current_thread].id,
                 enabled_event_ids |-> mask]
<1>1. l \in Listener
  BY ConstantsAssumption, InProgramFacts DEF RegisterEvent, Listener
<1>2. process[p].hooked_threads \in Seq(Listener)
  BY IInvFacts DEF ProcessState
<1>3. /\ process' = Hooked(process, p, Append(process[p].hooked_threads, l))
      /\ UNCHANGED <<heap, allocated, thread_list, process_list,
                     thread_execution_queue, thread_event_queue,
                     current_thread, elapsed_ms, cpu>>
  BY DEF RegisterEvent
<1> HIDE DEF l
<1>4. Append(process[p].hooked_threads, l) \in Seq(Listener)
  BY <1>1, <1>2
<1>5. thread_event_queue' \in Seq(ThreadEvent)
  BY <1>3, IInvFacts
<1> QED BY <1>3, <1>4, <1>5, EventStepKeepsIInv

LEMMA SuspendThreadStep ==
    ASSUME IInv, NEW d \in Delays, SuspendThread(d) PROVE IInv'
<1> DEFINE until == IF d = 0 THEN 1 ELSE (elapsed_ms + d) % TimeWrap
           t == [heap[current_thread] EXCEPT !.suspended = TRUE,
                                             !.resume_time = until]
<1>1. InProgram /\ Yield(t)
  BY DEF SuspendThread
<1>2. until \in 0 .. TimeWrap - 1
  <2>1. /\ d \in Nat
        /\ elapsed_ms \in Nat
        /\ TimeWrap \in Nat \ {0}
        /\ TimeWrap > 1
    BY IInvFacts, ConstantsAssumption
  <2> QED BY <2>1
<1> HIDE DEF until
<1>3. /\ t \in Thread
      /\ t.id = heap[current_thread].id
      /\ t.process = heap[current_thread].process
      /\ t.block = heap[current_thread].block
  BY <1>1, <1>2, InProgramFacts DEF Thread
<1> HIDE DEF t
<1> QED BY <1>1, <1>3, YieldKeepsIInv

LEMMA EndEventStep == ASSUME IInv, EndEvent PROVE IInv'
<1> DEFINE t == [heap[current_thread] EXCEPT
                    !.processing_event = FALSE,
                    !.registers = heap[current_thread].backup_registers]
<1>1. InProgram /\ Yield(t)
  BY DEF EndEvent
<1>2. /\ t \in Thread
      /\ t.id = heap[current_thread].id
      /\ t.process = heap[current_thread].process
      /\ t.block = heap[current_thread].block
  BY <1>1, InProgramFacts DEF Thread
<1> HIDE DEF t
<1> QED BY <1>1, <1>2, YieldKeepsIInv

LEMMA SetOwnPolicyStep ==
    ASSUME IInv, NEW policy \in Policy, SetOwnPolicy(policy) PROVE IInv'
<1> DEFINE t == [heap[current_thread] EXCEPT !.execution_policy = policy]
<1>1. InProgram /\ (Yield(t) \/ Assign(current_thread, t))
  BY DEF SetOwnPolicy
<1>2. /\ t \in Thread
      /\ t.id = heap[current_thread].id
      /\ t.process = heap[current_thread].process
      /\ t.block = heap[current_thread].block
  BY <1>1, InProgramFacts DEF Thread
<1>3. current_thread \in ThreadAddr
  BY <1>1, InProgramFacts
<1> HIDE DEF t
<1> QED BY <1>1, <1>2, <1>3, YieldKeepsIInv, AssignKeepsIInv

LEMMA ParkSelfStep == ASSUME IInv, ParkSelf PROVE IInv'
<1> DEFINE t == [heap[current_thread] EXCEPT !.parked = TRUE]
<1>1. InProgram /\ Yield(t)
  BY DEF ParkSelf
<1>2. /\ t \in Thread
      /\ t.id = heap[current_thread].id
      /\ t.process = heap[current_thread].process
      /\ t.block = heap[current_thread].block
  BY <1>1, InProgramFacts DEF Thread
<1> HIDE DEF t
<1> QED BY <1>1, <1>2, YieldKeepsIInv

LEMMA GetInputStep == ASSUME IInv, GetInput PROVE IInv'
<1> DEFINE t == [heap[current_thread] EXCEPT !.suspended = TRUE,
                                             !.resume_time = 0]
<1>1. InProgram /\ Yield(t)
  BY DEF GetInput
<1>2. 0 \in 0 .. TimeWrap - 1
  BY ConstantsAssumption
<1>3. /\ t \in Thread
      /\ t.id = heap[current_thread].id
      /\ t.process = heap[current_thread].process
      /\ t.block = heap[current_thread].block
  BY <1>1, <1>2, InProgramFacts DEF Thread
<1> HIDE DEF t
<1> QED BY <1>1, <1>3, YieldKeepsIInv

LEMMA PreemptStep == ASSUME IInv, Preempt PROVE IInv'
BY InProgramFacts, YieldKeepsIInv DEF Preempt

\* The three calls that change a field of a named thread.
LEMMA NamedThreadStep ==
    ASSUME IInv, NEW n \in ThreadId, Names(n), NEW policy \in Policy,
           SetPolicy(n, policy) \/ ParkThread(n) \/ UnparkThread(n)
    PROVE  IInv'
<1>1. PICK a \in ThreadAddr : a = thread_list[n]
  BY IInvFacts DEF Names
<1>2. heap[a] \in Thread
  BY IInvFacts
<1>3. CASE SetPolicy(n, policy)
  <2> DEFINE t == [heap[a] EXCEPT !.execution_policy = policy]
  <2>1. t \in Thread /\ t.id = heap[a].id /\ t.process = heap[a].process
        /\ t.block = heap[a].block
    BY <1>2 DEF Thread
  <2>2. Assign(a, t)
    BY <1>1, <1>3 DEF SetPolicy
  <2> HIDE DEF t
  <2> QED BY <2>1, <2>2, AssignKeepsIInv
<1>4. ASSUME NEW b \in BOOLEAN, Assign(a, [heap[a] EXCEPT !.parked = b])
      PROVE  IInv'
  <2> DEFINE t == [heap[a] EXCEPT !.parked = b]
  <2>1. t \in Thread /\ t.id = heap[a].id /\ t.process = heap[a].process
        /\ t.block = heap[a].block
    BY <1>2 DEF Thread
  <2>2. Assign(a, t)
    BY <1>4
  <2> HIDE DEF t
  <2> QED BY <2>1, <2>2, AssignKeepsIInv
<1>5. ParkThread(n) => Assign(a, [heap[a] EXCEPT !.parked = TRUE])
  BY <1>1 DEF ParkThread
<1>6. UnparkThread(n) => Assign(a, [heap[a] EXCEPT !.parked = FALSE])
  BY <1>1 DEF UnparkThread
<1> QED BY <1>3, <1>4, <1>5, <1>6
-----------------------------------------------------------------------------
(***************************************************************************)
(* Death.                                                                  *)
(***************************************************************************)

\* kill_process leaves the accounts of the other processes as they are.
LEMMA ProcessEndsOwned ==
    ASSUME IInv, NEW p \in Process, NEW dead,
           dead = Entries(process[p].threads)
    PROVE  Owned(heap, allocated \ dead, process_list \ {p},
                 [process EXCEPT ![p] = NoProcess])
<1> DEFINE ps == [process EXCEPT ![p] = NoProcess]
<1>1. Owned(heap, allocated, process_list, process)
  BY IInvFacts
<1>2. dead = {a \in allocated : heap[a].process = p}
  BY <1>1 DEF Owned
<1>3. \A r \in Process : ps[r] = IF r = p THEN NoProcess ELSE process[r]
  BY IInvFacts
<1>4. \A a \in allocated \ dead : heap[a].process # p
  BY <1>2
<1>5. \A a \in allocated : heap[a].process \in Process
  BY IInvFacts DEF Thread
<1> HIDE DEF ps
<1>6. \A a \in allocated \ dead :
        heap[a].id \in ThreadId /\ heap[a].process \in process_list \ {p}
  BY <1>1, <1>4 DEF Owned
<1>7. ASSUME NEW r \in Process
      PROVE  /\ Distinct(ps[r].threads)
             /\ Entries(ps[r].threads)
                    = {a \in allocated \ dead : heap[a].process = r}
  <2>1. CASE r = p
    <3>1. ps[r].threads = <<>>
      BY <1>3, <2>1 DEF NoProcess
    <3>2. {a \in allocated \ dead : heap[a].process = r} = {}
      BY <1>4, <2>1
    <3> QED BY <3>1, <3>2 DEF Distinct, Entries
  <2>2. CASE r # p
    <3>1. ps[r] = process[r]
      BY <1>3, <2>2
    <3>2. {a \in allocated \ dead : heap[a].process = r}
            = {a \in allocated : heap[a].process = r}
      BY <1>2, <2>2
    <3> QED BY <1>1, <3>1, <3>2 DEF Owned
  <2> QED BY <2>1, <2>2
<1>8. \A a \in allocated \ dead :
        /\ heap[a].block \in ps[heap[a].process].blocks
        /\ \A b \in allocated \ dead :
            heap[a].process = heap[b].process /\ heap[a].block = heap[b].block
                => a = b
  BY <1>1, <1>3, <1>4, <1>5 DEF Owned
<1>9. Owned(heap, allocated \ dead, process_list \ {p}, ps)
  BY <1>6, <1>7, <1>8 DEF Owned
<1> QED BY <1>9 DEF ps

LEMMA EndProcessStep == ASSUME IInv, EndProcess PROVE IInv'
<1> DEFINE p     == heap[current_thread].process
           dead  == Entries(process[p].threads)
           alloc == allocated \ dead
           ls    == process[SchedulerEvents].hooked_threads
           evq   == EventsWithout(dead)
           none  == [process EXCEPT ![p] = NoProcess]
           ps    == Hooked(none, SchedulerEvents,
                           StillHooked(ls, {2}, thread_list))
           evs   == Emitted(evq, ls, {2}, heap, thread_list)
           exq   == Without(thread_execution_queue, dead)
<1>1. /\ InProgram
      /\ allocated' = alloc
      /\ process_list' = process_list \ {p}
      /\ process' = ps
      /\ ContextSwitch(heap, alloc, ps, evs, exq, elapsed_ms)
      /\ UNCHANGED <<thread_list, elapsed_ms>>
  BY DEF EndProcess
<1>2. p \in Process /\ current_thread \in allocated
  BY <1>1, InProgramFacts
<1>3. NoProcess \in ProcessState
  BY DEF NoProcess, ProcessState
<1>4. none \in [Process -> ProcessState]
  BY <1>3, IInvFacts
<1>5. SchedulerEvents \in Process
  BY DEF Process
<1>6. ls \in Seq(Listener)
  BY <1>5, IInvFacts DEF ProcessState
<1>7. Owned(heap, alloc, process_list \ {p}, none)
  BY <1>2, ProcessEndsOwned
<1>8. current_thread \in dead
  BY <1>2, IInvFacts DEF Owned
<1> HIDE DEF p, dead, alloc, ls, evq, none, ps, evs, exq
<1>9. evq \in Seq(ThreadEvent)
  BY EventsWithoutType DEF evq
<1>10. /\ evs \in Seq(ThreadEvent)
       /\ StillHooked(ls, {2}, thread_list) \in Seq(Listener)
  BY <1>6, <1>9, IInvFacts, EmittedType DEF evs
<1>11. /\ ps \in [Process -> ProcessState]
       /\ \A r \in Process : /\ ps[r].threads = none[r].threads
                             /\ ps[r].blocks = none[r].blocks
  BY <1>4, <1>5, <1>10, HookedFacts DEF ps
<1>12. alloc \in SUBSET ThreadAddr /\ \A a \in alloc : heap[a].process \in Process
  BY IInvFacts DEF alloc, Thread
<1>13. Owned(heap, alloc, process_list', ps)
  BY <1>1, <1>7, <1>11, <1>12, SameThreadsOwned
<1>14. /\ exq \in Seq(ThreadAddr)
       /\ Distinct(exq)
       /\ Entries(exq) = alloc
  BY <1>8, IInvFacts, WithoutFacts DEF exq, alloc
<1>15. /\ process_list' \in SUBSET Process
       /\ thread_list' \in Seq(ThreadAddr)
       /\ Len(thread_list') <= MaxThreadId
       /\ elapsed_ms' \in 0 .. TimeWrap - 1
  BY <1>1, IInvFacts
<1> QED BY <1>1, <1>10, <1>11, <1>12, <1>13, <1>14, <1>15, IInvFacts,
           SwitchKeepsIInv

\* kill_thread takes the thread out of the accounts and frees its area.
LEMMA ThreadEndsOwned ==
    ASSUME IInv, NEW a \in allocated
    PROVE  /\ ProcessesWithout(a) \in [Process -> ProcessState]
           /\ Owned(heap, allocated \ {a}, process_list, ProcessesWithout(a))
<1> DEFINE p   == heap[a].process
           ps  == ProcessesWithout(a)
           new == [process[p] EXCEPT !.threads = Without(process[p].threads, {a}),
                                     !.blocks = process[p].blocks \ {heap[a].block}]
<1>1. a \in ThreadAddr /\ heap[a] \in Thread
  BY IInvFacts
<1>2. p \in Process
  BY <1>1 DEF Thread
<1>3. process[p] \in ProcessState
  BY <1>2, IInvFacts
<1>4. process[p].threads \in Seq(ThreadAddr)
  BY <1>3 DEF ProcessState
<1>5. Owned(heap, allocated, process_list, process)
  BY IInvFacts
<1>6. /\ Without(process[p].threads, {a}) \in Seq(ThreadAddr)
      /\ Entries(Without(process[p].threads, {a}))
            = Entries(process[p].threads) \ {a}
      /\ Distinct(Without(process[p].threads, {a}))
  <2>1. Distinct(process[p].threads)
    BY <1>2, <1>5 DEF Owned
  <2> QED BY <1>4, <2>1, WithoutFacts
<1>7. /\ new \in ProcessState
      /\ new.threads = Without(process[p].threads, {a})
      /\ new.blocks = process[p].blocks \ {heap[a].block}
  BY <1>3, <1>6 DEF ProcessState
<1>8. ps = [process EXCEPT ![p] = new]
  BY <1>1, <1>2, IInvFacts DEF ProcessesWithout
<1> HIDE DEF new
<1>9. /\ ps \in [Process -> ProcessState]
      /\ \A r \in Process : ps[r] = IF r = p THEN new ELSE process[r]
  BY <1>2, <1>7, <1>8, IInvFacts
<1> HIDE DEF ps, p
<1>10. ASSUME NEW r \in Process
       PROVE  /\ Distinct(ps[r].threads)
              /\ Entries(ps[r].threads)
                    = {b \in allocated \ {a} : heap[b].process = r}
  <2>1. CASE r = p
    <3>1. {b \in allocated \ {a} : heap[b].process = r}
            = {b \in allocated : heap[b].process = r} \ {a}
      OBVIOUS
    <3>2. Entries(process[p].threads) = {b \in allocated : heap[b].process = p}
      BY <1>2, <1>5 DEF Owned
    <3>3. ps[r].threads = Without(process[p].threads, {a})
      BY <1>7, <1>9, <2>1
    <3> QED BY <1>6, <2>1, <3>1, <3>2, <3>3
  <2>2. CASE r # p
    <3>1. {b \in allocated \ {a} : heap[b].process = r}
            = {b \in allocated : heap[b].process = r}
      BY <2>2 DEF p
    <3> QED BY <1>5, <1>9, <2>2, <3>1 DEF Owned
  <2> QED BY <2>1, <2>2
<1>11. \A b \in allocated : heap[b].process \in Process
  BY IInvFacts DEF Thread
<1>12. ASSUME NEW b \in allocated \ {a}
       PROVE  heap[b].block \in ps[heap[b].process].blocks
  <2>1. /\ heap[b].block \in process[heap[b].process].blocks
        /\ heap[b].process = p => heap[b].block # heap[a].block
    BY <1>5 DEF Owned, p
  <2> QED BY <1>7, <1>9, <1>11, <2>1
<1>13. Owned(heap, allocated \ {a}, process_list, ps)
  BY <1>5, <1>10, <1>12 DEF Owned
<1> QED BY <1>9, <1>13 DEF ps

LEMMA KillSelfStep == ASSUME IInv, KillSelf PROVE IInv'
<1> DEFINE a   == current_thread
           evq == EventsWithout({a})
           exq == Without(thread_execution_queue, {a})
<1>1. /\ InProgram
      /\ allocated' = allocated \ {a}
      /\ process' = ProcessesWithout(a)
      /\ ContextSwitch(heap, allocated \ {a}, ProcessesWithout(a), evq, exq,
                       elapsed_ms)
      /\ UNCHANGED <<thread_list, process_list, elapsed_ms>>
  BY DEF KillSelf
<1>2. a \in allocated
  BY <1>1, InProgramFacts
<1>3. evq \in Seq(ThreadEvent)
  BY EventsWithoutType
<1>4. exq \in Seq(ThreadAddr) /\ Distinct(exq) /\ Entries(exq) = allocated \ {a}
  <2>1. Entries(thread_execution_queue) \ {a} = allocated \ {a}
    BY IInvFacts
  <2> QED BY <2>1, IInvFacts, WithoutFacts
<1> HIDE DEF evq, exq
<1>5. /\ ProcessesWithout(a) \in [Process -> ProcessState]
      /\ Owned(heap, allocated \ {a}, process_list', ProcessesWithout(a))
  BY <1>1, <1>2, ThreadEndsOwned
<1>6. /\ process_list' \in SUBSET Process
      /\ thread_list' \in Seq(ThreadAddr)
      /\ Len(thread_list') <= MaxThreadId
      /\ elapsed_ms' \in 0 .. TimeWrap - 1
      /\ allocated \ {a} \in SUBSET ThreadAddr
  BY <1>1, IInvFacts
<1> QED BY <1>1, <1>3, <1>4, <1>5, <1>6, IInvFacts, SwitchKeepsIInv

LEMMA KillThreadStep ==
    ASSUME IInv, NEW n \in ThreadId, KillThread(n) PROVE IInv'
<1> DEFINE a == thread_list[n]
<1>1. CASE a \notin allocated \/ a = current_thread
  <2>1. Corrupt
    BY <1>1 DEF KillThread
  <2> QED BY <2>1, CpuStepKeepsIInv DEF Corrupt
<1>2. CASE a \in allocated /\ a # current_thread
  <2>1. /\ allocated' = allocated \ {a}
        /\ process' = ProcessesWithout(a)
        /\ thread_event_queue' = EventsWithout({a})
        /\ thread_execution_queue' = Without(thread_execution_queue, {a})
        /\ UNCHANGED <<heap, thread_list, process_list, current_thread,
                       elapsed_ms, cpu>>
    BY <1>2 DEF KillThread
  <2> HIDE DEF a
  <2>2. /\ thread_execution_queue' \in Seq(ThreadAddr)
        /\ Distinct(thread_execution_queue')
        /\ Entries(thread_execution_queue')
                = Entries(thread_execution_queue) \ {a}
    BY <2>1, IInvFacts, WithoutFacts
  <2>3. EveryThreadScheduledOnce'
    BY <1>2, <2>1, <2>2, IInvFacts DEF EveryThreadScheduledOnce
  <2>4. /\ process' \in [Process -> ProcessState]
        /\ Owned(heap, allocated, process_list, process)'
    BY <1>2, <2>1, ThreadEndsOwned
  <2>5. thread_event_queue' \in Seq(ThreadEvent)
    BY <2>1, EventsWithoutType
  <2>6. TypeOK'
    BY <2>1, <2>2, <2>4, <2>5 DEF IInv, TypeOK
  <2> QED BY <2>3, <2>4, <2>6 DEF IInv
<1> QED BY <1>1, <1>2
-----------------------------------------------------------------------------
(***************************************************************************)
(* Creation.                                                               *)
(***************************************************************************)

\* A new thread is well formed whatever its memory held.
LEMMA NewThreadFacts ==
    ASSUME IInv, NEW p \in Process, NEW b \in 0 .. NBlocks - 1,
           NEW u \in UninitState, Len(thread_list) < MaxThreadId
    PROVE  /\ NewThread(p, b, u) \in Thread
           /\ NewThread(p, b, u).id \in ThreadId
           /\ NewThread(p, b, u).process = p
           /\ NewThread(p, b, u).block = b
<1>1. u \in Uninitialised
  BY ConstantsAssumption
<1>2. /\ Len(thread_list) + 1 \in ThreadId
      /\ Len(thread_list) + 1 \in Context
      /\ 0 \in Context
  BY IInvFacts, ConstantsAssumption DEF ThreadId, Context
<1> QED BY <1>1, <1>2 DEF NewThread, Uninitialised, Thread

\* A thread a joins a process p, whose threads and areas become those of new.
LEMMA ThreadJoinsOwned ==
    ASSUME NEW h, NEW g, NEW alloc, NEW a, a \notin alloc,
           NEW p \in Process, NEW pl, NEW ps, NEW qs,
           Owned(h, alloc, pl, ps),
           \A b \in alloc : h[b].process \in Process /\ g[b] = h[b],
           g[a].id \in ThreadId, g[a].process = p,
           \A r \in Process \ {p} : qs[r] = ps[r],
           Distinct(qs[p].threads),
           Entries(qs[p].threads) = {b \in alloc : h[b].process = p} \cup {a},
           g[a].block \in qs[p].blocks,
           \A b \in alloc : h[b].process = p =>
                /\ h[b].block \in qs[p].blocks
                /\ h[b].block # g[a].block
    PROVE  Owned(g, alloc \cup {a}, pl \cup {p}, qs)
<1>1. \A b \in alloc \cup {a} :
        g[b].id \in ThreadId /\ g[b].process \in pl \cup {p}
  BY DEF Owned
<1>2. ASSUME NEW r \in Process
      PROVE  /\ Distinct(qs[r].threads)
             /\ Entries(qs[r].threads)
                    = {b \in alloc \cup {a} : g[b].process = r}
  <2>1. CASE r = p
    <3>1. {b \in alloc \cup {a} : g[b].process = r}
            = {b \in alloc : h[b].process = p} \cup {a}
      BY <2>1
    <3> QED BY <2>1, <3>1
  <2>2. CASE r # p
    <3>1. {b \in alloc \cup {a} : g[b].process = r}
            = {b \in alloc : h[b].process = r}
      BY <2>2
    <3>2. qs[r] = ps[r]
      BY <2>2
    <3> QED BY <3>1, <3>2 DEF Owned
  <2> QED BY <2>1, <2>2
<1>3. \A b \in alloc \cup {a} : g[b].block \in qs[g[b].process].blocks
  BY DEF Owned
<1>4. \A b, c \in alloc \cup {a} :
        g[b].process = g[c].process /\ g[b].block = g[c].block => b = c
  BY DEF Owned
<1> QED BY <1>1, <1>2, <1>3, <1>4 DEF Owned

\* Blocks given to a thread and pushed to the execution queue.
LEMMA ScheduledFacts ==
    ASSUME IInv, NEW a \in ThreadAddr, a \notin allocated
    PROVE  /\ Append(thread_execution_queue, a) \in Seq(ThreadAddr)
           /\ Distinct(Append(thread_execution_queue, a))
           /\ Entries(Append(thread_execution_queue, a))
                    = (allocated \cup {a}) \ {current_thread}
           /\ Append(thread_list, a) \in Seq(ThreadAddr)
           /\ Len(Append(thread_list, a)) = Len(thread_list) + 1
<1>1. PICK r : r = Append(thread_execution_queue, a)
  OBVIOUS
<1>2. a \notin Entries(thread_execution_queue) /\ a # current_thread
  BY IInvFacts, ConstantsAssumption
<1>3. /\ r \in Seq(ThreadAddr)
      /\ Distinct(r)
      /\ Entries(r) = Entries(thread_execution_queue) \cup {a}
  BY <1>1, <1>2, IInvFacts, AppendFacts
<1>4. Entries(r) = (allocated \cup {a}) \ {current_thread}
  BY <1>2, <1>3, IInvFacts
<1>5. /\ Append(thread_list, a) \in Seq(ThreadAddr)
      /\ Len(Append(thread_list, a)) = Len(thread_list) + 1
  BY IInvFacts
<1> QED BY <1>1, <1>3, <1>4, <1>5

LEMMA LoadFailsStep ==
    ASSUME IInv, NEW p \in UserProcess, NEW a \in ThreadAddr,
           NEW u \in UninitState, LoadFails(p, a, u)
    PROVE  IInv'
<1>1. /\ a \notin allocated
      /\ Len(thread_list) < MaxThreadId
      /\ heap' = [heap EXCEPT ![a] = NewThread(p, 0, u)]
      /\ thread_list' = Append(thread_list, a)
      /\ UNCHANGED <<allocated, process_list, process, thread_execution_queue,
                     thread_event_queue, current_thread, elapsed_ms, cpu>>
  BY DEF LoadFails, MayCreate
<1>2. p \in Process /\ 0 \in 0 .. NBlocks - 1
  BY ConstantsAssumption DEF Process
<1>3. NewThread(p, 0, u) \in Thread
  BY <1>1, <1>2, NewThreadFacts
<1>4. heap' \in [ThreadAddr -> Thread]
  BY <1>1, <1>3, IInvFacts
<1>5. thread_list' \in Seq(ThreadAddr) /\ Len(thread_list') <= MaxThreadId
  <2>1. MaxThreadId \in Nat /\ Len(thread_list) \in Nat
    BY ConstantsAssumption, IInvFacts
  <2> QED BY <1>1, <2>1, ScheduledFacts
<1>6. TypeOK'
  BY <1>1, <1>4, <1>5 DEF IInv, TypeOK
<1>7. EveryThreadScheduledOnce'
  BY <1>1 DEF IInv, EveryThreadScheduledOnce
<1>8. \A b \in allocated : heap'[b] = heap[b]
  BY <1>1, IInvFacts
<1>9. Owned(heap', allocated, process_list, process)
  <2>1. \A r \in Process : {b \in allocated : heap'[b].process = r}
                            = {b \in allocated : heap[b].process = r}
    BY <1>8
  <2> QED BY <1>8, <2>1, IInvFacts DEF Owned
<1>10. Owned(heap, allocated, process_list, process)'
  BY <1>1, <1>9
<1> QED BY <1>6, <1>7, <1>10 DEF IInv

LEMMA CreateProcessStep ==
    ASSUME IInv, NEW p \in UserProcess, NEW a \in ThreadAddr,
           NEW u \in UninitState, NEW s \in UninitSuspended,
           CreateProcess(p, a, u, s)
    PROVE  IInv'
<1> DEFINE t   == NewThread(p, 0, u)
           ls  == process[SchedulerEvents].hooked_threads
           tl  == Append(thread_list, a)
           h   == [heap EXCEPT ![a] = t]
           one == [threads |-> <<a>>, hooked_threads |-> <<>>,
                   suspended |-> s, blocks |-> {0}]
           ps  == [process EXCEPT ![p] = one]
           qs  == Hooked(ps, SchedulerEvents, StillHooked(ls, {1}, tl))
           evq == Emitted(thread_event_queue, ls, {1}, h, tl)
<1>1. /\ p \notin process_list
      /\ a \notin allocated
      /\ Len(thread_list) < MaxThreadId
      /\ heap' = h
      /\ allocated' = allocated \cup {a}
      /\ thread_list' = tl
      /\ process_list' = process_list \cup {p}
      /\ process' = qs
      /\ thread_execution_queue' = Append(thread_execution_queue, a)
      /\ thread_event_queue' = evq
      /\ UNCHANGED <<current_thread, elapsed_ms, cpu>>
  BY DEF CreateProcess, MayCreate
<1>2. /\ p \in Process
      /\ SchedulerEvents \in Process
      /\ 0 \in 0 .. NBlocks - 1
      /\ s \in BOOLEAN
      /\ MaxThreadId \in Nat
  BY ConstantsAssumption DEF Process
<1>3. t \in Thread /\ t.id \in ThreadId /\ t.process = p /\ t.block = 0
  BY <1>1, <1>2, NewThreadFacts
<1>4. ls \in Seq(Listener)
  BY <1>2, IInvFacts DEF ProcessState
<1>5. one \in ProcessState
  <2>1. <<a>> \in Seq(ThreadAddr) /\ <<>> \in Seq(Listener)
    OBVIOUS
  <2> QED BY <1>2, <2>1 DEF ProcessState
<1>6. /\ one.threads = <<a>>
      /\ one.blocks = {0}
      /\ Distinct(one.threads)
      /\ Entries(one.threads) = {a}
  BY DEF Distinct, Entries
<1> HIDE DEF t, ls, one
<1>7. /\ h \in [ThreadAddr -> Thread]
      /\ h[a] = t
      /\ \A b \in allocated : h[b] = heap[b]
  BY <1>1, <1>3, IInvFacts
<1>8. /\ ps \in [Process -> ProcessState]
      /\ ps[p] = one
      /\ \A r \in Process \ {p} : ps[r] = process[r]
  BY <1>2, <1>5, IInvFacts
<1>9. /\ tl \in Seq(ThreadAddr)
      /\ Len(tl) <= MaxThreadId
      /\ Append(thread_execution_queue, a) \in Seq(ThreadAddr)
      /\ Distinct(Append(thread_execution_queue, a))
      /\ Entries(Append(thread_execution_queue, a))
                = (allocated \cup {a}) \ {current_thread}
  <2>1. Len(thread_list) \in Nat
    BY IInvFacts
  <2> QED BY <1>1, <1>2, <2>1, ScheduledFacts
<1> HIDE DEF h, ps, tl
<1>10. evq \in Seq(ThreadEvent) /\ StillHooked(ls, {1}, tl) \in Seq(Listener)
  BY <1>4, <1>9, IInvFacts, EmittedType
<1> HIDE DEF evq
<1>11. /\ qs \in [Process -> ProcessState]
       /\ \A r \in Process : /\ qs[r].threads = ps[r].threads
                             /\ qs[r].blocks = ps[r].blocks
  BY <1>2, <1>8, <1>10, HookedFacts
<1> HIDE DEF qs
<1>12. Owned(heap, allocated, process_list, process)
       /\ \A b \in allocated : heap[b].process \in Process
  BY IInvFacts DEF Thread
<1>13. \A b \in allocated : heap[b].process # p
  BY <1>1, <1>12 DEF Owned
<1>14. Owned(h, allocated \cup {a}, process_list \cup {p}, ps)
  <2>1. Entries(ps[p].threads)
            = {b \in allocated : heap[b].process = p} \cup {a}
    BY <1>6, <1>8, <1>13
  <2>2. Distinct(ps[p].threads) /\ h[a].block \in ps[p].blocks
    BY <1>3, <1>6, <1>7, <1>8
  <2>3. \A b \in allocated : heap[b].process \in Process /\ h[b] = heap[b]
    BY <1>7, <1>12
  <2>4. h[a].id \in ThreadId /\ h[a].process = p
    BY <1>3, <1>7
  <2>5. \A b \in allocated : heap[b].process = p =>
            /\ heap[b].block \in ps[p].blocks
            /\ heap[b].block # h[a].block
    BY <1>13
  <2> QED BY <1>1, <1>2, <1>8, <1>12, <2>1, <2>2, <2>3, <2>4, <2>5,
             ThreadJoinsOwned
<1>15. \A b \in allocated \cup {a} : h[b].process \in Process
  BY <1>2, <1>3, <1>7, <1>12
<1>16. Owned(h, allocated \cup {a}, process_list \cup {p}, qs)
  BY <1>11, <1>14, <1>15, SameThreadsOwned
<1>17. TypeOK'
  BY <1>1, <1>2, <1>7, <1>9, <1>10, <1>11 DEF IInv, TypeOK
<1>18. EveryThreadScheduledOnce'
  BY <1>1, <1>9, IInvFacts DEF EveryThreadScheduledOnce
<1>19. Owned(heap, allocated, process_list, process)'
  BY <1>1, <1>16
<1> QED BY <1>17, <1>18, <1>19 DEF IInv

LEMMA CreateThreadStep ==
    ASSUME IInv, NEW a \in ThreadAddr, NEW u \in UninitState,
           CreateThread(a, u)
    PROVE  IInv'
<1> DEFINE p    == heap[current_thread].process
           free == FreeAreas(p)
<1>1. CASE free = {}
  <2>1. /\ cpu' = "halted"
        /\ UNCHANGED <<heap, allocated, thread_list, process,
                       thread_execution_queue, process_list,
                       thread_event_queue, current_thread, elapsed_ms>>
    BY <1>1 DEF CreateThread, Panic
  <2> QED BY <2>1, CpuStepKeepsIInv
<1>2. CASE free # {}
  <2>1. PICK b \in free :
        /\ heap' = [heap EXCEPT ![a] = NewThread(p, b, u)]
        /\ allocated' = allocated \cup {a}
        /\ thread_list' = Append(thread_list, a)
        /\ process' = [process EXCEPT
                        ![p].threads = Append(@, a),
                        ![p].blocks = 0 .. NBlocks - 1]
        /\ thread_execution_queue' = Append(thread_execution_queue, a)
        /\ UNCHANGED <<process_list, thread_event_queue, current_thread,
                       elapsed_ms, cpu>>
    BY <1>2 DEF CreateThread
  <2>2. /\ InProgram
        /\ a \notin allocated
        /\ Len(thread_list) < MaxThreadId
    BY DEF CreateThread, MayCreate
  <2> DEFINE t   == NewThread(p, b, u)
             old == process[p]
             new == [old EXCEPT !.threads = Append(old.threads, a),
                                !.blocks = 0 .. NBlocks - 1]
  <2>3. /\ p \in Process
        /\ p \in process_list
        /\ b \in 0 .. NBlocks - 1
        /\ b \notin old.blocks
        /\ MaxThreadId \in Nat
    BY <2>2, InProgramFacts, ConstantsAssumption DEF FreeAreas
  <2>4. t \in Thread /\ t.id \in ThreadId /\ t.process = p /\ t.block = b
    BY <2>2, <2>3, NewThreadFacts
  <2>5. old \in ProcessState
    BY <2>3, IInvFacts
  <2>6. old.threads \in Seq(ThreadAddr) /\ old.blocks \subseteq 0 .. NBlocks - 1
    BY <2>5 DEF ProcessState
  <2>7. /\ Distinct(old.threads)
        /\ Entries(old.threads) = {c \in allocated : heap[c].process = p}
    BY <2>3, IInvFacts DEF Owned
  <2>8. PICK ths : ths = Append(old.threads, a)
    OBVIOUS
  <2>9. /\ ths \in Seq(ThreadAddr)
        /\ Distinct(ths)
        /\ Entries(ths) = {c \in allocated : heap[c].process = p} \cup {a}
    BY <2>2, <2>6, <2>7, <2>8, AppendFacts
  <2>10. /\ new \in ProcessState
         /\ new.threads = ths
         /\ new.blocks = 0 .. NBlocks - 1
    BY <2>5, <2>8, <2>9 DEF ProcessState
  <2>11. process' = [process EXCEPT ![p] = new]
    BY <2>1
  <2> HIDE DEF t, new, old
  <2>12. /\ process' \in [Process -> ProcessState]
         /\ process'[p] = new
         /\ \A r \in Process \ {p} : process'[r] = process[r]
    BY <2>3, <2>10, <2>11, IInvFacts
  <2>13. /\ heap' \in [ThreadAddr -> Thread]
         /\ heap'[a] = t
         /\ \A c \in allocated : heap'[c] = heap[c]
    BY <2>1, <2>2, <2>4, IInvFacts DEF t
  <2>14. Owned(heap, allocated, process_list, process)
         /\ \A c \in allocated : heap[c].process \in Process
    BY IInvFacts DEF Thread
  <2>15. \A c \in allocated : heap[c].process = p =>
            heap[c].block \in 0 .. NBlocks - 1 /\ heap[c].block # b
    <3>1. \A c \in allocated : heap[c].process = p =>
                heap[c].block \in process[p].blocks
      BY <2>14 DEF Owned
    <3> QED BY <2>3, <2>6, <3>1 DEF old
  <2> HIDE DEF p, free
  <2>16. Owned(heap', allocated \cup {a}, process_list \cup {p}, process')
    <3>1. /\ Distinct(process'[p].threads)
          /\ Entries(process'[p].threads)
                = {c \in allocated : heap[c].process = p} \cup {a}
          /\ heap'[a].block \in process'[p].blocks
      BY <2>3, <2>4, <2>9, <2>10, <2>12, <2>13
    <3>2. heap'[a].id \in ThreadId /\ heap'[a].process = p
      BY <2>4, <2>13
    <3>3. \A c \in allocated :
            heap[c].process \in Process /\ heap'[c] = heap[c]
      BY <2>13, <2>14
    <3>4. \A c \in allocated : heap[c].process = p =>
            /\ heap[c].block \in process'[p].blocks
            /\ heap[c].block # heap'[a].block
      BY <2>4, <2>10, <2>12, <2>13, <2>15
    <3> QED BY <2>2, <2>3, <2>12, <2>14, <3>1, <3>2, <3>3, <3>4,
               ThreadJoinsOwned
  <2>17. process_list \cup {p} = process_list
    BY <2>3
  <2>18. Owned(heap, allocated, process_list, process)'
    BY <2>1, <2>16, <2>17
  <2>19. /\ thread_list' \in Seq(ThreadAddr)
         /\ Len(thread_list') <= MaxThreadId
         /\ thread_execution_queue' \in Seq(ThreadAddr)
         /\ Distinct(thread_execution_queue')
         /\ Entries(thread_execution_queue')
                = (allocated \cup {a}) \ {current_thread}
    <3>1. Len(thread_list) \in Nat
      BY IInvFacts
    <3> QED BY <2>1, <2>2, <2>3, <3>1, ScheduledFacts
  <2>20. TypeOK'
    BY <2>1, <2>12, <2>13, <2>19 DEF IInv, TypeOK
  <2>21. EveryThreadScheduledOnce'
    BY <2>1, <2>19, IInvFacts DEF EveryThreadScheduledOnce
  <2> QED BY <2>18, <2>20, <2>21 DEF IInv
<1> QED BY <1>1, <1>2
-----------------------------------------------------------------------------
(***************************************************************************)
(* The invariant.                                                          *)
(***************************************************************************)

\* Before boot there are no threads.
LEMMA InitIInv == ASSUME Init PROVE IInv
<1>1. /\ 0 \in 0 .. NBlocks - 1
      /\ 0 \in 0 .. TimeWrap - 1
      /\ 0 \in Context
      /\ SchedulerEvents \in Process
      /\ KeyboardDriver \in Process
      /\ 0 <= MaxThreadId
  BY ConstantsAssumption DEF Context, Process
<1>2. ZeroThread \in Thread
  BY <1>1 DEF ZeroThread, Thread, Policy
<1>3. NoProcess \in ProcessState
  BY DEF NoProcess, ProcessState
<1>4. /\ thread_list = <<>>
      /\ thread_execution_queue = <<>>
      /\ thread_event_queue = <<>>
      /\ allocated = {}
  BY DEF Init
<1>5. TypeOK
  <2>1. /\ heap \in [ThreadAddr -> Thread]
        /\ process \in [Process -> ProcessState]
    BY <1>2, <1>3 DEF Init
  <2>2. /\ thread_list \in Seq(ThreadAddr)
        /\ Len(thread_list) <= MaxThreadId
        /\ thread_execution_queue \in Seq(ThreadAddr)
        /\ thread_event_queue \in Seq(ThreadEvent)
    BY <1>1, <1>4
  <2> QED BY <1>1, <2>1, <2>2 DEF Init, TypeOK
<1>6. EveryThreadScheduledOnce
  BY <1>4 DEF Init, EveryThreadScheduledOnce, Distinct, Entries
<1>7. Owned(heap, allocated, process_list, process)
  <2>1. \A p \in Process : process[p].threads = <<>>
    BY DEF Init, NoProcess
  <2>2. Distinct(<<>>) /\ Entries(<<>>) = {}
    BY DEF Distinct, Entries
  <2> QED BY <1>4, <2>1, <2>2 DEF Owned
<1> QED BY <1>5, <1>6, <1>7 DEF IInv

\* Every step keeps it.
LEMMA NextIInv == ASSUME IInv, [Next]_vars PROVE IInv'
<1>1. CASE Boot
  BY <1>1, CreateProcessStep, LoadFailsStep DEF Boot
<1>2. CASE Interrupt
  BY <1>2, TimerTickStep, KeyboardInterruptStep DEF Interrupt
<1>3. CASE SystemCall
  <2>1. CASE EndProcess
    BY <2>1, EndProcessStep
  <2>2. CASE \E d \in Delays : SuspendThread(d)
    BY <2>2, SuspendThreadStep
  <2>3. CASE EndEvent
    BY <2>3, EndEventStep
  <2>4. CASE \E p \in Process, mask \in Masks : RegisterEvent(p, mask)
    BY <2>4, RegisterEventStep
  <2>5. CASE \E ids \in EmitIds : EmitEvent(ids)
    BY <2>5, EmitEventStep
  <2>6. CASE \E policy \in Policy : SetOwnPolicy(policy)
    BY <2>6, SetOwnPolicyStep
  <2>7. CASE \E n \in ThreadId, policy \in Policy : SetPolicy(n, policy)
    BY <2>7, NamedThreadStep DEF SetPolicy
  <2>8. CASE \E a \in ThreadAddr, u \in UninitState : CreateThread(a, u)
    BY <2>8, CreateThreadStep
  <2>9. CASE KillSelf
    BY <2>9, KillSelfStep
  <2>10. CASE \E n \in ThreadId : KillThread(n)
    BY <2>10, KillThreadStep
  <2>11. CASE ParkSelf
    BY <2>11, ParkSelfStep
  <2>12. CASE \E n \in ThreadId : ParkThread(n) \/ UnparkThread(n)
    <3>1. "NORMAL" \in Policy
      BY DEF Policy
    <3> QED BY <2>12, <3>1, NamedThreadStep DEF ParkThread, UnparkThread
  <2>13. CASE Preempt
    BY <2>13, PreemptStep
  <2>14. CASE NamesNobody
    <3>1. "undefined" \in {"boot", "running", "halted", "undefined"}
      OBVIOUS
    <3> QED BY <2>14, <3>1, CpuStepKeepsIInv DEF NamesNobody, Corrupt
  <2>15. CASE GetInput
    BY <2>15, GetInputStep
  <2> QED BY <1>3, <2>1, <2>2, <2>3, <2>4, <2>5, <2>6, <2>7, <2>8, <2>9,
             <2>10, <2>11, <2>12, <2>13, <2>14, <2>15 DEF SystemCall
<1>4. CASE UNCHANGED vars
  <2>1. cpu \in {"boot", "running", "halted", "undefined"}
    BY DEF IInv, TypeOK
  <2> QED BY <1>4, <2>1, CpuStepKeepsIInv DEF vars
<1> QED BY <1>1, <1>2, <1>3, <1>4 DEF Next, Halted

\* The invariant holds in every reachable state.
THEOREM Invariance == Spec => []IInv
<1>1. Init => IInv
  BY InitIInv
<1>2. IInv /\ [Next]_vars => IInv'
  BY NextIInv
<1> QED BY <1>1, <1>2, PTL DEF Spec

\* The kernel's structures stay well formed (scheduler.cpp, events.cpp): in
\* particular a context switch, a kill and an event put nothing but Thread
\* blocks and complete events in the queues.
THEOREM TypeCorrect == Spec => []TypeOK
<1>1. IInv => TypeOK
  BY DEF IInv
<1> QED BY <1>1, Invariance, PTL

\* handle_context_switch, create_thread, kill_thread and kill_process never
\* lose a thread from the execution queue, never put one in it twice, and
\* never leave a freed one there.
THEOREM ThreadsAreScheduledOnce == Spec => []EveryThreadScheduledOnce
<1>1. IInv => EveryThreadScheduledOnce
  BY DEF IInv
<1> QED BY <1>1, Invariance, PTL

\* The thread list of a process, which kill_process walks to free its threads,
\* is exact.
THEOREM ThreadListsAreExact == Spec => []ThreadsBelongToProcess
<1>1. IInv => ThreadsBelongToProcess
  BY DEF IInv, Owned, ThreadsBelongToProcess
<1> QED BY <1>1, Invariance, PTL

\* Two threads never save their registers in the same kernel area, although
\* create_thread takes more areas than it uses and kill_thread gives back one.
THEOREM AreasStayExclusive == Spec => []AreasAreExclusive
<1>1. IInv => AreasAreExclusive
  BY DEF IInv, Owned, AreasAreExclusive
<1> QED BY <1>1, Invariance, PTL
-----------------------------------------------------------------------------
(***************************************************************************)
(* Events and the thread that runs, for programs that name living threads  *)
(* only (Disciplined).                                                     *)
(***************************************************************************)

\* A recycled block of memory never makes a new thread look as if it ran a
\* handler.
FreshThreadsIdle == \A u \in UninitState : ~u.processing_event

\* The queued events are for threads that exist, and name the handler that
\* the thread registered.
Addressed(h, alloc, evq) ==
    \A e \in Entries(evq) : e.thread \in alloc /\ e.handler = h[e.thread].id

\* The two register sets of a thread: the program's in use, or the handler's
\* in use and the program's put aside.
Fits(t) ==
    FreshThreadsIdle =>
        IF t.processing_event
        THEN t.registers = t.id /\ t.backup_registers = 0
        ELSE t.registers = 0

ContextsFit(h, alloc) == \A a \in alloc : Fits(h[a])

\* Thread t of an existing process may hold the core.
MayRun(t) == /\ ~t.parked
             /\ ~t.suspended
             /\ t.execution_policy = "EVENT_ONLY" => t.processing_event

\* The inductive invariant.
EInv == /\ IInv
        /\ RunningMayRun
        /\ Addressed(heap, allocated, thread_event_queue)
        /\ ContextsFit(heap, allocated)

-----------------------------------------------------------------------------
(***************************************************************************)
(* The context switch.                                                     *)
(***************************************************************************)

\* The event loop enters a handler only where none runs, with the program's
\* registers in use, and the handler is the thread's own.
LEMMA EventsKeepContexts ==
    ASSUME NEW h \in [ThreadAddr -> Thread], NEW alloc \in SUBSET ThreadAddr,
           NEW evq \in Seq(ThreadEvent), Addressed(h, alloc, evq),
           ContextsFit(h, alloc)
    PROVE  ContextsFit(AfterEvents(h, evq), alloc)
<1> DEFINE woken == AfterEvents(h, evq)
<1> SUFFICES ASSUME NEW a \in alloc, FreshThreadsIdle
             PROVE  IF woken[a].processing_event
                    THEN /\ woken[a].registers = woken[a].id
                         /\ woken[a].backup_registers = 0
                    ELSE woken[a].registers = 0
  BY DEF ContextsFit, Fits
<1>1. /\ a \in ThreadAddr
      /\ h[a] \in Thread
      /\ IF h[a].processing_event
         THEN h[a].registers = h[a].id /\ h[a].backup_registers = 0
         ELSE h[a].registers = 0
  BY DEF ContextsFit, Fits
<1>2. CASE \E i \in Delivered(h, evq) : evq[i].thread = a
  <2> DEFINE c == CHOOSE i \in Delivered(h, evq) : evq[i].thread = a
  <2>1. c \in Delivered(h, evq) /\ evq[c].thread = a
    BY <1>2
  <2>2. woken[a] = InHandler(h[a], evq[c].handler)
    BY <1>1, <1>2 DEF AfterEvents
  <2> HIDE DEF c, woken
  <2>3. c \in DOMAIN evq /\ ~h[a].processing_event
    BY <2>1 DEF Delivered
  <2>4. evq[c].handler = h[a].id
    BY <2>1, <2>3 DEF Addressed, Entries
  <2>5. h[a].registers = 0
    BY <1>1, <2>3
  <2>6. /\ woken[a].processing_event
        /\ woken[a].registers = h[a].id
        /\ woken[a].id = h[a].id
        /\ woken[a].backup_registers = 0
    BY <1>1, <2>2, <2>4, <2>5 DEF InHandler, Thread
  <2> QED BY <2>6
<1>3. CASE ~ \E i \in Delivered(h, evq) : evq[i].thread = a
  <2>1. woken[a] = h[a]
    BY <1>1, <1>3 DEF AfterEvents
  <2> HIDE DEF woken
  <2> QED BY <1>1, <2>1
<1> QED BY <1>2, <1>3

\* What the event loop leaves queued was queued.
LEMMA RemainingAddressed ==
    ASSUME NEW h, NEW g, NEW alloc \in SUBSET ThreadAddr,
           NEW evq \in Seq(ThreadEvent), Addressed(h, alloc, evq),
           SameOwners(h, g)
    PROVE  Addressed(g, alloc, RemainingEvents(h, evq))
<1> DEFINE K == DOMAIN evq \ (Dropped(h, evq) \cup Delivered(h, evq))
<1>1. K \in SUBSET DOMAIN evq
  OBVIOUS
<1> HIDE DEF K
<1>2. Entries(Keep(evq, K)) = {evq[i] : i \in K}
  BY <1>1, KeepEntries
<1>3. Entries(RemainingEvents(h, evq)) \subseteq Entries(evq)
  BY <1>1, <1>2 DEF RemainingEvents, K, Entries
<1>4. \A a \in alloc : g[a].id = h[a].id
  BY DEF SameOwners
<1> QED BY <1>3, <1>4 DEF Addressed

\* What the run loop clears when it resumes a thread, and what it leaves.
LEMMA ResumedMayRun ==
    ASSUME NEW t \in Thread, ~t.parked,
           t.execution_policy = "EVENT_ONLY" => t.processing_event
    PROVE  MayRun(Resumed(t))
<1>1. CASE t.suspended
  <2>1. Resumed(t) = [t EXCEPT !.suspended = FALSE, !.resume_time = 0]
    BY <1>1 DEF Resumed
  <2> QED BY <2>1 DEF MayRun, Thread
<1>2. CASE ~t.suspended
  BY <1>2 DEF Resumed, MayRun
<1> QED BY <1>1, <1>2

LEMMA ResumedFits ==
    ASSUME NEW t \in Thread, Fits(t)
    PROVE  Fits(Resumed(t))
<1>1. CASE t.suspended
  <2>1. Resumed(t) = [t EXCEPT !.suspended = FALSE, !.resume_time = 0]
    BY <1>1 DEF Resumed
  <2> QED BY <2>1 DEF Fits, Thread
<1>2. CASE ~t.suspended
  BY <1>2 DEF Resumed
<1> QED BY <1>1, <1>2

\* A context switch that is entered with events for the threads that exist
\* does not panic, and the thread it picks may run.
LEMMA SwitchKeepsEInv ==
    ASSUME NEW h \in [ThreadAddr -> Thread], NEW alloc \in SUBSET ThreadAddr,
           NEW ps, NEW evq \in Seq(ThreadEvent), NEW exq \in Seq(ThreadAddr),
           NEW now, Entries(exq) = alloc,
           ContextSwitch(h, alloc, ps, evq, exq, now), allocated' = alloc,
           Addressed(h, alloc, evq), ContextsFit(h, alloc), IInv'
    PROVE  EInv'
<1> DEFINE woken == AfterEvents(h, evq)
<1>1. ~StaleEvent(alloc, evq)
  BY DEF StaleEvent, Addressed, Entries
<1>2. /\ thread_event_queue' = RemainingEvents(h, evq)
      /\ \/ \E k \in DOMAIN exq : Run(woken, ps, exq, now, k)
         \/ Sleep(woken, ps, exq, now)
  BY <1>1 DEF ContextSwitch
<1>3. woken \in [ThreadAddr -> Thread] /\ SameOwners(h, woken)
  BY AfterEventsFacts
<1>4. ContextsFit(woken, alloc)
  BY EventsKeepContexts
<1> HIDE DEF woken
<1>5. CASE Sleep(woken, ps, exq, now)
  <2>1. heap' = woken /\ current_thread' = NoThread
    BY <1>5 DEF Sleep
  <2>2. Addressed(heap, allocated, thread_event_queue)'
    BY <1>2, <1>3, <2>1, RemainingAddressed
  <2>3. ContextsFit(heap, allocated)'
    BY <1>4, <2>1
  <2>4. RunningMayRun'
    BY <2>1 DEF RunningMayRun, InProgram
  <2> QED BY <2>2, <2>3, <2>4 DEF EInv
<1>6. ASSUME NEW k \in DOMAIN exq, Run(woken, ps, exq, now, k)
      PROVE  EInv'
  <2> DEFINE a == exq[k]
  <2>1. /\ current_thread' = a
        /\ heap' = [woken EXCEPT ![a] = Resumed(woken[a])]
        /\ Runnable(woken, ps, a, now)
    BY <1>6 DEF Run
  <2>2. a \in alloc /\ a \in ThreadAddr
    BY DEF Entries
  <2> HIDE DEF a
  <2>3. woken[a] \in Thread
    BY <1>3, <2>2
  <2>4. /\ heap'[a] = Resumed(woken[a])
        /\ \A b \in alloc \ {a} : heap'[b] = woken[b]
    BY <1>3, <2>1, <2>2
  <2>5. SameOwners(h, heap')
    BY <1>3, <2>1, <2>3, ResumedFacts DEF SameOwners
  <2>6. Addressed(heap, allocated, thread_event_queue)'
    BY <1>2, <2>5, RemainingAddressed
  <2>7. Fits(heap'[a])
    <3>1. Fits(woken[a])
      BY <1>4, <2>2 DEF ContextsFit
    <3> QED BY <2>3, <2>4, <3>1, ResumedFits
  <2>8. ContextsFit(heap, allocated)'
    BY <1>4, <2>4, <2>7 DEF ContextsFit
  <2>9. MayRun(heap'[a])
    BY <2>1, <2>3, <2>4, ResumedMayRun DEF Runnable
  <2>10. heap'[a].process \in process_list'
    BY <2>2 DEF IInv, Owned
  <2>11. RunningMayRun'
    BY <2>1, <2>9, <2>10 DEF RunningMayRun, MayRun
  <2> QED BY <2>6, <2>8, <2>11 DEF EInv
<1> QED BY <1>2, <1>5, <1>6
-----------------------------------------------------------------------------
(***************************************************************************)
(* The parts of the steps.                                                 *)
(***************************************************************************)

\* A step after which the same thread runs, and may, and of which the rest is
\* known.
LEMMA StableStep ==
    ASSUME IInv', current_thread' = current_thread,
           cpu' = "running" => cpu = "running",
           InProgram => MayRun(heap'[current_thread]),
           Addressed(heap, allocated, thread_event_queue)',
           ContextsFit(heap, allocated)'
    PROVE  EInv'
<1>1. RunningMayRun'
  <2> SUFFICES ASSUME InProgram'
               PROVE  /\ heap'[current_thread'].process \in process_list'
                      /\ MayRun(heap'[current_thread'])
    BY DEF RunningMayRun, MayRun
  <2>1. InProgram
    BY DEF InProgram
  <2>2. current_thread' \in allocated'
    BY DEF IInv, EveryThreadScheduledOnce, InProgram
  <2> QED BY <2>1, <2>2 DEF IInv, Owned
<1> QED BY <1>1 DEF EInv

\* The thread that runs may.
LEMMA RunningFacts ==
    ASSUME EInv, InProgram
    PROVE  MayRun(heap[current_thread])
BY DEF EInv, RunningMayRun, MayRun

\* A step that leaves the contents of the threads alone.
LEMMA QuietStep ==
    ASSUME EInv, IInv', UNCHANGED <<heap, current_thread>>,
           cpu' = "running" => cpu = "running",
           allocated' \subseteq allocated,
           Addressed(heap, allocated', thread_event_queue')
    PROVE  EInv'
<1>1. InProgram => MayRun(heap'[current_thread])
  BY RunningFacts
<1>2. ContextsFit(heap, allocated)'
  BY DEF EInv, ContextsFit
<1> QED BY <1>1, <1>2, StableStep

\* The contents t of a thread that joins, or stays, with the process's
\* accounts as they are; the thread that runs may still run.
LEMMA ChangedStep ==
    ASSUME EInv, IInv', NEW a \in ThreadAddr, NEW t, Fits(t),
           heap' = [heap EXCEPT ![a] = t], current_thread' = current_thread,
           cpu' = "running" => cpu = "running",
           allocated' \subseteq allocated \cup {a},
           a = current_thread => MayRun(t),
           Addressed(heap', allocated', thread_event_queue')
    PROVE  EInv'
<1>1. /\ heap \in [ThreadAddr -> Thread]
      /\ allocated \in SUBSET ThreadAddr
  BY IInvFacts DEF EInv
<1>2. heap'[a] = t /\ \A b \in ThreadAddr \ {a} : heap'[b] = heap[b]
  BY <1>1
<1>3. InProgram => MayRun(heap'[current_thread])
  <2>1. InProgram => current_thread \in ThreadAddr
    BY InProgramFacts DEF EInv
  <2> QED BY <1>2, <2>1, RunningFacts
<1>4. ContextsFit(heap, allocated)'
  <2>1. \A b \in allocated : Fits(heap[b])
    BY DEF EInv, ContextsFit
  <2>2. \A b \in allocated' : Fits(heap'[b])
    BY <1>1, <1>2, <2>1
  <2> QED BY <2>2 DEF ContextsFit
<1> QED BY <1>3, <1>4, StableStep

\* Ids do not change, so that queued events stay addressed.
LEMMA SameOwnersAddressed ==
    ASSUME NEW h, NEW g, NEW alloc \in SUBSET ThreadAddr, NEW evq,
           Addressed(h, alloc, evq), SameOwners(h, g)
    PROVE  Addressed(g, alloc, evq)
BY DEF Addressed, SameOwners

\* A system call that changes fields of a thread and returns.
LEMMA AssignKeepsEInv ==
    ASSUME EInv, IInv', NEW a \in allocated, NEW t \in Thread,
           t.id = heap[a].id, t.process = heap[a].process,
           t.block = heap[a].block, Fits(t),
           a = current_thread => MayRun(t), Assign(a, t)
    PROVE  EInv'
<1>1. /\ heap' = [heap EXCEPT ![a] = t]
      /\ UNCHANGED <<allocated, thread_event_queue, current_thread, cpu>>
  BY DEF Assign
<1>2. /\ heap \in [ThreadAddr -> Thread]
      /\ allocated \in SUBSET ThreadAddr
  BY IInvFacts DEF EInv
<1>3. SameOwners(heap, heap')
  BY <1>1, <1>2 DEF SameOwners
<1>4. Addressed(heap', allocated, thread_event_queue)
  BY <1>2, <1>3, SameOwnersAddressed DEF EInv
<1>5. a \in ThreadAddr
  BY <1>2
<1> QED BY <1>1, <1>4, <1>5, ChangedStep

\* A system call that changes fields of the caller and switches.
LEMMA YieldKeepsEInv ==
    ASSUME EInv, IInv', InProgram, NEW t \in Thread,
           t.id = heap[current_thread].id,
           t.process = heap[current_thread].process,
           t.block = heap[current_thread].block, Fits(t), Yield(t)
    PROVE  EInv'
<1> DEFINE h == [heap EXCEPT ![current_thread] = t]
<1>1. /\ heap \in [ThreadAddr -> Thread]
      /\ allocated \in SUBSET ThreadAddr
      /\ thread_event_queue \in Seq(ThreadEvent)
      /\ current_thread \in ThreadAddr
  BY IInvFacts, InProgramFacts DEF EInv
<1>2. h \in [ThreadAddr -> Thread] /\ SameOwners(heap, h)
  BY <1>1 DEF SameOwners
<1>3. ContextsFit(h, allocated)
  <2>1. \A a \in allocated : Fits(heap[a])
    BY DEF EInv, ContextsFit
  <2>2. \A a \in allocated : h[a] = IF a = current_thread THEN t ELSE heap[a]
    BY <1>1
  <2> HIDE DEF h
  <2> QED BY <2>1, <2>2 DEF ContextsFit
<1>4. /\ ContextSwitch(h, allocated, process, thread_event_queue, Requeued,
                       elapsed_ms)
      /\ allocated' = allocated
  BY DEF Yield
<1> HIDE DEF h
<1>5. Addressed(h, allocated, thread_event_queue)
  BY <1>1, <1>2, SameOwnersAddressed DEF EInv
<1>6. Requeued \in Seq(ThreadAddr) /\ Entries(Requeued) = allocated
  BY RequeuedFacts DEF EInv
<1> QED BY <1>1, <1>2, <1>3, <1>4, <1>5, <1>6, SwitchKeepsEInv

\* Unlinking the events of threads that die leaves those of the others.
LEMMA WithoutAddressed ==
    ASSUME EInv, NEW dead
    PROVE  Addressed(heap, allocated \ dead, EventsWithout(dead))
<1> DEFINE K == {i \in DOMAIN thread_event_queue :
                    thread_event_queue[i].thread \notin dead}
<1>1. K \in SUBSET DOMAIN thread_event_queue
  OBVIOUS
<1>2. \A i \in K : /\ thread_event_queue[i] \in Entries(thread_event_queue)
                   /\ thread_event_queue[i].thread \notin dead
  BY DEF Entries
<1>3. EventsWithout(dead) = Keep(thread_event_queue, K)
  BY DEF EventsWithout
<1>4. thread_event_queue \in Seq(ThreadEvent)
  BY IInvFacts DEF EInv
<1> HIDE DEF K
<1>5. Entries(EventsWithout(dead)) = {thread_event_queue[i] : i \in K}
  BY <1>1, <1>3, <1>4, KeepEntries
<1> QED BY <1>2, <1>5 DEF EInv, Addressed

\* The entries of two queues in a row.
LEMMA ConcatEntries ==
    ASSUME NEW S, NEW q \in Seq(S), NEW r \in Seq(S)
    PROVE  Entries(q \o r) \subseteq Entries(q) \cup Entries(r)
<1> SUFFICES ASSUME NEW i \in DOMAIN (q \o r)
             PROVE  (q \o r)[i] \in Entries(q) \cup Entries(r)
  BY DEF Entries
<1>1. /\ Len(q) \in Nat /\ Len(r) \in Nat
      /\ DOMAIN q = 1 .. Len(q) /\ DOMAIN r = 1 .. Len(r)
      /\ i \in 1 .. Len(q) + Len(r)
  BY ConcatFacts
<1>2. (q \o r)[i] = IF i <= Len(q) THEN q[i] ELSE r[i - Len(q)]
  BY <1>1, ConcatFacts
<1>3. CASE i <= Len(q)
  BY <1>1, <1>2, <1>3 DEF Entries
<1>4. CASE ~(i <= Len(q))
  <2>1. i - Len(q) \in DOMAIN r
    BY <1>1, <1>4
  <2> QED BY <1>2, <1>4, <2>1 DEF Entries
<1> QED BY <1>3, <1>4

\* emit_event queues events for threads that exist, if no listener is dead,
\* and each names the thread that registered for it.
LEMMA EmittedAddressed ==
    ASSUME Disciplined, NEW evq \in Seq(ThreadEvent), NEW ls \in Seq(Listener),
           NEW ids \in SUBSET {1, 2, 4, 8}, NEW h, NEW tl \in Seq(ThreadAddr),
           NEW alloc, MayEmit(evq, ls, ids, h, tl, alloc),
           Addressed(h, alloc, evq)
    PROVE  Addressed(h, alloc, Emitted(evq, ls, ids, h, tl))
<1> DEFINE K == Notified(ls, ids, h, tl)
           told == Keep(ls, K)
           e(l) == [thread |-> tl[l.thread_id], event_id |-> ids,
                    handler |-> l.thread_id]
           new == [j \in DOMAIN told |-> e(told[j])]
<1>1. K \in SUBSET DOMAIN ls
  BY DEF Notified
<1>2. \A i \in K : /\ tl[ls[i].thread_id] \in alloc
                   /\ h[tl[ls[i].thread_id]].id = ls[i].thread_id
  BY DEF MayEmit
<1>3. \A i \in K : ls[i].thread_id \in DOMAIN tl
  BY DEF Notified
<1>4. /\ told \in Seq(Listener)
      /\ \A j \in DOMAIN told : \E i \in K : told[j] = ls[i]
  <2> HIDE DEF K, new, e
  <2>1. told \in Seq(Listener)
    BY <1>1, KeepType
  <2>2. Entries(told) = {ls[i] : i \in K}
    BY <1>1, KeepEntries
  <2> HIDE DEF told
  <2> QED BY <2>1, <2>2 DEF Entries
<1>5. Emitted(evq, ls, ids, h, tl) = evq \o new
  BY DEF Emitted
<1> HIDE DEF told, K
<1>6. \A j \in DOMAIN told : /\ e(told[j]).thread \in alloc
                             /\ e(told[j]).handler = h[e(told[j]).thread].id
  BY <1>2, <1>4
<1>7. \A j \in DOMAIN told : e(told[j]) \in ThreadEvent
  <2> SUFFICES ASSUME NEW j \in DOMAIN told PROVE e(told[j]) \in ThreadEvent
    OBVIOUS
  <2>1. tl[told[j].thread_id] \in ThreadAddr
    BY <1>3, <1>4
  <2>2. told[j].thread_id \in ThreadId
    <3>1. told[j] \in Listener
      BY <1>4
    <3> QED BY <3>1 DEF Listener
  <2> QED BY <2>1, <2>2 DEF ThreadEvent
<1> HIDE DEF e
<1>8. new \in Seq(ThreadEvent)
  <2>1. PICK n \in Nat : DOMAIN told = 1 .. n
    BY <1>4
  <2> QED BY <1>7, <2>1
<1>9. \A x \in Entries(new) : x.thread \in alloc /\ x.handler = h[x.thread].id
  BY <1>6 DEF Entries
<1> HIDE DEF new
<1>10. Entries(evq \o new) \subseteq Entries(evq) \cup Entries(new)
  BY <1>8, ConcatEntries
<1> QED BY <1>5, <1>9, <1>10 DEF Addressed

\* A disciplined program that names another thread names one that exists.
LEMMA NamesFacts ==
    ASSUME Disciplined, IInv, NEW n \in ThreadId, Names(n)
    PROVE  /\ InProgram
           /\ thread_list[n] \in allocated
           /\ thread_list[n] # current_thread
           /\ heap[thread_list[n]] \in Thread
<1>1. /\ InProgram
      /\ n # heap[current_thread].id
      /\ thread_list[n] \in allocated
      /\ heap[thread_list[n]].id = n
  BY DEF Names, Live
<1>2. heap[thread_list[n]] \in Thread
  BY <1>1, IInvFacts
<1> QED BY <1>1, <1>2
-----------------------------------------------------------------------------
(***************************************************************************)
(* The steps.                                                              *)
(***************************************************************************)

\* Interrupts, and the calls that emit.
LEMMA TickEvents == ASSUME EInv, IInv', TimerTick PROVE EInv'
<1> DEFINE now == (elapsed_ms + TimeSlice) % TimeWrap
<1>1. /\ ContextSwitch(heap, allocated, process, thread_event_queue, Requeued,
                       now)
      /\ allocated' = allocated
  BY DEF TimerTick
<1> HIDE DEF now
<1>2. Requeued \in Seq(ThreadAddr) /\ Entries(Requeued) = allocated
  BY RequeuedFacts DEF EInv
<1>3. /\ heap \in [ThreadAddr -> Thread]
      /\ allocated \in SUBSET ThreadAddr
      /\ thread_event_queue \in Seq(ThreadEvent)
      /\ Addressed(heap, allocated, thread_event_queue)
      /\ ContextsFit(heap, allocated)
  BY IInvFacts DEF EInv
<1> QED BY <1>1, <1>2, <1>3, SwitchKeepsEInv

LEMMA EmittingEvents ==
    ASSUME Disciplined, EInv, IInv', NEW p \in Process,
           NEW ids \in SUBSET {1, 2, 4, 8},
           MayEmit(thread_event_queue, process[p].hooked_threads, ids, heap,
                   thread_list, allocated),
           thread_event_queue' = Emitted(thread_event_queue,
                        process[p].hooked_threads, ids, heap, thread_list),
           UNCHANGED <<heap, allocated, current_thread, cpu>>
    PROVE  EInv'
<1>1. process[p].hooked_threads \in Seq(Listener)
  BY IInvFacts DEF EInv, ProcessState
<1>2. Addressed(heap, allocated, thread_event_queue')
  BY <1>1, IInvFacts, EmittedAddressed DEF EInv
<1> QED BY <1>2, QuietStep

LEMMA KeyboardEvents ==
    ASSUME Disciplined, EInv, IInv', NEW ids \in KeyEvents,
           KeyboardInterrupt(ids)
    PROVE  EInv'
<1>1. KeyboardDriver \in Process /\ ids \in SUBSET {1, 2, 4, 8}
  BY ConstantsAssumption DEF Process
<1> QED BY <1>1, EmittingEvents DEF KeyboardInterrupt

LEMMA EmitEvents ==
    ASSUME Disciplined, EInv, IInv', NEW ids \in EmitIds, EmitEvent(ids)
    PROVE  EInv'
<1>1. heap[current_thread].process \in Process /\ ids \in SUBSET {1, 2, 4, 8}
  BY ConstantsAssumption, InProgramFacts DEF EmitEvent, EInv
<1> QED BY <1>1, EmittingEvents DEF EmitEvent

LEMMA RegisterEvents ==
    ASSUME EInv, IInv', NEW p \in Process, NEW mask \in Masks,
           RegisterEvent(p, mask)
    PROVE  EInv'
BY QuietStep DEF RegisterEvent, EInv

\* The calls that yield.
LEMMA YieldingEvents ==
    ASSUME EInv, IInv',
           \/ \E d \in Delays : SuspendThread(d)
           \/ EndEvent
           \/ ParkSelf
           \/ Preempt
           \/ GetInput
    PROVE  EInv'
<1>1. InProgram
  BY DEF SuspendThread, EndEvent, ParkSelf, Preempt, GetInput
<1> DEFINE r == heap[current_thread]
<1>2. /\ r \in Thread
      /\ Fits(r)
      /\ elapsed_ms \in Nat
      /\ TimeWrap \in Nat \ {0}
  BY <1>1, InProgramFacts, IInvFacts, ConstantsAssumption DEF EInv, ContextsFit
<1> HIDE DEF r
<1>3. ASSUME NEW d \in Delays, SuspendThread(d) PROVE EInv'
  <2> DEFINE until == IF d = 0 THEN 1 ELSE (elapsed_ms + d) % TimeWrap
             t == [r EXCEPT !.suspended = TRUE, !.resume_time = until]
  <2>1. Yield(t)
    BY <1>3 DEF SuspendThread, r
  <2>2. until \in 0 .. TimeWrap - 1
    <3>1. d \in Nat /\ TimeWrap > 1
      BY ConstantsAssumption
    <3> QED BY <1>2, <3>1
  <2> HIDE DEF until
  <2>3. /\ t \in Thread
        /\ t.id = r.id /\ t.process = r.process /\ t.block = r.block
        /\ Fits(t)
    BY <1>2, <2>2 DEF Thread, Fits
  <2> HIDE DEF t
  <2> QED BY <1>1, <2>1, <2>3, YieldKeepsEInv DEF r
<1>4. CASE EndEvent
  <2> DEFINE t == [r EXCEPT !.processing_event = FALSE,
                            !.registers = r.backup_registers]
  <2>1. Yield(t) /\ r.processing_event
    BY <1>4 DEF EndEvent, r
  <2>2. /\ t \in Thread
        /\ t.id = r.id /\ t.process = r.process /\ t.block = r.block
        /\ Fits(t)
    BY <1>2, <2>1 DEF Thread, Fits
  <2> HIDE DEF t
  <2> QED BY <1>1, <2>1, <2>2, YieldKeepsEInv DEF r
<1>5. CASE ParkSelf
  <2> DEFINE t == [r EXCEPT !.parked = TRUE]
  <2>1. Yield(t)
    BY <1>5 DEF ParkSelf, r
  <2>2. /\ t \in Thread
        /\ t.id = r.id /\ t.process = r.process /\ t.block = r.block
        /\ Fits(t)
    BY <1>2 DEF Thread, Fits
  <2> HIDE DEF t
  <2> QED BY <1>1, <2>1, <2>2, YieldKeepsEInv DEF r
<1>6. CASE Preempt
  BY <1>1, <1>2, <1>6, YieldKeepsEInv DEF Preempt, r
<1>7. CASE GetInput
  <2> DEFINE t == [r EXCEPT !.suspended = TRUE, !.resume_time = 0]
  <2>1. Yield(t)
    BY <1>7 DEF GetInput, r
  <2>2. 0 \in 0 .. TimeWrap - 1
    BY <1>2
  <2>3. /\ t \in Thread
        /\ t.id = r.id /\ t.process = r.process /\ t.block = r.block
        /\ Fits(t)
    BY <1>2, <2>2 DEF Thread, Fits
  <2> HIDE DEF t
  <2> QED BY <1>1, <2>1, <2>3, YieldKeepsEInv DEF r
<1> QED BY <1>3, <1>4, <1>5, <1>6, <1>7

\* The calls that change a field of the caller, or of a thread it names, and
\* return: a policy does not touch registers, and only the caller can make
\* itself wait for events, in which case it yields.
LEMMA OwnPolicyEvents ==
    ASSUME EInv, IInv', NEW policy \in Policy, SetOwnPolicy(policy)
    PROVE  EInv'
<1> DEFINE r == heap[current_thread]
           t == [r EXCEPT !.execution_policy = policy]
<1>1. /\ InProgram
      /\ IF policy = "EVENT_ONLY" /\ ~t.processing_event
         THEN Yield(t) ELSE Assign(current_thread, t)
  BY DEF SetOwnPolicy
<1>2. /\ current_thread \in allocated
      /\ r \in Thread
      /\ Fits(r)
      /\ MayRun(r)
  BY <1>1, InProgramFacts, RunningFacts DEF EInv, ContextsFit
<1> HIDE DEF r
<1>3. /\ t \in Thread
      /\ t.id = r.id /\ t.process = r.process /\ t.block = r.block
      /\ t.processing_event = r.processing_event
      /\ t.execution_policy = policy
      /\ t.parked = r.parked /\ t.suspended = r.suspended
      /\ Fits(t)
  BY <1>2 DEF Thread, Fits
<1> HIDE DEF t
<1>4. CASE policy = "EVENT_ONLY" /\ ~t.processing_event
  BY <1>1, <1>3, <1>4, YieldKeepsEInv DEF r
<1>5. CASE ~(policy = "EVENT_ONLY" /\ ~t.processing_event)
  <2>1. MayRun(t)
    BY <1>2, <1>3, <1>5 DEF MayRun
  <2> QED BY <1>1, <1>2, <1>3, <1>5, <2>1, AssignKeepsEInv DEF r
<1> QED BY <1>4, <1>5

LEMMA NamedEvents ==
    ASSUME Disciplined, EInv, IInv', NEW n \in ThreadId, NEW policy \in Policy,
           SetPolicy(n, policy) \/ ParkThread(n) \/ UnparkThread(n)
    PROVE  EInv'
<1> DEFINE a == thread_list[n]
           r == heap[a]
<1>1. Names(n)
  BY DEF SetPolicy, ParkThread, UnparkThread
<1>2. /\ a \in allocated
      /\ a # current_thread
      /\ r \in Thread
      /\ Fits(r)
  BY <1>1, NamesFacts DEF EInv, ContextsFit
<1>3. PICK t : /\ Assign(a, t)
               /\ \/ t = [r EXCEPT !.execution_policy = policy]
                  \/ t = [r EXCEPT !.parked = TRUE]
                  \/ t = [r EXCEPT !.parked = FALSE]
  BY DEF SetPolicy, ParkThread, UnparkThread
<1> HIDE DEF a, r
<1>4. /\ t \in Thread
      /\ t.id = r.id /\ t.process = r.process /\ t.block = r.block
      /\ Fits(t)
  BY <1>2, <1>3 DEF Thread, Fits
<1> QED BY <1>2, <1>3, <1>4, AssignKeepsEInv DEF r

\* Deaths.
LEMMA KillThreadEvents ==
    ASSUME Disciplined, EInv, IInv', NEW n \in ThreadId, KillThread(n)
    PROVE  EInv'
<1> DEFINE a == thread_list[n]
<1>1. a \in allocated /\ a # current_thread
  BY NamesFacts DEF KillThread, EInv
<1>2. /\ allocated' = allocated \ {a}
      /\ thread_event_queue' = EventsWithout({a})
      /\ UNCHANGED <<heap, current_thread, cpu>>
  BY <1>1 DEF KillThread
<1> HIDE DEF a
<1>3. Addressed(heap, allocated', thread_event_queue')
  BY <1>2, WithoutAddressed
<1> QED BY <1>2, <1>3, QuietStep

LEMMA KillSelfEvents == ASSUME EInv, IInv', KillSelf PROVE EInv'
<1> DEFINE a   == current_thread
           evq == EventsWithout({a})
           exq == Without(thread_execution_queue, {a})
<1>1. /\ allocated' = allocated \ {a}
      /\ ContextSwitch(heap, allocated \ {a}, ProcessesWithout(a), evq, exq,
                       elapsed_ms)
  BY DEF KillSelf
<1>2. evq \in Seq(ThreadEvent) /\ Addressed(heap, allocated \ {a}, evq)
  BY EventsWithoutType, WithoutAddressed DEF EInv
<1>3. exq \in Seq(ThreadAddr) /\ Entries(exq) = allocated \ {a}
  <2>1. Entries(thread_execution_queue) \ {a} = allocated \ {a}
    BY IInvFacts DEF EInv
  <2> QED BY <2>1, IInvFacts, WithoutFacts DEF EInv
<1> HIDE DEF evq, exq
<1>4. /\ heap \in [ThreadAddr -> Thread]
      /\ allocated \ {a} \in SUBSET ThreadAddr
      /\ ContextsFit(heap, allocated \ {a})
  BY IInvFacts DEF EInv, ContextsFit
<1> QED BY <1>1, <1>2, <1>3, <1>4, SwitchKeepsEInv

LEMMA EndProcessEvents ==
    ASSUME Disciplined, EInv, IInv', EndProcess PROVE EInv'
<1> DEFINE p     == heap[current_thread].process
           dead  == Entries(process[p].threads)
           alloc == allocated \ dead
           ls    == process[SchedulerEvents].hooked_threads
           evq   == EventsWithout(dead)
           ps    == Hooked([process EXCEPT ![p] = NoProcess], SchedulerEvents,
                           StillHooked(ls, {2}, thread_list))
           evs   == Emitted(evq, ls, {2}, heap, thread_list)
           exq   == Without(thread_execution_queue, dead)
<1>1. /\ InProgram
      /\ MayEmit(evq, ls, {2}, heap, thread_list, alloc)
      /\ allocated' = alloc
      /\ ContextSwitch(heap, alloc, ps, evs, exq, elapsed_ms)
  BY DEF EndProcess
<1>2. /\ p \in Process
      /\ current_thread \in allocated
      /\ Owned(heap, allocated, process_list, process)
  BY <1>1, InProgramFacts, IInvFacts DEF EInv
<1>3. current_thread \in dead
  BY <1>2 DEF Owned
<1>4. ls \in Seq(Listener)
  <2>1. SchedulerEvents \in Process
    BY DEF Process
  <2> QED BY <2>1, IInvFacts DEF EInv, ProcessState
<1> HIDE DEF p, dead, ls, ps
<1>5. evq \in Seq(ThreadEvent) /\ Addressed(heap, alloc, evq)
  BY EventsWithoutType, WithoutAddressed DEF EInv
<1>6. exq \in Seq(ThreadAddr) /\ Entries(exq) = alloc
  <2>1. Entries(thread_execution_queue) \ dead = alloc
    BY <1>3, IInvFacts DEF EInv
  <2> QED BY <2>1, IInvFacts, WithoutFacts DEF EInv
<1>7. /\ heap \in [ThreadAddr -> Thread]
      /\ thread_list \in Seq(ThreadAddr)
      /\ alloc \in SUBSET ThreadAddr
      /\ ContextsFit(heap, alloc)
  BY IInvFacts DEF EInv, ContextsFit
<1> HIDE DEF alloc, evq, exq
<1>8. evs \in Seq(ThreadEvent) /\ Addressed(heap, alloc, evs)
  BY <1>1, <1>4, <1>5, <1>7, EmittedType, EmittedAddressed
<1> HIDE DEF evs
<1> QED BY <1>1, <1>5, <1>6, <1>7, <1>8, SwitchKeepsEInv

\* Creation: a new thread has no registers but its own.
LEMMA NewThreadFits ==
    ASSUME IInv, NEW p \in Process, NEW b \in 0 .. NBlocks - 1,
           NEW u \in UninitState
    PROVE  Fits(NewThread(p, b, u))
BY DEF Fits, FreshThreadsIdle, NewThread

LEMMA LoadFailsEvents ==
    ASSUME EInv, IInv', NEW p \in UserProcess, NEW a \in ThreadAddr,
           NEW u \in UninitState, LoadFails(p, a, u)
    PROVE  EInv'
<1> DEFINE t == NewThread(p, 0, u)
<1>1. /\ a \notin allocated
      /\ heap' = [heap EXCEPT ![a] = t]
      /\ UNCHANGED <<allocated, thread_event_queue, current_thread, cpu>>
  BY DEF LoadFails, MayCreate
<1>2. p \in Process /\ 0 \in 0 .. NBlocks - 1
  BY ConstantsAssumption DEF Process
<1>3. Fits(t)
  BY <1>2, NewThreadFits DEF EInv
<1> HIDE DEF t
<1>4. /\ heap \in [ThreadAddr -> Thread]
      /\ allocated \in SUBSET ThreadAddr
      /\ current_thread \in allocated \cup {NoThread}
      /\ Addressed(heap, allocated, thread_event_queue)
  BY IInvFacts DEF EInv
<1>5. \A b \in allocated : heap'[b] = heap[b]
  BY <1>1, <1>4
<1>6. Addressed(heap', allocated', thread_event_queue')
  BY <1>1, <1>4, <1>5 DEF Addressed
<1>7. a # current_thread
  BY <1>1, <1>4, ConstantsAssumption
<1> QED BY <1>1, <1>3, <1>6, <1>7, ChangedStep

LEMMA CreateProcessEvents ==
    ASSUME Disciplined, EInv, IInv', NEW p \in UserProcess,
           NEW a \in ThreadAddr, NEW u \in UninitState,
           NEW s \in UninitSuspended, CreateProcess(p, a, u, s)
    PROVE  EInv'
<1> DEFINE t  == NewThread(p, 0, u)
           ls == process[SchedulerEvents].hooked_threads
           tl == Append(thread_list, a)
           h  == [heap EXCEPT ![a] = t]
           al == allocated \cup {a}
<1>1. /\ a \notin allocated
      /\ MayEmit(thread_event_queue, ls, {1}, h, tl, al)
      /\ heap' = h
      /\ allocated' = al
      /\ thread_event_queue' = Emitted(thread_event_queue, ls, {1}, h, tl)
      /\ UNCHANGED <<current_thread, cpu>>
  BY DEF CreateProcess, MayCreate
<1>2. p \in Process /\ 0 \in 0 .. NBlocks - 1 /\ SchedulerEvents \in Process
  BY ConstantsAssumption DEF Process
<1>3. Fits(t)
  BY <1>2, NewThreadFits DEF EInv
<1> HIDE DEF t
<1>4. /\ heap \in [ThreadAddr -> Thread]
      /\ allocated \in SUBSET ThreadAddr
      /\ thread_event_queue \in Seq(ThreadEvent)
      /\ current_thread \in allocated \cup {NoThread}
      /\ Addressed(heap, allocated, thread_event_queue)
      /\ thread_list \in Seq(ThreadAddr)
  BY IInvFacts DEF EInv
<1>5. \A b \in allocated : h[b] = heap[b]
  BY <1>1, <1>4
<1>6. ls \in Seq(Listener)
  BY <1>2, IInvFacts DEF EInv, ProcessState
<1>7. tl \in Seq(ThreadAddr)
  BY <1>4
<1> HIDE DEF h, ls, tl
<1>8. Addressed(h, al, thread_event_queue)
  BY <1>4, <1>5 DEF Addressed
<1> HIDE DEF al
<1>9. Addressed(heap', allocated', thread_event_queue')
  BY <1>1, <1>4, <1>6, <1>7, <1>8, EmittedAddressed
<1>10. a # current_thread
  BY <1>1, <1>4, ConstantsAssumption
<1> QED BY <1>1, <1>3, <1>9, <1>10, ChangedStep DEF h, al

LEMMA CreateThreadEvents ==
    ASSUME EInv, IInv', NEW a \in ThreadAddr, NEW u \in UninitState,
           CreateThread(a, u)
    PROVE  EInv'
<1> DEFINE p == heap[current_thread].process
<1>1. /\ InProgram
      /\ a \notin allocated
      /\ UNCHANGED <<thread_event_queue, current_thread>>
  BY DEF CreateThread, MayCreate
<1>2. /\ heap \in [ThreadAddr -> Thread]
      /\ allocated \in SUBSET ThreadAddr
      /\ current_thread \in allocated
      /\ p \in Process
      /\ Addressed(heap, allocated, thread_event_queue)
  BY <1>1, IInvFacts, InProgramFacts DEF EInv
<1>3. CASE FreeAreas(p) = {}
  <2>1. cpu' = "halted" /\ UNCHANGED <<heap, allocated>>
    BY <1>3 DEF CreateThread, Panic
  <2> QED BY <1>1, <1>2, <2>1, QuietStep
<1>4. CASE FreeAreas(p) # {}
  <2>1. PICK b \in FreeAreas(p) :
            /\ heap' = [heap EXCEPT ![a] = NewThread(p, b, u)]
            /\ allocated' = allocated \cup {a}
            /\ UNCHANGED cpu
    BY <1>4 DEF CreateThread
  <2>2. b \in 0 .. NBlocks - 1
    BY DEF FreeAreas
  <2>3. Fits(NewThread(p, b, u))
    BY <1>2, <2>2, NewThreadFits DEF EInv
  <2>4. \A c \in allocated : heap'[c] = heap[c]
    BY <1>1, <1>2, <2>1
  <2>5. Addressed(heap', allocated', thread_event_queue')
    BY <1>1, <1>2, <2>1, <2>4 DEF Addressed
  <2>6. a # current_thread
    BY <1>1, <1>2
  <2> QED BY <1>1, <2>1, <2>3, <2>5, <2>6, ChangedStep
<1> QED BY <1>3, <1>4
-----------------------------------------------------------------------------
(***************************************************************************)
(* The invariant, and what it says.                                        *)
(***************************************************************************)

LEMMA InitEvents == ASSUME Init PROVE EInv
<1>1. RunningMayRun
  BY DEF Init, RunningMayRun, InProgram
<1>2. Addressed(heap, allocated, thread_event_queue)
  BY DEF Init, Addressed, Entries
<1>3. ContextsFit(heap, allocated)
  BY DEF Init, ContextsFit
<1> QED BY <1>1, <1>2, <1>3, InitIInv DEF EInv

LEMMA NextEvents == ASSUME Disciplined, EInv, [Next]_vars PROVE EInv'
<1>1. IInv'
  BY NextIInv DEF EInv
<1>2. CASE Boot
  BY <1>1, <1>2, CreateProcessEvents, LoadFailsEvents DEF Boot
<1>3. CASE Interrupt
  BY <1>1, <1>3, TickEvents, KeyboardEvents DEF Interrupt
<1>4. CASE SystemCall
  <2>1. CASE EndProcess
    BY <1>1, <2>1, EndProcessEvents
  <2>2. CASE (\E d \in Delays : SuspendThread(d)) \/ EndEvent \/ ParkSelf
             \/ Preempt \/ GetInput
    BY <1>1, <2>2, YieldingEvents
  <2>3. CASE \E p \in Process, mask \in Masks : RegisterEvent(p, mask)
    BY <1>1, <2>3, RegisterEvents
  <2>4. CASE \E ids \in EmitIds : EmitEvent(ids)
    BY <1>1, <2>4, EmitEvents
  <2>5. CASE \E policy \in Policy : SetOwnPolicy(policy)
    BY <1>1, <2>5, OwnPolicyEvents
  <2>6. CASE \E n \in ThreadId, policy \in Policy : SetPolicy(n, policy)
    BY <1>1, <2>6, NamedEvents
  <2>7. CASE \E a \in ThreadAddr, u \in UninitState : CreateThread(a, u)
    BY <1>1, <2>7, CreateThreadEvents
  <2>8. CASE KillSelf
    BY <1>1, <2>8, KillSelfEvents
  <2>9. CASE \E n \in ThreadId : KillThread(n)
    BY <1>1, <2>9, KillThreadEvents
  <2>10. CASE \E n \in ThreadId : ParkThread(n) \/ UnparkThread(n)
    <3>1. "NORMAL" \in Policy
      BY DEF Policy
    <3> QED BY <1>1, <2>10, <3>1, NamedEvents
  <2>11. CASE NamesNobody
    BY <2>11 DEF NamesNobody
  <2> QED BY <1>4, <2>1, <2>2, <2>3, <2>4, <2>5, <2>6, <2>7, <2>8, <2>9, <2>10,
             <2>11 DEF SystemCall
<1>5. CASE UNCHANGED vars
  <2>1. Addressed(heap, allocated', thread_event_queue')
    BY <1>5 DEF EInv, vars
  <2> QED BY <1>1, <1>5, <2>1, QuietStep DEF vars
<1> QED BY <1>2, <1>3, <1>4, <1>5 DEF Next, Halted

\* The strengthening holds in every state that disciplined programs reach.
LEMMA EventsHold == ASSUME Disciplined PROVE Spec => []EInv
<1>1. Init => EInv
  BY InitEvents
<1>2. EInv /\ [Next]_vars => EInv'
  BY NextEvents
<1> QED BY <1>1, <1>2, PTL DEF Spec

\* The core is never given to, or left with, a thread that is parked, suspended
\* or waits for an event, nor one of a process that is gone.
THEOREM RunningThreadMayRun ==
    ASSUME Disciplined PROVE Spec => []RunningMayRun
<1>1. EInv => RunningMayRun
  BY DEF EInv
<1> QED BY <1>1, EventsHold, PTL

\* The assertion of the event loop never fails: kill_thread and kill_process
\* take every event of the dead out of the queue.
THEOREM QueuedThreadsExist ==
    ASSUME Disciplined PROVE Spec => []EventThreadExists
<1>1. EInv => EventThreadExists
  BY DEF EInv, EventThreadExists, StaleEvent, Addressed, Entries
<1> QED BY <1>1, EventsHold, PTL

\* A handler is entered with its own thread's registers, and with the program's
\* put aside, never with another handler's: provided that no thread is created
\* in a block whose last owner died in a handler.
THEOREM HandlersStayApart ==
    ASSUME Disciplined, FreshThreadsIdle PROVE Spec => []HandlersDoNotNest
<1>1. EInv => HandlersDoNotNest
  BY DEF EInv, HandlersDoNotNest, Addressed, Entries, ContextsFit, Fits
<1> QED BY <1>1, EventsHold, PTL
-----------------------------------------------------------------------------
(***************************************************************************)
(* The order of the events that are queued for a thread.                   *)
(***************************************************************************)

\* What happens to the events of a thread from one state to the next: before
\* and after are the events queued for it, t and u its contents.
OrderKept(before, after, t, u) ==
    \/ IsPrefixOf(before, after) /\ (u.processing_event => t.processing_event)
    \/ /\ u.processing_event
       /\ ~u.parked
       /\ before # <<>> => /\ IsPrefixOf(Tail(before), after)
                           /\ u.registers = before[1].handler
    \/ u.execution_policy = "BUSY" /\ ~u.processing_event

\* The positions of the events for the thread in block a, and those events.
LEMMA EventsForFacts ==
    ASSUME NEW q \in Seq(ThreadEvent), NEW a
    PROVE  /\ {i \in DOMAIN q : q[i].thread = a} \in SUBSET DOMAIN q
           /\ EventsFor(q, a) \in Seq(ThreadEvent)
<1>1. {i \in DOMAIN q : q[i].thread = a} \in SUBSET DOMAIN q
  OBVIOUS
<1> HIDE DEF EventsFor
<1>2. EventsFor(q, a) \in Seq(ThreadEvent)
  BY <1>1, KeepType DEF EventsFor
<1> QED BY <1>1, <1>2

LEMMA PrefixFacts ==
    ASSUME NEW S, NEW s \in Seq(S)
    PROVE  /\ IsPrefixOf(s, s)
           /\ \A t \in Seq(S) : /\ IsPrefixOf(s, t)
                                /\ s # <<>>
                                => /\ t # <<>>
                                   /\ s[1] = t[1]
                                   /\ IsPrefixOf(Tail(s), Tail(t))
<1>1. Len(s) \in Nat /\ DOMAIN s = 1 .. Len(s)
  OBVIOUS
<1>2. ASSUME NEW t \in Seq(S), IsPrefixOf(s, t), s # <<>>
      PROVE  t # <<>> /\ s[1] = t[1] /\ IsPrefixOf(Tail(s), Tail(t))
  <2>1. /\ Len(t) \in Nat /\ Len(s) <= Len(t) /\ Len(s) > 0
        /\ \A i \in 1 .. Len(s) : s[i] = t[i]
    BY <1>1, <1>2 DEF IsPrefixOf
  <2>2. t # <<>>
    BY <2>1
  <2>3. /\ Tail(s) \in Seq(S) /\ Len(Tail(s)) = Len(s) - 1
        /\ \A i \in 1 .. Len(s) - 1 : Tail(s)[i] = s[i + 1]
    BY <1>2
  <2>4. /\ Tail(t) \in Seq(S) /\ Len(Tail(t)) = Len(t) - 1
        /\ \A i \in 1 .. Len(t) - 1 : Tail(t)[i] = t[i + 1]
    BY <2>2
  <2>5. DOMAIN Tail(s) = 1 .. Len(s) - 1
    BY <2>3
  <2>6. \A i \in 1 .. Len(s) - 1 : Tail(s)[i] = Tail(t)[i]
    BY <2>1, <2>3, <2>4
  <2>7. s[1] = t[1]
    BY <2>1
  <2>8. IsPrefixOf(Tail(s), Tail(t))
    BY <2>1, <2>3, <2>4, <2>5, <2>6 DEF IsPrefixOf
  <2> QED BY <2>2, <2>7, <2>8
<1>3. IsPrefixOf(s, s)
  BY <1>1 DEF IsPrefixOf
<1> QED BY <1>2, <1>3

\* The events for the thread in block a.
For(a) == {e \in ThreadEvent : e.thread = a}

LEMMA EventsForWhere ==
    ASSUME NEW q \in Seq(ThreadEvent), NEW a
    PROVE  EventsFor(q, a) = Keep(q, Where(q, For(a)))
<1>1. {i \in DOMAIN q : q[i].thread = a} = Where(q, For(a))
  BY DEF Where, For
<1> QED BY <1>1 DEF EventsFor

\* The events for a thread among those kept are those kept of its events.
LEMMA EventsForKept ==
    ASSUME NEW q \in Seq(ThreadEvent), NEW K \in SUBSET DOMAIN q, NEW a
    PROVE  EventsFor(Keep(q, K), a) = Keep(q, {i \in K : q[i].thread = a})
<1>1. Keep(Keep(q, K), Where(Keep(q, K), For(a)))
            = Keep(q, K \cap Where(q, For(a)))
  BY KeepKept
<1>2. Keep(q, K) \in Seq(ThreadEvent)
  BY KeepType
<1>3. K \cap Where(q, For(a)) = {i \in K : q[i].thread = a}
  BY DEF Where, For
<1> QED BY <1>1, <1>2, <1>3, EventsForWhere

\* New events come behind.
LEMMA EventsForConcat ==
    ASSUME NEW q \in Seq(ThreadEvent), NEW r \in Seq(ThreadEvent), NEW a
    PROVE  IsPrefixOf(EventsFor(q, a), EventsFor(q \o r, a))
<1> DEFINE f == EventsFor(q, a)
           g == EventsFor(q \o r, a)
<1>1. q \o r \in Seq(ThreadEvent)
  OBVIOUS
<1>2. Len(f) <= Len(g) /\ \A j \in 1 .. Len(f) : f[j] = g[j]
  <2>1. f = Keep(q, Where(q, For(a)))
    BY EventsForWhere
  <2>2. g = Keep(q \o r, Where(q \o r, For(a)))
    BY <1>1, EventsForWhere
  <2> HIDE DEF f, g
  <2> QED BY <2>1, <2>2, KeepConcat
<1>3. DOMAIN f = 1 .. Len(f)
  <2>1. f \in Seq(ThreadEvent)
    BY EventsForFacts
  <2> HIDE DEF f
  <2> QED BY <2>1
<1> HIDE DEF f, g
<1>4. IsPrefixOf(f, g)
  BY <1>2, <1>3 DEF IsPrefixOf
<1> QED BY <1>4 DEF f, g

\* emit_event keeps what is queued for a thread in front.
LEMMA EventsForEmitted ==
    ASSUME NEW evq \in Seq(ThreadEvent), NEW ls \in Seq(Listener),
           NEW ids \in SUBSET {1, 2, 4, 8}, NEW h, NEW tl \in Seq(ThreadAddr),
           NEW a
    PROVE  IsPrefixOf(EventsFor(evq, a),
                      EventsFor(Emitted(evq, ls, ids, h, tl), a))
<1>1. Extends(evq, Emitted(evq, ls, ids, h, tl))
  BY EmittedAppends
<1>2. PICK new \in Seq(ThreadEvent) :
        Emitted(evq, ls, ids, h, tl) = evq \o new
  BY <1>1 DEF Extends
<1> QED BY <1>2, EventsForConcat

\* The death of other threads keeps all of what is queued for a thread.
LEMMA EventsForWithout ==
    ASSUME IInv, NEW dead, NEW a, a \notin dead
    PROVE  EventsFor(EventsWithout(dead), a) = EventsFor(thread_event_queue, a)
<1> DEFINE q == thread_event_queue
           K == {i \in DOMAIN q : q[i].thread \notin dead}
<1>1. q \in Seq(ThreadEvent)
  BY IInvFacts
<1> HIDE DEF q
<1>2. K \in SUBSET DOMAIN q
  OBVIOUS
<1>3. {i \in K : q[i].thread = a} = {i \in DOMAIN q : q[i].thread = a}
  OBVIOUS
<1> HIDE DEF K
<1>4. EventsFor(Keep(q, K), a) = Keep(q, {i \in K : q[i].thread = a})
  BY <1>1, <1>2, EventsForKept
<1> QED BY <1>3, <1>4 DEF EventsWithout, EventsFor, q, K

\* The event loop leaves the events of a thread whose handler runs, and takes
\* the first of those of another that is not BUSY.
LEMMA LoopInOrder ==
    ASSUME NEW h \in [ThreadAddr -> Thread], NEW evq \in Seq(ThreadEvent),
           NEW a \in ThreadAddr
    PROVE  LET all == EventsFor(evq, a)
               left == EventsFor(RemainingEvents(h, evq), a)
               woken == AfterEvents(h, evq)[a]
           IN  \/ woken = h[a] /\ left = all
               \/ /\ woken = h[a]
                  /\ h[a].execution_policy = "BUSY" /\ ~h[a].processing_event
               \/ /\ all # <<>> /\ left = Tail(all)
                  /\ woken = InHandler(h[a], all[1].handler)
<1> DEFINE A == {i \in DOMAIN evq : evq[i].thread = a}
           K == DOMAIN evq \ (Dropped(h, evq) \cup Delivered(h, evq))
           all == EventsFor(evq, a)
           left == EventsFor(RemainingEvents(h, evq), a)
           woken == AfterEvents(h, evq)[a]
<1>1. K \in SUBSET DOMAIN evq /\ A \in SUBSET DOMAIN evq
  OBVIOUS
<1>2. left = Keep(evq, {i \in K : evq[i].thread = a})
  <2> HIDE DEF K
  <2> QED BY <1>1, EventsForKept DEF RemainingEvents, K
<1>3. all = Keep(evq, A)
  BY DEF EventsFor
<1>4. ASSUME \A i \in Delivered(h, evq) : evq[i].thread # a
      PROVE  woken = h[a]
  BY <1>4 DEF AfterEvents
<1> HIDE DEF woken, left, all
<1>5. CASE h[a].processing_event
  <2>1. \A i \in A : i \notin Delivered(h, evq) /\ i \notin Dropped(h, evq)
    BY <1>5 DEF Delivered, Dropped
  <2>2. {i \in K : evq[i].thread = a} = A
    BY <2>1
  <2>3. \A i \in Delivered(h, evq) : evq[i].thread # a
    BY <1>5 DEF Delivered
  <2> QED BY <1>2, <1>3, <1>4, <2>2, <2>3 DEF woken, left, all
<1>6. CASE ~h[a].processing_event /\ h[a].execution_policy = "BUSY"
  <2>1. \A i \in Delivered(h, evq) : evq[i].thread # a
    BY <1>6 DEF Delivered
  <2> QED BY <1>4, <1>6, <2>1 DEF woken, left, all
<1>7. CASE /\ ~h[a].processing_event /\ h[a].execution_policy # "BUSY"
           /\ A = {}
  <2>1. \A i \in Delivered(h, evq) : evq[i].thread # a
    BY <1>7 DEF Delivered
  <2>2. {i \in K : evq[i].thread = a} = A
    BY <1>7
  <2> QED BY <1>2, <1>3, <1>4, <2>1, <2>2 DEF woken, left, all
<1>8. CASE /\ ~h[a].processing_event /\ h[a].execution_policy # "BUSY"
           /\ A # {}
  <2>1. A \in SUBSET Nat
    OBVIOUS
  <2>2. PICK i \in A : \A j \in A : i <= j
    <3> HIDE DEF A
    <3> QED BY <1>8, <2>1, LeastNat
  <2>3. /\ i \in Nat /\ i \in DOMAIN evq
        /\ DOMAIN evq = 1 .. Len(evq)
        /\ evq[i].thread = a
    OBVIOUS
  <2>4. \A j \in A : j \in Delivered(h, evq) <=> j = i
    <3>1. \A j \in 1 .. i - 1 : evq[j].thread # a
      BY <2>2, <2>3
    <3>2. i \in Delivered(h, evq)
      BY <1>8, <2>3, <3>1 DEF Delivered
    <3>3. \A j \in A : j # i => i \in 1 .. j - 1
      BY <2>2, <2>3
    <3>4. \A j \in A : j # i => j \notin Delivered(h, evq)
      BY <2>3, <3>3 DEF Delivered
    <3> QED BY <3>2, <3>4
  <2>5. \A j \in A : j \notin Dropped(h, evq)
    BY <1>8 DEF Dropped
  <2>6. {j \in K : evq[j].thread = a} = A \ {i}
    BY <2>4, <2>5
  <2>7. /\ Keep(evq, A) # <<>>
        /\ Keep(evq, A)[1] = evq[i]
        /\ Keep(evq, A \ {i}) = Tail(Keep(evq, A))
    <3> HIDE DEF A
    <3> QED BY <1>1, <2>2, KeepTail
  <2>8. woken = InHandler(h[a], evq[i].handler)
    <3>1. \A j \in Delivered(h, evq) : evq[j].thread = a <=> j = i
      BY <2>3, <2>4 DEF Delivered
    <3>2. i \in Delivered(h, evq)
      BY <2>2, <2>4
    <3>3. (CHOOSE j \in Delivered(h, evq) : evq[j].thread = a) = i
      BY <3>1, <3>2
    <3> HIDE DEF A, K
    <3> QED BY <3>1, <3>2, <3>3 DEF AfterEvents, woken
  <2> HIDE DEF A, K
  <2> QED BY <1>2, <1>3, <2>6, <2>7, <2>8 DEF woken, left, all
<1> QED BY <1>5, <1>6, <1>7, <1>8

\* The run loop changes nothing of the thread it resumes that matters here.
LEMMA ResumedKeeps ==
    ASSUME NEW t \in Thread
    PROVE  /\ Resumed(t).processing_event = t.processing_event
           /\ Resumed(t).parked = t.parked
           /\ Resumed(t).registers = t.registers
           /\ Resumed(t).execution_policy = t.execution_policy
<1>1. CASE t.suspended
  <2>1. Resumed(t) = [t EXCEPT !.suspended = FALSE, !.resume_time = 0]
    BY <1>1 DEF Resumed
  <2> QED BY <2>1 DEF Thread
<1>2. CASE ~t.suspended
  BY <1>2 DEF Resumed
<1> QED BY <1>1, <1>2

\* A context switch that is entered with more events behind those that a
\* thread had, and its handler no further than it was.
LEMMA SwitchInOrder ==
    ASSUME NEW h \in [ThreadAddr -> Thread], NEW alloc, NEW ps,
           NEW evq \in Seq(ThreadEvent), NEW exq \in Seq(ThreadAddr), NEW now,
           ContextSwitch(h, alloc, ps, evq, exq, now),
           NEW before \in Seq(ThreadEvent), NEW t, NEW a \in ThreadAddr,
           IsPrefixOf(before, EventsFor(evq, a)),
           h[a].processing_event => t.processing_event
    PROVE  OrderKept(before, EventsFor(thread_event_queue', a), t, heap'[a])
<1> DEFINE all == EventsFor(evq, a)
           woken == AfterEvents(h, evq)
<1>1. all \in Seq(ThreadEvent) /\ IsPrefixOf(before, all)
  BY EventsForFacts
<1>2. h[a] \in Thread /\ woken \in [ThreadAddr -> Thread]
  BY AfterEventsFacts
<1> DEFINE left == EventsFor(RemainingEvents(h, evq), a)
<1>3. \/ woken[a] = h[a] /\ left = all
      \/ /\ woken[a] = h[a]
         /\ h[a].execution_policy = "BUSY" /\ ~h[a].processing_event
      \/ /\ all # <<>> /\ left = Tail(all)
         /\ woken[a] = InHandler(h[a], all[1].handler)
  BY LoopInOrder
<1>4. \/ heap' = h /\ thread_event_queue' = evq
      \/ /\ thread_event_queue' = RemainingEvents(h, evq)
         /\ \/ \E k \in DOMAIN exq : Run(woken, ps, exq, now, k)
            \/ Sleep(woken, ps, exq, now)
  BY DEF ContextSwitch
<1> HIDE DEF all, left, woken
<1>5. CASE heap' = h /\ thread_event_queue' = evq
  BY <1>1, <1>5 DEF OrderKept, all
<1>6. ASSUME thread_event_queue' = RemainingEvents(h, evq),
             \/ \E k \in DOMAIN exq : Run(woken, ps, exq, now, k)
             \/ Sleep(woken, ps, exq, now)
      PROVE  OrderKept(before, left, t, heap'[a])
  <2>1. /\ heap'[a].processing_event = woken[a].processing_event
        /\ heap'[a].parked = woken[a].parked
        /\ heap'[a].registers = woken[a].registers
        /\ heap'[a].execution_policy = woken[a].execution_policy
    <3>1. CASE Sleep(woken, ps, exq, now)
      BY <3>1 DEF Sleep
    <3>2. ASSUME NEW k \in DOMAIN exq, Run(woken, ps, exq, now, k)
          PROVE  heap'[a] = woken[a] \/ heap'[a] = Resumed(woken[a])
      <4>1. heap' = [woken EXCEPT ![exq[k]] = Resumed(woken[exq[k]])]
        BY <3>2 DEF Run
      <4> QED BY <1>2, <4>1
    <3> QED BY <1>2, <1>6, <3>1, <3>2, ResumedKeeps
  <2>2. CASE woken[a] = h[a] /\ left = all
    BY <1>1, <2>1, <2>2 DEF OrderKept
  <2>3. CASE /\ woken[a] = h[a]
             /\ h[a].execution_policy = "BUSY" /\ ~h[a].processing_event
    BY <2>1, <2>3 DEF OrderKept
  <2>4. CASE /\ all # <<>> /\ left = Tail(all)
             /\ woken[a] = InHandler(h[a], all[1].handler)
    <3>1. /\ woken[a].processing_event
          /\ ~woken[a].parked
          /\ woken[a].registers = all[1].handler
      BY <1>2, <2>4 DEF InHandler, Thread
    <3>2. before # <<>> => /\ before[1] = all[1]
                           /\ IsPrefixOf(Tail(before), Tail(all))
      BY <1>1, PrefixFacts
    <3> QED BY <2>1, <2>4, <3>1, <3>2 DEF OrderKept
  <2> QED BY <1>3, <2>2, <2>3, <2>4
<1> QED BY <1>4, <1>5, <1>6 DEF left
-----------------------------------------------------------------------------
\* The steps, for a thread that lives on.
InOrder(a) ==
    OrderKept(EventsFor(thread_event_queue, a),
              EventsFor(thread_event_queue', a), heap[a], heap'[a])

\* A step that leaves the events as they are, or queues more.
LEMMA AppendingInOrder ==
    ASSUME IInv, NEW a,
           IsPrefixOf(EventsFor(thread_event_queue, a),
                      EventsFor(thread_event_queue', a)),
           heap'[a].processing_event => heap[a].processing_event
    PROVE  InOrder(a)
BY DEF InOrder, OrderKept

LEMMA QuietInOrder ==
    ASSUME IInv, NEW a, thread_event_queue' = thread_event_queue,
           heap'[a].processing_event => heap[a].processing_event
    PROVE  InOrder(a)
<1>1. thread_event_queue \in Seq(ThreadEvent)
  BY IInvFacts
<1>2. IsPrefixOf(EventsFor(thread_event_queue, a),
                 EventsFor(thread_event_queue', a))
  BY <1>1, EventsForFacts, PrefixFacts
<1> QED BY <1>2, AppendingInOrder

\* The events emitted to the listeners of a process.
LEMMA EmittingInOrder ==
    ASSUME IInv, NEW p \in Process, NEW ids \in SUBSET {1, 2, 4, 8},
           NEW tl \in Seq(ThreadAddr), NEW h, NEW a,
           heap'[a] = heap[a],
           thread_event_queue' = Emitted(thread_event_queue,
                                    process[p].hooked_threads, ids, h, tl)
    PROVE  InOrder(a)
<1>1. /\ process[p].hooked_threads \in Seq(Listener)
      /\ thread_event_queue \in Seq(ThreadEvent)
  BY IInvFacts DEF ProcessState
<1>2. IsPrefixOf(EventsFor(thread_event_queue, a),
                 EventsFor(thread_event_queue', a))
  BY <1>1, EventsForEmitted
<1> QED BY <1>2, AppendingInOrder

\* The calls that leave the caller with contents t and switch.
LEMMA YieldInOrder ==
    ASSUME IInv, InProgram, NEW t \in Thread, Yield(t),
           t.processing_event => heap[current_thread].processing_event,
           NEW a \in ThreadAddr
    PROVE  InOrder(a)
<1> DEFINE h == [heap EXCEPT ![current_thread] = t]
           before == EventsFor(thread_event_queue, a)
<1>1. /\ heap \in [ThreadAddr -> Thread]
      /\ thread_event_queue \in Seq(ThreadEvent)
      /\ current_thread \in ThreadAddr
  BY IInvFacts, InProgramFacts
<1>2. /\ h \in [ThreadAddr -> Thread]
      /\ h[a].processing_event => heap[a].processing_event
  BY <1>1
<1>3. ContextSwitch(h, allocated, process, thread_event_queue, Requeued,
                    elapsed_ms)
  BY DEF Yield
<1>4. before \in Seq(ThreadEvent) /\ IsPrefixOf(before, before)
  BY <1>1, EventsForFacts, PrefixFacts
<1>5. Requeued \in Seq(ThreadAddr)
  BY RequeuedFacts
<1> HIDE DEF h
<1> QED BY <1>1, <1>2, <1>3, <1>4, <1>5, SwitchInOrder DEF InOrder

LEMMA TickInOrder ==
    ASSUME IInv, TimerTick, NEW a \in ThreadAddr PROVE InOrder(a)
<1> DEFINE now == (elapsed_ms + TimeSlice) % TimeWrap
           before == EventsFor(thread_event_queue, a)
<1>1. ContextSwitch(heap, allocated, process, thread_event_queue, Requeued,
                    now)
  BY DEF TimerTick
<1>2. heap \in [ThreadAddr -> Thread] /\ thread_event_queue \in Seq(ThreadEvent)
  BY IInvFacts
<1>3. before \in Seq(ThreadEvent) /\ IsPrefixOf(before, before)
  BY <1>2, EventsForFacts, PrefixFacts
<1>4. Requeued \in Seq(ThreadAddr)
  BY RequeuedFacts
<1> HIDE DEF now
<1> QED BY <1>1, <1>2, <1>3, <1>4, SwitchInOrder DEF InOrder

LEMMA YieldingInOrder ==
    ASSUME IInv, NEW a \in ThreadAddr,
           \/ \E d \in Delays : SuspendThread(d)
           \/ EndEvent
           \/ ParkSelf
           \/ Preempt
           \/ GetInput
    PROVE  InOrder(a)
<1>1. InProgram
  BY DEF SuspendThread, EndEvent, ParkSelf, Preempt, GetInput
<1> DEFINE r == heap[current_thread]
<1>2. /\ r \in Thread
      /\ elapsed_ms \in Nat
      /\ TimeWrap \in Nat \ {0}
  BY <1>1, InProgramFacts, IInvFacts, ConstantsAssumption
<1> HIDE DEF r
<1>3. ASSUME NEW d \in Delays, SuspendThread(d) PROVE InOrder(a)
  <2> DEFINE until == IF d = 0 THEN 1 ELSE (elapsed_ms + d) % TimeWrap
             t == [r EXCEPT !.suspended = TRUE, !.resume_time = until]
  <2>1. Yield(t)
    BY <1>3 DEF SuspendThread, r
  <2>2. until \in 0 .. TimeWrap - 1
    <3>1. d \in Nat /\ TimeWrap > 1
      BY ConstantsAssumption
    <3> QED BY <1>2, <3>1
  <2> HIDE DEF until
  <2>3. t \in Thread /\ t.processing_event = r.processing_event
    BY <1>2, <2>2 DEF Thread
  <2> HIDE DEF t
  <2> QED BY <1>1, <2>1, <2>3, YieldInOrder DEF r
<1>4. CASE EndEvent
  <2> DEFINE t == [r EXCEPT !.processing_event = FALSE,
                            !.registers = r.backup_registers]
  <2>1. Yield(t)
    BY <1>4 DEF EndEvent, r
  <2>2. t \in Thread /\ t.processing_event = FALSE
    BY <1>2 DEF Thread
  <2> HIDE DEF t
  <2> QED BY <1>1, <2>1, <2>2, YieldInOrder DEF r
<1>5. CASE ParkSelf
  <2> DEFINE t == [r EXCEPT !.parked = TRUE]
  <2>1. Yield(t)
    BY <1>5 DEF ParkSelf, r
  <2>2. t \in Thread /\ t.processing_event = r.processing_event
    BY <1>2 DEF Thread
  <2> HIDE DEF t
  <2> QED BY <1>1, <2>1, <2>2, YieldInOrder DEF r
<1>6. CASE Preempt
  BY <1>1, <1>2, <1>6, YieldInOrder DEF Preempt, r
<1>7. CASE GetInput
  <2> DEFINE t == [r EXCEPT !.suspended = TRUE, !.resume_time = 0]
  <2>1. Yield(t)
    BY <1>7 DEF GetInput, r
  <2>2. 0 \in 0 .. TimeWrap - 1
    BY <1>2
  <2>3. t \in Thread /\ t.processing_event = r.processing_event
    BY <1>2, <2>2 DEF Thread
  <2> HIDE DEF t
  <2> QED BY <1>1, <2>1, <2>3, YieldInOrder DEF r
<1> QED BY <1>3, <1>4, <1>5, <1>6, <1>7

\* A call that changes fields of a thread and returns.
LEMMA AssignInOrder ==
    ASSUME IInv, NEW b, NEW t, Assign(b, t), NEW a \in ThreadAddr,
           t.processing_event => heap[b].processing_event
    PROVE  InOrder(a)
<1>1. heap' = heap \/ heap' = [heap EXCEPT ![b] = t]
  BY DEF Assign, Corrupt
<1>2. thread_event_queue' = thread_event_queue
  BY DEF Assign, Corrupt
<1>3. heap'[a].processing_event => heap[a].processing_event
  BY <1>1, IInvFacts
<1> QED BY <1>2, <1>3, QuietInOrder

LEMMA OwnPolicyInOrder ==
    ASSUME IInv, NEW policy \in Policy, SetOwnPolicy(policy),
           NEW a \in ThreadAddr
    PROVE  InOrder(a)
<1> DEFINE r == heap[current_thread]
           t == [r EXCEPT !.execution_policy = policy]
<1>1. InProgram /\ (Yield(t) \/ Assign(current_thread, t))
  BY DEF SetOwnPolicy
<1>2. r \in Thread
  BY <1>1, InProgramFacts
<1> HIDE DEF r
<1>3. t \in Thread /\ t.processing_event = r.processing_event
  BY <1>2 DEF Thread
<1> HIDE DEF t
<1> QED BY <1>1, <1>3, YieldInOrder, AssignInOrder DEF r

LEMMA NamedInOrder ==
    ASSUME IInv, NEW n \in ThreadId, NEW policy \in Policy,
           SetPolicy(n, policy) \/ ParkThread(n) \/ UnparkThread(n),
           NEW a \in ThreadAddr
    PROVE  InOrder(a)
<1> DEFINE b == thread_list[n]
           r == heap[b]
<1>1. n \in DOMAIN thread_list
  BY DEF SetPolicy, ParkThread, UnparkThread, Names
<1>2. r \in Thread
  BY <1>1, IInvFacts
<1>3. PICK t : /\ Assign(b, t)
               /\ \/ t = [r EXCEPT !.execution_policy = policy]
                  \/ t = [r EXCEPT !.parked = TRUE]
                  \/ t = [r EXCEPT !.parked = FALSE]
  BY DEF SetPolicy, ParkThread, UnparkThread
<1> HIDE DEF r, b
<1>4. t.processing_event = r.processing_event
  BY <1>2, <1>3 DEF Thread
<1> QED BY <1>3, <1>4, AssignInOrder DEF r

\* The deaths of other threads.
LEMMA KillThreadInOrder ==
    ASSUME IInv, NEW n \in ThreadId, KillThread(n),
           NEW a \in ThreadAddr, a \in allocated'
    PROVE  InOrder(a)
<1> DEFINE b == thread_list[n]
<1>1. CASE /\ allocated' = allocated \ {b}
           /\ thread_event_queue' = EventsWithout({b})
           /\ heap' = heap
  <2>1. a \notin {b}
    BY <1>1
  <2>2. EventsFor(thread_event_queue', a) = EventsFor(thread_event_queue, a)
    BY <1>1, <2>1, EventsForWithout
  <2>3. thread_event_queue \in Seq(ThreadEvent)
    BY IInvFacts
  <2>4. IsPrefixOf(EventsFor(thread_event_queue, a),
                   EventsFor(thread_event_queue', a))
    BY <2>2, <2>3, EventsForFacts, PrefixFacts
  <2> QED BY <1>1, <2>4, AppendingInOrder
<1>2. CASE heap' = heap /\ thread_event_queue' = thread_event_queue
  BY <1>2, QuietInOrder
<1> QED BY <1>1, <1>2 DEF KillThread, Corrupt

LEMMA KillSelfInOrder ==
    ASSUME IInv, KillSelf, NEW a \in ThreadAddr, a \in allocated'
    PROVE  InOrder(a)
<1> DEFINE b   == current_thread
           evq == EventsWithout({b})
           exq == Without(thread_execution_queue, {b})
           before == EventsFor(thread_event_queue, a)
<1>1. /\ allocated' = allocated \ {b}
      /\ ContextSwitch(heap, allocated \ {b}, ProcessesWithout(b), evq, exq,
                       elapsed_ms)
  BY DEF KillSelf
<1>2. a \notin {b}
  BY <1>1
<1>3. evq \in Seq(ThreadEvent) /\ EventsFor(evq, a) = before
  BY <1>2, EventsWithoutType, EventsForWithout
<1>4. before \in Seq(ThreadEvent) /\ IsPrefixOf(before, before)
  BY IInvFacts, EventsForFacts, PrefixFacts
<1>5. exq \in Seq(ThreadAddr)
  BY IInvFacts, WithoutFacts
<1>6. heap \in [ThreadAddr -> Thread]
  BY IInvFacts
<1> HIDE DEF evq, exq, before
<1>7. OrderKept(before, EventsFor(thread_event_queue', a), heap[a], heap'[a])
  BY <1>1, <1>3, <1>4, <1>5, <1>6, SwitchInOrder
<1> QED BY <1>7 DEF InOrder, before

LEMMA EndProcessInOrder ==
    ASSUME IInv, EndProcess, NEW a \in ThreadAddr, a \in allocated'
    PROVE  InOrder(a)
<1> DEFINE p     == heap[current_thread].process
           dead  == Entries(process[p].threads)
           alloc == allocated \ dead
           ls    == process[SchedulerEvents].hooked_threads
           evq   == EventsWithout(dead)
           ps    == Hooked([process EXCEPT ![p] = NoProcess], SchedulerEvents,
                           StillHooked(ls, {2}, thread_list))
           evs   == Emitted(evq, ls, {2}, heap, thread_list)
           exq   == Without(thread_execution_queue, dead)
           before == EventsFor(thread_event_queue, a)
<1>1. /\ allocated' = alloc
      /\ ContextSwitch(heap, alloc, ps, evs, exq, elapsed_ms)
  BY DEF EndProcess
<1>2. a \notin dead
  BY <1>1
<1>3. ls \in Seq(Listener)
  <2>1. SchedulerEvents \in Process
    BY DEF Process
  <2> QED BY <2>1, IInvFacts DEF ProcessState
<1>4. exq \in Seq(ThreadAddr)
  BY IInvFacts, WithoutFacts
<1> HIDE DEF p, dead, ls, ps, exq, alloc
<1>5. evq \in Seq(ThreadEvent) /\ EventsFor(evq, a) = before
  BY <1>2, EventsWithoutType, EventsForWithout
<1>6. before \in Seq(ThreadEvent)
  BY IInvFacts, EventsForFacts
<1>7. heap \in [ThreadAddr -> Thread] /\ thread_list \in Seq(ThreadAddr)
  BY IInvFacts
<1> HIDE DEF evq, before
<1>8. evs \in Seq(ThreadEvent)
  BY <1>3, <1>5, <1>7, EmittedType
<1>9. IsPrefixOf(before, EventsFor(evs, a))
  BY <1>3, <1>5, <1>7, EventsForEmitted
<1> HIDE DEF evs
<1>10. OrderKept(before, EventsFor(thread_event_queue', a), heap[a], heap'[a])
  BY <1>1, <1>4, <1>6, <1>7, <1>8, <1>9, SwitchInOrder
<1> QED BY <1>10 DEF InOrder, before

\* Creations, which write a block that no thread had.
LEMMA CreationInOrder ==
    ASSUME IInv, NEW a \in allocated,
           \/ \E p \in UserProcess, b \in ThreadAddr, u \in UninitState,
                 s \in UninitSuspended : CreateProcess(p, b, u, s)
           \/ \E p \in UserProcess, b \in ThreadAddr, u \in UninitState :
                   LoadFails(p, b, u)
           \/ \E b \in ThreadAddr, u \in UninitState : CreateThread(b, u)
    PROVE  InOrder(a)
<1>1. a \in ThreadAddr /\ heap \in [ThreadAddr -> Thread]
  BY IInvFacts
<1>2. ASSUME NEW p \in UserProcess, NEW b \in ThreadAddr, NEW u \in UninitState,
             NEW s \in UninitSuspended, CreateProcess(p, b, u, s)
      PROVE  InOrder(a)
  <2> DEFINE tl == Append(thread_list, b)
  <2>1. /\ b \notin allocated
        /\ heap' = [heap EXCEPT ![b] = NewThread(p, 0, u)]
        /\ thread_event_queue' = Emitted(thread_event_queue,
                process[SchedulerEvents].hooked_threads, {1}, heap', tl)
    BY <1>2 DEF CreateProcess, MayCreate
  <2>2. tl \in Seq(ThreadAddr) /\ SchedulerEvents \in Process
    BY IInvFacts DEF Process
  <2>3. heap'[a] = heap[a]
    BY <1>1, <2>1
  <2>4. {1} \in SUBSET {1, 2, 4, 8}
    OBVIOUS
  <2> HIDE DEF tl
  <2> QED BY <2>1, <2>2, <2>3, <2>4, EmittingInOrder
<1>3. ASSUME NEW p \in UserProcess, NEW b \in ThreadAddr, NEW u \in UninitState,
             LoadFails(p, b, u)
      PROVE  InOrder(a)
  <2>1. heap'[a] = heap[a] /\ thread_event_queue' = thread_event_queue
    BY <1>1, <1>3 DEF LoadFails, MayCreate
  <2> QED BY <2>1, QuietInOrder
<1>4. ASSUME NEW b \in ThreadAddr, NEW u \in UninitState, CreateThread(b, u)
      PROVE  InOrder(a)
  <2>1. b \notin allocated /\ thread_event_queue' = thread_event_queue
    BY <1>4 DEF CreateThread, MayCreate
  <2>2. \/ heap' = heap
        \/ \E t : heap' = [heap EXCEPT ![b] = t]
    BY <1>4 DEF CreateThread
  <2>3. heap'[a] = heap[a]
    BY <1>1, <2>1, <2>2
  <2> QED BY <2>1, <2>3, QuietInOrder
<1> QED BY <1>2, <1>3, <1>4

LEMMA NextInOrder ==
    ASSUME IInv, [Next]_vars, NEW a \in allocated, a \in allocated'
    PROVE  InOrder(a)
<1>1. a \in ThreadAddr
  BY IInvFacts
<1>2. CASE Boot
  BY <1>2, CreationInOrder DEF Boot
<1>3. CASE TimerTick
  BY <1>1, <1>3, TickInOrder
<1>4. ASSUME NEW ids \in KeyEvents, KeyboardInterrupt(ids) PROVE InOrder(a)
  <2>1. KeyboardDriver \in Process /\ ids \in SUBSET {1, 2, 4, 8}
    BY ConstantsAssumption DEF Process
  <2>2. thread_list \in Seq(ThreadAddr)
    BY IInvFacts
  <2> QED BY <1>4, <2>1, <2>2, EmittingInOrder DEF KeyboardInterrupt
<1>5. CASE SystemCall
  <2>1. CASE EndProcess
    BY <1>1, <2>1, EndProcessInOrder
  <2>2. CASE (\E d \in Delays : SuspendThread(d)) \/ EndEvent \/ ParkSelf
             \/ Preempt \/ GetInput
    BY <1>1, <2>2, YieldingInOrder
  <2>3. CASE \E p \in Process, mask \in Masks : RegisterEvent(p, mask)
    BY <2>3, QuietInOrder DEF RegisterEvent
  <2>4. ASSUME NEW ids \in EmitIds, EmitEvent(ids) PROVE InOrder(a)
    <3>1. /\ heap[current_thread].process \in Process
          /\ ids \in SUBSET {1, 2, 4, 8}
      BY <2>4, ConstantsAssumption, InProgramFacts DEF EmitEvent
    <3>2. thread_list \in Seq(ThreadAddr)
      BY IInvFacts
    <3> QED BY <2>4, <3>1, <3>2, EmittingInOrder DEF EmitEvent
  <2>5. CASE \E policy \in Policy : SetOwnPolicy(policy)
    BY <1>1, <2>5, OwnPolicyInOrder
  <2>6. CASE \E n \in ThreadId, policy \in Policy : SetPolicy(n, policy)
    BY <1>1, <2>6, NamedInOrder
  <2>7. CASE \E b \in ThreadAddr, u \in UninitState : CreateThread(b, u)
    BY <2>7, CreationInOrder
  <2>8. CASE KillSelf
    BY <1>1, <2>8, KillSelfInOrder
  <2>9. CASE \E n \in ThreadId : KillThread(n)
    BY <1>1, <2>9, KillThreadInOrder
  <2>10. CASE \E n \in ThreadId : ParkThread(n) \/ UnparkThread(n)
    <3>1. "NORMAL" \in Policy
      BY DEF Policy
    <3> QED BY <1>1, <2>10, <3>1, NamedInOrder
  <2>11. CASE NamesNobody
    BY <2>11, QuietInOrder DEF NamesNobody, Corrupt
  <2> QED BY <1>5, <2>1, <2>2, <2>3, <2>4, <2>5, <2>6, <2>7, <2>8, <2>9, <2>10,
             <2>11 DEF SystemCall
<1>6. CASE UNCHANGED vars
  BY <1>6, QuietInOrder DEF vars
<1>7. CASE Halted
  BY <1>7, QuietInOrder DEF Halted, vars
<1> QED BY <1>2, <1>3, <1>4, <1>5, <1>6, <1>7 DEF Next, Interrupt

\* The events queued for a thread are delivered one by one and in the order in
\* which they were emitted: whatever the programs do, dead threads named or
\* not, no step loses, overtakes or repeats one.
THEOREM EventsStayInOrder == Spec => EventsInOrder
<1> DEFINE A == \A a \in allocated \cap allocated' :
        LET old == EventsFor(thread_event_queue, a)
            new == EventsFor(thread_event_queue', a)
        IN  \/ IsPrefixOf(old, new) /\ (heap'[a].processing_event =>
                                            heap[a].processing_event)
            \/ /\ heap'[a].processing_event
               /\ ~heap'[a].parked
               /\ old # <<>> => /\ IsPrefixOf(Tail(old), new)
                               /\ heap'[a].registers = old[1].handler
            \/ heap'[a].execution_policy = "BUSY" /\ ~heap'[a].processing_event
<1>1. IInv /\ [Next]_vars => A
  <2> SUFFICES ASSUME IInv, [Next]_vars, NEW a \in allocated, a \in allocated'
               PROVE  InOrder(a)
    BY DEF InOrder, OrderKept
  <2> QED BY NextInOrder
<1>2. EventsInOrder <=> [][A]_vars
  BY DEF EventsInOrder
<1> HIDE DEF A
<1>3. Spec => [][A]_vars
  BY <1>1, Invariance, PTL DEF Spec
<1> QED BY <1>2, <1>3
=============================================================================
