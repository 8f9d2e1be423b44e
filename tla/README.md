# Speedy OS in TLA+

Speedy OS is a small 32-bit x86 kernel for one core: a preemptive round-robin
scheduler, processes with several threads, events, park and suspend calls, data
sinks between processes, a kernel heap, page tables and a userland library with
mutexes, semaphores and promises. This directory holds TLA+ models of it, the
TLC configurations that check them and theorems about them that TLAPS checks.

Run, in this directory:

    tlasany Scheduler.tla                                    parse
    tlc -workers 2 -config SchedulerThreads.cfg MCScheduler   model-check
    tlapm SchedulerProofs.tla                                 check the proofs

The other modules go the same way (`MCLibrary` with `Library.cfg`, `MCMachine` with
`Machine.cfg`, `LinkedArrayProofs`, `UserlandProofs`, ...).

## The system and its parts

| Part | State | Operations | Talks to | Modules |
|---|---|---|---|---|
| Scheduler (`scheduling/scheduler.cpp`) | `thread_list`, `process_list`, execution and event queues, `current_thread`, clock; per thread policy, parked, suspended, in-handler flags, saved registers; per process thread list and kernel areas | create and kill processes and threads, timer tick, context switch, idle sleep | events, system calls, heap, page allocators | `Scheduler` |
| Events (`scheduling/events.cpp`) | listeners of each process, the global event queue | `emit_event`, delivery by the scheduler, `end_event` | scheduler, keyboard | `Scheduler` |
| System calls (`scheduling/syscalls.cpp`) | flags of the shell | one branch per call, ending in a return to the program or a context switch | everything | `Scheduler`, `SystemCalls`, `ProcessMemory`, `DataSink` |
| Interrupt stubs (`asm/`, `interrupts/`) | saved registers of each thread, page directory, lines in service | timer, devices, call 128, page fault, exceptions | scheduler, chips | `Traps` |
| Boot (`kernel.cpp`, `tables/`, `chips/`) | interrupt masks and vectors, what is set up | the start, one step after the other, under interrupts | all | `Boot` |
| Keyboard and mouse (`drivers/`) | prefix and key tables; buttons and packet bytes | interrupts that emit events | events | `InputDevices`, `Scheduler` |
| ELF loader (`loader/elf.cpp`) | none | creates a process, maps its segments, kills it if they do not fit | scheduler, memory | `ProcessMemory`, `Scheduler` |
| Page fault handler (`paging/paging.cpp`) | page tables | allocates on access or kills the process | memory, scheduler | `ProcessMemory`, `Traps` |
| Physical pages (`heap/physical.cpp`) | a flag for each frame | allocate, free, runs of frames | heap, page tables | `KernelHeap`, `ProcessMemory` |
| Virtual memory (`paging/virtual.cpp`) | page tables with kernel flags | map, find free pages, reset, read and write another process | calls, loader | `ProcessMemory`, `MemoryCopy` |
| Kernel heap (`heap/kernelalloc.cpp`) | chain of blocks with headers | allocate, free, `kallocated` | all | `KernelHeap` |
| Data sinks (`datasink.cpp`, `structures/datasink.h`) | queue of fragments, permissions | append, consume a stream or a block | calls 23-26 | `DataSink` |
| Containers (`shared/linked_array.h`, `map.h`, `flex_array.h`) | entries, links, index cache; probe counts; gaps | push, shift, iterate and remove, set, remove, resize | all of the kernel | `LinkedArray`, `HashMap`, `FlexArray` |
| Strings, conversions (`shared/string.cpp`, `str.cpp`, `conversions.cpp`) | text with its hash; a static buffer for each decimal conversion | concat, compare, split; numbers to text and back | all | `Strings`, `Conversions` |
| Userland locks (`software/include/mutex`, `semaphore`) | flag, counter, wait queue | lock, unlock, wait, signal | park, unpark | `ThreadSync` |
| Promises (`software/include/async.h`) | value, complete, waiting, capture | exec, await, value, destroy | threads, park, unpark | `Promise` |
| Userland heap (`software/include/alloc.cpp`) | chain of blocks in one page | malloc, free, realloc | call 19, page faults | `UserHeap` |
| System call wrappers (`software/include/sys.cpp`) | registers and stack | one per call | the call stub | `SystemCalls` |
| Power management (`acpi/acpi.cpp`) | sleep type, control registers | find the firmware's tables, prepare and enter a sleep state | the vendored interpreter | `Acpi` |
| Display (`io/video.cpp`, `shared/graphics`) | text cursor, pixels | print a character, draw shapes and text | panic, programs | `Display` |

The hard behaviours: programs are preempted between any two instructions and may
make any call at any time, with the ids of threads that are already dead; interrupts
arrive while the core sleeps; an event may arrive for a thread that is parked,
suspended, event-only, busy, in a handler or freed; the millisecond clock wraps; and
what makes one component correct (a queue, the heap's `kallocated`) is relied on by
assertions of another. `PROJECT.json` lists each hazard at its line, with the
properties that look for it.

What makes each part correct:

* scheduler: no existing thread is lost or queued twice, and no dead one is queued;
  process lists and kernel areas agree with the threads; a thread runs only when it
  may; a thread that may run eventually does;
* events: each is delivered once, in order, one handler at a time, to a thread that
  exists, and is not left waiting;
* containers: they refine a sequence and a partial function, whatever was freed,
  cached or resized before;
* heap and pages: what is handed out never overlaps, and what is freed can be used
  again;
* data sinks: bytes arrive once and in order;
* userland locks: mutual exclusion, and no waiter sleeps for ever on a free lock.

## Modules

`QueueOps` - the kernel's linked arrays as their users see them: sequences, with
`Keep` (the loop that walks an iterator and unlinks some entries), `Without` and
`TakenAt` (the run loop's shift-and-push).

`Scheduler` - the scheduler, events and the thread calls, one action per handler:

| Action | Code |
|---|---|
| `CreateProcess`, `LoadFails` | `create_process` called by the ELF loader at boot; the loader's kill when a segment does not fit |
| `TimerTick` | `INTERRUPT_33`, `handle_timer_tick`, `handle_context_switch` |
| `KeyboardInterrupt` | `keyboard::handle_interrupt`, `emit_event` |
| `EndProcess` | system call 2 and the deadly page faults: `kill_process`, then the switch |
| `SuspendThread`, `EndEvent`, `RegisterEvent`, `EmitEvent`, `GetInput` | system calls 3, 6, 7, 8, 13 |
| `SetOwnPolicy`, `SetPolicy` | system call 9 |
| `CreateThread`, `KillSelf`, `KillThread` | system calls 15 and 16 |
| `ParkSelf`, `ParkThread`, `UnparkThread`, `Preempt` | system calls 17, 18, 20 |
| `NamesNobody` | calls 7 and 18 with id 0 |
| `Halted` | `kernel::panic` (`cli; hlt`), or a corrupted kernel |

A handler runs with interrupts off (every gate of `irq.cpp`, `exceptions.cpp` and
`software.cpp` is an interrupt gate) and there is one core, so a handler with the
context switch it ends in is one step; `ContextSwitch` is that common tail, written
as an operator on the values the handler leaves. `heap` keeps the contents of freed
`Thread` blocks, because `thread_list` and listeners still point at them;
`allocated` is what `kallocated` would say. The fields `new` leaves unassigned are
drawn from `UninitState`. A write through a dangling pointer sets `cpu` to
`"undefined"`: nothing is claimed of what follows. So does a call that names thread or
process 0, which nothing was given but `exists` may claim (see `HashMap`): 7 and 18 then
write through a null pointer, while 9, 16 and 17 take 0 for the caller. A set of event bits stands for an
event id or mask, and `registers` tells only whose code is to run: the program's (0)
or the handler that thread n registered (n). Calls that fail their first tests change
nothing and are stutters.

The main program of the kernel loads one module; the model lets any set
`UserProcess` be loaded, which is what `create_process` and the process list are for.
`SchedulerThreads` and `SchedulerEvents` load up to two, the other runs one.

`ListSpec` - what a linked array promises: a sequence, with operations at both ends
and at an index, and an iterator that may remove the element it has just returned.

`LinkedArray` - `structures::linked_array` with its storage: entries named by their
slot, the two ends, the links in both directions, the occupied flags, the two
remembered free entries. One action per member function (`Push`, `Unshift`, `Pop`,
`Shift`, `Peek`, `PeekFront`, `GetAt`, `RemoveAt`) and one per iterator function
(`CreateIterator`, `IteratorNext`, `IteratorRemove`; `IteratorEnd` is `hasNext()`
saying no); the private functions are the operators `Resized`, `Cached`,
`ProbeIndex`/`Probed`, `Linked` and `Unlinked`. `ImplementsList` is the refinement:
`Elements` follows the links, `Position` is the iterator's place on them. What the
memory of new storage holds is chosen from `StaleFlags`. Callers are restricted to
what every caller in the repository does: a loop runs to its end and changes its list
only through its iterator, and an empty list is not shifted, popped or peeked. The
capacity grows by 2 in `push` and by 1.9 in `unshift`; the code computes both in
floating point, the model in integers, which agree for the capacities in use.

`DictSpec`, `HashMap` - a partial function with a walk over its values, and
`structures::map`: open addressing in which a name that has come further displaces one
that has come less far. `Set`, `Remove`, `Fetch`, `Exists` and the iterator are its
operations; keys are the ids and hashes that are set, and programs may ask for key 0 as
well, which the map claims while its entry 0 is empty (`map.h:246`): `DictSpec` then
answers "found", and a fetch returns no value. `ProbesAreDistances` says that each count is the distance of an entry from
its home and that no lookup stops short of its entry, and `ImplementsDict` is the
refinement. In the runs no probe sequence runs past the end of the table, except in
`HashMapWrap`, which shows what happens then.

`FlexArray` - `structures::flexible_array`: push, pop, shift, set and remove at an
index, `defragment`, `reset`. The entries gained by growth hold anything; a call that
takes one that nobody wrote for an element leaves the array "misled", its counters wrong,
until it is reset. `GapsCloseInOrder`: in an array that is not misled the counter is the
number of elements and without gaps they lie in a row, defragmentation keeps them in
their order, and only an array that has grown is misled.

`Conversions`, `Strings` - numbers to text and back, at a word 256 numbers wide: the
decimal conversions write from the end of a static buffer of their own, the hex ones into
one of the caller, and `u_int_to_char` takes numbers of two words, whose digits may not
fit (`"spilled"`; the callers in the repository pass 32 bits); strings with the hash that alone
decides whether two are equal.

`KernelHeap` - `kmalloc` and `kfree` over the flags of the page allocator, with the
page tables, stacks and programs that take pages from it too: `Kmalloc` reuses a
block, splits the page behind the last one, fills a page or takes pages of its own.

`ProcessMemory` - which frame is used by whom: `create_process`, `create_thread`, the
two kills, the loader's segments, calls 19 and 21, page faults, the heap's pages.
`FramesHaveOneUser` says that no frame serves two purposes or is free while it is used;
`OnlyStacksLeak` bounds what is lost for ever; both speak of the time before `sound`
becomes false: before a death freed a frame of others through the low table, whose flags
nobody assigns, before the frames ran out, which the allocator does not notice, or a page
behind the last table was asked for. `MappingsAreKept`
says that a page, once mapped, is not given out or mapped elsewhere before its thread or
process dies.

`MemoryCopy` - `read_virtual_memory` and `write_virtual_memory` byte by byte, over page
tables of which some pages are missing, read-only or the kernel's. `CopiesAreExact` says
where every byte of a copy goes, the displaced end of some included (disagreement 6), and
`WritesUseCheckedPages` what memory a write may change; `LastBytesAreCopied` is what the
comments claim.

`DataSink` - the sinks and calls 23 to 26; `able` says whether the copy to or from the
program succeeds. A call with handle 0 may find a null sink, after which nothing is claimed. Bytes are numbered as they are written, so `StreamReadsAreNext` says
that what a stream read takes is the next of them and nothing is skipped.

`Traps` - how the processor enters and leaves the kernel: saving to and restoring from
the thread's slot through whatever page directory is loaded, and the ends of interrupt
sent to both controllers. Any living thread may be the next one; which one is
`Scheduler`'s matter. `Boot` - the start as a program of steps, with interrupts that
may come from the moment they are enabled. `InputDevices` - scan codes with their
prefix and mouse packets, and the events that come of them; `Hears` is a listener that goes
by the driver's list of events (`keyboard.cpp:14-15`); keyboard and mouse do not share state.
`Acpi` - the kernel's own way into a sleep state, method by method and register by
register, over whatever the firmware provides and its registers held before; the
interpreter of the firmware's methods is external.

`ThreadSync` - `ThreadMutex` and `ThreadSemaphore` at the grain of the accesses to
shared fields; a queue operation or a system call is one step, as a program may be
preempted between instructions only. `Promise` - a parent and the threads of its
promises at the same grain, with the destructor racing the child.

`SystemCalls` - each wrapper of `sys.cpp` as its instructions, the registers it leaves
for the kernel, what `handle_system_call` makes of them, and the stack pointer it
returns with. `UserHeap` - `malloc`, `free` and `realloc` of a program with a few
pointers; the blocks that `malloc` makes behind its two linked ones are all at the same
address, so that `HeldBlocksLieApart` says that no others share a byte. `Display` -
where characters, lines, rectangles and scaled text go, as sets of pixels.

`MCScheduler`, `MCLinkedArray` - the constants of those runs. `MCLibrary` and
`MCMachine` - what programs and kernel are linked with, and the kernel around the
scheduler: their parts share no variable, so the variable `unit` picks one part for
each behaviour and the others stay as they began. This is the union of the parts' state
spaces and not their product; it says nothing of interactions among them. Those that matter are inside
the modules: threads with memory accesses in `ThreadSync` and `Promise`, frames with
heap, loader, faults and deaths in `ProcessMemory`, stubs with controllers and
directories in `Traps`.

The theorems: `QueueOpsProofs` and `SchedulerProofs` on the scheduler,
`LinkedArrayProofs`, `StructureProofs` on `FlexArray` and `HashMap`, `UserlandProofs` on
`ThreadSync`, `Promise`, `SystemCalls`, `UserHeap`, `Strings` and `Conversions`,
`KernelMemoryProofs` on `KernelHeap`, `MemoryCopy` and `DataSink`, `ProcessMemoryProofs` on `ProcessMemory`, and
`MachineProofs` on `Traps`, `Boot`, `InputDevices`, `Acpi` and `Display`.

## Runs

| cfg | Question | Result |
|---|---|---|
| `SchedulerThreads` | Do the queue, the process lists and the kernel areas agree with the threads that exist, whatever is called? | holds |
| `SchedulerEvents` | Are events delivered once, in order and one at a time, to threads that exist; does a thread run only when it may? | holds for disciplined programs |
| `SchedulerLiveness` | Does a thread that can run get the core, and does an event get delivered, with a wrapping clock? | holds |
| `SchedulerStale` | the assertion that a queued event's thread exists | violated after a thread or a process dies |
| `Library` | Do lists and maps implement what their users believe in, do promises, mutexes and wrappers keep their word under every preemption, do texts, blocks and pixels stay where they belong? | holds |
| `Machine` | Do heap blocks and frames have one user each, do sinks lose or mix no byte, where do the bytes of a copy go and may they, do threads get their registers back, do input, start and sleep keep their order? | holds |
| `LinkedArrayFull` | "A linked array was full." is said of full lists only | violated: flags of fresh memory are never cleared |
| `HashMapWrap` | A removal keeps the other entries | violated at the end of the table |
| `ThreadSyncOwners` | A mutex has one owner | violated: the flag is tested and set in two steps |
| `KernelHeapPages` | A block lies on pages the heap has taken | violated behind a block that ends with its page |
| `MemoryCopyEnds` | "Write the last remaining bytes if needed." | violated by copies that begin inside a page and end in another |
| `ProcessMemoryStale` | A page that is not the process's own "is owned by the kernel and should not be released" | violated through the flags of the low tables, which nobody assigns |

`Library` visits 324,548 states and `Machine` 580,562, about three minutes each; `SchedulerEvents`
1,290,224 and `SchedulerThreads` 953,421.

Bounds. `ThreadAddr` bounds the threads alive at once and `MaxThreadId` the threads
ever created; three blocks and four ids let a block be freed and reused while a stale
id still names it. `NBlocks` is the number of kernel areas of a process (26 in the
4096-byte page of the code): 3 areas show the search that takes too many, the last of
them freed and reused. `MaxEvents` and `MaxListeners` cap the event queue and the
listener lists, which the code grows without limit; two events are enough for one to
pass, interrupt or follow another for the same thread. A key's event and a process's end are
two different ones that a thread may listen to. `TimeSlice = 1` and
`TimeWrap = 3` make the clock wrap after three ticks, so that a resume time can lie
before and after the wrap; where time does not matter the clock stands still
(`TimeWrap = 1`). `Recycled` memory was zero or belonged to a thread that died
parked. Blocks and programs are symmetric in the safety runs; no symmetry is used with
liveness.

A linked array of `Library.cfg` is made with two entries and may grow to
`MaxCapacity = 4`: it then holds up to three elements at once, so that entries are
freed and reused in every order, both remembered places fill up and overflow into a
scan, and both resizes (2 to 3, 2 to 4) move lists whose storage order is not their
list order. Two values tell elements apart. `LinkedArrayFull.cfg` starts with five
entries, the smallest list the repository makes.

The rest of `Library.cfg`: a map of five entries that grows once to nine, with six keys
of which two pairs share a home at five entries and another pair at nine, so that entries
displace each other, move back and are placed anew; an array of two that grows to six, by
entries that hold anything; words of 256 numbers, a text buffer as much smaller, and
numbers of two words that just fit it and just do not, so that the least number, the longest text and the rounding
carry all occur; strings of up to four characters; two threads on a mutex and a
semaphore whose counter is 0 or 1, which is what the interleavings of test, queue,
park and unlock need (the theorem is for any number); two promises of one parent; a
userland page of 40 bytes with headers of 3, where the two blocks, the rest of the page
and a request beyond it are all asked for, by three pointers; a screen of seven columns with glyphs of
width 0 to 4, so that every combination of fit and break occurs.

`Machine.cfg`: heap pages of 16 bytes with headers of 2 and four pages, where requests
fit, just do not fit, are reused with and without slack, and take two pages; two
processes with three tables of four pages, twelve frames, two threads each and two
deaths, so that tables are made on demand, frames run out, and a frame freed by one is
used by the other, and one page of low memory, frame 0, may look owned; pages are asked for in the
low memory, where all are taken, and near the end of the last table, so that a request
may go beyond it (states after `sound`
became false are counted as one, `VIEW`); two sinks of two processes with three bytes and a limit of one
fragment; pages of three bytes for copies of less than a page, one page, and up to two
pages and a byte, which begin and end at every offset and span up to four pages; three threads in two spaces, two of which use the
same slot number; lines 1, 8 and 12 besides the timer; four keys (a letter, return, the
return of the number pad, an arrow) and three scan codes in flight; movements -128, -1,
0 and 127; three sets of lines the firmware may have masked; three sleep types that
share bits and differ, two contents of the control registers, one of which holds a type
already, and two sleeps, so that the second finds what the first has left.

What the runs assume of callers, each with a constant that names it:

* `MayFillPage = FALSE` in `Machine`: no block ends exactly with its page.
  `KernelHeapPages` sets it and shows what happens.
* `Grants`: one process may write to a sink, as in the programs of the repository.

`Disciplined`. The code does not check that a thread id names a living thread: ids
stay in `thread_list` for ever, and 0 may look like one. With `Disciplined = TRUE` programs name living
threads only and an event is not emitted to a dead listener; the event properties
need it, and `SchedulerStale` shows what happens without. The properties of
`SchedulerThreads` do not need it.

Fairness. In `Scheduler`, only `WF_vars(TimerTick)`: the PIT is programmed to tick at 200 Hz
(`pit.cpp`) and every return to a program or to the idle loop enables interrupts, so
a tick always comes, while programs may compute for ever and need make no call.
`RunnableThreadRuns` says that a waiting thread gets the core or stops being
runnable; the second disjunct is really needed, for the clock can wrap below the
resume time of a thread that had not yet been resumed, and another thread can park it.
`Library` assumes weak fairness of the parent and of each child in `Promise`: a
runnable thread gets the core again (`RunnableThreadRuns`), and functions return. No
program is made to call, and a parked thread does nothing until it is woken.
`AwaitEnds` then says that a parent which is parked before its child looks leaves its
await. It is restricted to what holds: a park that comes after the child's look is
never ended, and a parent with two children may be woken by the other one and come
to park again too late.

What the code does with time, and no document forbids: `suspend_thread(d)` computes
`elapsed_ms + d` modulo 2^32. If the sum is 0 the suspension counts as permanent
(`resume_time != 0` at `scheduler.cpp:257`); if it wraps to a small number the thread
resumes at once.

## Proofs

`SchedulerProofs` proves, for every value of the constants that satisfies
`ConstantsAssumption`:

* `TypeCorrect`: `Spec => []TypeOK`;
* `ThreadsAreScheduledOnce`: `Spec => []EveryThreadScheduledOnce`;
* `ThreadListsAreExact`: `Spec => []ThreadsBelongToProcess`;
* `AreasStayExclusive`: `Spec => []AreasAreExclusive`.

The four are proved together: the inductive invariant `IInv` is the conjunction of
`TypeOK`, `EveryThreadScheduledOnce` and the ownership facts (process lists and kernel
areas). None is inductive alone. `kill_process` frees the threads in the process's
list and takes those out of the queue, so the queue stays exact only because the list
is; a list stays exact only because a thread's block is not given out while it is in
`allocated`; a new thread's area is exclusive only because the bitmap covers the areas
of all threads of that process. Each action has a step lemma; the common tail
`ContextSwitch` has one of its own, which says that the running thread and the queue
after it are a rearrangement of the queue before it, and that it changes neither
the process nor the area of a thread. `QueueOpsProofs` proves the sequence facts
these need (`KeepFacts`, `WithoutFacts`, `AppendFacts`, `TakenAtFacts`): which entries
remain, that none is repeated, and that a distinct queue rotated at k loses exactly
its k-th entry.

Assumptions on constants: the two virtual processes are distinct and not user
processes, `NoThread` is not a block, there is at least one area, the clock has at
least one value (two if programs suspend), and bounds are natural numbers. The
theorems hold for disciplined and undisciplined programs alike and for any
`UninitState`.

Of events it proves, for disciplined programs (`Disciplined`):

* `RunningThreadMayRun`: `Spec => []RunningMayRun`;
* `QueuedThreadsExist`: `Spec => []EventThreadExists`;
* `HandlersStayApart`: `Spec => []HandlersDoNotNest`, if no block of memory given to a new
  thread claims that a handler runs in it (`FreshThreadsIdle`).

The invariant `EInv` adds to `IInv` that each queued event is for an existing thread
under the id it registered (`Addressed`) and that the two register sets of each thread
fit its flag (`ContextsFit`). `RunningMayRun` needs the discipline too: the id of a dead
thread may lead to the block that the running thread was given, and a call that parks
the dead one then parks the running one without a switch. `SwitchKeepsEInv` follows an
event through the context switch; every other action either leaves the contents of the
threads alone (`QuietStep`), changes one (`ChangedStep`) or yields (`YieldKeepsEInv`).

And for all programs, disciplined or not:

* `EventsStayInOrder`: `Spec => EventsInOrder`, an action property: a step adds to the end
  of the events that wait for a thread, or starts the handler of the first of them, or
  the thread's policy is `BUSY`, for which they are dropped.

It needs no invariant of its own but the types. The events for a thread are those at
some positions of the queue, so `KeepKept`, `KeepTail` and `KeepConcat` say what
choosing positions does to a queue from which others are taken or to which some are
added. The event loop of the context switch leaves the queue, drops the events of a
thread, or takes the first it may deliver: `LoopInOrder` is about these three, and
`SwitchInOrder` and one lemma for each group of actions carry it to `Next`.

`LinkedArrayProofs` proves, for any elements, any initial capacity of at least 2 (with
one, `resize` of an empty list would link the ends to no entry; the code never makes
one), any number of resizes and any memory contents:

* `TypeCorrect`: `Spec => []TypeOK`;
* `LinksHold`: `Spec => []WellLinked`;
* `Implements`: `Spec => ImplementsList`, that is, every step of the linked array is
  one of `ListSpec` or a stutter.

The list is described by its walk, the sequence of slots that the links lead through
(`WalkOf`). `OrderIs` shows, by a least counterexample, that a list has at most one
walk, so what `get_at` finds by following `next` is that walk; `LinkedWalk`,
`UnlinkedWalk` and `ResizedWalk` say what linking, unlinking and moving do to it.
The inductive invariant `IInv` adds to `WellLinked` that a list always has a free
entry besides those in use (`size + 1 <= capacity`, without which a resize could be
made of an empty list or into too small a storage) and that the iterator stands at a
place of the walk. That a
free entry exists does not mean `probe_index` finds it: see the disagreements below.

`StructureProofs`:

* `GapsClose`: `FlexSpec => GapsCloseInOrder`, for every capacity, set of values, number
  of operations and whatever the entries hold that a resize adds (`flex_array.h:63`). An
  entry gained that looks full is behind the elements as long as the array is not misled,
  and every call that moves, counts or overwrites one says that it is. `defragment` is two
  nested loops, written as functions of the rounds. `Closing` says of every round that the
  elements are the same in the same order, and that the cells before the place the loop
  has come to hold elements but for one gap that ends there; `Left`, which each round makes
  smaller, bounds the rounds by about the square of the length. `FillKeeps` says that an
  element moved to the start of the gap before it keeps its place among the elements. The
  invariant is `FlexInv`.
* `ProbesKept`: `MapSpec /\ [](header = "intact") => []ProbesAreDistances` and `MapIsDict`:
  `MapSpec /\ [](header = "intact") => ImplementsDict`, for any keys, hashes and
  capacities. The hypothesis leaves out the behaviours in which `remove` has written
  before the storage (`map.h:113`), which is disagreement 3 below; up to that write
  they are covered.

The invariant of the map is `MapInv`, that the table is sound: each key is in it once
(`OneEach`), each count is the distance from home, a count exceeds that of the place
before by one at most (`Rising`), and the count of some slot is 0. The last
two carry the rest. `WayHome` shows that all places from the home of an entry to the
entry itself have counts at which a lookup goes on, so that `LocateFound` and
`LocateMissing` can say what the lookup's loop returns. `Set` walks with an entry in hand and changes it
for another at some places: `Carrying` is what holds of table and hand in each round.
`Remove` leaves a hole that moves on: `Hole`. A rehash is a set for each entry: `Again`.
`RoomyIs` says that a table is never full, so that `Set` panics only for a key that is there.
The refinement then maps the table to the function it stands for (`Pairs`, `Valued`),
and the iterator to what it has yet to show (`SeenBy`, `Following`). As everywhere in
these modules a loop is a recursive function of its rounds, whose rounds exist by a
lemma of their own, and what holds of all rounds is shown by the least that fails.

`UserlandProofs`:

* `SyncTypesKept`: `SyncSpec => []SyncTypeOK` and `QueueBounded`: `SyncSpec =>
  []QueueIsBoundedByWaiters`, for any finite set of threads. The lock's queue is a
  linked array that stays as large as it ever got, so its length matters. `Waiting`
  gains a thread with every push and loses one only after a shift; the lemmas
  `Enters`, `Leaves` and `Stays` say what a step does to the number of waiters and
  `StepBound` compares it with what it does to the queue.
* `PromiseTypesKept`: `PromiseSpec => []PromiseTypeOK` and `PromisesKept`:
  `PromiseSpec => []PromisesAreKept`, for any set of promises. The invariant adds to
  the types that the places of parent and child fit the state of the promise
  (`PromisesFit`: a child that has started took the capture with it, a destroyed
  promise has no child that will still complete) and where values come from
  (`ResultsOnly`).
* `WholeCalls`: `CallSpec => []CallsArriveWhole`, for any arguments and answers.
  `CallInv` says at each instruction of a wrapper what it has put where: the registers
  it has loaded, what lies on its stack, and what of the program's it has to restore.
* `HeldApartKept`: `UserHeapSpec => []HeldBlocksLieApart`, for every page size, header,
  number of pointers and set of requests. `malloc` and `free` look at the two linked
  blocks only; `UserHeapInv` says that what a pointer holds is one of these, in use and of
  nobody else, or the area behind them, which is never linked and handed out to anybody
  (`alloc.cpp:86`), and that a header written there again leaves the others alone.
* `TextsKept`: `StrSpec => []TextsAreKept`, for any characters, hash function and
  bound. `StrInv` says that there is one text which storage, length and hash are those
  of (`Holds`); each `concat` appends to it. `Splits` is what the rounds of `split_by`
  keep: the parts so far, joined, are the text up to the last delimiter, and none of
  them has a delimiter in it.
* `NumbersAndTexts`: `ConvSpec => []TextsAndNumbersAgree`, for a word of any number of
  hex digits, any numbers of two words and any buffer that the decimal digits of a word fit into
  (`ConversionsAssumption`; `char text[12]` is such a buffer for 2^32: ten digits, a sign
  and a terminator). `Congruent` is equality modulo the word. `char_to_s_int` adds digits from
  the last, with places that wrap; `TotalIsValue` shows that its total and the value of
  the digits it has yet to read, at their place, stay congruent to the value of the
  whole text. `DigitsAre` says that the digits taken off a number are a text of that
  value, `SignedAreFew` that congruent numbers of the word are equal: so the least
  number comes back as well, although its negation does not exist. `HexComesBack` is the same for the
  nibbles, whose places divide one another (`DividedTwice`).

`MachineProofs`:

* `TrapTypesKept`, `RegistersKept`, `DirectoriesFit`, `MasterAcknowledged`:
  `TrapSpec => []P` for `TrapTypeOK`, `RegistersComeBack`, `DirectoryFitsThread` and
  `MasterIsAcknowledged`, for any threads, address spaces, register contents and device
  lines. `RegistersComeBack` speaks of the core when a program runs; what carries it
  through the other threads' turns is `SlotsHold`, that the slot of each living thread
  that does not run holds what the thread last had.
* `StartInOrder`: `BootSpec => []StartsInOrder`, for any lines the firmware has masked.
  The start is a sequence of steps, and `BootInv` says what each finished prefix of it
  has set up, and that no line is open before its gate is there.
* `InputReported`: `InputSpec => []InputIsReported`, for any keys, number of codes in
  flight and movements. Of an arrow that has gone up a listener learns nothing but a press
  of another code, and the property says so (`ArrowsAreNeverReleased`). `KeyInv` follows the codes in flight: the keys the driver holds
  for down, changed by the codes it has not read yet, are the keys that are down.
* `SleepPrepared`: `AcpiSpec => []SleepIsPrepared`, for any sleep types, registers'
  contents and firmware. `AcpiInv` gives what was evaluated and commanded at each
  place of the procedure.
* `DrawsKept`: `DisplaySpec => []DrawsInPlace`, for any screen, any widths of characters
  that fit on it, any coordinates and sizes and any whole scales. Two boxes of text are apart
  since each lies in a row above the pen or left of it in its row (`TextInv`), and a
  character is put behind the pen. What a shape covers is shown per shape: `BorderIs`
  that the four edges of a rectangle are its area without the inside, `LineExists` and
  `LineSlopes` that the error of a sloped line moves it at most a row per column,
  `Sampled` that the scaled index of a pixel stays within the glyph, `TextCovers` that a
  drawn text has the width computed for it. The height of a glyph is 14 here as in the
  font; with another, the rows of `printnl`, 15 high, would not fit the characters.

`KernelMemoryProofs`:

* `HeapTypesKept`, `HeapBlocksApart`, `ClientsServed`: `~MayFillPage /\ HeapSpec => []P`
  for `HeapTypeOK`, `BlocksAreDisjoint` and `ClientsHoldTheirBlocks`, for every page
  size, header, slack, least filler, number of pages and set of requests, if no block
  ends with its page (disagreement 5 below is the other case). `kmalloc` looks at the
  end of the last block only, so the invariant (`HInv`) says that no other block lies
  between there and the end of its page (`LastIsFree`), wherever the chain has led; that
  all bytes of blocks are on the heap's own pages (`OnFrames`); that pages others hold
  are in use (`TakenInUse`), so that a run of free pages has neither; and that only
  blocks of no bytes lack the magic number (`Marked`), so that none of them is reused.
  `AppendBehind` and `AppendOnNew` say what a block behind the last one and one on new
  pages do to it, `FilledChain` that a filler is a case of the first.
* `WritesChecked`: `CopySpec => []WritesUseCheckedPages`, for any page size, page
  tables, addresses and sizes. A write touches the pages of its first to last byte; the
  arithmetic that these are among the pages checked is what the proof is about. Only the
  displaced end of a write may reach beyond its page, and `Overrun` is how far.
* `CopiesExact`: `CopySpec => []CopiesAreExact`, for any page size, page tables, addresses
  and sizes: byte i of a copy is moved from or to `Landing(i)`, which is its home but for
  the end that is displaced, and nothing else changes, also over the seams of
  pages. A copy is a concatenation of pieces; `PieceFits` says that each holds
  the bytes that come next, and the concatenation, a recursive function of the
  library, is unfolded piece by piece (the least piece for which it fails). `CopyInv` adds
  that the pages stay in memory (`PagesInMemory`) and what is not yet written
  (`Unwritten`).
* `BuffersOwned`: `SinkSpec => []FragmentsOwnTheirBuffers` and `StreamsInOrder`:
  `SinkSpec => StreamReadsAreNext`, for any processes, sinks, sizes and limits. The
  invariant says that the fragments of each sink are consecutive intervals of what was
  sent and has not left (`Streams`). What a read consumes is a recursive function over
  the rounds of the code's loop; `Reads` says what holds after every round - the bytes
  read so far and the fragments left are the stream that was there - and is shown by
  the least round for which it fails (`LeastExists`), as the prover has no induction.

`ProcessMemoryProofs`:

* `FramesKept`, `OnlyStacksLost`, `MappingsKept`: `MemSpec => []FramesHaveOneUser`,
  `MemSpec => []OnlyStacksLeak` and `MemSpec => MappingsAreKept`, for any number of
  processes, frames, tables and threads, and any pages of low memory whose entries may look
  owned. The constants: a page table has at least four pages (1024 in the code; the guard
  page, the shared page and the first stack then share a table), there are at least two
  tables, and neither the screen's frame nor `NoFrame` is one of the allocator's.

  The invariant is `SoundInv`, that `MemInv` holds while `sound` does: every frame in use is the heap's, or serves one space for
  one purpose at one place, or is one that a dead thread has left, of which there are
  `reaped` at most. A process that dies may release a frame that a dead thread has left by
  an entry of its low table; with the constants of the run this takes more deaths than it
  has, but not here. The steps build and take apart a space in several calls, between which the
  frames taken have no user yet, so the lemmas are about `Holds(U, s, B)`: of the frames
  U in use, all but B serve the space s. `Reserved` and `Claimed` say what taking a frame
  and putting it to use do to it; `TableMade`, `PagesClaimed` and `StackMade` are the
  three ways of use, and what `create_process`, `create_thread`, the loader, the calls
  and the faults do is put together of these. The loops over tables and pages are
  recursive functions; that each round keeps `Holds` is shown by the least round for
  which it fails. `StacksFit` says that the first page of a stack is mapped to one of its
  two frames: without it, nothing would tell that `kill_thread` frees a frame of this
  stack, and just one. `Moved` is what all steps of a process come to, and `MovedInv`
  shows once that such a step keeps `MemInv` and every mapping.

Only model-checked, and why:

* the liveness properties `RunnableThreadRuns`, `EventIsDelivered` and `AwaitEnds`:
  fairness and `ENABLED` are beyond the prover;
* `TypesOK` of `MCLibrary` and `MCMachine`, which put the types of all parts together: the
  parts that matter to other proofs are theorems (`PromiseTypesKept`, `SyncTypesKept`,
  `HeapTypesKept`, `TrapTypesKept`) or are within the invariants;
* the type invariant of `ProcessMemory` as `TypesOK` of `MCMachine` has it: it counts the
  low pages among the frames, which is so in the instance. `MemInv` has the types that
  the proofs use.

## Disagreements between the code and what it says

1. `scheduler.cpp:531`: `kill_thread` leaves `thread_list` alone, so "If thread no
   longer exists, remove." (`events.cpp:27`) never applies, and the assertion at
   `scheduler.cpp:184` halts the kernel (`SchedulerStale`).
2. `linked_array.h:19` and `:244`: the occupied flags of new storage are never
   cleared, so a list whose memory had another owner can panic as full
   (`linked_array.h:324`) with most of its entries free. It happens only to a list
   that needs an entry while none is remembered (`LinkedArrayFull`).
3. `map.h:113`: when the walk of `remove` wraps to place 0, the entry it finds there is
   moved to `storage_ptr[-1]`, before the storage, and is lost (`HashMapWrap`).
4. `mutex.cpp:25` and `:32`: the flag is tested, and set, in steps of their own; two
   threads of a process can both leave `lock` as the owner (`ThreadSyncOwners`).
5. `kernelalloc.cpp:81`: a block that ends exactly with its page leaves a next header
   on a page the heap has not taken (`KernelHeapPages`).
6. `virtual.cpp:46` and `:97`: the last piece of a copy that crosses pages is looked for at
   the offset at which the first one began, although it begins its page. A copy that begins
   inside a page and ends in another reads or writes its end that many bytes too far, and
   possibly behind the page, in a frame that no check looked at (`MemoryCopyEnds`).
7. `scheduler.cpp:374`: `create_process` takes frames that nobody cleared for the tables of
   the low memory and leaves the `KernelFlags` of their entries unassigned. When the process
   dies, a present entry that looks owned makes `kill_process` (`scheduler.cpp:619`) free a
   frame of somebody else, against `paging.h:19` ("Otherwise it is owned by the kernel and
   should not be released."). In `ProcessMemoryStale` it is one of the kernel heap. In the
   code the low memory is that below 100 MB and the allocator's frames begin at 18 MB; the
   model's low page v is frame v, which are the entries that matter.

Other places where the code departs from its evident intent; the models follow the
code, and no run is about them alone:

* `scheduler.cpp:451`: "Find first free shared block." has no `break`, so that it marks
  every free kernel area of the process as used and takes the last one; the next
  `create_thread` of that process panics unless one of its threads has died.
* `sys.h:7`: "Events will awake the thread." A suspended thread stays suspended until its
  time, with the event at hand.
* `map.h:246`: `exists(0)` answers yes while entry 0 is empty, as the key of an empty entry
  is 0, and `fetch(0)` then returns an empty value. Calls 7, 18 and 23 to 26 pass an id of
  the program on without a look and use the null pointer (`syscalls.cpp:147`, `:385`, `:492`).
* `flex_array.h:63`: `resize` leaves the flags of the entries it adds as the memory held
  them, so that `is_empty_at` (`flex_array.h:7` says that the array "allows the user to
  determine if an index is empty or not") may say no of an index nobody wrote, and
  `defragment` and `remove_at` take it for an element.
* `alloc.cpp:86`: the userland `malloc` never links a new block behind the last, so that all
  blocks it makes there overlap. `alloc.cpp:203`: a `realloc` clears the beginning of what
  it has copied, not what lies behind it. Pages the program asks for without flags are never
  mapped.
* `conversions.cpp:31`: `u_int_to_char` takes 64 bits, and writes the digits of a number of
  more than eleven before its buffer of twelve bytes. Its callers pass 32 bits.
* `id_generator.cpp:9`: `next` goes on while its validator says no, and the validator of the
  data sinks says whether an id is in use (`datasink.cpp:12`): the search ends at such an id.
  Nothing calls `create_steady_datasink` at present.
* `virtual.cpp:145`: `preferred_virtual_pages_free` and call 21 do not look whether the pages
  asked for go beyond the last table.
* `mutex.cpp:24`: "Keep the thread parked until resource is free." An unlock that comes
  between the test (line 25) and the park (line 26) wakes a thread that is not yet
  parked; it then parks with the resource free. `async.h:182` and `:183` are the same.
* The constructor of `ThreadSemaphore` assigns a temporary whose destructor frees the
  queue the semaphore keeps (`semaphore.cpp`).
* `create_thread` maps both stack frames at one page (`scheduler.cpp:487`), and
  `kill_thread` gives back one frame less than it took (`virtual.cpp:161`).
* Call 24 consumes from a sink before it writes to the caller's buffer, and call 26
  reads the bytes of a partly streamed fragment again. Fragments queued for a process
  that dies are never freed.
* The release of an arrow key is emitted as event 4 with a code of its own
  (`keyboard.cpp:231-234`), though 4 is a press and 8 a release (`keyboard.cpp:14-15`):
  listeners never hear that an arrow went up. A key pressed
  while the shell is still loading is emitted to a null process (`keyboard.cpp`).
* The second interrupt chip never gets an end of interrupt (`irq.asm:25`), so its
  lines, the mouse's among them, fire once.
* The check of a write's target covers one page more than is written
  (`virtual.cpp`).
* `fonts.cpp` lets character 128 through to a table of 128 glyphs; `draw_line` mixes up
  the ends of an upward vertical line; the sloped line stops one row short;
  `draw_rectangle` with size 0 underflows; the kernel's `printf` never scrolls;
  `s_float_to_char` drops the zeros that lead the fraction.

## Not modelled

* The interpreter of the firmware's methods (`acpi/lai`), which is vendored. The call
  that starts power management is commented out (`kernel.cpp:155`), and so is the load
  of the mouse driver (`kernel.cpp:185`): nothing of `Acpi` and of the mouse's part of
  `InputDevices` runs at present.
* `krealloc` (no caller), the CPU-time accounting of threads, the handshake that turns
  the mouse on, the bitmaps and colours of fonts, frame buffers copied as a whole
  (`draw_rectangle_from`), the checks of an ELF header, the parsing of the multiboot
  record, the bit layout of descriptors, the pointer, random and port helpers. They are
  data layouts, pure input and output, or straight-line code a test reaches.
* The floating-point rounding of `resize_char_nn` is abstracted to the integer scale.
* System call 22 has an empty body.
* Names whose hash is 0, as keys of a map: `set` and `remove` of key 0. Ids count from 1.
* The log line after a deadly page fault reads `current_thread` when it may be null; what
  it prints is no state of the model.

## Plan

Done, in this order: the scheduler with its events and system calls, the linked array
and the refinement of its sequence, the containers, the memory, the sinks, the
traps, the userland library, the display, power management; the proofs of the
scheduler's structure and events, of the linked array, gap array and hash map, of the
userland library, of strings and conversions, of kernel heap, copies, sinks and the
memory of processes, and of traps, start, input, sleep and display.

Left:

1. `ThreadSync` composed with `Scheduler`, so that park and unpark are the scheduler's own
   actions and a suspended or event-only waiter is met as well.
2. Larger instances of `Library` and `Machine`, one component at a time.
