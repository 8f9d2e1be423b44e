--------------------------- MODULE ProcessMemory ----------------------------
(***************************************************************************)
(* The memory of processes: page frames (heap/physical.cpp), page tables   *)
(* and the search for free pages (paging/virtual.cpp), the frames a        *)
(* process and its threads take and give back (scheduling/scheduler.cpp),  *)
(* system calls 19 and 21, page faults (paging/paging.cpp) and the loader  *)
(* (loader/elf.cpp).                                                       *)
(*                                                                         *)
(* A page is its index.  The first table of a process maps low memory to   *)
(* itself, as 25 tables do for 100 MB; the pages behind it are its own.    *)
(* The screen's frames are outside Frame.                                  *)
(***************************************************************************)
EXTENDS Integers, FiniteSets

CONSTANTS
    Proc,           \* processes
    NumFrames,      \* page frames of the allocator
    TablePages,     \* pages of one page table, 1024
    NumTables,      \* page tables of a process
    MaxThreads,     \* bound on the threads of a process
    MaxDeaths,      \* bound on the threads that die
    NamedPages,     \* the pages that segments and calls ask for
    NoFrame,        \* the address of a page that has none
    GpuFrame,       \* a frame of the screen
    StalePages      \* pages of low memory whose entries may look owned

ASSUME ProcessMemoryAssumption ==
    /\ NumFrames \in Nat \ {0} /\ TablePages \in Nat /\ TablePages >= 4
    /\ NumTables \in Nat /\ NumTables >= 2
    /\ MaxThreads \in Nat
    /\ MaxDeaths \in Nat /\ NamedPages \subseteq Nat
    /\ StalePages \subseteq 0 .. TablePages - 1
    /\ NoFrame \notin 0 .. NumFrames - 1 /\ GpuFrame \notin 0 .. NumFrames - 1

Frame == 0 .. NumFrames - 1
Page == 0 .. TablePages * NumTables - 1
LowPage == 0 .. TablePages - 1
UserStart == TablePages             \* 100 MB, the guard page
SharedPage == TablePages + 1

VARIABLES
    used,       \* the frames in use (data_meta)
    space,      \* the address space of each process
    heap,       \* frames the kernel heap holds
    reaped,     \* how many threads have died
    sound       \* FALSE once memory in use was freed, the frames have run out,
                \* or a page behind the last was asked for.  What follows is not
                \* modelled: frames have two users then, or the code reads what
                \* lies behind its tables.

memVars == <<used, space, heap, reaped, sound>>

\* A page table entry; all zero if there is none.  release stands for the two
\* flags PROCESS_OWNED and RELEASE_PHYSICAL_ON_EXIT.
Entry(present, frame, release, dynamic) ==
    [present |-> present, frame |-> frame, release |-> release, dynamic |-> dynamic]
NoEntry == Entry(FALSE, NoFrame, FALSE, FALSE)

NoSpace ==
    [alive |-> FALSE, shared |-> NoFrame, directory |-> NoFrame,
     tables |-> [d \in 0 .. NumTables - 1 |-> NoFrame],
     entry |-> [v \in Page |-> NoEntry],
     stacks |-> {}, pixels |-> FALSE, loading |-> FALSE]

MemInit ==
    /\ used = {}
    /\ space = [p \in Proc |-> NoSpace]
    /\ heap = {}
    /\ reaped = 0
    /\ sound = TRUE
-----------------------------------------------------------------------------
(***************************************************************************)
(* Frames and pages, on a record M of the used frames and one space.       *)
(***************************************************************************)

\* Faulty variant: only the first frame of the run is looked at.
FitsAtFirst(U, count) == {f \in 0 .. 2 * NumFrames : f \notin U}

\* alloc_physical_page: the first run of count free frames.  The allocator never
\* says that there is none, and goes on behind the last frame.
Fits(U, count) == {f \in 0 .. 2 * NumFrames : (f .. f + count - 1) \cap U = {}}
First(U, count) ==
    LET fits == Fits(U, count) IN CHOOSE f \in fits : \A g \in fits : f <= g
Taken(U, count) == U \cup (First(U, count) .. First(U, count) + count - 1)

TableOf(v) == v \div TablePages

\* fetch_page_index: the tables of the pages V exist afterwards.
WithTable(M, d) ==
    IF M.s.tables[d] # NoFrame THEN M
    ELSE [used |-> Taken(M.used, 1),
          s |-> [M.s EXCEPT !.tables[d] = First(M.used, 1)]]

WithTables(M, from, to) ==
    LET made[d \in from - 1 .. to] == IF d < from THEN M ELSE WithTable(made[d - 1], d)
    IN  made[to]

\* Faulty variant: only the first page of the run is looked at.
FreeRunsAtOnce(s, count) ==
    {v \in UserStart .. TablePages * NumTables - count : s.entry[v] = NoEntry}

\* find_free_virtual_pages: the first run of empty entries from 100 MB on.
\* The search makes the tables of the pages it looks at.
FreeRuns(s, count) ==
    {v \in UserStart .. TablePages * NumTables - count :
        \A i \in 0 .. count - 1 : s.entry[v + i] = NoEntry}
FindFreeVirtualPages(s, count) ==
    LET runs == FreeRuns(s, count) IN CHOOSE v \in runs : \A u \in runs : v <= u
Searched(M, count) ==
    WithTables(M, 1, TableOf(FindFreeVirtualPages(M.s, count) + count - 1))

\* preferred_virtual_pages_free, which does not look whether v is the last page.
PreferredFree(s, v, count) ==
    \A i \in 0 .. count - 1 : v + i \in Page => s.entry[v + i] = NoEntry

\* The pages v, v + 1, ... of a space are mapped to the frames f, f + 1, ...
Mapped(s, v, f, count, release) ==
    [s EXCEPT !.entry = [u \in Page |->
        IF u \in v .. v + count - 1 THEN Entry(TRUE, f + u - v, release, FALSE) ELSE @[u]]]

\* free_physical_page of an entry that is zero names a frame that does not
\* exist.
Freed(U, frames) == U \ frames
-----------------------------------------------------------------------------
(***************************************************************************)
(* Processes and threads.                                                  *)
(***************************************************************************)

\* The low memory, mapped to itself.  create_process neither clears this table
\* nor sets the flags of its entries.  They are first read when the process
\* ends, and Ends chooses them then.
Identity == [v \in Page |-> IF v \in LowPage THEN Entry(TRUE, v, FALSE, FALSE) ELSE NoEntry]

\* A thread keeps the first page of its stack and its frames.
WithStack(s, v, frames) ==
    [s EXCEPT !.stacks = @ \cup {[at |-> v, frames |-> frames]}]

\* The part of create_process about memory: the page shared with the kernel,
\* the directory, the low table, the table of the shared page, and two frames
\* and pages for the stack, which are mapped without flags.
CreatedProcess(U) ==
    LET shared == First(U, 1)
        U1 == Taken(U, 1)
        U2 == Taken(U1, 1)
        U3 == Taken(U2, 1)
        s == [NoSpace EXCEPT !.alive = TRUE, !.loading = TRUE, !.shared = shared,
                             !.directory = First(U1, 1),
                             !.tables[0] = First(U2, 1),
                             !.entry = Identity]
        M == WithTable([used |-> U3, s |-> s], TableOf(SharedPage))
        N == [M EXCEPT !.s = Mapped(@, SharedPage, shared, 1, FALSE)]
        stack == First(N.used, 2)
        O == Searched([N EXCEPT !.used = Taken(@, 2)], 2)
        v == FindFreeVirtualPages(O.s, 2)
    IN  [O EXCEPT !.s = WithStack(Mapped(@, v, stack, 2, FALSE), v, {stack, stack + 1})]

\* create_thread maps both frames of the stack at its first page.
CreatedThread(M) ==
    LET stack == First(M.used, 2)
        N == Searched([M EXCEPT !.used = Taken(@, 2)], 2)
        v == FindFreeVirtualPages(N.s, 2)
    IN  [N EXCEPT !.s = WithStack(Mapped(@, v, stack + 1, 1, FALSE), v, {stack, stack + 1})]

\* kill_thread, for each of the threads T: reset_virtual_pages releases the first
\* page of the stack on both turns of its loop.
KilledThreads(M, T) ==
    [used |-> Freed(M.used, {M.s.entry[t.at].frame : t \in T}),
     s |-> [M.s EXCEPT !.stacks = @ \ T,
                       !.entry = [v \in Page |->
                            IF \E t \in T : t.at = v THEN NoEntry ELSE @[v]]]]

\* Faulty variant: the pages of a process are released, not its page tables.
ReleasedPages(s) ==
    {s.entry[v].frame : v \in {u \in Page : s.entry[u].present /\ s.entry[u].release}}
        \cup {s.directory, s.shared}

\* What kill_process frees once the threads are gone: the present pages that
\* the process owns or that are released with it, its page tables, its
\* directory and the shared page.
Released(s) ==
    {s.entry[v].frame : v \in {u \in Page : s.entry[u].present /\ s.entry[u].release}}
        \cup {s.tables[d] : d \in DOMAIN s.tables}
        \cup {s.directory, s.shared}

\* Frames in Frame that a process uses, each for one purpose.
StackFrames(p) == UNION {t.frames : t \in space[p].stacks}
TableFrames(p) == {space[p].tables[d] : d \in DOMAIN space[p].tables} \cap Frame
OwnPages(p) == {v \in Page : space[p].entry[v].present /\ space[p].entry[v].release}
OwnFrames(p) == {space[p].entry[v].frame : v \in OwnPages(p)}
FramesOf(p) ==
    IF ~space[p].alive THEN {}
    ELSE {space[p].shared, space[p].directory} \cup StackFrames(p)
            \cup TableFrames(p) \cup OwnFrames(p)

FramesBeside(p) == heap \cup UNION {FramesOf(q) : q \in Proc \ {p}}

View(p) == [used |-> used, s |-> space[p]]
Lost == sound' = FALSE /\ UNCHANGED <<used, space>>
Commits(p, M) ==
    IF M.used \subseteq Frame
    THEN used' = M.used /\ space' = [space EXCEPT ![p] = M.s] /\ UNCHANGED sound
    ELSE Lost

RoomIn(p, count) == FreeRuns(space[p], count) # {}

\* The pages stale of the low memory look owned, and are freed with the rest,
\* whoever uses them.  Bounded: MaxDeaths threads die.
Ends(p) ==
    LET M == KilledThreads(View(p), space[p].stacks)
    IN  \E stale \in SUBSET StalePages :
            /\ reaped + Cardinality(space[p].stacks) <= MaxDeaths
            /\ used' = Freed(M.used, Released(M.s) \cup stale)
            /\ space' = [space EXCEPT ![p] = NoSpace]
            /\ reaped' = reaped + Cardinality(space[p].stacks)
            /\ sound' = (stale \cap FramesBeside(p) = {})
            /\ UNCHANGED heap

CreateProcessMemory(p) ==
    /\ ~space[p].alive
    /\ Commits(p, CreatedProcess(used))
    /\ UNCHANGED <<heap, reaped>>

\* The loader takes frames for each segment before the process runs, and kills
\* the process when a page of one is taken.
LoadSegment(p, v, count) ==
    LET f == First(used, count)
        M == WithTables([used |-> Taken(used, count), s |-> space[p]],
                        TableOf(v), TableOf(v + count - 1))
    IN  /\ space[p].loading
        /\ IF PreferredFree(space[p], v, count)
           THEN /\ IF v + count - 1 \in Page
                   THEN Commits(p, [M EXCEPT !.s = Mapped(@, v, f, count, TRUE)])
                   ELSE Lost
                /\ UNCHANGED <<heap, reaped>>
           ELSE Ends(p)

StartProcess(p) ==
    /\ space[p].loading
    /\ space' = [space EXCEPT ![p].loading = FALSE]
    /\ UNCHANGED <<used, heap, reaped, sound>>

\* Only a process that was loaded runs.
Running(p) == space[p].alive /\ ~space[p].loading

CreateThreadMemory(p) ==
    /\ Running(p)
    /\ Cardinality(space[p].stacks) < MaxThreads
    /\ IF RoomIn(p, 2) THEN Commits(p, CreatedThread(View(p))) ELSE Lost
    /\ UNCHANGED <<heap, reaped>>

KillThreadMemory(p, t) ==
    /\ Running(p)
    /\ reaped < MaxDeaths
    /\ Commits(p, KilledThreads(View(p), {t}))
    /\ reaped' = reaped + 1
    /\ UNCHANGED heap

KillProcessMemory(p) == Running(p) /\ Ends(p)
-----------------------------------------------------------------------------
(***************************************************************************)
(* System calls and page faults.                                           *)
(***************************************************************************)

\* Call 21 for count pages at v: each gets a frame at once, or when it is
\* first used, or neither.
ProvidedPage(M, v, immediately, dynamic) ==
    LET T == WithTable(M, TableOf(v))
        f == IF immediately THEN First(T.used, 1) ELSE NoFrame
    IN  [used |-> IF immediately THEN Taken(T.used, 1) ELSE T.used,
         s |-> [T.s EXCEPT !.entry[v] = Entry(immediately, f, TRUE, dynamic)]]

Provided(M, v, count, immediately, dynamic) ==
    LET given[n \in 0 .. count] ==
            IF n = 0 THEN M ELSE ProvidedPage(given[n - 1], v + n - 1, immediately, dynamic)
    IN  given[count]

AllocatePages(p, count, immediately, dynamic) ==
    LET M == Searched(View(p), count)
    IN  /\ Running(p)
        /\ IF RoomIn(p, count)
           THEN Commits(p, Provided(M, FindFreeVirtualPages(M.s, count), count,
                                    immediately, dynamic))
           ELSE Lost
        /\ UNCHANGED <<heap, reaped>>

\* At an address the program names, which is refused unless all is free.
AllocatePagesAt(p, v, count, immediately, dynamic) ==
    /\ Running(p)
    /\ PreferredFree(space[p], v, count)
    /\ IF v + count - 1 \in Page
       THEN Commits(p, Provided(View(p), v, count, immediately, dynamic))
       ELSE Lost
    /\ UNCHANGED <<heap, reaped>>

\* Call 19 maps the screen, once.
MapPixels(p) ==
    LET M == Searched(View(p), 1)
        v == FindFreeVirtualPages(M.s, 1)
    IN  /\ Running(p)
        /\ ~space[p].pixels
        /\ IF RoomIn(p, 1)
           THEN Commits(p, [used |-> M.used,
                            s |-> [M.s EXCEPT !.pixels = TRUE,
                                              !.entry[v] = Entry(TRUE, GpuFrame, FALSE, FALSE)]])
           ELSE Lost
        /\ UNCHANGED <<heap, reaped>>

\* The handler of page faults gives a page that waits for one a frame, and
\* kills the process for any other fault.
PageFault(p, v) ==
    LET e == space[p].entry[v]
    IN  /\ Running(p)
        /\ IF space[p].tables[TableOf(v)] # NoFrame /\ ~e.present /\ e.dynamic
           THEN /\ Commits(p, [used |-> Taken(used, 1),
                               s |-> [space[p] EXCEPT !.entry[v].present = TRUE,
                                                      !.entry[v].frame = First(used, 1)]])
                /\ UNCHANGED <<heap, reaped>>
           ELSE Ends(p)

\* The kernel heap grows by a frame, and never shrinks.
HeapGrows ==
    /\ Cardinality(heap) < 1
    /\ IF First(used, 1) \in Frame
       THEN /\ used' = Taken(used, 1)
            /\ heap' = heap \cup {First(used, 1)}
            /\ UNCHANGED <<space, sound>>
       ELSE Lost /\ UNCHANGED heap
    /\ UNCHANGED reaped

MemStep ==
    \/ \E p \in Proc :
        \/ CreateProcessMemory(p) \/ CreateThreadMemory(p) \/ KillProcessMemory(p)
        \/ MapPixels(p) \/ StartProcess(p)
        \/ \E t \in space[p].stacks : KillThreadMemory(p, t)
        \/ \E v \in Page : PageFault(p, v)
        \/ \E v \in NamedPages : LoadSegment(p, v, 2)
        \/ \E immediately, dynamic \in BOOLEAN :
            \/ AllocatePages(p, 2, immediately, dynamic)
            \/ \E v \in NamedPages, count \in {1, 3} :
                    AllocatePagesAt(p, v, count, immediately, dynamic)
    \/ HeapGrows

MemNext == sound /\ MemStep

MemSpec == MemInit /\ [][MemNext]_memVars
-----------------------------------------------------------------------------
\* Every variable has a value of its type.
MemTypeOK ==
    /\ used \subseteq Frame /\ heap \subseteq Frame
    /\ reaped \in Nat /\ sound \in BOOLEAN
    /\ \A p \in Proc : \A v \in Page :
            space[p].entry[v].frame \in Frame \cup {NoFrame, GpuFrame}

\* No frame has two users: neither two processes, nor the heap and a process,
\* nor a process for two purposes or at two pages.  Nor is any of them free: no
\* frame of the kernel heap, a page table, a stack or a page is handed out again
\* before its user lets go of it, through any partial load, fault and death, as
\* long as the death of no process has freed a frame of another (see
\* KernelFramesStay).
FramesHaveOneUser ==
    sound =>
        /\ heap \cup UNION {FramesOf(p) : p \in Proc} \subseteq used
        /\ \A p, q \in Proc : p # q => FramesOf(p) \cap FramesOf(q) = {}
        /\ \A p \in Proc : space[p].alive =>
            /\ FramesOf(p) \cap heap = {}
            /\ Cardinality(FramesOf(p)) =
                   2 + 2 * Cardinality(space[p].stacks)
                     + Cardinality({d \in DOMAIN space[p].tables :
                                        space[p].tables[d] # NoFrame})
                     + Cardinality(OwnPages(p))

\* What is in use without a user is at most one frame of each dead thread's
\* stack, which kill_thread does not release.  Nothing else is ever lost, and a
\* process that ends may even release such a frame by its stale entries.
OnlyStacksLeak ==
    sound => Cardinality(used \ (heap \cup UNION {FramesOf(p) : p \in Proc})) <= reaped

\* No frame of the kernel heap is ever free: a page without PROCESS_OWNED "is
\* owned by the kernel and should not be released" (paging.h:19).  The entries
\* of the low tables hold whatever flags their frame held before.
KernelFramesStay == heap \subseteq used

\* A page keeps the frame it is mapped to until its thread or process dies:
\* no later allocation, fault or thread takes over a page that is in use.
MappingsAreKept ==
    [][\A p \in Proc : \A v \in Page :
        /\ space[p].entry[v].present
        /\ space'[p].alive
        /\ ~\E t \in space[p].stacks \ space'[p].stacks : t.at = v
        => space'[p].entry[v] = space[p].entry[v]]_memVars
=============================================================================
