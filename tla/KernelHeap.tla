----------------------------- MODULE KernelHeap -----------------------------
(***************************************************************************)
(* The kernel heap (heap/kernelalloc.cpp) on top of the physical page      *)
(* allocator (heap/physical.cpp), which it shares with page tables, stacks *)
(* and programs.                                                           *)
(*                                                                         *)
(* Blocks lie in a chain of headers; a freed block serves a request it is  *)
(* not much too large for, other requests go behind the last block, or to  *)
(* pages of their own when the page it ends in is too small.  Addresses    *)
(* count from the first physical page.  Clients free what they were given, *)
(* once, and ask for at least one byte.                                    *)
(*                                                                         *)
(* A block that ends with its page (MayFillPage) makes the heap take the   *)
(* whole page behind it for the rest of this one.                          *)
(***************************************************************************)
EXTENDS Integers, Sequences, FiniteSets

CONSTANTS
    PageSize,       \* 4096
    Header,         \* sizeof(BlockMeta)
    FirstSize,      \* the size of the first block, 200
    Slack,          \* by how much a reused block may be too large, 60
    MinFiller,      \* the least size of a block that fills a page, 20
    RequestSizes,   \* what clients ask for
    MayFillPage,    \* may a client's block end where its page ends?
    MaxPages        \* bound on the physical pages

ASSUME KernelHeapAssumption ==
    /\ PageSize \in Nat \ {0} /\ Header \in Nat \ {0}
    /\ FirstSize \in Nat /\ 2 * Header + FirstSize < PageSize
    /\ Slack \in Nat /\ MinFiller \in Nat
    /\ RequestSizes \subseteq Nat \ {0} /\ MayFillPage \in BOOLEAN
    /\ MaxPages \in Nat \ {0}

VARIABLES
    data_meta,      \* which physical pages are in use
    blocks,         \* the chain from head_block to tail_block
    granted,        \* what clients hold: size and holders, by address
    framesTaken     \* pages that others than the heap hold

heapVars == <<data_meta, blocks, granted, framesTaken>>

Frames == 0 .. MaxPages - 1

\* A header at address at; a block without the magic number cannot be freed.
Block(at, size, allocated, magic) ==
    [at |-> at, size |-> size, allocated |-> allocated, magic |-> magic]
DataOf(b) == b.at + Header
EndOf(b) == b.at + Header + b.size
Tail_block(c) == c[Len(c)]

\* The init functions.  The second header is never filled in, and the page
\* was cleared: it is a free block of no bytes and no magic number.
HeapInit ==
    /\ data_meta = [f \in Frames |-> f = 0]
    /\ blocks = <<Block(0, FirstSize, FALSE, TRUE),
                  Block(Header + FirstSize, 0, FALSE, FALSE)>>
    /\ granted = [a \in {} |-> 0]
    /\ framesTaken = {}
-----------------------------------------------------------------------------
(***************************************************************************)
(* Physical pages.                                                         *)
(***************************************************************************)

\* Where count free pages begin.
Runs(count) ==
    {f \in Frames : /\ f + count - 1 \in Frames
                    /\ \A i \in 0 .. count - 1 : ~data_meta[f + i]}

\* alloc_physical_page takes the first.  It never fails; the bound is that
\* enough pages are left.
CanAlloc(count) == Runs(count) # {}
FirstRun(count) == CHOOSE f \in Runs(count) : \A g \in Runs(count) : f <= g
WithPages(f, count) ==
    [g \in Frames |-> data_meta[g] \/ g \in f .. f + count - 1]

\* A page table, a stack or a program takes pages, and gives one back.
TakePages(count) ==
    /\ CanAlloc(count)
    /\ data_meta' = WithPages(FirstRun(count), count)
    /\ framesTaken' = framesTaken \cup (FirstRun(count) .. FirstRun(count) + count - 1)
    /\ UNCHANGED <<blocks, granted>>

FreePhysicalPage(f) ==
    /\ f \in framesTaken
    /\ data_meta' = [data_meta EXCEPT ![f] = FALSE]
    /\ framesTaken' = framesTaken \ {f}
    /\ UNCHANGED <<blocks, granted>>
-----------------------------------------------------------------------------
(***************************************************************************)
(* Blocks.                                                                 *)
(***************************************************************************)

\* Faulty variant: any free block that is large enough serves, in use or not.
SuitableInUse(size) ==
    {i \in DOMAIN blocks : size <= blocks[i].size /\ blocks[i].size - size <= Slack}

\* The free blocks that serve a request.
Suitable(size) ==
    {i \in DOMAIN blocks : /\ ~blocks[i].allocated
                           /\ size <= blocks[i].size
                           /\ blocks[i].size - size <= Slack}

Granting(a, size) ==
    [b \in DOMAIN granted \cup {a} |->
        IF b # a THEN granted[b]
        ELSE [size |-> size, holders |-> 1 + IF a \in DOMAIN granted THEN granted[a].holders
                                                                    ELSE 0]]

\* Faulty variant: the space left for a block is counted without its header.
RemainingOfPageShort(c) == PageSize + Header - (EndOf(Tail_block(c)) % PageSize)

\* The bytes from the end of the last block to the end of its page.
RemainingOfPage(c) == PageSize - (EndOf(Tail_block(c)) % PageSize)

PagesFor(size) ==
    (size + Header) \div PageSize + IF (size + Header) % PageSize = 0 THEN 0 ELSE 1

\* The chain with the rest of the last page in a block that stays in use.
Filled(c) ==
    IF RemainingOfPage(c) >= Header + MinFiller
    THEN Append(c, Block(EndOf(Tail_block(c)), RemainingOfPage(c) - Header, TRUE, TRUE))
    ELSE c

\* A freed block is used again.
MallocReused(size) ==
    /\ Suitable(size) # {}
    /\ LET i == CHOOSE i \in Suitable(size) : \A j \in Suitable(size) : i <= j
       IN  /\ blocks' = [blocks EXCEPT ![i].allocated = TRUE]
           /\ granted' = Granting(DataOf(blocks[i]), size)
    /\ UNCHANGED <<data_meta, framesTaken>>

FillsPage(b) == EndOf(b) % PageSize = 0

MallocBehindTail(size) ==
    LET b == Block(EndOf(Tail_block(blocks)), size, TRUE, TRUE)
    IN  /\ Suitable(size) = {}
        /\ FillsPage(b) => MayFillPage
        /\ Header + size <= RemainingOfPage(blocks)
        /\ blocks' = Append(blocks, b)
        /\ granted' = Granting(DataOf(b), size)
        /\ UNCHANGED <<data_meta, framesTaken>>

MallocOnNewPages(size) ==
    LET count == PagesFor(size)
        b == Block(PageSize * FirstRun(count), size, TRUE, TRUE)
    IN  /\ Suitable(size) = {}
        /\ Header + size > RemainingOfPage(blocks)
        /\ CanAlloc(count)
        /\ FillsPage(b) => MayFillPage
        /\ data_meta' = WithPages(FirstRun(count), count)
        /\ blocks' = Append(Filled(blocks), b)
        /\ granted' = Granting(DataOf(b), size)
        /\ UNCHANGED framesTaken

Kmalloc(size) ==
    MallocReused(size) \/ MallocBehindTail(size) \/ MallocOnNewPages(size)

\* The pages of the heap are never given back.
Kfree(a) ==
    /\ a \in DOMAIN granted
    /\ blocks' = [i \in DOMAIN blocks |->
                    IF DataOf(blocks[i]) = a THEN [blocks[i] EXCEPT !.allocated = FALSE]
                    ELSE blocks[i]]
    /\ granted' = [b \in DOMAIN granted \ {a} |-> granted[b]]
    /\ UNCHANGED <<data_meta, framesTaken>>

HeapNext ==
    \/ \E size \in RequestSizes : Kmalloc(size)
    \/ \E a \in DOMAIN granted : Kfree(a)
    \/ \E count \in 1 .. 2 : TakePages(count)
    \/ \E f \in framesTaken : FreePhysicalPage(f)

HeapSpec == HeapInit /\ [][HeapNext]_heapVars
-----------------------------------------------------------------------------
Blocks == [at : Nat, size : Nat, allocated : BOOLEAN, magic : BOOLEAN]

\* Every variable has a value of its type.
HeapTypeOK ==
    /\ data_meta \in [Frames -> BOOLEAN]
    /\ blocks \in Seq(Blocks)
    /\ \A a \in DOMAIN granted : a \in Nat /\ granted[a] \in [size : Nat, holders : Nat]
    /\ framesTaken \subseteq Frames

\* The pages an interval of addresses lies in.
PagesIn(from, to) == from \div PageSize .. (to - 1) \div PageSize

\* "If the remaining page area can fit the new block" (kernelalloc.cpp:84): all
\* blocks lie on pages that the heap took from the allocator, and nobody else
\* holds one of them.
BlocksFitTheirPages ==
    \A i \in DOMAIN blocks : \A f \in PagesIn(blocks[i].at, EndOf(blocks[i])) :
        f \in Frames /\ data_meta[f] /\ f \notin framesTaken

\* Headers and data of two blocks never overlap, nor do they overlap what others
\* hold: whatever is reused, appended, filled up or moved to pages of its own
\* while others take and free pages in between.
BlocksAreDisjoint ==
    /\ \A i, j \in DOMAIN blocks :
            i < j => \/ EndOf(blocks[i]) <= blocks[j].at
                     \/ EndOf(blocks[j]) <= blocks[i].at
    /\ BlocksFitTheirPages

\* What a client holds is a block of its own, which no other client was given:
\* in use, large enough, with a magic number, so that freeing it does not panic.
ClientsHoldTheirBlocks ==
    \A a \in DOMAIN granted :
        /\ granted[a].holders = 1
        /\ \E i \in DOMAIN blocks : /\ DataOf(blocks[i]) = a
                                    /\ blocks[i].allocated /\ blocks[i].magic
                                    /\ granted[a].size <= blocks[i].size
=============================================================================
