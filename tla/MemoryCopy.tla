----------------------------- MODULE MemoryCopy ------------------------------
(***************************************************************************)
(* How the kernel reads and writes the memory of a process, page by page   *)
(* through its tables: read_virtual_memory and write_virtual_memory        *)
(* (paging/virtual.cpp), under system calls 10, 12, 23, 24 and 26.         *)
(*                                                                         *)
(* Physical memory is a function of addresses.  A byte holds the address   *)
(* it had first, or the number of the byte written to it, negated.         *)
(***************************************************************************)
EXTENDS Integers, Sequences, FiniteSets, SequencesExt

CONSTANTS
    PageBytes,      \* bytes of a page, 4096
    CopyPages,      \* pages of the address space
    CopySizes,      \* sizes of copies
    NoTable         \* a page whose directory entry is not present

ASSUME MemoryCopyAssumption ==
    /\ PageBytes \in Nat \ {0} /\ CopyPages \in Nat \ {0}
    /\ CopySizes \subseteq Nat \ {0}

VARIABLES
    pages,          \* the page table entries of the process
    physical,       \* physical memory
    copied          \* the last copy: what was asked, and what came of it

copyVars == <<pages, physical, copied>>

\* The kinds of entries: none, a page of the program's file, which may be
\* read-only, one that call 21 gave or reserved, and one of the kernel, whose
\* flags may be stale (see ProcessMemory); or there is no table.  Page v has
\* frame 2v + 2 if it has one; the frames between belong to others, and the
\* entry of a page without a frame names frame 0.
PageKind(v) ==
    {NoTable} \cup
    [frame : {0}, user : {FALSE}, owned : {FALSE}, writable : {FALSE}] \cup
    [frame : {2 * v + 2}, user : {TRUE}, owned : {FALSE}, writable : BOOLEAN] \cup
    [frame : {0, 2 * v + 2}, user : {TRUE}, owned : {TRUE}, writable : {TRUE}] \cup
    [frame : {2 * v + 2}, user : {FALSE}, owned : BOOLEAN, writable : {TRUE}]

Address == 0 .. PageBytes * CopyPages - 1
Memory == 0 .. PageBytes * (2 * CopyPages + 2) - 1
NoCopy == [kind |-> "none", ok |-> TRUE, va |-> 0, size |-> 0, bytes |-> <<>>]

CopyInit ==
    /\ pages \in {f \in [0 .. CopyPages - 1 -> UNION {PageKind(v) : v \in 0 .. CopyPages - 1}] :
                    \A v \in DOMAIN f : f[v] \in PageKind(v)}
    /\ physical = [a \in Memory |-> a]
    /\ copied = NoCopy
-----------------------------------------------------------------------------
PageOf(va) == va \div PageBytes
Offset(va) == va % PageBytes
Lesser(a, b) == IF a < b THEN a ELSE b

\* fetch_page_index, which makes no table.
FetchPage(v) == IF v \in DOMAIN pages THEN pages[v] ELSE NoTable

\* What a use of the null pointer would find is taken to be zero.
FrameOf(v) == IF FetchPage(v) = NoTable THEN 0 ELSE FetchPage(v).frame

\* How many bytes of a copy lie in its first page, and in whole pages after it.
InFirst(va, size) == Lesser(size, PageBytes - Offset(va))
WholePages(va, size) == (size - InFirst(va, size)) \div PageBytes
InLast(va, size) == (size - InFirst(va, size)) % PageBytes

\* Faulty variant: the rest of the copy is taken for the rest of its last page.
PiecesOfRest(va, size) ==
    <<[page |-> PageOf(va), offset |-> Offset(va), count |-> InFirst(va, size)]>>
    \o [i \in 1 .. WholePages(va, size) |->
            [page |-> PageOf(va) + i, offset |-> 0, count |-> PageBytes]]
    \o IF InLast(va, size) = 0 THEN <<>>
       ELSE <<[page |-> PageOf(va) + 1,
               offset |-> Offset(va), count |-> InLast(va, size)]>>

\* The pieces of a copy, in order.  The last one begins at the offset of the
\* first one in its page.
Pieces(va, size) ==
    <<[page |-> PageOf(va), offset |-> Offset(va), count |-> InFirst(va, size)]>>
    \o [i \in 1 .. WholePages(va, size) |->
            [page |-> PageOf(va) + i, offset |-> 0, count |-> PageBytes]]
    \o IF InLast(va, size) = 0 THEN <<>>
       ELSE <<[page |-> PageOf(va) + WholePages(va, size) + 1,
               offset |-> Offset(va), count |-> InLast(va, size)]>>

\* The physical addresses of a piece, and of all of them.
PieceAt(p) ==
    [i \in 1 .. p.count |-> FrameOf(p.page) * PageBytes + p.offset + i - 1]
PhysicalOf(va, size) == FlattenSeq([i \in DOMAIN Pieces(va, size) |-> PieceAt(Pieces(va, size)[i])])

\* The first page must be the user's, the others the process's.
Readable(va, size, kernel) ==
    \A i \in DOMAIN Pieces(va, size) :
        LET e == FetchPage(Pieces(va, size)[i].page)
        IN  e # NoTable /\ (kernel \/ IF i = 1 THEN e.user ELSE e.owned)

\* Faulty variant: the page that a copy ends in is not counted.
CheckedWithoutEnd(va, size) == size \div PageBytes + (IF Offset(va) # 0 THEN 1 ELSE 0)

\* The pages looked at before the first byte is written: at least those written.
CheckedPages(va, size) ==
    size \div PageBytes
        + (IF Offset(va) # 0 THEN 1 ELSE 0)
        + (IF Offset(va + size) # 0 THEN 1 ELSE 0)

Writable(va, size, kernel) ==
    \A i \in 0 .. CheckedPages(va, size) - 1 :
        LET e == FetchPage(PageOf(va) + i)
        IN  e # NoTable /\ (kernel \/ e.owned) /\ e.writable

Copied(kind, ok, va, size, bytes) ==
    copied' = [kind |-> kind, ok |-> ok, va |-> va, size |-> size, bytes |-> bytes]

\* read_virtual_memory.
ReadVirtualMemory(va, size, kernel) ==
    /\ IF Readable(va, size, kernel)
       THEN Copied("read", TRUE, va, size,
                   [i \in 1 .. size |-> physical[PhysicalOf(va, size)[i]]])
       ELSE Copied("read", FALSE, va, size, <<>>)
    /\ UNCHANGED <<pages, physical>>

\* write_virtual_memory: of two bytes that go to one address the later stays.
WriteVirtualMemory(va, size, kernel) ==
    LET to == PhysicalOf(va, size)
        Wrote(a) == {i \in 1 .. size : to[i] = a}
    IN  IF Writable(va, size, kernel)
        THEN /\ Copied("write", TRUE, va, size, <<>>)
             /\ physical' = [a \in Memory |->
                    IF Wrote(a) = {} THEN physical[a]
                    ELSE -(CHOOSE i \in Wrote(a) : \A j \in Wrote(a) : j <= i)]
             /\ UNCHANGED pages
        ELSE Copied("write", FALSE, va, size, <<>>) /\ UNCHANGED <<pages, physical>>

\* One copy per behaviour: what follows has the same pages.
CopyNext ==
    /\ copied = NoCopy
    /\ \E va \in Address, size \in CopySizes, kernel \in BOOLEAN :
        ReadVirtualMemory(va, size, kernel) \/ WriteVirtualMemory(va, size, kernel)

CopySpec == CopyInit /\ [][CopyNext]_copyVars
-----------------------------------------------------------------------------
\* Every variable has a value of its type.
CopyTypeOK ==
    /\ DOMAIN pages = 0 .. CopyPages - 1
    /\ DOMAIN physical = Memory
    /\ copied.kind \in {"none", "read", "write"}

\* Where byte i of the process's memory at va is, and where a copy looks for
\* it: the bytes behind the last whole page are displaced by the offset of va.
HomeOf(va, i) == FrameOf(PageOf(va + i - 1)) * PageBytes + Offset(va + i - 1)
Landing(va, size, i) ==
    HomeOf(va, i) + IF i > size - InLast(va, size) THEN Offset(va) ELSE 0

\* The memory of page v, and what lies behind the last page of a copy and is
\* reached all the same.
MemoryOf(v) == {FrameOf(v) * PageBytes + j : j \in 0 .. PageBytes - 1}
Overrun(va, size) ==
    {FrameOf(PageOf(va) + WholePages(va, size) + 1) * PageBytes + j :
        j \in PageBytes .. Offset(va) + InLast(va, size) - 1}

\* A write changes only pages that were looked at before the first byte, found
\* to have a table, and writable, at any size and address; except for the
\* bytes that a displaced end puts behind its page.
WritesUseCheckedPages ==
    copied.kind = "write" =>
        LET va      == copied.va
            size    == copied.size
            checked == {v \in PageOf(va) .. PageOf(va) + CheckedPages(va, size) - 1 :
                            FetchPage(v) # NoTable /\ FetchPage(v).writable}
        IN  /\ copied.ok => \A i \in DOMAIN Pieces(va, size) :
                                Pieces(va, size)[i].page \in checked
            /\ \A a \in Memory : physical[a] # a =>
                    a \in Overrun(va, size) \/ \E v \in checked : a \in MemoryOf(v)

\* What was read is what was at the addresses at[1], at[2]..., or these were
\* written and no others.
Moved(at) ==
    IF copied.kind = "read" THEN copied.bytes = at
    ELSE \A a \in Memory :
            IF a \in {at[i] : i \in 1 .. copied.size}
            THEN physical[a] < 0 /\ at[-physical[a]] = a
            ELSE physical[a] = a

Answered == copied.ok /\ copied.kind # "none"

\* A copy that is answered has read, or written, the bytes of the process at
\* that address and no others, in order, however many pages it spans; but for
\* its end: when the copy begins inside a page and goes beyond it, the bytes
\* behind its last whole page are read, or written, as many bytes further on.
CopiesAreExact ==
    Answered => Moved([i \in 1 .. copied.size |-> Landing(copied.va, copied.size, i)])

\* What the comments say: "Read the last remaining bytes if needed." and "Write
\* the last remaining bytes if needed." (virtual.cpp:42 and 94).
LastBytesAreCopied ==
    Answered => Moved([i \in 1 .. copied.size |-> HomeOf(copied.va, i)])
=============================================================================
