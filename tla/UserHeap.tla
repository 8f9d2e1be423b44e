------------------------------- MODULE UserHeap -------------------------------
(***************************************************************************)
(* The heap of a program (software/include/alloc.cpp), which _main         *)
(* initialises before constructors and main run.                           *)
(*                                                                         *)
(* init makes two blocks in a page that the kernel has cleared; the second *)
(* has neither size nor magic number.  malloc never links a block to them, *)
(* so that every request the two do not serve gets the same area behind    *)
(* the second, with a new header, whoever holds it already; and a request  *)
(* that does not fit there asks for pages without either flag: they are    *)
(* never mapped, and writing the new header ends the process.              *)
(***************************************************************************)
EXTENDS Integers

CONSTANTS
    HeapPage,       \* 4096
    MetaSize,       \* sizeof(BlockMeta)
    HeadSize,       \* the size of the first block, 200
    UserSlack,      \* by how much a reused block may be too large, 60
    UserFiller,     \* the least size of a block that fills the page, 20
    MallocSizes,    \* what the program asks for
    Pointer,        \* the program's pointers to blocks
    NoBlock         \* what a pointer without a block holds

ASSUME UserHeapAssumption ==
    /\ HeapPage \in Nat /\ MetaSize \in Nat \ {0} /\ HeadSize \in Nat
    /\ 3 * MetaSize + HeadSize < HeapPage
    /\ UserSlack \in Nat /\ UserFiller \in Nat
    /\ MallocSizes \subseteq Nat
    /\ NoBlock \notin [data : Nat, size : Nat]

VARIABLES
    metas,          \* the headers in the page, by address
    held_by_user,   \* the block of each pointer: its address, and the size asked for
    ended           \* the process has ended

userHeapVars == <<metas, held_by_user, ended>>

Meta(size, allocated, magic) == [size |-> size, allocated |-> allocated, magic |-> magic]
HeadAt == 0
TailAt == MetaSize + HeadSize

\* heap::init.
UserHeapInit ==
    /\ metas = [at \in {HeadAt, TailAt} |->
                    IF at = HeadAt THEN Meta(HeadSize, FALSE, TRUE) ELSE Meta(0, FALSE, FALSE)]
    /\ held_by_user = [p \in Pointer |-> NoBlock]
    /\ ended = FALSE
-----------------------------------------------------------------------------
\* The function f with the value v at a.
With(f, a, v) == [b \in DOMAIN f \cup {a} |-> IF b = a THEN v ELSE f[b]]

\* Faulty variant: a block serves again while it is in use.
ServesInUse(at, size) ==
    /\ size <= metas[at].size /\ metas[at].size - size <= UserSlack

\* A linked block that is free and not much too large.
Serves(at, size) ==
    /\ ~metas[at].allocated
    /\ size <= metas[at].size /\ metas[at].size - size <= UserSlack

BehindTail == TailAt + MetaSize + metas[TailAt].size
PageRest == HeapPage - (BehindTail % HeapPage)

\* What malloc leaves: the headers, and the address it returns if the process
\* survives.  The search takes the first block that serves.
Malloc(size) ==
    CASE Serves(HeadAt, size) ->
            [metas |-> [metas EXCEPT ![HeadAt].allocated = TRUE],
             data |-> HeadAt + MetaSize, survives |-> TRUE]
      [] ~Serves(HeadAt, size) /\ Serves(TailAt, size) ->
            [metas |-> [metas EXCEPT ![TailAt].allocated = TRUE],
             data |-> TailAt + MetaSize, survives |-> TRUE]
      [] OTHER ->
            LET fits == MetaSize + size <= PageRest
                fills == PageRest >= MetaSize + UserFiller
            IN  [metas |-> IF fits \/ fills
                             THEN With(metas, BehindTail,
                                       Meta(IF fits THEN size ELSE PageRest - MetaSize, TRUE, TRUE))
                             ELSE metas,
                 data |-> BehindTail + MetaSize, survives |-> fits]

\* The pointers that hold a block.
Holding == {p \in Pointer : held_by_user[p] # NoBlock}
HeaderOf(p) == held_by_user[p].data - MetaSize
Block(size) == [data |-> Malloc(size).data, size |-> size]

UserMalloc(p, size) ==
    /\ ~ended /\ p \notin Holding
    /\ metas' = Malloc(size).metas
    /\ ended' = ~Malloc(size).survives
    /\ held_by_user' = IF ended' THEN held_by_user ELSE [held_by_user EXCEPT ![p] = Block(size)]

\* free ends the process if the header has no magic number, that of a block of
\* no bytes.
UserFree(p) ==
    /\ ~ended /\ p \in Holding
    /\ IF metas[HeaderOf(p)].magic
         THEN /\ metas' = [metas EXCEPT ![HeaderOf(p)].allocated = FALSE]
              /\ held_by_user' = [held_by_user EXCEPT ![p] = NoBlock]
              /\ UNCHANGED ended
         ELSE ended' = TRUE /\ UNCHANGED <<metas, held_by_user>>

\* realloc copies as many bytes as the old header says, which malloc may just
\* have written anew, and clears as many as the new block has more; if it has
\* fewer, that is nearly all of memory.  It frees the old block last.
UserRealloc(p, size) ==
    LET new == Malloc(size)
        old == new.metas[HeaderOf(p)]
    IN  /\ ~ended /\ p \in Holding
        /\ IF new.survives /\ size >= old.size /\ old.magic
             THEN /\ metas' = [new.metas EXCEPT ![HeaderOf(p)].allocated = FALSE]
                  /\ held_by_user' = [held_by_user EXCEPT ![p] = Block(size)]
                  /\ UNCHANGED ended
             ELSE ended' = TRUE /\ UNCHANGED <<metas, held_by_user>>

UserHeapNext ==
    \E p \in Pointer :
        \/ \E size \in MallocSizes : UserMalloc(p, size) \/ UserRealloc(p, size)
        \/ UserFree(p)

UserHeapSpec == UserHeapInit /\ [][UserHeapNext]_userHeapVars
-----------------------------------------------------------------------------
\* Every variable has a value of its type.
UserHeapTypeOK ==
    /\ \A at \in DOMAIN metas : metas[at] \in [size : Nat, allocated : BOOLEAN, magic : BOOLEAN]
    /\ ended \in BOOLEAN

\* The area behind the second block, which several pointers may share.
LastArea == BehindTail + MetaSize

\* The blocks that a program holds end within the page, whatever was freed and
\* reused, reallocated or failed before.  Those of the two linked blocks are in
\* use and as large as asked for, and nobody else holds a byte of them or of
\* their headers.  All the others are one: they begin at the same address.
HeldBlocksLieApart ==
    \A p \in Holding :
        LET mine == held_by_user[p]
        IN  /\ mine.data + mine.size <= HeapPage
            /\ mine.data # LastArea =>
                    metas[HeaderOf(p)].allocated /\ metas[HeaderOf(p)].size >= mine.size
            /\ \A q \in Holding \ {p} :
                    \/ mine.data + mine.size <= HeaderOf(q)
                    \/ held_by_user[q].data + held_by_user[q].size <= HeaderOf(p)
                    \/ mine.data = LastArea /\ held_by_user[q].data = LastArea
=============================================================================
