-------------------------- MODULE KernelMemoryProofs --------------------------
(***************************************************************************)
(* Proofs about the memory of the kernel: its heap, the copies between it  *)
(* and the memory of a program, and the sinks whose fragments it holds.    *)
(***************************************************************************)
EXTENDS KernelHeap, MemoryCopy, DataSink, FiniteSetTheorems, WellFoundedInduction,
        NaturalsInduction, SequenceTheorems, TLAPS

-------------------------------------------------------------------------------
(***************************************************************************)
(* The kernel heap, for every page size, header, slack, number of pages    *)
(* and set of requests.                                                    *)
(*                                                                         *)
(* BlocksAreDisjoint is not inductive: malloc looks at the end of the last *)
(* block only, so what matters is that no block lies between there and the *)
(* end of its page (LastIsFree), wherever in memory the chain has been.    *)
(***************************************************************************)

\* The pages of the heap: in use, by nobody else.
HeapFrames == {f \in Frames : data_meta[f] /\ f \notin framesTaken}

\* Block b has bytes on page f.
Meets(b, f) == PageSize * f < EndOf(b) /\ b.at < PageSize * f + PageSize

\* Two blocks share no byte.
Apart(b, d) == EndOf(b) <= d.at \/ EndOf(d) <= b.at

OnFrames(c, frames) == \A i \in DOMAIN c : \A f \in Nat : Meets(c[i], f) => f \in frames

AllApart(c) == \A i, j \in DOMAIN c : i < j => Apart(c[i], c[j])

\* Where the page begins that follows address n.
NextPage(n) == n - (n % PageSize) + PageSize

\* The last block ends inside a page, and the rest of that page is free.
LastIsFree(c) ==
    /\ c # <<>>
    /\ EndOf(Tail_block(c)) % PageSize # 0
    /\ \A i \in DOMAIN c : \/ EndOf(c[i]) <= EndOf(Tail_block(c))
                           \/ NextPage(EndOf(Tail_block(c))) <= c[i].at

\* Pages that others hold are in use.
TakenInUse == \A f \in framesTaken : data_meta[f]

Placed == OnFrames(blocks, HeapFrames) /\ AllApart(blocks) /\ LastIsFree(blocks)

\* Only blocks without bytes lack the magic number, and none of them serves.
Marked == \A i \in DOMAIN blocks : blocks[i].magic \/ blocks[i].size = 0

HInv == HeapTypeOK /\ TakenInUse /\ Placed /\ Marked /\ ClientsHoldTheirBlocks

\* Quotient and remainder.
LEMMA DivMod ==
  ASSUME NEW p \in Nat \ {0}, NEW n \in Nat
  PROVE  \E q \in Nat, r \in 0 .. p - 1 : n \div p = q /\ n % p = r /\ n = p * q + r
  <1>1. n \div p \in Nat
    BY SMT
  <1>2. n % p \in 0 .. p - 1
    BY SMT
  <1>3. n = p * (n \div p) + (n % p)
    BY SMT
  <1> QED BY <1>1, <1>2, <1>3, Zenon

LEMMA Division ==
  ASSUME NEW n \in Nat
  PROVE  \E q \in Nat, r \in 0 .. PageSize - 1 :
            n \div PageSize = q /\ n % PageSize = r /\ n = PageSize * q + r
  <1> USE KernelHeapAssumption
  <1> QED BY DivMod

\* Multiples keep the order of their factors.
LEMMA Scaled ==
  ASSUME NEW p \in Nat \ {0}, NEW a \in Int, NEW b \in Int
  PROVE  /\ p * a \in Int
         /\ a <= b => p * a <= p * b
         /\ p * a < p * b => a < b
         /\ p * (a + 1) = p * a + p
  BY SMT

LEMMA ScaledNat ==
  ASSUME NEW p \in Nat \ {0}, NEW a \in Nat
  PROVE  p * a \in Nat
  BY SMT

\* A nonempty set of numbers has a least element.
LEMMA LeastExists ==
  ASSUME NEW S \in SUBSET Nat, S # {}
  PROVE  \E x \in S : \A y \in S : x <= y
  <1>1. PICK x \in S : \A y \in S : ~(<<y, x>> \in OpToRel(<, Nat))
    BY NatLessThanWellFounded, WFMin
  <1>2. \A y \in S : ~(y < x)
    BY <1>1 DEF OpToRel
  <1> QED BY <1>2

\* The only way to write a number as a multiple and a remainder.
LEMMA Multiple ==
  ASSUME NEW p \in Nat \ {0}, NEW n \in Nat, NEW k \in Nat, NEW r \in 0 .. p - 1,
         n = p * k + r
  PROVE  n % p = r /\ n \div p = k
  <1>1. PICK q \in Nat, s \in 0 .. p - 1 : n \div p = q /\ n % p = s /\ n = p * q + s
    BY DivMod
  <1>2. p * k \in Nat /\ p * q \in Nat
    BY ScaledNat
  <1>3. ASSUME q < k PROVE FALSE
    <2>1. p * (q + 1) <= p * k
      BY <1>3, Scaled
    <2>2. p * (q + 1) = p * q + p
      BY Scaled
    <2> QED BY <1>1, <1>2, <2>1, <2>2
  <1>4. ASSUME k < q PROVE FALSE
    <2>1. p * (k + 1) <= p * q
      BY <1>4, Scaled
    <2>2. p * (k + 1) = p * k + p
      BY Scaled
    <2> QED BY <1>1, <1>2, <2>1, <2>2
  <1>5. q = k
    BY <1>3, <1>4
  <1> QED BY <1>1, <1>2, <1>5

\* The pages of an interval are those it has bytes on.
LEMMA PagesMet ==
  ASSUME NEW b \in Blocks, NEW f \in PagesIn(b.at, EndOf(b))
  PROVE  f \in Nat /\ Meets(b, f)
  <1> USE KernelHeapAssumption
  <1>1. b.at \in Nat /\ EndOf(b) \in Nat /\ EndOf(b) - 1 \in Nat
    BY DEF Blocks, EndOf
  <1>a. PICK a \in Nat : a = b.at
    BY <1>1
  <1>2. PICK q \in Nat, r \in 0 .. PageSize - 1 :
            a \div PageSize = q /\ a % PageSize = r /\ a = PageSize * q + r
    BY Division
  <1>e. PICK e \in Nat : e = EndOf(b) - 1
    BY <1>1
  <1>3. PICK u \in Nat, v \in 0 .. PageSize - 1 :
            e \div PageSize = u /\ e % PageSize = v /\ e = PageSize * u + v
    BY Division
  <1>4. f \in q .. u
    BY <1>a, <1>2, <1>e, <1>3 DEF PagesIn
  <1>5. f \in Nat
    BY <1>4
  <1>6. PageSize * q <= PageSize * f
    BY <1>4, <1>5, Scaled
  <1>7. PageSize * f <= PageSize * u
    BY <1>4, <1>5, Scaled
  <1>8. PageSize * q \in Nat /\ PageSize * f \in Nat /\ PageSize * u \in Nat
    BY <1>5, ScaledNat
  <1>9. PageSize * f < EndOf(b)
    BY <1>1, <1>e, <1>3, <1>7, <1>8
  <1>10. b.at < PageSize * f + PageSize
    BY <1>a, <1>2, <1>6, <1>8
  <1> QED BY <1>5, <1>9, <1>10 DEF Meets

LEMMA Remainder ==
  ASSUME NEW n \in Nat
  PROVE  \E d \in Nat : n % PageSize = d
  <1>1. PICK q \in Nat, r \in 0 .. PageSize - 1 :
            n \div PageSize = q /\ n % PageSize = r /\ n = PageSize * q + r
    BY Division
  <1> QED BY <1>1, KernelHeapAssumption

\* The page behind an address begins at a multiple of the page size.
LEMMA NextPages ==
  ASSUME NEW n \in Nat
  PROVE  \E k \in Nat : /\ NextPage(n) = PageSize * k + PageSize
                        /\ NextPage(n) \in Nat
                        /\ PageSize * k \in Nat
                        /\ PageSize * k <= n /\ n < NextPage(n)
                        /\ n % PageSize = n - PageSize * k
                        /\ NextPage(n) = n + (PageSize - (n % PageSize))
  <1> USE KernelHeapAssumption
  <1>1. PICK q \in Nat, r \in 0 .. PageSize - 1 :
            n \div PageSize = q /\ n % PageSize = r /\ n = PageSize * q + r
    BY Division
  <1>2. PageSize * q \in Nat
    BY ScaledNat
  <1> WITNESS q \in Nat
  <1> QED BY <1>1, <1>2 DEF NextPage

\* Addresses of the same page have the same page behind them.
LEMMA SamePage ==
  ASSUME NEW n \in Nat, NEW m \in Nat, n < m, m <= NextPage(n), m % PageSize # 0
  PROVE  NextPage(m) = NextPage(n)
  <1> USE KernelHeapAssumption
  <1>1. PICK k \in Nat : /\ NextPage(n) = PageSize * k + PageSize
                         /\ PageSize * k \in Nat /\ PageSize * k <= n
    BY NextPages
  <1>2. PICK l \in Nat : NextPage(m) = PageSize * l + PageSize /\ PageSize * l <= m
                         /\ PageSize * l \in Nat /\ m < NextPage(m)
                         /\ m % PageSize = m - PageSize * l
    BY NextPages
  <1>3. PageSize * (k + 1) = PageSize * k + PageSize /\ PageSize * (l + 1) = PageSize * l + PageSize
    BY Scaled
  <1>4. PageSize * l < PageSize * (k + 1) /\ PageSize * k < PageSize * (l + 1)
    BY <1>1, <1>2, <1>3
  <1>5. l < k + 1 /\ k < l + 1
    BY <1>4, Scaled
  <1>6. l = k
    BY <1>5
  <1> QED BY <1>1, <1>2, <1>6

\* A run of free pages is found, and it is free.
LEMMA RunIsFree ==
  ASSUME NEW count \in Nat \ {0}, CanAlloc(count)
  PROVE  /\ FirstRun(count) \in Nat
         /\ \A f \in Nat : FirstRun(count) <= f /\ f < FirstRun(count) + count =>
                f \in Frames /\ ~data_meta[f]
  <1> USE KernelHeapAssumption
  <1>1. Runs(count) \in SUBSET Nat /\ Runs(count) # {}
    BY DEF CanAlloc, Runs, Frames
  <1>2. FirstRun(count) \in Runs(count)
    <2> HIDE DEF Runs
    <2> QED BY <1>1, LeastExists DEF FirstRun
  <1> DEFINE r == FirstRun(count)
  <1> HIDE DEF r
  <1>3. r \in Frames /\ r + count - 1 \in Frames /\ \A i \in 0 .. count - 1 : ~data_meta[r + i]
    BY <1>2 DEF Runs, r
  <1>4. r \in Nat
    BY <1>3 DEF Frames
  <1>5. ASSUME NEW f \in Nat, r <= f, f < r + count
        PROVE  f \in Frames /\ ~data_meta[f]
    <2>1. f \in Frames
      BY <1>3, <1>4, <1>5 DEF Frames
    <2>2. f - r \in 0 .. count - 1 /\ r + (f - r) = f
      BY <1>4, <1>5
    <2>3. ~data_meta[r + (f - r)]
      BY <1>3, <2>2
    <2> QED BY <2>1, <2>2, <2>3
  <1> QED BY <1>4, <1>5 DEF r
-----------------------------------------------------------------------------
(***************************************************************************)
(* One more block.                                                         *)
(***************************************************************************)

LEMMA Appended ==
  ASSUME NEW c \in Seq(Blocks), NEW b \in Blocks
  PROVE  /\ Append(c, b) \in Seq(Blocks) /\ Append(c, b) # <<>>
         /\ DOMAIN c = 1 .. Len(c) /\ DOMAIN Append(c, b) = 1 .. Len(c) + 1
         /\ Len(c) \in Nat
         /\ \A i \in DOMAIN c : Append(c, b)[i] = c[i] /\ c[i] \in Blocks
         /\ Append(c, b)[Len(c) + 1] = b
         /\ Tail_block(Append(c, b)) = b
  BY DEF Tail_block

LEMMA BlockNumbers ==
  ASSUME NEW b \in Blocks
  PROVE  /\ b.at \in Nat /\ b.size \in Nat /\ EndOf(b) \in Nat /\ b.at < EndOf(b)
         /\ DataOf(b) = b.at + Header /\ EndOf(b) = b.at + Header + b.size
  BY KernelHeapAssumption DEF Blocks, EndOf, DataOf

\* What a longer chain inherits.
LEMMA AppendApart ==
  ASSUME NEW c \in Seq(Blocks), NEW b \in Blocks, AllApart(c),
         \A i \in DOMAIN c : Apart(c[i], b)
  PROVE  AllApart(Append(c, b))
  <1> SUFFICES ASSUME NEW i \in 1 .. Len(c) + 1, NEW j \in 1 .. Len(c) + 1, i < j
               PROVE  Apart(Append(c, b)[i], Append(c, b)[j])
    BY Appended DEF AllApart
  <1>1. i \in DOMAIN c
    BY Appended
  <1>2. CASE j \in DOMAIN c
    BY <1>1, <1>2, Appended DEF AllApart
  <1>3. CASE j = Len(c) + 1
    BY <1>1, <1>3, Appended
  <1> QED BY <1>2, <1>3, Appended

LEMMA AppendOn ==
  ASSUME NEW c \in Seq(Blocks), NEW b \in Blocks, NEW S, OnFrames(c, S),
         \A f \in Nat : Meets(b, f) => f \in S
  PROVE  OnFrames(Append(c, b), S)
  <1> SUFFICES ASSUME NEW i \in 1 .. Len(c) + 1, NEW f \in Nat, Meets(Append(c, b)[i], f)
               PROVE  f \in S
    BY Appended DEF OnFrames
  <1>1. CASE i \in DOMAIN c
    BY <1>1, Appended DEF OnFrames
  <1>2. CASE i = Len(c) + 1
    BY <1>2, Appended
  <1> QED BY <1>1, <1>2, Appended

\* A block in the rest of the page in which the last one ends.
LEMMA AppendBehind ==
  ASSUME NEW c \in Seq(Blocks), NEW b \in Blocks, NEW S,
         OnFrames(c, S), AllApart(c), LastIsFree(c),
         b.at = EndOf(Tail_block(c)), EndOf(b) <= NextPage(b.at)
  PROVE  /\ OnFrames(Append(c, b), S) /\ AllApart(Append(c, b))
         /\ EndOf(b) % PageSize # 0 => LastIsFree(Append(c, b))
  <1> USE KernelHeapAssumption
  <1>1. Len(c) \in DOMAIN c /\ Tail_block(c) = c[Len(c)] /\ c[Len(c)] \in Blocks
    BY DEF LastIsFree, Tail_block
  <1> DEFINE t == Tail_block(c)
  <1>2. /\ t \in Blocks /\ t.at \in Nat /\ EndOf(t) \in Nat /\ t.at < EndOf(t)
        /\ b.at \in Nat /\ EndOf(b) \in Nat /\ b.at < EndOf(b)
    BY <1>1, BlockNumbers
  <1>3. PICK k \in Nat : /\ NextPage(b.at) = PageSize * k + PageSize
                         /\ PageSize * k \in Nat
                         /\ PageSize * k <= b.at /\ b.at < NextPage(b.at)
                         /\ b.at % PageSize = b.at - PageSize * k
    BY <1>2, NextPages
  <1>4. Meets(t, k)
    <2>1. b.at % PageSize # 0
      BY DEF LastIsFree
    <2> QED BY <1>2, <1>3, <2>1 DEF Meets
  <1>5. k \in S
    BY <1>1, <1>4 DEF OnFrames
  <1>6. \A f \in Nat : Meets(b, f) => f \in S
    <2> SUFFICES ASSUME NEW f \in Nat, Meets(b, f) PROVE f = k
      BY <1>5
    <2>1. PageSize * f \in Nat
      BY ScaledNat
    <2>2. PageSize * (k + 1) = PageSize * k + PageSize /\ PageSize * (f + 1) = PageSize * f + PageSize
      BY Scaled
    <2>a. PICK x \in Nat, y \in Nat : x = PageSize * f /\ y = PageSize * k
      BY <1>3, <2>1
    <2>b. x < y + PageSize /\ y < x + PageSize
      BY <1>2, <1>3, <2>a DEF Meets
    <2>3. PageSize * f < PageSize * (k + 1) /\ PageSize * k < PageSize * (f + 1)
      BY <2>2, <2>a, <2>b
    <2>4. f < k + 1 /\ k < f + 1
      BY <2>3, Scaled
    <2> QED BY <2>4
  <1>7. \A i \in DOMAIN c : /\ c[i].at \in Nat /\ EndOf(c[i]) \in Nat
                            /\ EndOf(c[i]) <= b.at \/ NextPage(b.at) <= c[i].at
    BY BlockNumbers DEF LastIsFree
  <1>8. \A i \in DOMAIN c : Apart(c[i], b)
    BY <1>2, <1>3, <1>7 DEF Apart
  <1>9. ASSUME EndOf(b) % PageSize # 0 PROVE LastIsFree(Append(c, b))
    <2>2. NextPage(EndOf(b)) = NextPage(b.at)
      BY <1>2, <1>9, SamePage
    <2>3. \A i \in DOMAIN c : EndOf(c[i]) <= EndOf(b) \/ NextPage(EndOf(b)) <= c[i].at
      BY <1>2, <1>7, <2>2
    <2>4. ASSUME NEW i \in 1 .. Len(c) + 1
          PROVE  \/ EndOf(Append(c, b)[i]) <= EndOf(b)
                 \/ NextPage(EndOf(b)) <= Append(c, b)[i].at
      <3>1. CASE i \in DOMAIN c
        BY <2>3, <3>1, Appended
      <3>2. CASE i = Len(c) + 1
        BY <1>2, <3>2, Appended
      <3> QED BY <3>1, <3>2, Appended
    <2> QED BY <1>9, <2>4, Appended DEF LastIsFree
  <1> QED BY <1>6, <1>8, <1>9, AppendOn, AppendApart

\* A block at the beginning of pages on which there is none yet.
LEMMA AppendOnNew ==
  ASSUME NEW c \in Seq(Blocks), NEW b \in Blocks, NEW S, OnFrames(c, S), AllApart(c),
         NEW r \in Nat, NEW count \in Nat \ {0},
         \A f \in Nat : r <= f /\ f < r + count => f \notin S,
         b.at = PageSize * r, EndOf(b) < PageSize * (r + count), EndOf(b) % PageSize # 0
  PROVE  /\ AllApart(Append(c, b)) /\ LastIsFree(Append(c, b))
         /\ \A f \in Nat : Meets(b, f) => r <= f /\ f < r + count
  <1> USE KernelHeapAssumption
  <1>1. /\ b.at \in Nat /\ EndOf(b) \in Nat /\ b.at < EndOf(b)
        /\ PageSize * (r + count) \in Nat
    BY BlockNumbers, ScaledNat
  <1>2. ASSUME NEW f \in Nat, Meets(b, f) PROVE r <= f /\ f < r + count
    <2>1. PageSize * f \in Nat /\ PageSize * r \in Nat
      BY ScaledNat
    <2>2. PageSize * (f + 1) = PageSize * f + PageSize
      BY Scaled
    <2>3. PageSize * r < PageSize * (f + 1)
      BY <1>1, <1>2, <2>1, <2>2 DEF Meets
    <2>4. PageSize * f < PageSize * (r + count)
      BY <1>1, <1>2, <2>1 DEF Meets
    <2>5. r < f + 1
      BY <2>3, Scaled
    <2>6. f < r + count
      BY <2>4, Scaled
    <2> QED BY <2>5, <2>6
  <1>3. NextPage(EndOf(b)) <= PageSize * (r + count) /\ EndOf(b) < NextPage(EndOf(b))
    <2>1. PICK k \in Nat : /\ NextPage(EndOf(b)) = PageSize * k + PageSize
                           /\ PageSize * k \in Nat
                           /\ PageSize * k <= EndOf(b) /\ EndOf(b) < NextPage(EndOf(b))
      BY <1>1, NextPages
    <2>2. PageSize * k < PageSize * (r + count)
      BY <1>1, <2>1
    <2>3. k < r + count
      BY <2>2, Scaled
    <2>4. PageSize * (k + 1) <= PageSize * (r + count) /\ PageSize * (k + 1) = PageSize * k + PageSize
      BY <2>3, Scaled
    <2> QED BY <2>1, <2>4
  <1>4. NextPage(EndOf(b)) \in Nat
    BY <1>1, NextPages
  <1>5. ASSUME NEW i \in DOMAIN c
        PROVE  EndOf(c[i]) <= b.at \/ NextPage(EndOf(b)) <= c[i].at
    <2>1. c[i].at \in Nat /\ EndOf(c[i]) \in Nat /\ c[i].at < EndOf(c[i])
      <3>1. c[i] \in Blocks
        OBVIOUS
      <3> QED BY <3>1, BlockNumbers
    <2> SUFFICES ASSUME b.at < EndOf(c[i]), c[i].at < NextPage(EndOf(b)) PROVE FALSE
      BY <1>1, <1>4, <2>1
    <2>2. CASE c[i].at <= b.at
      <3>1. Meets(c[i], r)
        BY <1>1, <2>1, <2>2 DEF Meets
      <3>2. r \in S
        BY <3>1 DEF OnFrames
      <3> QED BY <3>2
    <2>3. CASE b.at < c[i].at
      <3>0. PICK n \in Nat : n = c[i].at
        BY <2>1
      <3>1. PICK q \in Nat : PageSize * q <= n /\ n < PageSize * q + PageSize
        BY NextPages
      <3>2. PageSize * q \in Nat
        BY ScaledNat
      <3>3. Meets(c[i], q)
        BY <2>1, <3>0, <3>1, <3>2 DEF Meets
      <3>4. q \in S
        BY <3>3 DEF OnFrames
      <3>5. PageSize * (q + 1) = PageSize * q + PageSize
        BY Scaled
      <3>a. PICK x \in Nat : x = PageSize * q
        BY <3>2
      <3>b. PageSize * r < x + PageSize
        BY <2>3, <3>0, <3>1, <3>a, <1>1
      <3>6. PageSize * r < PageSize * (q + 1)
        BY <3>5, <3>a, <3>b
      <3>c. n < PageSize * (r + count)
        BY <1>1, <1>3, <1>4, <3>0
      <3>7. PageSize * q < PageSize * (r + count)
        BY <1>1, <3>1, <3>a, <3>c
      <3>8. r < q + 1
        BY <3>6, Scaled
      <3>9. q < r + count
        BY <3>7, Scaled
      <3> QED BY <3>4, <3>8, <3>9
    <2> QED BY <1>1, <2>1, <2>2, <2>3
  <1>6. ASSUME NEW i \in DOMAIN c
        PROVE  Apart(c[i], b)
    <2>1. c[i] \in Blocks
      OBVIOUS
    <2>2. c[i].at \in Nat
      BY <2>1, BlockNumbers
    <2> QED BY <1>1, <1>3, <1>4, <1>5, <2>2 DEF Apart
  <1>7. LastIsFree(Append(c, b))
    <2>1. ASSUME NEW i \in 1 .. Len(c) + 1
          PROVE  \/ EndOf(Append(c, b)[i]) <= EndOf(b)
                 \/ NextPage(EndOf(b)) <= Append(c, b)[i].at
      <3>1. CASE i \in DOMAIN c
        BY <1>1, <1>5, <3>1, Appended, BlockNumbers
      <3>2. CASE i = Len(c) + 1
        BY <1>1, <3>2, Appended
      <3> QED BY <3>1, <3>2, Appended
    <2> QED BY <2>1, Appended DEF LastIsFree
  <1> QED BY <1>2, <1>6, <1>7, AppendApart
-----------------------------------------------------------------------------
(***************************************************************************)
(* What a step does to the places of blocks and to what clients hold.      *)
(***************************************************************************)

\* Blocks may change hands without moving.
LEMMA PlacesKept ==
  ASSUME HeapTypeOK, Placed, blocks' \in Seq(Blocks), DOMAIN blocks' = DOMAIN blocks,
         \A i \in DOMAIN blocks : blocks'[i].at = blocks[i].at /\ blocks'[i].size = blocks[i].size,
         HeapFrames \subseteq HeapFrames'
  PROVE  Placed'
  <1>1. \A i \in DOMAIN blocks : EndOf(blocks'[i]) = EndOf(blocks[i])
    BY DEF EndOf
  <1>2. OnFrames(blocks', HeapFrames')
    BY <1>1 DEF Placed, OnFrames, Meets
  <1>3. AllApart(blocks')
    BY <1>1 DEF Placed, AllApart, Apart
  <1>4. LastIsFree(blocks')
    <2>1. blocks' # <<>> /\ Len(blocks') = Len(blocks) /\ Len(blocks) \in DOMAIN blocks
      BY DEF HeapTypeOK, Placed, LastIsFree
    <2>2. EndOf(Tail_block(blocks')) = EndOf(Tail_block(blocks))
      BY <1>1, <2>1 DEF Tail_block
    <2> QED BY <1>1, <2>1, <2>2 DEF Placed, LastIsFree
  <1> QED BY <1>2, <1>3, <1>4 DEF Placed

\* A block's address is its own.
LEMMA OwnAddress ==
  ASSUME NEW c \in Seq(Blocks), AllApart(c), NEW i \in DOMAIN c, NEW j \in DOMAIN c,
         DataOf(c[i]) = DataOf(c[j])
  PROVE  i = j
  <1>1. c[i].at = c[j].at
    BY BlockNumbers, KernelHeapAssumption
  <1>2. ~Apart(c[i], c[j]) /\ ~Apart(c[j], c[i])
    BY <1>1, BlockNumbers DEF Apart
  <1>3. ~(i < j) /\ ~(j < i)
    BY <1>2 DEF AllApart
  <1> QED BY <1>3

\* Granting an address nobody holds.
LEMMA Granted ==
  ASSUME NEW a \in Nat, a \notin DOMAIN granted, NEW size \in Nat,
         granted' = Granting(a, size)
  PROVE  /\ DOMAIN granted' = DOMAIN granted \cup {a}
         /\ granted'[a] = [size |-> size, holders |-> 1]
         /\ \A b \in DOMAIN granted : granted'[b] = granted[b]
  BY DEF Granting

LEMMA GrantedTypes ==
  ASSUME HeapTypeOK, NEW a \in Nat, a \notin DOMAIN granted, NEW size \in Nat,
         granted' = Granting(a, size), NEW b \in DOMAIN granted'
  PROVE  b \in Nat /\ granted'[b] \in [size : Nat, holders : Nat]
  <1>1. CASE b = a
    <2>1. granted'[a] = [size |-> size, holders |-> 1]
      BY Granted
    <2> QED BY <1>1, <2>1
  <1>2. CASE b # a
    <2>1. b \in DOMAIN granted /\ granted'[b] = granted[b]
      BY <1>2, Granted
    <2> QED BY <2>1 DEF HeapTypeOK
  <1> QED BY <1>1, <1>2

\* The chain may grow and its blocks may be put to use.
LEMMA GrantedClients ==
  ASSUME ClientsHoldTheirBlocks, NEW a \in Nat, a \notin DOMAIN granted, NEW size \in Nat,
         granted' = Granting(a, size),
         \A i \in DOMAIN blocks : /\ i \in DOMAIN blocks'
                                  /\ DataOf(blocks'[i]) = DataOf(blocks[i])
                                  /\ blocks'[i].size = blocks[i].size
                                  /\ blocks[i].magic => blocks'[i].magic
                                  /\ blocks[i].allocated => blocks'[i].allocated,
         NEW k \in DOMAIN blocks', DataOf(blocks'[k]) = a,
         blocks'[k].allocated, blocks'[k].magic, size <= blocks'[k].size
  PROVE  ClientsHoldTheirBlocks'
  <1> SUFFICES ASSUME NEW b \in DOMAIN granted'
               PROVE  /\ granted'[b].holders = 1
                      /\ \E i \in DOMAIN blocks' : /\ DataOf(blocks'[i]) = b
                                                   /\ blocks'[i].allocated /\ blocks'[i].magic
                                                   /\ granted'[b].size <= blocks'[i].size
    BY DEF ClientsHoldTheirBlocks
  <1>1. CASE b = a
    <2>1. granted'[a] = [size |-> size, holders |-> 1]
      BY Granted
    <2> QED BY <1>1, <2>1
  <1>2. CASE b # a
    <2>1. b \in DOMAIN granted /\ granted'[b] = granted[b]
      BY <1>2, Granted
    <2> QED BY <2>1 DEF ClientsHoldTheirBlocks
  <1> QED BY <1>1, <1>2

\* The two headers of a fresh heap.
LEMMA InitInv == HeapInit => HInv
  <1> SUFFICES ASSUME HeapInit PROVE HInv
    OBVIOUS
  <1> USE KernelHeapAssumption
  <1> DEFINE h == Block(0, FirstSize, FALSE, TRUE)
             n == Block(Header + FirstSize, 0, FALSE, FALSE)
  <1>1. blocks = <<h, n>> /\ h \in Blocks /\ n \in Blocks
    BY DEF HeapInit, Block, Blocks
  <1>2. /\ h.at = 0 /\ EndOf(h) = Header + FirstSize
        /\ n.at = Header + FirstSize /\ EndOf(n) = 2 * Header + FirstSize
    BY DEF Block, EndOf
  <1> HIDE DEF h, n
  <1>e. PICK u \in Nat, v \in Nat :
            /\ EndOf(h) = u /\ n.at = u /\ EndOf(n) = v
            /\ u < v /\ v < PageSize /\ v # 0
    BY <1>2
  <1>5. DOMAIN blocks = {1, 2} /\ blocks[1] = h /\ blocks[2] = n /\ Len(blocks) = 2
    BY <1>1
  <1>3. HeapTypeOK
    <2>1. blocks \in Seq(Blocks)
      BY <1>1
    <2>2. data_meta \in [Frames -> BOOLEAN]
      BY DEF HeapInit
    <2>3. granted = [a \in {} |-> 0] /\ framesTaken = {}
      BY DEF HeapInit
    <2> QED BY <2>1, <2>2, <2>3 DEF HeapTypeOK
  <1>4. 0 \in HeapFrames
    <2>1. 0 \in Frames
      BY DEF Frames
    <2>2. data_meta[0] /\ framesTaken = {}
      BY <2>1, Zenon DEF HeapInit
    <2> QED BY <2>1, <2>2 DEF HeapFrames
  <1>6. OnFrames(blocks, HeapFrames)
    <2> SUFFICES ASSUME NEW i \in {1, 2}, NEW f \in Nat, Meets(blocks[i], f)
                 PROVE  f = 0
      BY <1>4, <1>5 DEF OnFrames
    <2>1. PageSize * f < PageSize * 1
      <3>1. PageSize * f < EndOf(blocks[i])
        BY DEF Meets
      <3>2. EndOf(blocks[i]) < PageSize /\ EndOf(blocks[i]) \in Nat
        BY <1>e, <1>5
      <3>3. PageSize * f \in Nat
        BY ScaledNat
      <3> QED BY <3>1, <3>2, <3>3
    <2>2. f < 1
      BY <2>1, Scaled
    <2> QED BY <2>2
  <1>7. AllApart(blocks)
    BY <1>e, <1>5 DEF AllApart, Apart
  <1>8. LastIsFree(blocks)
    <2>1. Tail_block(blocks) = n /\ blocks # <<>>
      BY <1>1 DEF Tail_block
    <2>2. v = PageSize * 0 + v /\ v \in 0 .. PageSize - 1
      BY <1>e
    <2>3. EndOf(n) % PageSize # 0
      BY <1>e, <2>2, Multiple
    <2>4. EndOf(h) <= EndOf(n) /\ EndOf(n) <= EndOf(n)
      BY <1>e
    <2> QED BY <1>1, <1>5, <2>1, <2>3, <2>4 DEF LastIsFree
  <1>9. Marked
    BY <1>5 DEF Marked, Block, h, n
  <1>10. ClientsHoldTheirBlocks /\ TakenInUse
    BY DEF HeapInit, ClientsHoldTheirBlocks, TakenInUse
  <1> QED BY <1>3, <1>6, <1>7, <1>8, <1>9, <1>10 DEF HInv, Placed

\* Reuse moves nothing, and what is reused nobody holds.
LEMMA ReusedStep ==
  ASSUME HInv, NEW size \in RequestSizes, MallocReused(size)
  PROVE  HInv'
  <1> USE KernelHeapAssumption
  <1>1. Suitable(size) \in SUBSET Nat /\ Suitable(size) # {}
    <2>1. DOMAIN blocks \subseteq Nat
      BY DEF HInv, HeapTypeOK
    <2> QED BY <2>1 DEF Suitable, MallocReused
  <1> DEFINE k == CHOOSE i \in Suitable(size) : \A j \in Suitable(size) : i <= j
  <1>2. k \in Suitable(size)
    BY <1>1, LeastExists
  <1>3. /\ blocks' = [blocks EXCEPT ![k].allocated = TRUE]
        /\ granted' = Granting(DataOf(blocks[k]), size)
        /\ UNCHANGED <<data_meta, framesTaken>>
    BY DEF MallocReused
  <1> HIDE DEF k
  <1>4. /\ k \in DOMAIN blocks /\ ~blocks[k].allocated /\ blocks[k] \in Blocks
        /\ size <= blocks[k].size /\ size \in Nat /\ size # 0
    BY <1>2 DEF Suitable, HInv, HeapTypeOK
  <1>5. blocks[k].magic
    BY <1>4 DEF HInv, Marked, Blocks
  <1>a. PICK a \in Nat : a = DataOf(blocks[k])
    BY <1>4, BlockNumbers
  <1>6. a \notin DOMAIN granted
    BY <1>4, <1>a, OwnAddress DEF HInv, HeapTypeOK, Placed, ClientsHoldTheirBlocks
  <1>7. /\ blocks' \in Seq(Blocks) /\ DOMAIN blocks' = DOMAIN blocks
        /\ \A i \in DOMAIN blocks : /\ blocks'[i].at = blocks[i].at
                                    /\ blocks'[i].size = blocks[i].size
                                    /\ blocks'[i].magic = blocks[i].magic
                                    /\ blocks[i].allocated => blocks'[i].allocated
        /\ blocks'[k].allocated
    <2>1. [blocks[k] EXCEPT !.allocated = TRUE] \in Blocks
      BY <1>4 DEF Blocks
    <2>2. blocks' = [blocks EXCEPT ![k] = [blocks[k] EXCEPT !.allocated = TRUE]]
      BY <1>3
    <2>3. blocks \in Seq(Blocks)
      BY DEF HInv, HeapTypeOK
    <2>4. blocks' \in Seq(Blocks) /\ DOMAIN blocks' = DOMAIN blocks
      BY <1>4, <2>1, <2>2, <2>3
    <2>5. ASSUME NEW i \in DOMAIN blocks
          PROVE  /\ blocks'[i].at = blocks[i].at
                 /\ blocks'[i].size = blocks[i].size
                 /\ blocks'[i].magic = blocks[i].magic
                 /\ blocks[i].allocated => blocks'[i].allocated
      <3>1. CASE i = k
        BY <1>4, <2>2, <2>3, <3>1 DEF Blocks
      <3>2. CASE i # k
        BY <2>2, <2>3, <3>2
      <3> QED BY <3>1, <3>2
    <2>6. blocks'[k].allocated
      BY <1>4, <2>2, <2>3 DEF Blocks
    <2> QED BY <2>4, <2>5, <2>6
  <1>8. Placed'
    <2>1. HeapFrames' = HeapFrames
      BY <1>3 DEF HeapFrames
    <2> QED BY <1>7, <2>1, PlacesKept DEF HInv
  <1>9. \A i \in DOMAIN blocks : DataOf(blocks'[i]) = DataOf(blocks[i])
    BY <1>7 DEF DataOf
  <1>10. ClientsHoldTheirBlocks'
    BY <1>3, <1>4, <1>a, <1>5, <1>6, <1>7, <1>9, GrantedClients DEF HInv
  <1>11. HeapTypeOK'
    <2>1. granted' = Granting(a, size) /\ size \in Nat
      BY <1>3, <1>4, <1>a
    <2>2. \A b \in DOMAIN granted' : b \in Nat /\ granted'[b] \in [size : Nat, holders : Nat]
      BY <1>6, <2>1, GrantedTypes DEF HInv
    <2> QED BY <1>3, <1>7, <2>2 DEF HInv, HeapTypeOK
  <1>12. Marked' /\ TakenInUse'
    BY <1>3, <1>7 DEF HInv, Marked, TakenInUse
  <1> QED BY <1>8, <1>10, <1>11, <1>12 DEF HInv

\* A new block of the chain is given to a client.
LEMMA AppendedStep ==
  ASSUME HInv, NEW c \in Seq(Blocks), NEW b \in Blocks, NEW size \in Nat,
         \A i \in DOMAIN blocks : i \in DOMAIN c /\ c[i] = blocks[i],
         \A i \in DOMAIN c : c[i].magic \/ c[i].size = 0,
         b.allocated, b.magic, b.size = size,
         blocks' = Append(c, b), granted' = Granting(DataOf(b), size),
         Placed', data_meta' \in [Frames -> BOOLEAN], UNCHANGED framesTaken, TakenInUse'
  PROVE  HInv'
  <1> DEFINE k == Len(c) + 1
  <1>1. /\ blocks' \in Seq(Blocks) /\ DOMAIN blocks' = 1 .. k /\ DOMAIN c = 1 .. Len(c)
        /\ k \in DOMAIN blocks' /\ blocks'[k] = b /\ k \notin DOMAIN c
        /\ \A i \in DOMAIN c : i \in DOMAIN blocks' /\ blocks'[i] = c[i]
    BY Appended
  <1>2. PICK a \in Nat : a = DataOf(b)
    BY BlockNumbers, KernelHeapAssumption
  <1>3. \A i \in DOMAIN blocks : i \in DOMAIN blocks' /\ blocks'[i] = blocks[i] /\ i # k
    BY <1>1
  <1>4. a \notin DOMAIN granted
    <2> SUFFICES ASSUME a \in DOMAIN granted PROVE FALSE
      OBVIOUS
    <2>1. PICK i \in DOMAIN blocks : DataOf(blocks[i]) = a
      BY DEF HInv, ClientsHoldTheirBlocks
    <2>2. i \in DOMAIN blocks' /\ DataOf(blocks'[i]) = DataOf(blocks'[k]) /\ i # k
      BY <1>1, <1>2, <1>3, <2>1
    <2>3. AllApart(blocks')
      BY DEF Placed
    <2> QED BY <1>1, <2>2, <2>3, OwnAddress
  <1>5. ClientsHoldTheirBlocks'
    <2>1. granted' = Granting(a, size)
      BY <1>2
    <2>2. DataOf(blocks'[k]) = a /\ blocks'[k].allocated /\ blocks'[k].magic /\ size <= blocks'[k].size
      BY <1>1, <1>2
    <2>3. \A i \in DOMAIN blocks : /\ i \in DOMAIN blocks'
                                   /\ DataOf(blocks'[i]) = DataOf(blocks[i])
                                   /\ blocks'[i].size = blocks[i].size
                                   /\ blocks[i].magic => blocks'[i].magic
                                   /\ blocks[i].allocated => blocks'[i].allocated
      BY <1>3
    <2> HIDE DEF k
    <2> QED BY <1>1, <1>4, <2>1, <2>2, <2>3, GrantedClients DEF HInv
  <1>6. HeapTypeOK'
    <2>1. granted' = Granting(a, size)
      BY <1>2
    <2>2. \A d \in DOMAIN granted' : d \in Nat /\ granted'[d] \in [size : Nat, holders : Nat]
      BY <1>4, <2>1, GrantedTypes DEF HInv
    <2> QED BY <1>1, <2>2 DEF HInv, HeapTypeOK
  <1>7. Marked'
    BY <1>1 DEF Marked
  <1> QED BY <1>5, <1>6, <1>7 DEF HInv

\* The new block lies in the free rest of the last page.
LEMMA BehindStep ==
  ASSUME HInv, ~MayFillPage, NEW size \in RequestSizes, MallocBehindTail(size)
  PROVE  HInv'
  <1> USE KernelHeapAssumption
  <1> DEFINE b == Block(EndOf(Tail_block(blocks)), size, TRUE, TRUE)
  <1>1. blocks \in Seq(Blocks) /\ blocks # <<>> /\ LastIsFree(blocks)
    BY DEF HInv, HeapTypeOK, Placed, LastIsFree
  <1>2. Tail_block(blocks) \in Blocks
    BY <1>1 DEF Tail_block
  <1>3. PICK n \in Nat : n = EndOf(Tail_block(blocks))
    BY <1>2, BlockNumbers
  <1>4. /\ b \in Blocks /\ b.at = n /\ b.size = size /\ b.allocated /\ b.magic
        /\ EndOf(b) = n + Header + size
    BY <1>3 DEF Block, Blocks, EndOf
  <1>5. /\ EndOf(b) % PageSize # 0 /\ Header + size <= PageSize - (n % PageSize)
        /\ blocks' = Append(blocks, b) /\ granted' = Granting(DataOf(b), size)
        /\ UNCHANGED <<data_meta, framesTaken>>
    BY <1>3 DEF MallocBehindTail, FillsPage, RemainingOfPage
  <1> HIDE DEF b
  <1>6. EndOf(b) <= NextPage(b.at)
    <2>1. PICK d \in Nat : n % PageSize = d
      BY Remainder
    <2>2. NextPage(n) = n - d + PageSize
      BY <2>1 DEF NextPage
    <2> QED BY <1>4, <1>5, <2>1, <2>2
  <1>7. Placed'
    <2>1. HeapFrames' = HeapFrames
      BY <1>5 DEF HeapFrames
    <2>2. OnFrames(blocks, HeapFrames) /\ AllApart(blocks)
      BY DEF HInv, Placed
    <2>3. /\ OnFrames(Append(blocks, b), HeapFrames) /\ AllApart(Append(blocks, b))
          /\ LastIsFree(Append(blocks, b))
      BY <1>1, <1>3, <1>4, <1>5, <1>6, <2>2, AppendBehind
    <2> QED BY <1>5, <2>1, <2>3 DEF Placed
  <1>8. TakenInUse' /\ data_meta' \in [Frames -> BOOLEAN]
    BY <1>5 DEF HInv, TakenInUse, HeapTypeOK
  <1>9. \A i \in DOMAIN blocks : blocks[i].magic \/ blocks[i].size = 0
    BY DEF HInv, Marked
  <1> QED BY <1>1, <1>4, <1>5, <1>7, <1>8, <1>9, AppendedStep

\* Enough pages are taken for a block.
LEMMA PagesSuffice ==
  ASSUME NEW size \in Nat \ {0}
  PROVE  /\ PagesFor(size) \in Nat \ {0}
         /\ size + Header <= PageSize * PagesFor(size)
  <1> USE KernelHeapAssumption
  <1>1. PICK n \in Nat \ {0} : n = size + Header
    OBVIOUS
  <1>2. PICK q \in Nat, r \in 0 .. PageSize - 1 :
            n \div PageSize = q /\ n % PageSize = r /\ n = PageSize * q + r
    BY Division
  <1>3. PageSize * q \in Nat /\ PageSize * (q + 1) = PageSize * q + PageSize
    BY Scaled, ScaledNat
  <1>4. CASE r = 0
    <2>1. PagesFor(size) = q
      BY <1>1, <1>2, <1>4 DEF PagesFor
    <2>2. q # 0
      BY <1>2, <1>4
    <2> QED BY <1>1, <1>2, <1>3, <1>4, <2>1, <2>2
  <1>5. CASE r # 0
    <2>1. PagesFor(size) = q + 1
      BY <1>1, <1>2, <1>5 DEF PagesFor
    <2> QED BY <1>1, <1>2, <1>3, <2>1
  <1> QED BY <1>4, <1>5

\* Filling up the last page moves nothing and leaves the heap's pages.
LEMMA FilledChain ==
  ASSUME NEW c \in Seq(Blocks), NEW S, OnFrames(c, S), AllApart(c), LastIsFree(c),
         \A i \in DOMAIN c : c[i].magic \/ c[i].size = 0
  PROVE  /\ Filled(c) \in Seq(Blocks) /\ OnFrames(Filled(c), S) /\ AllApart(Filled(c))
         /\ \A i \in DOMAIN c : i \in DOMAIN Filled(c) /\ Filled(c)[i] = c[i]
         /\ \A i \in DOMAIN Filled(c) : Filled(c)[i].magic \/ Filled(c)[i].size = 0
  <1> USE KernelHeapAssumption
  <1>1. CASE ~(RemainingOfPage(c) >= Header + MinFiller)
    BY <1>1 DEF Filled
  <1>2. CASE RemainingOfPage(c) >= Header + MinFiller
    <2>1. Tail_block(c) \in Blocks
      BY DEF LastIsFree, Tail_block
    <2>2. PICK n \in Nat : n = EndOf(Tail_block(c))
      BY <2>1, BlockNumbers
    <2>3. PICK d \in Nat : n % PageSize = d
      BY Remainder
    <2> DEFINE b == Block(n, (PageSize - d) - Header, TRUE, TRUE)
    <2>4. PageSize - d >= Header + MinFiller
      BY <1>2, <2>2, <2>3 DEF RemainingOfPage
    <2>5. /\ b \in Blocks /\ b.at = n /\ b.magic
          /\ EndOf(b) = n + Header + ((PageSize - d) - Header)
      BY <2>4 DEF Block, Blocks, EndOf
    <2>6. Filled(c) = Append(c, b)
      BY <1>2, <2>2, <2>3 DEF Filled, RemainingOfPage
    <2> HIDE DEF b
    <2>7. EndOf(b) <= NextPage(b.at)
      <3>1. NextPage(n) = n - d + PageSize
        BY <2>3 DEF NextPage
      <3> QED BY <2>5, <3>1
    <2>8. OnFrames(Append(c, b), S) /\ AllApart(Append(c, b))
      BY <2>2, <2>5, <2>7, AppendBehind
    <2>9. \A i \in DOMAIN Append(c, b) : Append(c, b)[i].magic \/ Append(c, b)[i].size = 0
      <3> SUFFICES ASSUME NEW i \in 1 .. Len(c) + 1
                   PROVE  Append(c, b)[i].magic \/ Append(c, b)[i].size = 0
        BY <2>5, Appended
      <3>1. CASE i \in DOMAIN c
        BY <2>5, <3>1, Appended
      <3>2. CASE i = Len(c) + 1
        BY <2>5, <3>2, Appended
      <3> QED BY <2>5, <3>1, <3>2, Appended
    <2>10. Append(c, b) \in Seq(Blocks)
      BY <2>5, Appended
    <2>11. \A i \in DOMAIN c : i \in DOMAIN Append(c, b) /\ Append(c, b)[i] = c[i]
      BY <2>5, Appended
    <2> QED BY <2>6, <2>8, <2>9, <2>10, <2>11
  <1> QED BY <1>1, <1>2

\* The new block lies on pages that were free, alone.
LEMMA NewPagesStep ==
  ASSUME HInv, ~MayFillPage, NEW size \in RequestSizes, MallocOnNewPages(size)
  PROVE  HInv'
  <1> USE KernelHeapAssumption
  <1>1. PICK count \in Nat \ {0} : count = PagesFor(size) /\ size + Header <= PageSize * count
    BY PagesSuffice
  <1>2. CanAlloc(count)
    BY <1>1 DEF MallocOnNewPages
  <1>3. PICK r \in Nat : /\ r = FirstRun(count)
                         /\ \A f \in Nat : r <= f /\ f < r + count => f \in Frames /\ ~data_meta[f]
    BY <1>2, RunIsFree
  <1> DEFINE b == Block(PageSize * r, size, TRUE, TRUE)
             c == Filled(blocks)
  <1>4. PageSize * r \in Nat /\ PageSize * count \in Nat
    BY ScaledNat
  <1>5. /\ b \in Blocks /\ b.at = PageSize * r /\ b.size = size /\ b.allocated /\ b.magic
        /\ EndOf(b) = PageSize * r + Header + size
    BY <1>4 DEF Block, Blocks, EndOf
  <1>6. /\ EndOf(b) % PageSize # 0 /\ data_meta' = WithPages(r, count)
        /\ blocks' = Append(c, b) /\ granted' = Granting(DataOf(b), size)
        /\ UNCHANGED framesTaken
    BY <1>1, <1>3 DEF MallocOnNewPages, FillsPage
  <1> HIDE DEF b, c
  <1>7. EndOf(b) < PageSize * (r + count)
    <2>1. PageSize * (r + count) = PageSize * r + PageSize * count
      OBVIOUS
    <2>2. EndOf(b) # PageSize * (r + count)
      <3> SUFFICES ASSUME EndOf(b) = PageSize * (r + count) PROVE EndOf(b) % PageSize = 0
        BY <1>6
      <3>1. PICK m \in Nat : m = EndOf(b)
        BY <1>5, BlockNumbers
      <3>2. m = PageSize * (r + count) + 0 /\ r + count \in Nat
        BY <3>1
      <3> QED BY <3>1, <3>2, Multiple
    <2> QED BY <1>1, <1>4, <1>5, <2>1, <2>2
  <1>8. \A f \in Nat : r <= f /\ f < r + count => f \notin HeapFrames
    BY <1>3 DEF HeapFrames
  <1>9. blocks \in Seq(Blocks) /\ OnFrames(blocks, HeapFrames) /\ AllApart(blocks) /\ LastIsFree(blocks)
    BY DEF HInv, HeapTypeOK, Placed
  <1>10. /\ c \in Seq(Blocks) /\ OnFrames(c, HeapFrames) /\ AllApart(c)
         /\ \A i \in DOMAIN blocks : i \in DOMAIN c /\ c[i] = blocks[i]
         /\ \A i \in DOMAIN c : c[i].magic \/ c[i].size = 0
    BY <1>9, FilledChain DEF HInv, Marked, c
  <1>11. /\ AllApart(Append(c, b)) /\ LastIsFree(Append(c, b))
         /\ \A f \in Nat : Meets(b, f) => r <= f /\ f < r + count
    BY <1>5, <1>6, <1>7, <1>8, <1>10, AppendOnNew
  <1>12. /\ data_meta' \in [Frames -> BOOLEAN]
         /\ \A f \in Frames : data_meta'[f] <=> data_meta[f] \/ f \in r .. r + count - 1
    BY <1>6 DEF WithPages, HInv, HeapTypeOK
  <1>13. \A f \in HeapFrames : f \in HeapFrames'
    BY <1>6, <1>12 DEF HeapFrames
  <1>14. \A f \in Nat : r <= f /\ f < r + count => f \in HeapFrames'
    <2> SUFFICES ASSUME NEW f \in Nat, r <= f, f < r + count PROVE f \in HeapFrames'
      OBVIOUS
    <2>1. f \in Frames /\ f \notin framesTaken /\ f \in r .. r + count - 1
      BY <1>3 DEF HInv, TakenInUse
    <2> QED BY <1>6, <1>12, <2>1 DEF HeapFrames
  <1>15. OnFrames(Append(c, b), HeapFrames')
    <2>1. OnFrames(c, HeapFrames')
      BY <1>10, <1>13 DEF OnFrames
    <2>2. \A f \in Nat : Meets(b, f) => f \in HeapFrames'
      BY <1>11, <1>14
    <2> QED BY <1>5, <1>10, <2>1, <2>2, AppendOn
  <1>16. Placed'
    BY <1>6, <1>11, <1>15 DEF Placed
  <1>17. TakenInUse'
    BY <1>6, <1>12 DEF HInv, TakenInUse, HeapTypeOK
  <1> QED BY <1>5, <1>6, <1>10, <1>12, <1>16, <1>17, AppendedStep

\* Only the client's own block is freed.
LEMMA FreeStep ==
  ASSUME HInv, NEW a \in DOMAIN granted, Kfree(a)
  PROVE  HInv'
  <1>1. blocks \in Seq(Blocks)
    BY DEF HInv, HeapTypeOK
  <1>2. /\ blocks' = [i \in DOMAIN blocks |->
                         IF DataOf(blocks[i]) = a THEN [blocks[i] EXCEPT !.allocated = FALSE]
                         ELSE blocks[i]]
        /\ granted' = [b \in DOMAIN granted \ {a} |-> granted[b]]
        /\ UNCHANGED <<data_meta, framesTaken>>
    BY DEF Kfree
  <1>3. DOMAIN blocks' = DOMAIN blocks
    BY <1>2
  <1>4. ASSUME NEW i \in DOMAIN blocks
        PROVE  /\ blocks'[i] \in Blocks
               /\ blocks'[i].at = blocks[i].at /\ blocks'[i].size = blocks[i].size
               /\ blocks'[i].magic = blocks[i].magic
               /\ DataOf(blocks[i]) # a => blocks'[i] = blocks[i]
    <2>1. blocks[i] \in Blocks
      BY <1>1
    <2>2. CASE DataOf(blocks[i]) = a
      <3>1. blocks'[i] = [blocks[i] EXCEPT !.allocated = FALSE]
        BY <1>2, <2>2
      <3> QED BY <2>1, <2>2, <3>1 DEF Blocks
    <2>3. CASE DataOf(blocks[i]) # a
      BY <1>2, <2>1, <2>3
    <2> QED BY <2>2, <2>3
  <1>5. blocks' \in Seq(Blocks)
    <2>1. DOMAIN blocks = 1 .. Len(blocks) /\ Len(blocks) \in Nat
      BY <1>1
    <2>2. blocks' \in [1 .. Len(blocks) -> Blocks]
      BY <1>2, <1>3, <1>4, <2>1
    <2> QED BY <2>1, <2>2
  <1>6. Placed'
    <2>1. HeapFrames' = HeapFrames
      BY <1>2 DEF HeapFrames
    <2> QED BY <1>3, <1>4, <1>5, <2>1, PlacesKept DEF HInv
  <1>7. DOMAIN granted' = DOMAIN granted \ {a} /\ \A b \in DOMAIN granted' : granted'[b] = granted[b]
    BY <1>2
  <1>8. HeapTypeOK'
    BY <1>2, <1>5, <1>7 DEF HInv, HeapTypeOK
  <1>9. ClientsHoldTheirBlocks'
    <2> SUFFICES ASSUME NEW b \in DOMAIN granted'
                 PROVE  /\ granted'[b].holders = 1
                        /\ \E i \in DOMAIN blocks' : /\ DataOf(blocks'[i]) = b
                                                     /\ blocks'[i].allocated /\ blocks'[i].magic
                                                     /\ granted'[b].size <= blocks'[i].size
      BY DEF ClientsHoldTheirBlocks
    <2>1. b \in DOMAIN granted /\ b # a /\ granted'[b] = granted[b]
      BY <1>7
    <2>2. PICK i \in DOMAIN blocks : /\ DataOf(blocks[i]) = b
                                     /\ blocks[i].allocated /\ blocks[i].magic
                                     /\ granted[b].size <= blocks[i].size
      BY <2>1 DEF HInv, ClientsHoldTheirBlocks
    <2>3. granted[b].holders = 1
      BY <2>1 DEF HInv, ClientsHoldTheirBlocks
    <2>4. i \in DOMAIN blocks' /\ blocks'[i] = blocks[i]
      BY <1>3, <1>4, <2>1, <2>2
    <2> QED BY <2>1, <2>2, <2>3, <2>4
  <1>10. Marked' /\ TakenInUse'
    BY <1>2, <1>3, <1>4 DEF HInv, Marked, TakenInUse
  <1> QED BY <1>6, <1>8, <1>9, <1>10 DEF HInv

\* Others take and give back pages: the heap's own stay.
LEMMA PagesStep ==
  ASSUME HInv, UNCHANGED <<blocks, granted>>, HeapFrames \subseteq HeapFrames',
         data_meta' \in [Frames -> BOOLEAN], framesTaken' \subseteq Frames, TakenInUse'
  PROVE  HInv'
  <1>1. Placed'
    BY PlacesKept DEF HInv, HeapTypeOK
  <1>2. HeapTypeOK' /\ Marked' /\ ClientsHoldTheirBlocks'
    BY DEF HInv, HeapTypeOK, Marked, ClientsHoldTheirBlocks
  <1> QED BY <1>1, <1>2 DEF HInv

LEMMA TakeStep ==
  ASSUME HInv, NEW count \in 1 .. 2, TakePages(count)
  PROVE  HInv'
  <1>1. PICK r \in Nat : /\ r = FirstRun(count)
                         /\ \A f \in Nat : r <= f /\ f < r + count => f \in Frames /\ ~data_meta[f]
    BY RunIsFree DEF TakePages
  <1>2. /\ data_meta' = WithPages(r, count) /\ UNCHANGED <<blocks, granted>>
        /\ framesTaken' = framesTaken \cup (r .. r + count - 1)
    BY <1>1 DEF TakePages
  <1>3. \A f \in r .. r + count - 1 : f \in Frames /\ ~data_meta[f]
    BY <1>1
  <1>4. /\ data_meta' \in [Frames -> BOOLEAN]
        /\ \A f \in Frames : data_meta'[f] <=> data_meta[f] \/ f \in r .. r + count - 1
    BY <1>2 DEF WithPages, HInv, HeapTypeOK
  <1>5. framesTaken' \subseteq Frames
    BY <1>2, <1>3 DEF HInv, HeapTypeOK
  <1>6. TakenInUse'
    BY <1>2, <1>4, <1>5 DEF HInv, TakenInUse
  <1>7. HeapFrames \subseteq HeapFrames'
    BY <1>2, <1>3, <1>4 DEF HeapFrames
  <1> QED BY <1>2, <1>4, <1>5, <1>6, <1>7, PagesStep

LEMMA GiveBackStep ==
  ASSUME HInv, NEW f \in framesTaken, FreePhysicalPage(f)
  PROVE  HInv'
  <1>1. /\ data_meta' = [data_meta EXCEPT ![f] = FALSE] /\ framesTaken' = framesTaken \ {f}
        /\ UNCHANGED <<blocks, granted>>
    BY DEF FreePhysicalPage
  <1>2. data_meta' \in [Frames -> BOOLEAN] /\ \A g \in Frames \ {f} : data_meta'[g] = data_meta[g]
    BY <1>1 DEF HInv, HeapTypeOK
  <1>3. framesTaken' \subseteq Frames /\ TakenInUse'
    BY <1>1, <1>2 DEF HInv, HeapTypeOK, TakenInUse
  <1>4. HeapFrames \subseteq HeapFrames'
    BY <1>1, <1>2 DEF HeapFrames
  <1> QED BY <1>1, <1>2, <1>3, <1>4, PagesStep

LEMMA StepInv == ~MayFillPage /\ HInv /\ [HeapNext]_heapVars => HInv'
  <1> SUFFICES ASSUME ~MayFillPage, HInv, [HeapNext]_heapVars PROVE HInv'
    OBVIOUS
  <1>1. CASE \E size \in RequestSizes : Kmalloc(size)
    BY <1>1, ReusedStep, BehindStep, NewPagesStep DEF Kmalloc
  <1>2. CASE \E a \in DOMAIN granted : Kfree(a)
    BY <1>2, FreeStep
  <1>3. CASE \E count \in 1 .. 2 : TakePages(count)
    BY <1>3, TakeStep
  <1>4. CASE \E f \in framesTaken : FreePhysicalPage(f)
    BY <1>4, GiveBackStep
  <1>5. CASE UNCHANGED heapVars
    <2>1. UNCHANGED <<blocks, granted, data_meta, framesTaken>>
      BY <1>5 DEF heapVars
    <2>2. HeapFrames' = HeapFrames
      BY <2>1 DEF HeapFrames
    <2> QED BY <2>1, <2>2, PagesStep DEF HInv, HeapTypeOK, TakenInUse
  <1> QED BY <1>1, <1>2, <1>3, <1>4, <1>5 DEF HeapNext

LEMMA InvariantHolds == ~MayFillPage /\ HeapSpec => []HInv
  <1>1. CASE ~MayFillPage
    <2>1. HInv /\ [HeapNext]_heapVars => HInv'
      BY <1>1, StepInv
    <2> QED BY <2>1, InitInv, PTL DEF HeapSpec
  <1> QED BY <1>1
-----------------------------------------------------------------------------
(***************************************************************************)
(* The theorems.                                                           *)
(***************************************************************************)

\* Pages, blocks and what clients hold are always well formed, for every page
\* size, header, slack and set of requests.
THEOREM HeapTypesKept == ~MayFillPage /\ HeapSpec => []HeapTypeOK
  <1>1. HInv => HeapTypeOK
    BY DEF HInv
  <1> QED BY <1>1, InvariantHolds, PTL

\* kmalloc never lays a block over another, nor on a page that somebody else
\* took from the allocator, as long as no block ends with its page.
THEOREM HeapBlocksApart == ~MayFillPage /\ HeapSpec => []BlocksAreDisjoint
  <1>1. HInv => BlocksAreDisjoint
    <2> SUFFICES ASSUME HInv PROVE BlocksAreDisjoint
      OBVIOUS
    <2>1. \A i, j \in DOMAIN blocks :
              i < j => EndOf(blocks[i]) <= blocks[j].at \/ EndOf(blocks[j]) <= blocks[i].at
      BY DEF HInv, Placed, AllApart, Apart
    <2>2. ASSUME NEW i \in DOMAIN blocks, NEW f \in PagesIn(blocks[i].at, EndOf(blocks[i]))
          PROVE  f \in Frames /\ data_meta[f] /\ f \notin framesTaken
      <3>1. blocks[i] \in Blocks
        BY DEF HInv, HeapTypeOK
      <3>2. f \in Nat /\ Meets(blocks[i], f)
        BY <3>1, PagesMet
      <3>3. f \in HeapFrames
        BY <3>2 DEF HInv, Placed, OnFrames
      <3> QED BY <3>3 DEF HeapFrames
    <2> QED BY <2>1, <2>2 DEF BlocksAreDisjoint, BlocksFitTheirPages
  <1> QED BY <1>1, InvariantHolds, PTL

\* What kmalloc returns is in use, large enough and nobody else's, and kfree
\* accepts it.
THEOREM ClientsServed == ~MayFillPage /\ HeapSpec => []ClientsHoldTheirBlocks
  <1>1. HInv => ClientsHoldTheirBlocks
    BY DEF HInv
  <1> QED BY <1>1, InvariantHolds, PTL

-------------------------------------------------------------------------------
(***************************************************************************)
(* Copies to and from a program, for every size of a page, address and     *)
(* number of bytes.  A copy is cut into pieces that lie in a page each; at *)
(* least as many pages are checked as there are pieces.                    *)
(***************************************************************************)

\* The shape of a copy of size bytes at va: its pages are a to a + w, and one
\* more if l bytes are left.
Shape(va, size, a, w, l) ==
    /\ PageOf(va) = a /\ WholePages(va, size) = w /\ InLast(va, size) = l
    /\ a \in Nat /\ w \in Nat /\ l \in Nat

\* At least as many pages are checked as a copy has pieces.
LEMMA PagesChecked ==
  ASSUME MemoryCopyAssumption, NEW va \in Nat, NEW size \in Nat \ {0}
  PROVE  \E a, w, l, n \in Nat :
            /\ Shape(va, size, a, w, l) /\ CheckedPages(va, size) = n
            /\ n >= 1 + w /\ (l # 0 => n >= 2 + w)
  <1> DEFINE p == PageBytes
  <1>0. p \in Nat \ {0}
    BY DEF MemoryCopyAssumption
  <1>1. PICK a \in Nat, o \in 0 .. p - 1 : va \div p = a /\ va % p = o /\ va = p * a + o
    BY <1>0, DivMod
  <1>2. PICK d \in Nat, r \in 0 .. p - 1 : size \div p = d /\ size % p = r /\ size = p * d + r
    BY <1>0, DivMod
  <1>3. PICK e \in Nat, t \in 0 .. p - 1 :
            (va + size) \div p = e /\ (va + size) % p = t /\ va + size = p * e + t
    BY <1>0, DivMod
  <1>4. PICK x, y \in Nat : x = p * a /\ y = p * d
    BY <1>0, ScaledNat
  <1>5. PICK n \in Nat : n = d + (IF o # 0 THEN 1 ELSE 0) + (IF t # 0 THEN 1 ELSE 0)
    OBVIOUS
  <1>6. CheckedPages(va, size) = n /\ PageOf(va) = a /\ Offset(va) = o
    BY <1>1, <1>2, <1>3, <1>5 DEF CheckedPages, PageOf, Offset
  <1> HIDE DEF p
  <1>7. CASE size <= p - o
    <2>1. InFirst(va, size) = size
      BY <1>0, <1>6, <1>7 DEF InFirst, Lesser, p
    <2>2. WholePages(va, size) = 0 \div p /\ InLast(va, size) = 0 % p
      BY <2>1 DEF WholePages, InLast, p
    <2>3. 0 = p * 0 + 0
      BY <1>0
    <2>4. 0 % p = 0 /\ 0 \div p = 0
      BY <1>0, <2>3, Multiple
    <2>5. n >= 1
      <3> SUFFICES ASSUME n = 0 PROVE FALSE
        OBVIOUS
      <3>1. d = 0 /\ o = 0 /\ t = 0
        BY <1>5
      <3>2. y = 0 /\ r = size
        BY <1>0, <1>2, <1>4, <3>1
      <3>3. va + size = p * a + size
        BY <1>1, <1>4, <3>1
      <3>4. size % p = size /\ (va + size) % p = size
        <4>1. va + size \in Nat /\ size \in 0 .. p - 1
          BY <3>2
        <4> QED
          BY <1>0, <1>2, <3>2, <3>3, <4>1, Multiple
      <3> QED
        BY <1>3, <3>1, <3>4
    <2> QED
      BY <1>6, <2>2, <2>4, <2>5 DEF Shape
  <1>8. CASE size > p - o
    <2>1. InFirst(va, size) = p - o
      BY <1>0, <1>6, <1>8 DEF InFirst, Lesser, p
    <2>2. PICK rest \in Nat : rest = size - (p - o)
      BY <1>0, <1>8
    <2>3. PICK w \in Nat, l \in 0 .. p - 1 : rest \div p = w /\ rest % p = l /\ rest = p * w + l
      BY <1>0, DivMod
    <2>4. WholePages(va, size) = w /\ InLast(va, size) = l
      BY <2>1, <2>2, <2>3 DEF WholePages, InLast, p
    <2>5. PICK z \in Nat : z = p * w
      BY <1>0, ScaledNat
    <2>6. t = l
      <3>1. p * ((a + 1) + w) = x + p + z
        <4>1. p * ((a + 1) + w) = p * (a + 1) + p * w
          BY <1>0
        <4> QED
          BY <1>0, <1>4, <2>5, <4>1, Scaled
      <3>2. va + size = p * ((a + 1) + w) + l
        BY <1>0, <1>1, <1>4, <2>2, <2>3, <2>5, <3>1
      <3>3. PICK m \in Nat, k \in Nat : m = va + size /\ k = (a + 1) + w
        OBVIOUS
      <3>4. m = p * k + l
        BY <3>2, <3>3
      <3>5. m % p = l
        BY <1>0, <2>3, <3>4, Multiple
      <3> QED
        BY <1>3, <3>3, <3>5
    <2>7. d >= w /\ (o = 0 => d >= w + 1)
      <3>1. size = z + l + p - o
        BY <1>0, <2>2, <2>3, <2>5
      <3>2. size = y + r
        BY <1>2, <1>4
      <3>3. ASSUME d < w PROVE FALSE
        <4>1. p * (d + 1) <= p * w /\ p * (d + 1) = p * d + p
          BY <1>0, <3>3, Scaled
        <4>2. y + p <= z
          BY <1>4, <2>5, <4>1
        <4> QED
          BY <1>0, <3>1, <3>2, <4>2
      <3>4. ASSUME o = 0, d < w + 1 PROVE FALSE
        <4>1. p * (d + 1) <= p * (w + 1) /\ p * (d + 1) = p * d + p /\ p * (w + 1) = p * w + p
          BY <1>0, <3>4, Scaled
        <4>2. y + p <= z + p
          BY <1>4, <2>5, <4>1
        <4> QED
          BY <1>0, <3>1, <3>2, <3>4, <4>2
      <3> QED
        BY <3>3, <3>4
    <2>8. n >= 1 + w /\ (l # 0 => n >= 2 + w)
      BY <1>5, <2>6, <2>7
    <2> QED
      BY <1>6, <2>4, <2>8 DEF Shape
  <1> QED
    BY <1>0, <1>7, <1>8

\* One sequence behind another.
LEMMA TwoJoined ==
  ASSUME NEW S, NEW f \in Seq(S), NEW g \in Seq(S)
  PROVE  /\ f \o g \in Seq(S) /\ Len(f \o g) = Len(f) + Len(g)
         /\ \A i \in 1 .. Len(f) : (f \o g)[i] = f[i]
         /\ \A i \in 1 .. Len(g) : (f \o g)[Len(f) + i] = g[i]
  <1>1. f \o g \in Seq(S) /\ Len(f \o g) = Len(f) + Len(g)
    OBVIOUS
  <1>2. \A i \in 1 .. Len(f) : (f \o g)[i] = f[i]
    OBVIOUS
  <1>3. \A i \in 1 .. Len(g) : (f \o g)[Len(f) + i] = g[i]
    OBVIOUS
  <1> QED
    BY <1>1, <1>2, <1>3

\* Three sequences, one behind another.
LEMMA ThreeJoined ==
  ASSUME NEW S, NEW f \in Seq(S), NEW g \in Seq(S), NEW h \in Seq(S)
  PROVE  /\ (f \o g) \o h \in Seq(S) /\ Len((f \o g) \o h) = Len(f) + Len(g) + Len(h)
         /\ \A i \in 1 .. Len(f) : ((f \o g) \o h)[i] = f[i]
         /\ \A i \in 1 .. Len(g) : ((f \o g) \o h)[Len(f) + i] = g[i]
         /\ \A i \in 1 .. Len(h) : ((f \o g) \o h)[Len(f) + Len(g) + i] = h[i]
  <1> DEFINE both == f \o g
             j == both \o h
  <1>1. /\ both \in Seq(S) /\ Len(both) = Len(f) + Len(g)
        /\ \A i \in 1 .. Len(f) : both[i] = f[i]
        /\ \A i \in 1 .. Len(g) : both[Len(f) + i] = g[i]
    BY TwoJoined
  <1> HIDE DEF both
  <1>3. /\ j \in Seq(S) /\ Len(j) = Len(both) + Len(h)
        /\ \A i \in 1 .. Len(both) : j[i] = both[i]
        /\ \A i \in 1 .. Len(h) : j[Len(both) + i] = h[i]
    <2>1. both \in Seq(S)
      BY <1>1
    <2> QED
      BY <2>1, TwoJoined
  <1> HIDE DEF j
  <1>4. Len(f) \in Nat /\ Len(g) \in Nat
    OBVIOUS
  <1>5. ASSUME NEW i \in 1 .. Len(g) PROVE j[Len(f) + i] = g[i]
    <2>1. Len(f) + i \in 1 .. Len(both)
      BY <1>1, <1>4
    <2> QED
      BY <1>1, <1>3, <2>1
  <1>6. \A i \in 1 .. Len(f) : j[i] = f[i]
    BY <1>1, <1>3, <1>4
  <1>7. \A i \in 1 .. Len(h) : j[Len(f) + Len(g) + i] = h[i]
    BY <1>1, <1>3
  <1> QED
    BY <1>1, <1>3, <1>5, <1>6, <1>7 DEF j, both

\* The pieces of a copy of Shape(va, size, a, w, l), and how many they are.
PiecesOf(a, w, l, o, f, k) ==
    IF k = 1 THEN [page |-> a, offset |-> o, count |-> f]
    ELSE IF k <= 1 + w THEN [page |-> a + (k - 1), offset |-> 0, count |-> PageBytes]
    ELSE [page |-> a + w + 1, offset |-> o, count |-> l]

Count(w, l) == IF l = 0 THEN 1 + w ELSE 2 + w

LEMMA PiecesAre ==
  ASSUME NEW va, NEW size, NEW a, NEW w, NEW l, Shape(va, size, a, w, l)
  PROVE  /\ DOMAIN Pieces(va, size) = 1 .. Count(w, l)
         /\ Len(Pieces(va, size)) = Count(w, l)
         /\ \A i \in 1 .. Count(w, l) :
              Pieces(va, size)[i]
                = PiecesOf(a, w, l, Offset(va), InFirst(va, size), i)
  <1> DEFINE first == <<[page |-> PageOf(va), offset |-> Offset(va), count |-> InFirst(va, size)]>>
             whole == [j \in 1 .. w |-> [page |-> PageOf(va) + j, offset |-> 0, count |-> PageBytes]]
             last == IF l = 0 THEN <<>>
                     ELSE <<[page |-> PageOf(va) + w + 1, offset |-> Offset(va), count |-> l]>>
             P(i) == PiecesOf(a, w, l, Offset(va), InFirst(va, size), i)
             S == {P(i) : i \in 1 .. w + 2}
  <1>1. w \in Nat /\ a \in Nat /\ l \in Nat /\ PageOf(va) = a
    BY DEF Shape
  <1>2. Pieces(va, size) = first \o whole \o last
    BY DEF Pieces, Shape
  <1>3. first \in Seq(S) /\ Len(first) = 1 /\ first[1] = P(1)
    <2>1. first = <<P(1)>>
      BY <1>1 DEF PiecesOf
    <2>2. P(1) \in S
      BY <1>1
    <2> HIDE DEF first, S, P
    <2> DEFINE e == P(1)
    <2>3. <<e>> \in Seq(S) /\ Len(<<e>>) = 1 /\ <<e>>[1] = e
      BY <2>2
    <2> QED
      BY <2>1, <2>3
  <1>4. whole \in Seq(S) /\ Len(whole) = w /\ \A j \in 1 .. w : whole[j] = P(1 + j)
    <2>1. \A j \in 1 .. w : whole[j] = [page |-> a + j, offset |-> 0, count |-> PageBytes]
      BY <1>1
    <2>2. ASSUME NEW j \in 1 .. w PROVE P(1 + j) = [page |-> a + j, offset |-> 0, count |-> PageBytes]
      <3>1. 1 + j # 1 /\ 1 + j <= 1 + w /\ (1 + j) - 1 = j
        BY <1>1
      <3> QED
        BY <3>1 DEF PiecesOf
    <2>3. \A j \in 1 .. w : 1 + j \in 1 .. w + 2
      BY <1>1
    <2>4. whole = [j \in 1 .. w |-> whole[j]]
      OBVIOUS
    <2>5. \A j \in 1 .. w : whole[j] = P(1 + j)
      BY <2>1, <2>2
    <2>6. \A j \in 1 .. w : P(1 + j) \in S
      BY <2>3
    <2> HIDE DEF whole, S, P
    <2> QED
      BY <1>1, <2>4, <2>5, <2>6
  <1>5. /\ last \in Seq(S) /\ Len(last) = Count(w, l) - (1 + w)
        /\ l # 0 => last[1] = P(2 + w)
    <2> HIDE DEF first, whole
    <2>1. CASE l = 0
      <3>1. last = <<>>
        BY <2>1
      <3> HIDE DEF last, S
      <3> QED
        BY <1>1, <2>1, <3>1 DEF Count
    <2>2. CASE l # 0
      <3>1. last = <<last[1]>> /\ last[1] = [page |-> a + w + 1, offset |-> Offset(va), count |-> l]
        BY <1>1, <2>2
      <3>2. P(2 + w) = last[1]
        <4>1. 2 + w # 1 /\ ~(2 + w <= 1 + w)
          BY <1>1
        <4> QED
          BY <3>1, <4>1 DEF PiecesOf
      <3>3. P(2 + w) \in S
        BY <1>1
      <3> HIDE DEF last, S, P
      <3> DEFINE e == P(2 + w)
      <3>4. <<e>> \in Seq(S) /\ Len(<<e>>) = 1 /\ <<e>>[1] = e
        BY <3>3
      <3>5. last = <<e>>
        BY <3>1, <3>2
      <3>6. Count(w, l) - (1 + w) = 1
        BY <1>1, <2>2 DEF Count
      <3> QED
        BY <3>4, <3>5, <3>6
    <2> QED
      BY <2>1, <2>2
  <1> HIDE DEF first, whole, last, S, P
  <1> DEFINE all == (first \o whole) \o last
  <1>6. /\ all \in Seq(S) /\ Len(all) = Len(first) + Len(whole) + Len(last)
        /\ \A j \in 1 .. Len(first) : all[j] = first[j]
        /\ \A j \in 1 .. Len(whole) : all[Len(first) + j] = whole[j]
        /\ \A j \in 1 .. Len(last) : all[Len(first) + Len(whole) + j] = last[j]
    <2>1. first \in Seq(S) /\ whole \in Seq(S) /\ last \in Seq(S)
      BY <1>3, <1>4, <1>5
    <2>2. all \in Seq(S) /\ Len(all) = Len(first) + Len(whole) + Len(last)
      BY <2>1, ThreeJoined
    <2>3. \A j \in 1 .. Len(first) : all[j] = first[j]
      BY <2>1, ThreeJoined
    <2>4. \A j \in 1 .. Len(whole) : all[Len(first) + j] = whole[j]
      BY <2>1, ThreeJoined
    <2>5. \A j \in 1 .. Len(last) : all[Len(first) + Len(whole) + j] = last[j]
      BY <2>1, ThreeJoined
    <2> HIDE DEF all
    <2> QED
      BY <2>2, <2>3, <2>4, <2>5
  <1> HIDE DEF all
  <1>7. Count(w, l) \in Nat /\ Count(w, l) = IF l = 0 THEN 1 + w ELSE 2 + w
    BY <1>1 DEF Count
  <1>8. Len(all) = Count(w, l) /\ DOMAIN all = 1 .. Count(w, l)
    BY <1>1, <1>3, <1>4, <1>5, <1>6, <1>7
  <1>9. ASSUME NEW i \in 1 .. Count(w, l) PROVE all[i] = P(i)
    <2>1. CASE i = 1
      BY <1>3, <1>6, <2>1
    <2>2. CASE i \in 2 .. 1 + w
      <3>1. i - 1 \in 1 .. w /\ 1 + (i - 1) = i
        BY <1>1, <2>2
      <3> QED
        BY <1>3, <1>4, <1>6, <3>1
    <2>3. CASE i = 2 + w /\ l # 0
      <3>1. Len(last) = 1 /\ Len(first) + Len(whole) + 1 = i /\ i = 2 + w
        BY <1>1, <1>3, <1>4, <1>5, <1>7, <2>3
      <3>2. all[i] = last[1]
        BY <1>6, <3>1
      <3> QED
        BY <1>5, <2>3, <3>1, <3>2
    <2> QED
      BY <1>1, <1>7, <2>1, <2>2, <2>3
  <1> QED
    BY <1>2, <1>8, <1>9 DEF all, P

\* The pages of the pieces.
LEMMA PiecePages ==
  ASSUME NEW va, NEW size, NEW a, NEW w, NEW l, Shape(va, size, a, w, l),
         NEW i \in DOMAIN Pieces(va, size)
  PROVE  \E k \in 0 .. (IF l = 0 THEN w ELSE w + 1) : Pieces(va, size)[i].page = a + k
  <1>1. w \in Nat /\ a \in Nat /\ l \in Nat
    BY DEF Shape
  <1>2. i \in 1 .. Count(w, l) /\ Count(w, l) = IF l = 0 THEN 1 + w ELSE 2 + w
    BY PiecesAre DEF Count
  <1>3. Pieces(va, size)[i] = PiecesOf(a, w, l, Offset(va), InFirst(va, size), i)
    BY <1>2, PiecesAre
  <1>4. Pieces(va, size)[i].page = a + (i - 1)
    BY <1>1, <1>2, <1>3 DEF PiecesOf
  <1> QED
    BY <1>1, <1>2, <1>4

\* A write that is not refused uses no page that was not looked at.
LEMMA WriteChecked ==
  ASSUME MemoryCopyAssumption, NEW va \in Nat, NEW size \in Nat \ {0}, NEW kernel,
         Writable(va, size, kernel), NEW i \in DOMAIN Pieces(va, size)
  PROVE  LET v == Pieces(va, size)[i].page
         IN  FetchPage(v) # NoTable /\ v < PageOf(va) + CheckedPages(va, size)
  <1>1. PICK a, w, l, n \in Nat :
            /\ Shape(va, size, a, w, l) /\ CheckedPages(va, size) = n
            /\ n >= 1 + w /\ (l # 0 => n >= 2 + w)
    BY PagesChecked
  <1>2. PICK k \in 0 .. (IF l = 0 THEN w ELSE w + 1) : Pieces(va, size)[i].page = a + k
    BY <1>1, PiecePages
  <1>3. k \in 0 .. n - 1 /\ PageOf(va) = a
    BY <1>1, <1>2 DEF Shape
  <1>4. FetchPage(a + k) # NoTable
    BY <1>1, <1>3 DEF Writable
  <1> QED
    BY <1>1, <1>2, <1>3, <1>4

-----------------------------------------------------------------------------
(***************************************************************************)
(* What is copied, for every size of a page and of a copy, and whatever    *)
(* pages the process has.  Piece by piece, the addresses of a copy are     *)
(* those of the next bytes of the process.                                 *)
(***************************************************************************)

\* How many bytes lie in the first page, in whole ones and in the last one.
LEMMA CopyParts ==
  ASSUME MemoryCopyAssumption, NEW va \in Nat, NEW size \in Nat \ {0}
  PROVE  \E a, o, f, w, l, z \in Nat :
            /\ Shape(va, size, a, w, l)
            /\ Offset(va) = o /\ InFirst(va, size) = f
            /\ o < PageBytes /\ va = PageBytes * a + o
            /\ f > 0 /\ f <= PageBytes - o
            /\ l < PageBytes
            /\ z = PageBytes * w /\ size = f + z + l
            /\ w # 0 \/ l # 0 => f = PageBytes - o
  <1> DEFINE p == PageBytes
  <1>0. p \in Nat \ {0}
    BY DEF MemoryCopyAssumption
  <1>1. PICK a \in Nat, o \in 0 .. p - 1 : va \div p = a /\ va % p = o /\ va = p * a + o
    BY <1>0, DivMod
  <1>2. PageOf(va) = a /\ Offset(va) = o
    BY <1>1 DEF PageOf, Offset
  <1> HIDE DEF p
  <1>3. PICK f \in Nat : /\ f = IF size < p - o THEN size ELSE p - o
                         /\ f > 0 /\ f <= size /\ f <= p - o
    BY <1>0
  <1>4. InFirst(va, size) = f
    BY <1>2, <1>3 DEF InFirst, Lesser, p
  <1>5. PICK rest \in Nat : rest = size - f
    BY <1>3
  <1>6. PICK w \in Nat, l \in 0 .. p - 1 : rest \div p = w /\ rest % p = l /\ rest = p * w + l
    BY <1>0, DivMod
  <1>7. WholePages(va, size) = w /\ InLast(va, size) = l
    BY <1>4, <1>5, <1>6 DEF WholePages, InLast, p
  <1>8. PICK z \in Nat : z = p * w
    BY <1>0, ScaledNat
  <1>9. rest = z + l /\ size = f + z + l
    BY <1>5, <1>6, <1>8
  <1>10. w # 0 \/ l # 0 => f = p - o
    <2>1. ASSUME f = size PROVE z = 0 /\ l = 0
      BY <1>9, <2>1
    <2>2. ASSUME z = 0 PROVE w = 0
      <3>1. w >= 1 => p * 1 <= p * w /\ p * 1 = p
        BY <1>0, Scaled
      <3> QED
        BY <1>0, <1>8, <2>2, <3>1
    <2> QED
      BY <1>3, <2>1, <2>2
  <1>11. Shape(va, size, a, w, l)
    BY <1>2, <1>7 DEF Shape
  <1>12. o \in Nat /\ o < p /\ l \in Nat /\ l < p
    BY <1>0
  <1> QED
    BY <1>1, <1>2, <1>3, <1>4, <1>8, <1>9, <1>10, <1>11, <1>12, Zenon DEF p

\* Where a byte lies.
Lies(va, i, k, r) ==
    /\ k \in Nat /\ r \in 0 .. PageBytes - 1
    /\ va + i - 1 \in Nat /\ va + i - 1 = PageBytes * k + r

LEMMA ByteAt ==
  ASSUME MemoryCopyAssumption, NEW va, NEW i, NEW k, NEW r, Lies(va, i, k, r)
  PROVE  HomeOf(va, i) = FrameOf(k) * PageBytes + r
  <1> DEFINE n == va + i - 1
  <1>1. PageBytes \in Nat \ {0}
    BY DEF MemoryCopyAssumption
  <1>2. n % PageBytes = r /\ n \div PageBytes = k
    <2>1. /\ k \in Nat /\ r \in 0 .. PageBytes - 1
          /\ n \in Nat /\ n = PageBytes * k + r
      BY DEF Lies
    <2> HIDE DEF n
    <2> QED
      BY <1>1, <2>1, Multiple
  <1> QED
    BY <1>2 DEF HomeOf, PageOf, Offset

\* A piece that begins in page k holds the bytes from there on.
Begins(va, b, k, r, c) ==
    /\ b \in Nat /\ k \in Nat /\ r \in 0 .. PageBytes - 1
    /\ c \in 0 .. PageBytes - r
    /\ va + b = PageBytes * k + r

LEMMA PieceHolds ==
  ASSUME MemoryCopyAssumption, \A v \in Nat : FrameOf(v) \in Nat, NEW va \in Nat,
         NEW b, NEW k, NEW r, NEW c, Begins(va, b, k, r, c),
         NEW x, x = [page |-> k, offset |-> r, count |-> c]
  PROVE  \A i \in 1 .. c : PieceAt(x)[i] = HomeOf(va, b + i)
  <1> DEFINE p == PageBytes
  <1>0. /\ p \in Nat \ {0}
        /\ b \in Nat /\ k \in Nat /\ r \in 0 .. p - 1 /\ c \in 0 .. p - r
        /\ va + b = p * k + r
    BY DEF MemoryCopyAssumption, Begins
  <1>1. PICK y \in Nat : y = p * k
    BY <1>0, ScaledNat
  <1>2. PICK h \in Nat : h = FrameOf(k) * p
    <2>1. FrameOf(k) \in Nat
      BY <1>0
    <2> QED
      BY <1>0, <2>1
  <1> SUFFICES ASSUME NEW i \in 1 .. c PROVE PieceAt(x)[i] = HomeOf(va, b + i)
    OBVIOUS
  <1>3. x.count = c /\ x.page = k /\ x.offset = r
    OBVIOUS
  <1>4. PieceAt(x)[i] = FrameOf(k) * p + r + i - 1
    BY <1>3 DEF PieceAt
  <1> HIDE DEF p
  <1>5. PICK s \in 0 .. p - 1 : s = r + i - 1
    BY <1>0 DEF p
  <1>6. PICK j \in Nat \ {0} : j = b + i
    BY <1>0
  <1>7. va + j - 1 = p * k + s
    BY <1>0, <1>1, <1>5, <1>6
  <1>8. HomeOf(va, j) = FrameOf(k) * p + s
    <2>1. s \in 0 .. PageBytes - 1 /\ k \in Nat
      BY <1>0 DEF p
    <2>2. va + j - 1 = PageBytes * k + s
      BY <1>7 DEF p
    <2>3. va + j - 1 \in Nat
      BY <1>6
    <2>4. Lies(va, j, k, s)
      BY <2>1, <2>2, <2>3 DEF Lies
    <2>5. HomeOf(va, j) = FrameOf(k) * PageBytes + s
      BY <2>4, ByteAt
    <2> QED
      BY <2>5 DEF p
  <1>9. FrameOf(k) * p + s = FrameOf(k) * p + r + i - 1
    BY <1>0, <1>2, <1>5
  <1> QED
    BY <1>4, <1>6, <1>8, <1>9 DEF p

\* The parts of a copy of size bytes at va: it begins at byte o of page a, has f
\* bytes there, then w whole pages, of z bytes, and l bytes more.
Parts(va, size, a, o, f, w, l, z) ==
    /\ {a, o, f, w, l, z} \subseteq Nat
    /\ Shape(va, size, a, w, l)
    /\ Offset(va) = o /\ InFirst(va, size) = f
    /\ o < PageBytes /\ va = PageBytes * a + o
    /\ f > 0 /\ f <= PageBytes - o
    /\ l < PageBytes
    /\ z = PageBytes * w /\ size = f + z + l
    /\ (w # 0 \/ l # 0) => f = PageBytes - o

\* The bytes before piece k, or before the end.
Before(f, w, l, size, k) ==
    IF k = 1 THEN 0 ELSE IF k = Count(w, l) + 1 THEN size ELSE f + PageBytes * (k - 2)

\* Piece x is the c bytes behind the first b ones.
Holds(va, size, x, b, c) ==
    /\ x.count = c /\ c \in Nat /\ b \in Nat
    /\ \A i \in 1 .. c : PieceAt(x)[i] = Landing(va, size, b + i)

\* Before its end a copy finds every byte where it is.
LEMMA AtHome ==
  ASSUME MemoryCopyAssumption, \A v \in Nat : FrameOf(v) \in Nat,
         NEW va \in Nat, NEW size, NEW i \in Nat, 0 < i, ~(i > size - InLast(va, size))
  PROVE  Landing(va, size, i) = HomeOf(va, i)
  <1> DEFINE m == va + i - 1
  <1>1. m \in Nat /\ PageBytes \in Nat \ {0}
    BY DEF MemoryCopyAssumption
  <1> HIDE DEF m
  <1>2. PICK k \in Nat, r \in 0 .. PageBytes - 1 : m \div PageBytes = k /\ m % PageBytes = r
    BY <1>1, DivMod
  <1>3. PICK h \in Nat : h = FrameOf(k) * PageBytes
    <2>1. FrameOf(k) \in Nat
      BY <1>2
    <2> QED
      BY <1>1, <2>1
  <1>4. HomeOf(va, i) = h + r
    BY <1>2, <1>3 DEF HomeOf, PageOf, Offset, m
  <1>5. Landing(va, size, i) = HomeOf(va, i) + 0
    BY DEF Landing
  <1> QED
    BY <1>1, <1>2, <1>3, <1>4, <1>5

\* Each piece consists of the next bytes, the last one displaced.
LEMMA PieceFits ==
  ASSUME MemoryCopyAssumption, \A v \in Nat : FrameOf(v) \in Nat,
         NEW va \in Nat, NEW size \in Nat \ {0},
         NEW a, NEW o, NEW f, NEW w, NEW l, NEW z,
         Parts(va, size, a, o, f, w, l, z), NEW k \in 1 .. Count(w, l)
  PROVE  \E c \in Nat :
            /\ Holds(va, size, PiecesOf(a, w, l, o, f, k), Before(f, w, l, size, k), c)
            /\ Before(f, w, l, size, k + 1) = Before(f, w, l, size, k) + c
            /\ Before(f, w, l, size, k + 1) <= size
  <1> DEFINE p == PageBytes
             x == PiecesOf(a, w, l, o, f, k)
             b == Before(f, w, l, size, k)
             e == Before(f, w, l, size, k + 1)
             n == Count(w, l)
  <1>0. p \in Nat \ {0}
    BY DEF MemoryCopyAssumption
  <1>1. /\ a \in Nat /\ o \in Nat /\ f \in Nat /\ w \in Nat /\ l \in Nat /\ z \in Nat
        /\ o < p /\ va = p * a + o /\ f > 0 /\ f <= p - o /\ l < p
        /\ z = p * w /\ size = f + z + l
        /\ (w # 0 \/ l # 0) => f = p - o
        /\ Offset(va) = o /\ InLast(va, size) = l
    BY DEF Parts, Shape
  <1>2. PICK y \in Nat : y = p * a
    BY <1>0, <1>1, ScaledNat
  <1>3. n = (IF l = 0 THEN 1 + w ELSE 2 + w) /\ n \in Nat
    BY <1>1 DEF Count
  <1>4. CASE k = 1
    <2>1. x = [page |-> a, offset |-> o, count |-> f] /\ b = 0
      BY <1>4 DEF PiecesOf, Before
    <2>2. e = f
      <3>1. CASE n = 1
        <4>1. e = size /\ w = 0 /\ l = 0
          BY <1>1, <1>3, <1>4, <3>1 DEF Before
        <4>2. z = 0
          BY <1>0, <1>1, <4>1
        <4> QED
          BY <1>1, <4>1, <4>2
      <3>2. CASE n # 1
        <4>1. k + 1 # 1 /\ k + 1 # n + 1 /\ (k + 1) - 2 = 0
          BY <1>3, <1>4, <3>2
        <4>2. e = f + p * 0
          BY <4>1 DEF Before
        <4> QED
          BY <1>0, <1>1, <4>2
      <3> QED
        BY <3>1, <3>2
    <2> HIDE DEF x, b, e, n, p
    <2>3. o \in 0 .. p - 1 /\ f \in 0 .. p - o /\ va + 0 = p * a + o /\ 0 \in Nat
      BY <1>0, <1>1
    <2>4. \A i \in 1 .. f : PieceAt(x)[i] = Landing(va, size, 0 + i)
      <3>1. Begins(va, 0, a, o, f)
        BY <1>1, <2>3 DEF Begins, p
      <3>2. \A i \in 1 .. f : PieceAt(x)[i] = HomeOf(va, 0 + i)
        BY <2>1, <3>1, PieceHolds
      <3>3. ASSUME NEW i \in 1 .. f PROVE Landing(va, size, 0 + i) = HomeOf(va, 0 + i)
        <4>1. ~(0 + i > size - l)
          BY <1>1
        <4>2. 0 + i \in Nat
          OBVIOUS
        <4> QED
          BY <1>1, <4>1, <4>2, AtHome
      <3> QED
        BY <3>2, <3>3
    <2>5. Holds(va, size, x, b, f)
      BY <1>1, <2>1, <2>4 DEF Holds
    <2> QED
      BY <1>1, <2>1, <2>2, <2>5 DEF x, b, e
  <1>5. CASE k \in 2 .. 1 + w
    <2>1. PICK j \in Nat : j = k - 2 /\ j + 1 <= w
      BY <1>1, <1>5
    <2>2. PICK v \in Nat : v = p * j /\ p * (j + 1) = v + p /\ v + p <= z
      <3>1. p * j \in Nat
        BY <1>0, <2>1, ScaledNat
      <3>2. p * (j + 1) = p * j + p /\ p * (j + 1) <= p * w
        BY <1>0, <1>1, <2>1, Scaled
      <3> QED
        BY <1>1, <3>1, <3>2
    <2>3. x = [page |-> a + (k - 1), offset |-> 0, count |-> p]
      BY <1>1, <1>5 DEF PiecesOf
    <2>4. b = f + v
      <3>1. k # 1 /\ k # n + 1
        BY <1>1, <1>3, <1>5
      <3> QED
        BY <2>1, <2>2, <3>1 DEF Before
    <2>5. e = f + v + p
      <3>1. k + 1 # 1 /\ (k + 1) - 2 = j + 1
        BY <1>5, <2>1
      <3>2. CASE k = n
        <4>1. l = 0 /\ j + 1 = w
          BY <1>1, <1>3, <1>5, <2>1, <3>2
        <4>2. e = size
          BY <3>1, <3>2 DEF Before
        <4>3. v + p = z
          BY <1>1, <2>2, <4>1
        <4> QED
          BY <1>0, <1>1, <2>2, <4>1, <4>2, <4>3
      <3>3. CASE k # n
        <4>1. k + 1 # n + 1
          BY <1>3, <3>3
        <4>2. e = f + p * (j + 1)
          BY <3>1, <4>1 DEF Before
        <4> QED
          BY <1>0, <1>1, <2>2, <4>2
      <3> QED
        BY <3>2, <3>3
    <2> HIDE DEF x, b, e, n, p
    <2>6. PICK q \in Nat : q = a + (k - 1)
      BY <1>1, <1>5
    <2>7. va + (f + v) = p * q + 0
      <3>1. p * q = p * a + p * (j + 1)
        <4>1. q = a + (j + 1)
          BY <2>1, <2>6
        <4> QED
          BY <1>0, <1>1, <2>1, <4>1
      <3>2. f = p - o
        BY <1>1, <1>5
      <3> QED
        BY <1>0, <1>1, <1>2, <2>2, <3>1, <3>2
    <2>8. 0 \in 0 .. p - 1 /\ p \in 0 .. p - 0 /\ f + v \in Nat
      BY <1>0, <1>1, <2>2
    <2>9. \A i \in 1 .. p : PieceAt(x)[i] = Landing(va, size, (f + v) + i)
      <3>1. Begins(va, f + v, q, 0, p)
        BY <2>6, <2>7, <2>8 DEF Begins, p
      <3>2. x = [page |-> q, offset |-> 0, count |-> p]
        BY <2>3, <2>6
      <3>3. \A i \in 1 .. p : PieceAt(x)[i] = HomeOf(va, (f + v) + i)
        BY <3>1, <3>2, PieceHolds
      <3>4. ASSUME NEW i \in 1 .. p
            PROVE  Landing(va, size, (f + v) + i) = HomeOf(va, (f + v) + i)
        <4>1. ~((f + v) + i > size - l) /\ (f + v) + i \in Nat
          BY <1>0, <1>1, <2>2
        <4> QED
          BY <1>1, <4>1, AtHome
      <3> QED
        BY <3>3, <3>4
    <2>10. Holds(va, size, x, b, p)
      BY <1>0, <2>3, <2>4, <2>8, <2>9 DEF Holds
    <2> QED
      BY <1>0, <1>1, <2>2, <2>4, <2>5, <2>10 DEF x, b, e
  <1>6. CASE k = 2 + w /\ l # 0
    <2>1. x = [page |-> a + w + 1, offset |-> o, count |-> l]
      BY <1>1, <1>6 DEF PiecesOf
    <2>3. b = f + z
      <3>1. k # 1 /\ k # n + 1 /\ k - 2 = w
        BY <1>1, <1>3, <1>6
      <3> QED
        BY <1>1, <3>1 DEF Before
    <2>4. e = size
      BY <1>1, <1>3, <1>6 DEF Before
    <2> HIDE DEF x, b, e, n, p
    <2>5. PICK q \in Nat : q = a + w + 1
      BY <1>1
    <2>6. va + (f + z) = p * q + 0
      <3>1. p * q = p * a + p * w + p
        BY <1>0, <1>1, <2>5
      <3>2. f = p - o
        BY <1>1, <1>6
      <3> QED
        BY <1>0, <1>1, <1>2, <3>1, <3>2
    <2>7. 0 \in 0 .. p - 1 /\ l \in 0 .. p - 0 /\ f + z \in Nat
      BY <1>0, <1>1
    <2>8. \A i \in 1 .. l : PieceAt(x)[i] = Landing(va, size, (f + z) + i)
      <3> SUFFICES ASSUME NEW i \in 1 .. l
                   PROVE  PieceAt(x)[i] = Landing(va, size, (f + z) + i)
        OBVIOUS
      <3>1. Begins(va, f + z, q, 0, l)
        BY <2>5, <2>6, <2>7 DEF Begins, p
      <3> DEFINE tail == [page |-> q, offset |-> 0, count |-> l]
      <3>2. PieceAt(tail)[i] = HomeOf(va, (f + z) + i)
        BY <3>1, PieceHolds
      <3>3. PieceAt(tail)[i] = FrameOf(q) * PageBytes + 0 + i - 1
        BY DEF PieceAt
      <3>4. PieceAt(x)[i] = FrameOf(q) * PageBytes + o + i - 1
        <4>1. x.page = q /\ x.offset = o /\ x.count = l
          BY <2>1, <2>5
        <4> QED
          BY <4>1 DEF PieceAt
      <3>5. PICK h \in Nat : h = FrameOf(q) * PageBytes
        <4>1. FrameOf(q) \in Nat
          OBVIOUS
        <4> QED
          BY <1>0, <4>1 DEF p
      <3>6. (f + z) + i > size - l
        BY <1>1
      <3>7. Landing(va, size, (f + z) + i) = HomeOf(va, (f + z) + i) + o
        BY <1>1, <3>6 DEF Landing
      <3> QED
        BY <1>1, <3>2, <3>3, <3>4, <3>5, <3>7
    <2>9. Holds(va, size, x, b, l)
      BY <1>1, <2>1, <2>3, <2>7, <2>8 DEF Holds
    <2> QED
      BY <1>1, <2>3, <2>4, <2>9 DEF x, b, e
  <1>7. k = 1 \/ k \in 2 .. 1 + w \/ (k = 2 + w /\ l # 0)
    BY <1>1, <1>3
  <1> QED
    BY <1>4, <1>5, <1>6, <1>7

\* The pieces put together, one after another.
Joins(u, m, s) == u = [i \in 1 .. m |-> IF i = 1 THEN s[i] ELSE u[i - 1] \o s[i]]

LEMMA JoinsRun == ASSUME NEW s, NEW m \in Nat PROVE \E u : Joins(u, m, s)
  <1> DEFINE S == {x \in Nat : ~ \E u : Joins(u, x, s)}
  <1> SUFFICES ASSUME S # {} PROVE FALSE
    OBVIOUS
  <1>1. PICK x \in S : \A y \in S : x <= y
    BY LeastExists
  <1>2. x \in Nat /\ ~ \E u : Joins(u, x, s)
    OBVIOUS
  <1>3. CASE x = 0
    <2> DEFINE u == [i \in 1 .. 0 |-> 0]
    <2>1. u = [i \in 1 .. 0 |-> IF i = 1 THEN s[i] ELSE u[i - 1] \o s[i]]
      OBVIOUS
    <2> HIDE DEF u
    <2>2. Joins(u, 0, s)
      BY <2>1 DEF Joins
    <2> QED
      BY <1>2, <1>3, <2>2
  <1>4. CASE x # 0
    <2>1. x - 1 \in Nat /\ x - 1 \notin S
      BY <1>1, <1>2, <1>4
    <2>2. PICK u : Joins(u, x - 1, s)
      BY <2>1
    <2> DEFINE J(w, i) == IF i = 1 THEN s[i] ELSE w[i - 1] \o s[i]
               v == [i \in 1 .. x |-> IF i = x THEN J(u, x) ELSE u[i]]
    <2>3. \A i \in 1 .. x - 1 : u[i] = J(u, i)
      BY <2>2 DEF Joins
    <2>4. ASSUME NEW i \in 1 .. x PROVE v[i] = J(v, i)
      <3>1. i # 1 => i - 1 \in 1 .. x /\ i - 1 # x
        BY <1>2
      <3>2. i # 1 => v[i - 1] = u[i - 1]
        BY <3>1
      <3>3. J(v, i) = J(u, i)
        <4> HIDE DEF v
        <4> QED
          BY <3>2
      <3>4. CASE i = x
        BY <3>3, <3>4
      <3>5. CASE i # x
        <4>1. i \in 1 .. x - 1
          BY <1>2, <3>5
        <4>2. v[i] = u[i]
          BY <3>5
        <4> QED
          BY <2>3, <3>3, <4>1, <4>2
      <3> QED
        BY <3>4, <3>5
    <2>5. v = [i \in 1 .. x |-> v[i]]
      OBVIOUS
    <2> HIDE DEF v
    <2>6. Joins(v, x, s)
      BY <2>4, <2>5, Zenon DEF Joins
    <2> QED
      BY <1>2, <2>6
  <1> QED
    BY <1>3, <1>4

\* Where the bytes of a copy are.
Places(va, size) == {Landing(va, size, i) : i \in 1 .. size}

\* The sequence s gives the places of the first c bytes.
Gives(s, va, size, c) ==
    /\ s \in Seq(Places(va, size)) /\ c \in Nat /\ Len(s) = c
    /\ \A i \in 1 .. c : s[i] = Landing(va, size, i)

\* The next piece behind the first ones.
LEMMA NextPiece ==
  ASSUME NEW va, NEW size \in Nat, NEW b, NEW x, NEW c, Holds(va, size, x, b, c),
         b + c <= size, NEW s, Gives(s, va, size, b)
  PROVE  Gives(s \o PieceAt(x), va, size, b + c)
  <1> DEFINE t == PieceAt(x)
             S == Places(va, size)
  <1>1. /\ x.count = c /\ c \in Nat /\ b \in Nat
        /\ \A i \in 1 .. c : t[i] = Landing(va, size, b + i)
    BY DEF Holds
  <1>2. \A i \in 1 .. c : t[i] \in S
    <2>1. \A i \in 1 .. c : b + i \in 1 .. size
      BY <1>1
    <2> HIDE DEF t
    <2> QED
      BY <1>1, <2>1 DEF Places
  <1>3. t = [i \in 1 .. c |-> t[i]]
    BY <1>1 DEF PieceAt
  <1> HIDE DEF t, S
  <1>4. t \in Seq(S) /\ Len(t) = c
    BY <1>1, <1>2, <1>3
  <1>5. /\ s \in Seq(S) /\ Len(s) = b
        /\ \A i \in 1 .. b : s[i] = Landing(va, size, i)
    BY DEF Gives, S
  <1> DEFINE j == s \o t
  <1>6. /\ j \in Seq(S) /\ Len(j) = b + c
        /\ \A i \in 1 .. b : j[i] = s[i]
        /\ \A i \in 1 .. c : j[b + i] = t[i]
    <2>1. s \in Seq(S) /\ t \in Seq(S)
      BY <1>4, <1>5
    <2>2. j \in Seq(S) /\ Len(j) = Len(s) + Len(t)
      BY <2>1, TwoJoined
    <2>3. \A i \in 1 .. Len(s) : j[i] = s[i]
      BY <2>1, TwoJoined
    <2>4. \A i \in 1 .. Len(t) : j[Len(s) + i] = t[i]
      BY <2>1, TwoJoined
    <2> HIDE DEF j
    <2> QED
      BY <1>4, <1>5, <2>2, <2>3, <2>4
  <1> HIDE DEF j
  <1>7. ASSUME NEW i \in 1 .. b + c PROVE j[i] = Landing(va, size, i)
    <2>1. CASE i \in 1 .. b
      BY <1>5, <1>6, <2>1
    <2>2. CASE i \notin 1 .. b
      <3>1. i - b \in 1 .. c /\ b + (i - b) = i
        BY <1>1, <2>2
      <3> QED
        BY <1>1, <1>6, <3>1
    <2> QED
      BY <2>1, <2>2
  <1> QED
    BY <1>1, <1>6, <1>7 DEF Gives, S, j, t

\* The first piece alone.
LEMMA FirstPiece ==
  ASSUME NEW va, NEW size \in Nat, NEW x, NEW c, Holds(va, size, x, 0, c), c <= size
  PROVE  Gives(PieceAt(x), va, size, c)
  <1> DEFINE t == PieceAt(x)
  <1>1. x.count = c /\ c \in Nat /\ \A i \in 1 .. c : t[i] = Landing(va, size, 0 + i)
    BY DEF Holds
  <1>2. t = [i \in 1 .. c |-> t[i]]
    BY <1>1 DEF PieceAt
  <1> HIDE DEF t
  <1>3. \A i \in 1 .. c : t[i] = Landing(va, size, i)
    <2> SUFFICES ASSUME NEW i \in 1 .. c PROVE t[i] = Landing(va, size, i)
      OBVIOUS
    <2>1. 0 + i = i
      OBVIOUS
    <2> QED
      BY <1>1, <2>1
  <1>4. \A i \in 1 .. c : t[i] \in Places(va, size)
    BY <1>1, <1>3 DEF Places
  <1>5. t \in Seq(Places(va, size)) /\ Len(t) = c
    BY <1>1, <1>2, <1>4
  <1> QED
    BY <1>1, <1>3, <1>5 DEF Gives, t

\* The pieces are, put together, where the bytes of the copy land.
LEMMA PhysicalIs ==
  ASSUME MemoryCopyAssumption, \A v \in Nat : FrameOf(v) \in Nat,
         NEW va \in Nat, NEW size \in Nat \ {0}
  PROVE  \A i \in 1 .. size : PhysicalOf(va, size)[i] = Landing(va, size, i)
  <1>1. PICK a, o, f, w, l, z \in Nat : Parts(va, size, a, o, f, w, l, z)
    <2>1. PICK a, o, f, w, l, z \in Nat :
            /\ Shape(va, size, a, w, l)
            /\ Offset(va) = o /\ InFirst(va, size) = f
            /\ o < PageBytes /\ va = PageBytes * a + o
            /\ f > 0 /\ f <= PageBytes - o
            /\ l < PageBytes
            /\ z = PageBytes * w /\ size = f + z + l
            /\ w # 0 \/ l # 0 => f = PageBytes - o
      BY CopyParts
    <2>2. Parts(va, size, a, o, f, w, l, z)
      BY <2>1, Zenon DEF Parts
    <2> QED
      BY <2>2
  <1> DEFINE n == Count(w, l)
             P(k) == PiecesOf(a, w, l, o, f, k)
             b(k) == Before(f, w, l, size, k)
             s == [k \in DOMAIN Pieces(va, size) |-> PieceAt(Pieces(va, size)[k])]
             u == CHOOSE v : Joins(v, n, s)
  <1>2. n \in Nat /\ n >= 1
    BY <1>1 DEF Count
  <1>3. DOMAIN Pieces(va, size) = 1 .. n /\ \A k \in 1 .. n : Pieces(va, size)[k] = P(k)
    <2>1. Shape(va, size, a, w, l) /\ Offset(va) = o /\ InFirst(va, size) = f
      BY <1>1 DEF Parts
    <2> HIDE DEF n, P, b, s, u
    <2>2. ASSUME NEW k \in 1 .. Count(w, l)
          PROVE  Pieces(va, size)[k]
                   = PiecesOf(a, w, l, Offset(va), InFirst(va, size), k)
      BY ONLY <2>1, PiecesAre
    <2>3. DOMAIN Pieces(va, size) = 1 .. Count(w, l)
      BY <2>1, PiecesAre
    <2> QED
      BY <2>1, <2>2, <2>3 DEF n, P
  <1>4. s = [k \in 1 .. n |-> PieceAt(P(k))]
    BY <1>3
  <1>5. Len(s) = n /\ \A k \in 1 .. n : s[k] = PieceAt(P(k))
    <2> HIDE DEF n, P, s
    <2> QED
      BY <1>2, <1>4
  <1>6. Joins(u, n, s)
    <2> HIDE DEF n, s
    <2>1. \E v : Joins(v, n, s)
      BY <1>2, JoinsRun
    <2> QED
      BY <2>1
  <1>7. PhysicalOf(va, size) = u[n]
    <2>1. PhysicalOf(va, size) = FlattenSeq(s)
      BY DEF PhysicalOf
    <2> HIDE DEF n, s
    <2>2. n # 0
      BY <1>2
    <2>3. FlattenSeq(s) = u[n]
      BY <1>5, <2>2, Zenon DEF FlattenSeq, Joins
    <2> QED
      BY <2>1, <2>3
  <1>8. ASSUME NEW k \in 1 .. n
        PROVE  \E c \in Nat : /\ Holds(va, size, P(k), b(k), c)
                              /\ b(k + 1) = b(k) + c /\ b(k + 1) <= size
    BY <1>1, PieceFits
  <1>9. b(1) = 0 /\ b(n + 1) = size
    BY <1>2 DEF Before
  <1> HIDE DEF n, P, b, s, u
  <1>10. \A k \in 1 .. n : u[k] = IF k = 1 THEN s[k] ELSE u[k - 1] \o s[k]
    BY <1>6 DEF Joins
  <1> DEFINE S == {k \in Nat : k \in 1 .. n /\ ~Gives(u[k], va, size, b(k + 1))}
  <1>11. S = {}
    <2> SUFFICES ASSUME S # {} PROVE FALSE
      OBVIOUS
    <2>1. S \in SUBSET Nat
      OBVIOUS
    <2>2. PICK k \in S : \A y \in S : k <= y
      BY <2>1, LeastExists
    <2>3. PICK c \in Nat : /\ Holds(va, size, P(k), b(k), c)
                           /\ b(k + 1) = b(k) + c /\ b(k + 1) <= size
      BY <1>8, <2>2
    <2>4. CASE k = 1
      <3>1. u[k] = PieceAt(P(k))
        BY <1>5, <1>10, <2>2, <2>4
      <3>2. b(k) = 0 /\ b(k + 1) = c
        BY <1>9, <2>3, <2>4
      <3> QED
        BY <2>2, <2>3, <3>1, <3>2, FirstPiece
    <2>5. CASE k # 1
      <3>1. k - 1 \in 1 .. n /\ k - 1 \in Nat /\ k - 1 \notin S /\ (k - 1) + 1 = k
        BY <1>2, <2>2, <2>5
      <3>2. Gives(u[k - 1], va, size, b(k))
        BY <3>1
      <3>3. u[k] = u[k - 1] \o PieceAt(P(k))
        BY <1>5, <1>10, <2>2, <2>5
      <3>4. Gives(u[k], va, size, b(k) + c)
        BY <2>3, <3>2, <3>3, NextPiece
      <3> QED
        BY <2>2, <2>3, <3>4
    <2> QED
      BY <2>4, <2>5
  <1>12. Gives(u[n], va, size, size)
    BY <1>2, <1>9, <1>11
  <1> QED
    BY <1>7, <1>12 DEF Gives

-----------------------------------------------------------------------------
\* The entries of the pages have frames in the memory, and nothing is written
\* before the copy.
PagesInMemory ==
    /\ DOMAIN pages = 0 .. CopyPages - 1
    /\ \A v \in DOMAIN pages :
          pages[v] = NoTable \/ pages[v].frame \in 0 .. 2 * CopyPages

Unwritten == copied = NoCopy => physical = [a \in Memory |-> a]

\* No frame of the process lies behind the memory.
LEMMA FramesInMemory ==
  ASSUME MemoryCopyAssumption, PagesInMemory
  PROVE  \A v \in Nat : FrameOf(v) \in 0 .. 2 * CopyPages
  BY DEF MemoryCopyAssumption, PagesInMemory, FrameOf, FetchPage

\* A byte that is copied is in the memory.
LEMMA PlaceInMemory ==
  ASSUME MemoryCopyAssumption, PagesInMemory, NEW va \in Nat, NEW size, NEW i \in Nat \ {0}
  PROVE  Landing(va, size, i) \in Memory
  <1> DEFINE p == PageBytes
             m == va + i - 1
             d == IF i > size - InLast(va, size) THEN Offset(va) ELSE 0
  <1>1. p \in Nat \ {0} /\ CopyPages \in Nat /\ m \in Nat
    BY DEF MemoryCopyAssumption
  <1>d. d \in 0 .. p - 1
    <2>1. Offset(va) \in 0 .. p - 1
      BY <1>1, DivMod DEF Offset
    <2> HIDE DEF p
    <2> QED
      BY <1>1, <2>1
  <1>h. Landing(va, size, i) = HomeOf(va, i) + d
    BY DEF Landing
  <1> HIDE DEF p, m, d
  <1>2. PICK k \in Nat, r \in 0 .. p - 1 : m \div p = k /\ m % p = r
    BY <1>1, DivMod
  <1>3. PICK g \in 0 .. 2 * CopyPages : g = FrameOf(k)
    BY <1>2, FramesInMemory
  <1>4. HomeOf(va, i) = g * p + r
    BY <1>2, <1>3 DEF HomeOf, PageOf, Offset, p, m
  <1>5. PICK c \in Nat : c = 2 * CopyPages
    BY <1>1
  <1>6. g \in Nat /\ g <= c
    BY <1>3, <1>5
  <1>7. PICK y \in Nat : y = p * g
    BY <1>1, <1>6, ScaledNat
  <1>8. PICK z \in Nat : z = p * c
    BY <1>1, <1>5, ScaledNat
  <1>9. y <= z
    BY <1>1, <1>5, <1>6, <1>7, <1>8, Scaled
  <1>10. p * (2 * CopyPages + 2) = z + 2 * p
    <2>1. p * (c + 2) = p * c + p * 2
      BY <1>1, <1>5
    <2> QED
      BY <1>1, <1>5, <1>8, <2>1
  <1>11. g * p = y
    BY <1>1, <1>6, <1>7
  <1>12. (g * p + r) + d \in 0 .. p * (2 * CopyPages + 2) - 1
    BY <1>1, <1>2, <1>7, <1>8, <1>9, <1>10, <1>11, <1>d
  <1> QED
    BY <1>4, <1>12, <1>h DEF Memory, p

\* What is read, and what is written.
LEMMA ReadIsExact ==
  ASSUME MemoryCopyAssumption, PagesInMemory, physical = [a \in Memory |-> a],
         NEW va \in Nat, NEW size \in Nat \ {0}
  PROVE  [i \in 1 .. size |-> physical[PhysicalOf(va, size)[i]]]
           = [i \in 1 .. size |-> Landing(va, size, i)]
  <1>1. \A v \in Nat : FrameOf(v) \in Nat
    BY FramesInMemory DEF MemoryCopyAssumption
  <1>2. \A i \in 1 .. size : PhysicalOf(va, size)[i] = Landing(va, size, i)
    BY <1>1, PhysicalIs
  <1>3. \A i \in 1 .. size : Landing(va, size, i) \in Memory
    BY PlaceInMemory
  <1> QED
    BY <1>2, <1>3

LEMMA WriteIsExact ==
  ASSUME MemoryCopyAssumption, PagesInMemory, physical = [a \in Memory |-> a],
         NEW va \in Nat, NEW size \in Nat \ {0}, NEW kernel,
         WriteVirtualMemory(va, size, kernel), Writable(va, size, kernel)
  PROVE  \A a \in Memory :
            IF \E i \in 1 .. size : Landing(va, size, i) = a
            THEN \E i \in 1 .. size : Landing(va, size, i) = a /\ physical'[a] = -i
            ELSE physical'[a] = a
  <1> DEFINE to == PhysicalOf(va, size)
             W(a) == {i \in 1 .. size : to[i] = a}
             Latest(a) == CHOOSE i \in W(a) : \A j \in W(a) : j <= i
  <1>1. \A v \in Nat : FrameOf(v) \in Nat
    BY FramesInMemory DEF MemoryCopyAssumption
  <1>2. \A i \in 1 .. size : to[i] = Landing(va, size, i)
    BY <1>1, PhysicalIs
  <1>3. physical' = [a \in Memory |-> IF W(a) = {} THEN physical[a] ELSE -Latest(a)]
    BY DEF WriteVirtualMemory
  <1> HIDE DEF to
  <1> SUFFICES ASSUME NEW a \in Memory
               PROVE  IF \E i \in 1 .. size : Landing(va, size, i) = a
                      THEN \E i \in 1 .. size : Landing(va, size, i) = a /\ physical'[a] = -i
                      ELSE physical'[a] = a
    OBVIOUS
  <1>4. physical'[a] = IF W(a) = {} THEN a ELSE -Latest(a)
    BY <1>3
  <1>5. CASE W(a) = {}
    <2>1. ~ \E i \in 1 .. size : Landing(va, size, i) = a
      BY <1>2, <1>5
    <2> QED
      BY <1>4, <1>5, <2>1
  <1>6. CASE W(a) # {}
    <2>1. \E i \in W(a) : \A j \in W(a) : j <= i
      <3> DEFINE R == {n \in Nat : n <= size /\ size - n \in W(a)}
      <3>1. PICK e \in 1 .. size : e \in W(a)
        BY <1>6
      <3>2. size - e \in R
        <4>1. size - e \in Nat /\ size - e <= size /\ size - (size - e) = e
          OBVIOUS
        <4> QED
          BY <3>1, <4>1
      <3>3. PICK n \in R : \A y \in R : n <= y
        BY <3>2, LeastExists
      <3>4. ASSUME NEW j \in W(a) PROVE j <= size - n
        <4>1. j \in 1 .. size /\ size - j \in Nat /\ size - j <= size /\ size - (size - j) = j
          OBVIOUS
        <4>2. size - j \in R
          BY <4>1
        <4>3. n <= size - j /\ n \in Nat
          BY <3>3, <4>2
        <4> QED
          BY <4>1, <4>3
      <3> QED
        BY <3>3, <3>4
    <2>2. Latest(a) \in W(a)
      BY <2>1
    <2> HIDE DEF Latest
    <2>3. Latest(a) \in 1 .. size /\ Landing(va, size, Latest(a)) = a
      BY <1>2, <2>2
    <2> QED
      BY <1>4, <1>6, <2>3
  <1> QED
    BY <1>5, <1>6

\* A byte at the place where Euclid's division puts it is in its page, and
\* a displaced one too or behind it.
LEMMA LandsIn ==
  ASSUME MemoryCopyAssumption, PagesInMemory, NEW va \in Nat, NEW size \in Nat \ {0},
         NEW i \in 1 .. size,
         NEW n \in Nat, n = CheckedPages(va, size)
  PROVE  \/ Landing(va, size, i) \in Overrun(va, size)
         \/ \E v \in PageOf(va) .. PageOf(va) + n - 1 : Landing(va, size, i) \in MemoryOf(v)
  <1> DEFINE p == PageBytes
  <1>0. p \in Nat \ {0}
    BY DEF MemoryCopyAssumption
  <1>1. PICK a, o, f, w, l, z \in Nat :
            /\ Shape(va, size, a, w, l)
            /\ Offset(va) = o /\ InFirst(va, size) = f
            /\ o < p /\ va = p * a + o
            /\ f > 0 /\ f <= p - o
            /\ l < p
            /\ z = p * w /\ size = f + z + l
            /\ w # 0 \/ l # 0 => f = p - o
    BY CopyParts
  <1>2. PageOf(va) = a /\ WholePages(va, size) = w /\ InLast(va, size) = l
    BY <1>1 DEF Shape
  <1>3. n >= 1 + w /\ (l # 0 => n >= 2 + w)
    <2>1. PICK a1, w1, l1, n1 \in Nat :
            /\ Shape(va, size, a1, w1, l1) /\ CheckedPages(va, size) = n1
            /\ n1 >= 1 + w1 /\ (l1 # 0 => n1 >= 2 + w1)
      BY PagesChecked
    <2>2. w1 = w /\ l1 = l /\ n1 = n
      BY <1>2, <2>1 DEF Shape
    <2> QED
      BY <2>1, <2>2
  <1> DEFINE m == va + i - 1
             d == IF i > size - l THEN o ELSE 0
  <1>4. m \in Nat
    OBVIOUS
  <1>5. Landing(va, size, i) = HomeOf(va, i) + d
    BY <1>1, <1>2 DEF Landing
  <1>6. d \in Nat /\ (d # 0 => i > size - l /\ d = o)
    BY <1>1
  <1> HIDE DEF p, m, d
  <1>7. PICK k \in Nat, r \in 0 .. p - 1 : m \div p = k /\ m % p = r /\ m = p * k + r
    BY <1>0, <1>4, DivMod
  <1>8. PICK g \in Nat : g = FrameOf(k) * p
    <2>1. FrameOf(k) \in Nat
      BY <1>7, FramesInMemory DEF MemoryCopyAssumption
    <2> QED
      BY <1>0, <2>1
  <1>9. HomeOf(va, i) = g + r
    BY <1>7, <1>8 DEF HomeOf, PageOf, Offset, p, m
  <1>10. PICK y \in Nat : y = p * a
    BY <1>0, <1>1, ScaledNat
  <1>11. PICK x \in Nat : x = p * k
    BY <1>0, <1>7, ScaledNat
  <1>12. m = x + r /\ m = y + o + i - 1 /\ i <= f + z + l /\ i > 0
    BY <1>1, <1>7, <1>10, <1>11 DEF m
  <1>13. k >= a
    <2> SUFFICES ASSUME k + 1 <= a PROVE FALSE
      BY <1>1, <1>7
    <2>1. p * (k + 1) <= p * a /\ p * (k + 1) = p * k + p
      BY <1>0, <1>1, <1>7, Scaled
    <2>2. x + p <= y
      BY <1>10, <1>11, <2>1
    <2> QED
      BY <1>0, <1>1, <1>7, <1>12, <2>2
  <1>14. p * (a + 1 + w) = y + p + z /\ p * (a + 2 + w) = y + 2 * p + z
    <2>1. p * (a + 1) = p * a + p
      BY <1>0, <1>1, Scaled
    <2>2. p * (a + 1 + w) = p * (a + 1) + p * w
      BY <1>0, <1>1
    <2>3. p * (a + 2 + w) = p * (a + 1 + w) + p
      BY <1>0, <1>1
    <2> QED
      BY <1>0, <1>1, <1>10, <2>1, <2>2, <2>3
  <1>15. CASE l = 0
    <2>1. k < a + 1 + w
      <3> SUFFICES ASSUME a + 1 + w <= k PROVE FALSE
        BY <1>1, <1>7
      <3>1. p * (a + 1 + w) <= p * k
        BY <1>0, <1>1, <1>7, Scaled
      <3>2. y + p + z <= x
        BY <1>11, <1>14, <3>1
      <3>3. f <= p - o
        BY <1>1
      <3> QED
        BY <1>0, <1>1, <1>7, <1>12, <1>15, <3>2, <3>3
    <2>2. d = 0
      BY <1>1, <1>6, <1>15
    <2>3. Landing(va, size, i) \in MemoryOf(k)
      BY <1>5, <1>7, <1>8, <1>9, <2>2 DEF MemoryOf, p
    <2>4. k \in PageOf(va) .. PageOf(va) + n - 1
      BY <1>1, <1>2, <1>3, <1>7, <1>13, <2>1
    <2> QED
      BY <2>3, <2>4
  <1>16. CASE l # 0
    <2>0. f = p - o
      BY <1>1, <1>16
    <2>1. k < a + 2 + w
      <3> SUFFICES ASSUME a + 2 + w <= k PROVE FALSE
        BY <1>1, <1>7
      <3>1. p * (a + 2 + w) <= p * k
        BY <1>0, <1>1, <1>7, Scaled
      <3>2. y + 2 * p + z <= x
        BY <1>11, <1>14, <3>1
      <3> QED
        BY <1>0, <1>1, <1>7, <1>12, <2>0, <3>2
    <2>2. k \in PageOf(va) .. PageOf(va) + n - 1
      BY <1>1, <1>2, <1>3, <1>7, <1>13, <1>16, <2>1
    <2>3. CASE d = 0 \/ r + d < p
      <3>1. r + d \in 0 .. p - 1
        BY <1>0, <1>6, <1>7, <2>3
      <3>2. Landing(va, size, i) = g + (r + d)
        BY <1>5, <1>6, <1>7, <1>9
      <3>3. Landing(va, size, i) \in MemoryOf(k)
        BY <1>8, <3>1, <3>2 DEF MemoryOf, p
      <3> QED
        BY <2>2, <3>3
    <2>4. CASE d # 0 /\ r + d >= p
      <3>1. d = o /\ i > f + z
        BY <1>1, <1>6, <2>4
      <3>2. k = a + 1 + w
        <4> SUFFICES ASSUME k + 1 <= a + 1 + w PROVE FALSE
          BY <1>1, <1>7, <2>1
        <4>1. p * (k + 1) <= p * (a + 1 + w) /\ p * (k + 1) = p * k + p
          BY <1>0, <1>1, <1>7, Scaled
        <4>2. x + p <= y + p + z
          BY <1>11, <1>14, <4>1
        <4> QED
          BY <1>0, <1>1, <1>7, <1>12, <2>0, <3>1, <4>2
      <3>3. x = y + p + z
        BY <1>11, <1>14, <3>2
      <3>4. r < l
        BY <1>0, <1>1, <1>7, <1>12, <2>0, <3>3
      <3>5. PICK j \in p .. o + l - 1 : j = r + o
        BY <1>0, <1>1, <1>7, <2>4, <3>1, <3>4
      <3>6. Landing(va, size, i) = g + j
        BY <1>5, <1>7, <1>9, <3>1, <3>5
      <3>7. k = PageOf(va) + WholePages(va, size) + 1
        BY <1>1, <1>2, <3>2
      <3> QED
        BY <1>1, <1>2, <1>8, <3>5, <3>6, <3>7 DEF Overrun, p
    <2> QED
      BY <1>6, <1>7, <2>3, <2>4, <1>0
  <1> QED
    BY <1>15, <1>16

LEMMA InitPages ==
  ASSUME MemoryCopyAssumption, CopyInit PROVE PagesInMemory /\ Unwritten
  <1>1. PagesInMemory
    <2>1. DOMAIN pages = 0 .. CopyPages - 1 /\ \A v \in DOMAIN pages : pages[v] \in PageKind(v)
      BY DEF CopyInit
    <2>2. ASSUME NEW v \in 0 .. CopyPages - 1, NEW e \in PageKind(v)
          PROVE  e = NoTable \/ e.frame = 0 \/ e.frame = 2 * v + 2
      BY DEF PageKind
    <2>3. ASSUME NEW v \in DOMAIN pages
          PROVE  pages[v] = NoTable \/ pages[v].frame \in 0 .. 2 * CopyPages
      <3>1. v \in 0 .. CopyPages - 1 /\ pages[v] \in PageKind(v)
        BY <2>1
      <3>2. pages[v] = NoTable \/ pages[v].frame = 0 \/ pages[v].frame = 2 * v + 2
        BY <2>2, <3>1
      <3>3. 0 \in 0 .. 2 * CopyPages /\ 2 * v + 2 \in 0 .. 2 * CopyPages
        BY <3>1 DEF MemoryCopyAssumption
      <3> QED
        BY <3>2, <3>3
    <2> QED
      BY <2>1, <2>3 DEF PagesInMemory
  <1>2. Unwritten
    BY DEF CopyInit, Unwritten
  <1> QED
    BY <1>1, <1>2

\* The pages of a write, those looked at and those written.
Checked(va, size) ==
    {v \in PageOf(va) .. PageOf(va) + CheckedPages(va, size) - 1 :
        FetchPage(v) # NoTable /\ FetchPage(v).writable}

Touches(va, size, after) ==
    /\ \A i \in DOMAIN Pieces(va, size) : Pieces(va, size)[i].page \in Checked(va, size)
    /\ \A a \in Memory : after[a] # a =>
            a \in Overrun(va, size) \/ \E v \in Checked(va, size) : a \in MemoryOf(v)

LEMMA WriteTouches ==
  ASSUME MemoryCopyAssumption, PagesInMemory, physical = [a \in Memory |-> a],
         NEW va \in Nat, NEW size \in Nat \ {0}, NEW kernel,
         WriteVirtualMemory(va, size, kernel), Writable(va, size, kernel)
  PROVE  Touches(va, size, physical')
  <1>1. PICK a, w, l, n \in Nat :
            /\ Shape(va, size, a, w, l) /\ CheckedPages(va, size) = n
            /\ n >= 1 + w /\ (l # 0 => n >= 2 + w)
    BY PagesChecked
  <1>2. PageOf(va) = a
    BY <1>1 DEF Shape
  <1>3. ASSUME NEW v \in a .. a + n - 1 PROVE v \in Checked(va, size)
    <2>1. v - a \in 0 .. n - 1 /\ a + (v - a) = v
      BY <1>1
    <2>2. FetchPage(a + (v - a)) # NoTable /\ FetchPage(a + (v - a)).writable
      BY <1>1, <1>2, <2>1 DEF Writable
    <2> QED
      BY <1>1, <1>2, <2>1, <2>2 DEF Checked
  <1>4. ASSUME NEW i \in DOMAIN Pieces(va, size)
        PROVE  Pieces(va, size)[i].page \in Checked(va, size)
    <2>1. FetchPage(Pieces(va, size)[i].page) # NoTable
          /\ Pieces(va, size)[i].page < a + n
      BY <1>1, <1>2, WriteChecked
    <2>2. PICK k \in 0 .. (IF l = 0 THEN w ELSE w + 1) : Pieces(va, size)[i].page = a + k
      BY <1>1, PiecePages
    <2> QED
      BY <1>1, <1>3, <2>1, <2>2
  <1>5. ASSUME NEW b \in Memory, physical'[b] # b
        PROVE  b \in Overrun(va, size) \/ \E v \in Checked(va, size) : b \in MemoryOf(v)
    <2>1. PICK i \in 1 .. size : Landing(va, size, i) = b
      BY <1>5, WriteIsExact
    <2>2. \/ Landing(va, size, i) \in Overrun(va, size)
          \/ \E v \in a .. a + n - 1 : Landing(va, size, i) \in MemoryOf(v)
      BY <1>1, <1>2, LandsIn
    <2> QED
      BY <1>3, <2>1, <2>2
  <1> QED
    BY <1>4, <1>5 DEF Touches

\* The next state's writes, over this state's pages.
LEMMA TouchesNext ==
  ASSUME pages' = pages, NEW va, NEW size, copied'.va = va, copied'.size = size,
         Touches(va, size, physical')
  PROVE  WritesUseCheckedPages'
  BY DEF Touches, Checked, WritesUseCheckedPages, Overrun, MemoryOf, FrameOf, FetchPage

LEMMA PagesKept ==
  ASSUME pages' = pages, physical' = physical, copied' = copied, WritesUseCheckedPages
  PROVE  WritesUseCheckedPages'
  BY DEF WritesUseCheckedPages, Overrun, MemoryOf, FrameOf, FetchPage

\* No copy of any size, at any address, to any pages, writes through a page that
\* was not looked at before its first byte, or that is read-only: only a
\* displaced end reaches what is behind the last page (virtual.cpp:97).
THEOREM WritesChecked == CopySpec => []WritesUseCheckedPages
  <1> DEFINE I == PagesInMemory /\ Unwritten /\ WritesUseCheckedPages
  <1>0. MemoryCopyAssumption
    BY MemoryCopyAssumption
  <1>1. CopyInit => I
    <2> SUFFICES ASSUME CopyInit PROVE I
      OBVIOUS
    <2>1. PagesInMemory /\ Unwritten
      BY <1>0, InitPages
    <2> QED
      BY <2>1 DEF CopyInit, NoCopy, WritesUseCheckedPages
  <1>2. I /\ [CopyNext]_copyVars => I'
    <2> SUFFICES ASSUME I, [CopyNext]_copyVars PROVE I'
      OBVIOUS
    <2>0. pages' = pages
      BY DEF copyVars, CopyNext, ReadVirtualMemory, WriteVirtualMemory
    <2>p. PagesInMemory'
      BY <2>0 DEF PagesInMemory
    <2>1. CASE UNCHANGED copyVars
      BY <2>1, <2>p, PagesKept DEF copyVars, WritesUseCheckedPages, Unwritten
    <2>2. ASSUME NEW va \in Address, NEW size \in CopySizes, NEW kernel \in BOOLEAN,
                 ReadVirtualMemory(va, size, kernel)
          PROVE  I'
      <3>1. copied'.kind = "read"
        BY <2>2 DEF ReadVirtualMemory, Copied
      <3> QED
        BY <2>p, <3>1 DEF NoCopy, Unwritten, WritesUseCheckedPages
    <2>3. ASSUME copied = NoCopy,
                 NEW va \in Address, NEW size \in CopySizes, NEW kernel \in BOOLEAN,
                 WriteVirtualMemory(va, size, kernel)
          PROVE  I'
      <3>1. va \in Nat /\ size \in Nat \ {0}
        BY <1>0 DEF MemoryCopyAssumption, Address
      <3>2. physical = [a \in Memory |-> a]
        BY <2>3 DEF Unwritten
      <3>3. copied'.kind = "write" /\ copied'.va = va /\ copied'.size = size
        BY <2>3 DEF WriteVirtualMemory, Copied
      <3>4. Unwritten'
        BY <3>3 DEF Unwritten, NoCopy
      <3>5. CASE Writable(va, size, kernel)
        <4>1. Touches(va, size, physical')
          BY <1>0, <2>3, <3>1, <3>2, <3>5, WriteTouches
        <4> QED
          BY <2>0, <2>p, <3>3, <3>4, <4>1, TouchesNext
      <3>6. CASE ~Writable(va, size, kernel)
        <4>1. copied'.ok = FALSE /\ physical' = physical
          BY <2>3, <3>6 DEF WriteVirtualMemory, Copied
        <4>2. Memory' = Memory /\ \A a \in Memory : physical'[a] = a
          BY <3>2, <4>1 DEF Memory
        <4> QED
          BY <2>p, <3>4, <4>1, <4>2 DEF WritesUseCheckedPages
      <3> QED
        BY <3>5, <3>6
    <2> QED
      BY <2>1, <2>2, <2>3 DEF CopyNext
  <1>3. I => WritesUseCheckedPages
    OBVIOUS
  <1> QED
    BY <1>1, <1>2, <1>3, PTL DEF CopySpec

\* Exactness of the next state's copy, over this state's pages.
LEMMA ExactNext ==
  ASSUME pages' = pages
  PROVE  CopiesAreExact' <=>
           (copied'.ok /\ copied'.kind # "none" =>
              LET at == [i \in 1 .. copied'.size |-> Landing(copied'.va, copied'.size, i)]
              IN  IF copied'.kind = "read"
                  THEN copied'.bytes = at
                  ELSE \A a \in Memory :
                         IF a \in {at[i] : i \in 1 .. copied'.size}
                         THEN physical'[a] < 0 /\ at[-physical'[a]] = a
                         ELSE physical'[a] = a)
  BY DEF CopiesAreExact, Answered, Moved, Landing, HomeOf, FrameOf, FetchPage, PageOf, Offset,
       InLast, InFirst, Lesser, Memory

\* The inductive invariant of a copy.
CopyInv == PagesInMemory /\ Unwritten /\ CopiesAreExact

LEMMA InitCopyInv == ASSUME MemoryCopyAssumption, CopyInit PROVE CopyInv
  <1>1. PagesInMemory /\ Unwritten
    BY InitPages
  <1>3. CopiesAreExact
    BY DEF CopyInit, NoCopy, CopiesAreExact, Answered
  <1> QED
    BY <1>1, <1>3 DEF CopyInv

LEMMA NextCopyInv ==
  ASSUME MemoryCopyAssumption, CopyInv, [CopyNext]_copyVars PROVE CopyInv'
  <1>1. PagesInMemory /\ Unwritten /\ CopiesAreExact
    BY DEF CopyInv
  <1>2. pages' = pages
    BY DEF copyVars, CopyNext, ReadVirtualMemory, WriteVirtualMemory
  <1>3. PagesInMemory'
    BY <1>1, <1>2 DEF PagesInMemory
  <1>5. CASE UNCHANGED copyVars
    <2>1. physical' = physical /\ copied' = copied
      BY <1>5 DEF copyVars
    <2>2. Unwritten'
      BY <1>1, <2>1 DEF Unwritten, Memory
    <2>3. CopiesAreExact'
      BY <1>1, <1>2, <2>1, ExactNext DEF CopiesAreExact, Answered, Moved
    <2> QED
      BY <1>3, <2>2, <2>3 DEF CopyInv
  <1>6. CASE CopyNext
    <2>1. PICK va \in Address, size \in CopySizes, kernel \in BOOLEAN :
            ReadVirtualMemory(va, size, kernel) \/ WriteVirtualMemory(va, size, kernel)
      BY <1>6 DEF CopyNext
    <2>2. va \in Nat /\ size \in Nat \ {0}
      BY DEF Address, MemoryCopyAssumption
    <2>3. physical = [a \in Memory |-> a]
      BY <1>1, <1>6 DEF CopyNext, Unwritten
    <2>4. copied' # NoCopy
      BY <2>1 DEF ReadVirtualMemory, WriteVirtualMemory, Copied, NoCopy
    <2>5. Unwritten'
      BY <2>4 DEF Unwritten, NoCopy
    <2>6. ASSUME copied'.ok
          PROVE  IF copied'.kind = "read"
                 THEN copied'.bytes = [i \in 1 .. copied'.size |-> Landing(copied'.va, copied'.size, i)]
                 ELSE \A a \in Memory :
                        IF \E i \in 1 .. copied'.size : Landing(copied'.va, copied'.size, i) = a
                        THEN \E i \in 1 .. copied'.size :
                                Landing(copied'.va, copied'.size, i) = a /\ physical'[a] = -i
                        ELSE physical'[a] = a
      <3>1. CASE ReadVirtualMemory(va, size, kernel)
        <4>1. copied' = [kind |-> "read", ok |-> TRUE, va |-> va, size |-> size,
                         bytes |-> [i \in 1 .. size |-> physical[PhysicalOf(va, size)[i]]]]
          BY <2>6, <3>1 DEF ReadVirtualMemory, Copied
        <4>2. copied'.bytes = [i \in 1 .. size |-> Landing(va, size, i)]
          BY <1>1, <2>2, <2>3, <2>6, <4>1, ReadIsExact
        <4> QED
          BY <4>1, <4>2
      <3>2. CASE WriteVirtualMemory(va, size, kernel)
        <4>1. Writable(va, size, kernel) /\ copied'.kind = "write"
              /\ copied'.va = va /\ copied'.size = size
          BY <2>6, <3>2 DEF WriteVirtualMemory, Copied
        <4>2. \A a \in Memory :
                IF \E i \in 1 .. size : Landing(va, size, i) = a
                THEN \E i \in 1 .. size : Landing(va, size, i) = a /\ physical'[a] = -i
                ELSE physical'[a] = a
          BY <1>1, <2>2, <2>3, <3>2, <4>1, WriteIsExact
        <4> QED
          BY <4>1, <4>2
      <3> QED
        BY <2>1, <3>1, <3>2
    <2>7. copied'.size \in Nat
      BY <2>1, <2>2 DEF ReadVirtualMemory, WriteVirtualMemory, Copied
    <2>8. CopiesAreExact'
      <3> DEFINE home == [i \in 1 .. copied'.size |-> Landing(copied'.va, copied'.size, i)]
      <3>1. SUFFICES ASSUME copied'.ok
                     PROVE  IF copied'.kind = "read"
                            THEN copied'.bytes = home
                            ELSE \A a \in Memory :
                                   IF a \in {home[i] : i \in 1 .. copied'.size}
                                   THEN physical'[a] < 0 /\ home[-physical'[a]] = a
                                   ELSE physical'[a] = a
        BY <1>2, ExactNext
      <3>2. \A i \in 1 .. copied'.size : home[i] = Landing(copied'.va, copied'.size, i)
        OBVIOUS
      <3>3. ASSUME NEW i \in 1 .. copied'.size PROVE -i < 0 /\ -(-i) = i
        BY <2>7
      <3> QED
        BY <2>6, <3>1, <3>2, <3>3
    <2> QED
      BY <1>3, <2>5, <2>8 DEF CopyInv
  <1> QED
    BY <1>5, <1>6

\* A copy reads, or writes, the bytes of the process at its address, in order,
\* and no others, however many pages it spans; its end, if it begins inside a
\* page and goes beyond it, is as many bytes further on (virtual.cpp:46, 97).
THEOREM CopiesExact == CopySpec => []CopiesAreExact
  <1>1. MemoryCopyAssumption
    BY MemoryCopyAssumption
  <1>2. CopyInit => CopyInv
    BY <1>1, InitCopyInv
  <1>3. CopyInv /\ [CopyNext]_copyVars => CopyInv'
    BY <1>1, NextCopyInv
  <1>4. CopyInv => CopiesAreExact
    BY DEF CopyInv
  <1> QED
    BY <1>2, <1>3, <1>4, PTL DEF CopySpec

-------------------------------------------------------------------------------
(***************************************************************************)
(* Data sinks, for any number of processes and sinks and any limits.  The  *)
(* fragments of a sink hold the bytes that were written and have not left, *)
(* in order (Streams); this and the ownership of the buffers are what each *)
(* round of the loop that reads a stream keeps (Reads).                    *)
(***************************************************************************)

SinkFragments == [first : Nat \ {0}, actual : Nat \ {0}, remaining : Nat \ {0}, buffer : Nat]

Ends(f) == f.first + f.actual - 1

\* The fragments F hold the bytes behind a and up to z, in their order, and only
\* the front one was read in part.
Streams(F, a, z) ==
    /\ F \in Seq(SinkFragments)
    /\ \A i \in 1 .. Len(F) : F[i].remaining <= F[i].actual
    /\ \A i \in 2 .. Len(F) : F[i].remaining = F[i].actual /\ F[i].first = Ends(F[i - 1]) + 1
    /\ IF Len(F) = 0 THEN a = z ELSE FirstLeft(F[1]) = a + 1 /\ Ends(F[Len(F)]) = z

HeldIn(F) == {F[i].buffer : i \in DOMAIN F}

OwnBuffers(F) == \A i, j \in DOMAIN F : F[i].buffer = F[j].buffer => i = j

SinkFits(k) ==
    /\ OwnBuffers(sinks[k].fragments) /\ HeldIn(sinks[k].fragments) \subseteq buffers
    /\ IF Exists(k) THEN Streams(sinks[k].fragments, taken[k], sent[k])
       ELSE sinks[k].fragments = <<>>

SinkInv ==
    /\ buffers \subseteq Nat /\ IsFiniteSet(buffers)
    /\ sent \in [Sink -> Nat] /\ taken \in [Sink -> Nat]
    /\ \A k \in Sink : sent[k] = 0 => taken[k] = 0
    /\ sinks = [k \in Sink |-> sinks[k]]
    /\ \A k \in Sink : sinks[k] = [owner |-> sinks[k].owner, writers |-> sinks[k].writers,
                                  fragments |-> sinks[k].fragments]
    /\ \A k \in Sink : SinkFits(k)
    /\ \A k, l \in Sink : k # l =>
            HeldIn(sinks[k].fragments) \cap HeldIn(sinks[l].fragments) = {}

LEMMA FragmentNumbers ==
  ASSUME NEW f \in SinkFragments
  PROVE  /\ f.first \in Nat \ {0} /\ f.actual \in Nat \ {0} /\ f.remaining \in Nat \ {0}
         /\ f.buffer \in Nat
         /\ Ends(f) = f.first + f.actual - 1
         /\ FirstLeft(f) = f.first + f.actual - f.remaining
  BY DEF SinkFragments, Ends, FirstLeft

\* The front fragment leaves the sink.
LEMMA FrontGone ==
  ASSUME NEW F, NEW a \in Nat, NEW z \in Nat, Streams(F, a, z), Len(F) # 0
  PROVE  /\ F[1] \in SinkFragments /\ FirstLeft(F[1]) = a + 1 /\ Head(F) = F[1]
         /\ Streams(Tail(F), a + F[1].remaining, z)
  <1>1. /\ F \in Seq(SinkFragments) /\ Len(F) \in Nat \ {0} /\ DOMAIN F = 1 .. Len(F)
        /\ FirstLeft(F[1]) = a + 1 /\ Ends(F[Len(F)]) = z
    BY DEF Streams
  <1>2. \A i \in 1 .. Len(F) : F[i] \in SinkFragments
    BY <1>1
  <1>3. /\ Tail(F) \in Seq(SinkFragments) /\ Len(Tail(F)) = Len(F) - 1
        /\ \A i \in 1 .. Len(F) - 1 : Tail(F)[i] = F[i + 1]
    BY <1>1
  <1>4. \A i \in 1 .. Len(F) - 1 : Tail(F)[i].remaining <= Tail(F)[i].actual
    <2> SUFFICES ASSUME NEW i \in 1 .. Len(F) - 1
                 PROVE  Tail(F)[i].remaining <= Tail(F)[i].actual
      OBVIOUS
    <2>1. Tail(F)[i] = F[i + 1] /\ i + 1 \in 1 .. Len(F)
      BY <1>1, <1>3
    <2> QED
      BY <2>1 DEF Streams
  <1>5. \A i \in 2 .. Len(F) - 1 : /\ Tail(F)[i].remaining = Tail(F)[i].actual
                                   /\ Tail(F)[i].first = Ends(Tail(F)[i - 1]) + 1
    <2> SUFFICES ASSUME NEW i \in 2 .. Len(F) - 1
                 PROVE  /\ Tail(F)[i].remaining = Tail(F)[i].actual
                        /\ Tail(F)[i].first = Ends(Tail(F)[i - 1]) + 1
      OBVIOUS
    <2>1. /\ i \in 1 .. Len(F) - 1 /\ i - 1 \in 1 .. Len(F) - 1
          /\ i + 1 \in 2 .. Len(F) /\ (i - 1) + 1 = (i + 1) - 1
      BY <1>1
    <2>2. Tail(F)[i] = F[i + 1] /\ Tail(F)[i - 1] = F[(i + 1) - 1]
      BY <1>3, <2>1
    <2> QED
      BY <2>1, <2>2 DEF Streams
  <1>6. CASE Len(F) = 1
    <2>1. Ends(F[1]) = z /\ FirstLeft(F[1]) = a + 1 /\ F[1] \in SinkFragments
      BY <1>1, <1>2, <1>6
    <2>2. F[1].first \in Nat /\ F[1].actual \in Nat /\ F[1].remaining \in Nat
      BY <2>1, FragmentNumbers
    <2>3. /\ Ends(F[1]) = F[1].first + F[1].actual - 1
          /\ FirstLeft(F[1]) = F[1].first + F[1].actual - F[1].remaining
      BY <2>1, FragmentNumbers
    <2>n. PICK u \in Nat, v \in Nat, w \in Nat :
                u = F[1].first /\ v = F[1].actual /\ w = F[1].remaining
      BY <2>2
    <2>4. a + F[1].remaining = z
      <3>1. u + v - 1 = z /\ u + v - w = a + 1
        BY <2>1, <2>3, <2>n
      <3>2. a + w = z
        BY <3>1
      <3> QED
        BY <3>2, <2>n
    <2>5. Head(F) = F[1] /\ Len(Tail(F)) = 0
      BY <1>1, <1>3, <1>6
    <2>6. /\ \A i \in 1 .. Len(Tail(F)) : Tail(F)[i].remaining <= Tail(F)[i].actual
          /\ \A i \in 2 .. Len(Tail(F)) : /\ Tail(F)[i].remaining = Tail(F)[i].actual
                                          /\ Tail(F)[i].first = Ends(Tail(F)[i - 1]) + 1
      <3>1. Len(Tail(F)) = 0
        BY <2>5
      <3>2. 1 .. 0 = {} /\ 2 .. 0 = {}
        OBVIOUS
      <3> QED
        BY <3>1, <3>2
    <2>7. Streams(Tail(F), a + F[1].remaining, z)
      BY <1>3, <2>4, <2>5, <2>6 DEF Streams
    <2> QED
      BY <2>1, <2>5, <2>7
  <1>7. CASE Len(F) # 1
    <2>1. 1 \in 1 .. Len(F) - 1 /\ 2 \in 2 .. Len(F) /\ 1 \in 1 .. Len(F) /\ 2 \in 1 .. Len(F) /\ 2 - 1 = 1
          /\ Len(F) - 1 \in 1 .. Len(F) - 1
      BY <1>1, <1>7
    <2>2. Tail(F)[1] = F[2] /\ Tail(F)[Len(F) - 1] = F[Len(F)]
      <3>1. Tail(F)[1] = F[1 + 1] /\ Tail(F)[Len(F) - 1] = F[Len(F) - 1 + 1]
        BY <1>3, <2>1
      <3>2. Len(F) - 1 + 1 = Len(F) /\ 1 + 1 = 2
        BY <1>1
      <3> QED
        BY <3>1, <3>2
    <2>3. F[2].remaining = F[2].actual /\ F[2].first = Ends(F[1]) + 1
      BY <2>1 DEF Streams
    <2>4. F[1] \in SinkFragments /\ F[2] \in SinkFragments
      BY <1>2, <2>1
    <2>a. /\ F[1].first \in Nat /\ F[1].actual \in Nat /\ F[1].remaining \in Nat
          /\ F[2].first \in Nat /\ F[2].actual \in Nat
      BY <2>4, FragmentNumbers
    <2>b. /\ Ends(F[1]) = F[1].first + F[1].actual - 1
          /\ FirstLeft(F[1]) = F[1].first + F[1].actual - F[1].remaining
          /\ FirstLeft(F[2]) = F[2].first + F[2].actual - F[2].remaining
      BY <2>4, FragmentNumbers
    <2>5. FirstLeft(F[2]) = a + F[1].remaining + 1
      <3>1. PICK u \in Nat, v \in Nat, w \in Nat, x \in Nat, y \in Nat :
                /\ u = F[1].first /\ v = F[1].actual /\ w = F[1].remaining
                /\ x = F[2].first /\ y = F[2].actual
        BY <2>a
      <3>2. u + v - w = a + 1 /\ x = u + v - 1 + 1 /\ F[2].remaining = y
        BY <1>1, <2>3, <2>b, <3>1
      <3>3. x + y - y = a + w + 1
        BY <3>2
      <3> QED
        BY <2>b, <3>1, <3>2, <3>3
    <2>6. Len(Tail(F)) # 0 /\ FirstLeft(Tail(F)[1]) = a + F[1].remaining + 1
          /\ Ends(Tail(F)[Len(Tail(F))]) = z
      BY <1>1, <1>3, <1>7, <2>2, <2>5
    <2>7. Head(F) = F[1]
      BY <1>1
    <2> HIDE DEF FirstLeft, Ends
    <2> QED
      BY <1>1, <1>3, <1>4, <1>5, <2>4, <2>6, <2>7 DEF Streams
  <1> QED
    BY <1>6, <1>7

LEMMA FrontBuffer ==
  ASSUME NEW F \in Seq(SinkFragments), Len(F) # 0, OwnBuffers(F)
  PROVE  /\ OwnBuffers(Tail(F)) /\ HeldIn(Tail(F)) = HeldIn(F) \ {F[1].buffer}
         /\ F[1].buffer \in HeldIn(F)
  <1>1. /\ DOMAIN F = 1 .. Len(F) /\ Len(F) \in Nat \ {0}
        /\ DOMAIN Tail(F) = 1 .. Len(F) - 1
        /\ \A i \in 1 .. Len(F) - 1 : Tail(F)[i] = F[i + 1]
    OBVIOUS
  <1>2. OwnBuffers(Tail(F))
    <2> SUFFICES ASSUME NEW i \in 1 .. Len(F) - 1, NEW j \in 1 .. Len(F) - 1,
                        Tail(F)[i].buffer = Tail(F)[j].buffer
                 PROVE  i = j
      BY <1>1 DEF OwnBuffers
    <2>1. i + 1 \in DOMAIN F /\ j + 1 \in DOMAIN F /\ F[i + 1].buffer = F[j + 1].buffer
      BY <1>1
    <2>2. i + 1 = j + 1
      BY <2>1 DEF OwnBuffers
    <2> QED
      BY <2>2
  <1>3. 1 \in DOMAIN F
    BY <1>1
  <1>4. ASSUME NEW b \in HeldIn(Tail(F)) PROVE b \in HeldIn(F) \ {F[1].buffer}
    <2>1. PICK i \in 1 .. Len(F) - 1 : b = Tail(F)[i].buffer
      BY <1>1, <1>4 DEF HeldIn
    <2>2. b = F[i + 1].buffer /\ i + 1 \in DOMAIN F /\ i + 1 # 1
      BY <1>1, <2>1
    <2> QED
      BY <1>3, <2>2 DEF HeldIn, OwnBuffers
  <1>5. ASSUME NEW b \in HeldIn(F), b # F[1].buffer PROVE b \in HeldIn(Tail(F))
    <2>1. PICK i \in DOMAIN F : b = F[i].buffer
      BY <1>5 DEF HeldIn
    <2>2. i - 1 \in 1 .. Len(F) - 1 /\ (i - 1) + 1 = i
      BY <1>1, <1>5, <2>1
    <2>3. Tail(F)[i - 1] = F[i]
      BY <1>1, <2>2
    <2> QED
      BY <1>1, <2>1, <2>2, <2>3 DEF HeldIn
  <1>6. F[1].buffer \in HeldIn(F)
    BY <1>3 DEF HeldIn
  <1> QED
    BY <1>2, <1>4, <1>5, <1>6

\* The front fragment is read in part.
LEMMA FrontReplaced ==
  ASSUME NEW S, NEW F \in Seq(S), Len(F) # 0, NEW f \in S
  PROVE  /\ <<f>> \o Tail(F) \in Seq(S) /\ Len(<<f>> \o Tail(F)) = Len(F)
         /\ (<<f>> \o Tail(F))[1] = f
         /\ \A i \in 2 .. Len(F) : (<<f>> \o Tail(F))[i] = F[i]
  <1> DEFINE h == <<f>>
             t == Tail(F)
  <1>1. h \in Seq(S) /\ Len(h) = 1 /\ h[1] = f
    OBVIOUS
  <1>2. t \in Seq(S) /\ Len(t) = Len(F) - 1 /\ \A i \in 1 .. Len(F) - 1 : t[i] = F[i + 1]
    OBVIOUS
  <1>3. Len(F) \in Nat \ {0}
    OBVIOUS
  <1> HIDE DEF h, t
  <1>4. /\ h \o t \in Seq(S) /\ Len(h \o t) = Len(h) + Len(t)
        /\ \A i \in 1 .. Len(h) : (h \o t)[i] = h[i]
        /\ \A i \in 1 .. Len(t) : (h \o t)[Len(h) + i] = t[i]
    <2>1. h \in Seq(S) /\ t \in Seq(S)
      BY <1>1, <1>2
    <2> QED
      BY <2>1, TwoJoined
  <1>5. ASSUME NEW i \in 2 .. Len(F) PROVE (h \o t)[i] = F[i]
    <2>1. i - 1 \in 1 .. Len(F) - 1 /\ 1 + (i - 1) = i /\ (i - 1) + 1 = i
      BY <1>3
    <2> QED
      BY <1>1, <1>2, <1>4, <2>1
  <1>6. Len(h \o t) = Len(F) /\ (h \o t)[1] = f
    BY <1>1, <1>2, <1>3, <1>4
  <1> QED
    BY <1>4, <1>5, <1>6 DEF h, t

ReadInPart(F, n) == <<[F[1] EXCEPT !.remaining = @ - n]>> \o Tail(F)

LEMMA FrontRead ==
  ASSUME NEW F, NEW a \in Nat, NEW z \in Nat, Streams(F, a, z), Len(F) # 0, OwnBuffers(F),
         NEW n \in Nat \ {0}, n < F[1].remaining
  PROVE  /\ Streams(ReadInPart(F, n), a + n, z) /\ OwnBuffers(ReadInPart(F, n))
         /\ HeldIn(ReadInPart(F, n)) = HeldIn(F)
  <1> DEFINE G == ReadInPart(F, n)
  <1>1. /\ F \in Seq(SinkFragments) /\ Len(F) \in Nat \ {0} /\ DOMAIN F = 1 .. Len(F)
        /\ FirstLeft(F[1]) = a + 1 /\ Ends(F[Len(F)]) = z /\ 1 \in DOMAIN F
    BY DEF Streams
  <1>2. F[1] \in SinkFragments /\ F[1].remaining <= F[1].actual
    BY <1>1 DEF Streams
  <1> DEFINE f == [F[1] EXCEPT !.remaining = @ - n]
  <1>3. F[1].remaining \in Nat
    BY <1>2, FragmentNumbers
  <1>4. PICK r \in Nat : r = F[1].remaining
    BY <1>3
  <1>5. r - n \in Nat \ {0} /\ r - n <= r
    BY <1>4
  <1>6. /\ f \in SinkFragments /\ f.first = F[1].first /\ f.actual = F[1].actual
        /\ f.remaining = r - n /\ f.buffer = F[1].buffer
    BY <1>2, <1>4, <1>5 DEF SinkFragments
  <1>7. G = <<f>> \o Tail(F)
    BY DEF ReadInPart
  <1> HIDE DEF f, G
  <1>8. /\ G \in Seq(SinkFragments) /\ Len(G) = Len(F) /\ G[1] = f
        /\ \A i \in 2 .. Len(F) : G[i] = F[i]
    BY <1>1, <1>6, <1>7, FrontReplaced
  <1>9. DOMAIN G = DOMAIN F
    BY <1>1, <1>8
  <1>a. \A i \in DOMAIN F : G[i].buffer = F[i].buffer /\ G[i].actual = F[i].actual
                            /\ G[i].first = F[i].first
    <2> SUFFICES ASSUME NEW i \in DOMAIN F
                 PROVE  /\ G[i].buffer = F[i].buffer /\ G[i].actual = F[i].actual
                        /\ G[i].first = F[i].first
      OBVIOUS
    <2>1. CASE i = 1
      BY <1>6, <1>8, <2>1
    <2>2. CASE i # 1
      <3>1. i \in 2 .. Len(F)
        BY <1>1, <2>2
      <3> QED
        BY <1>8, <3>1
    <2> QED
      BY <2>1, <2>2
  <1>b. OwnBuffers(G) /\ HeldIn(G) = HeldIn(F)
    <2>1. OwnBuffers(G)
      BY <1>9, <1>a DEF OwnBuffers
    <2>2. ASSUME NEW b \in HeldIn(G) PROVE b \in HeldIn(F)
      BY <1>9, <1>a, <2>2 DEF HeldIn
    <2>3. ASSUME NEW b \in HeldIn(F) PROVE b \in HeldIn(G)
      BY <1>9, <1>a, <2>3 DEF HeldIn
    <2> QED
      BY <2>1, <2>2, <2>3
  <1>c. \A i \in DOMAIN F : Ends(G[i]) = Ends(F[i])
    BY <1>a DEF Ends
  <1>d. \A i \in 1 .. Len(G) : G[i].remaining <= G[i].actual
    <2> SUFFICES ASSUME NEW i \in DOMAIN F PROVE G[i].remaining <= G[i].actual
      BY <1>1, <1>8
    <2>1. CASE i = 1
      <3>1. F[1].actual \in Nat
        BY <1>2, FragmentNumbers
      <3>2. PICK v \in Nat : v = F[1].actual
        BY <3>1
      <3>3. r <= v
        BY <1>2, <1>4, <3>2
      <3>4. r - n <= v
        BY <1>5, <3>3
      <3> QED
        BY <1>6, <1>8, <2>1, <3>2, <3>4
    <2>2. CASE i # 1
      <3>1. i \in 2 .. Len(F) /\ i \in 1 .. Len(F)
        BY <1>1, <2>2
      <3> QED
        BY <1>8, <3>1 DEF Streams
    <2> QED
      BY <2>1, <2>2
  <1>e. \A i \in 2 .. Len(G) : G[i].remaining = G[i].actual /\ G[i].first = Ends(G[i - 1]) + 1
    <2> SUFFICES ASSUME NEW i \in 2 .. Len(F)
                 PROVE  G[i].remaining = G[i].actual /\ G[i].first = Ends(G[i - 1]) + 1
      BY <1>8
    <2>1. i - 1 \in DOMAIN F
      BY <1>1
    <2>2. Ends(G[i - 1]) = Ends(F[i - 1])
      BY <1>c, <2>1
    <2>3. F[i].remaining = F[i].actual /\ F[i].first = Ends(F[i - 1]) + 1
      BY DEF Streams
    <2> QED
      BY <1>8, <2>2, <2>3
  <1>f. FirstLeft(G[1]) = a + n + 1
    <2>1. F[1].first \in Nat /\ F[1].actual \in Nat
      BY <1>2, FragmentNumbers
    <2>2. PICK u \in Nat, v \in Nat : u = F[1].first /\ v = F[1].actual
      BY <2>1
    <2>3. u + v - r = a + 1
      BY <1>1, <1>4, <2>2 DEF FirstLeft
    <2>4. u + v - (r - n) = a + n + 1
      BY <2>3
    <2> QED
      BY <1>6, <1>8, <2>2, <2>4 DEF FirstLeft
  <1>g. Len(G) # 0 /\ Ends(G[Len(G)]) = z
    <2>1. Len(F) \in DOMAIN F
      BY <1>1
    <2> QED
      BY <1>1, <1>8, <1>c, <2>1
  <1> QED
    BY <1>8, <1>b, <1>d, <1>e, <1>f, <1>g DEF Streams, G

\* A written fragment is the last one.
WithLast(F, z, n, b) == Append(F, Fragment(z + 1, n, b))

LEMMA LastWritten ==
  ASSUME NEW F, NEW a \in Nat, NEW z \in Nat, Streams(F, a, z), OwnBuffers(F),
         NEW n \in Nat \ {0}, NEW b \in Nat, b \notin HeldIn(F)
  PROVE  /\ Streams(WithLast(F, z, n, b), a, z + n) /\ OwnBuffers(WithLast(F, z, n, b))
         /\ HeldIn(WithLast(F, z, n, b)) = HeldIn(F) \cup {b}
  <1> DEFINE f == Fragment(z + 1, n, b)
             G == WithLast(F, z, n, b)
  <1>1. /\ f \in SinkFragments /\ f.first = z + 1 /\ f.actual = n /\ f.remaining = n
        /\ f.buffer = b
    BY DEF Fragment, SinkFragments
  <1>2. Ends(f) = z + n /\ FirstLeft(f) = z + 1
    BY <1>1 DEF Ends, FirstLeft
  <1>3. F \in Seq(SinkFragments) /\ Len(F) \in Nat /\ DOMAIN F = 1 .. Len(F)
    BY DEF Streams
  <1>4. G = Append(F, f)
    BY DEF WithLast
  <1> HIDE DEF f, G
  <1>5. /\ G \in Seq(SinkFragments) /\ Len(G) = Len(F) + 1 /\ G[Len(F) + 1] = f
        /\ \A i \in 1 .. Len(F) : G[i] = F[i]
    BY <1>1, <1>3, <1>4
  <1>6. DOMAIN G = 1 .. Len(F) + 1
    BY <1>3, <1>5
  <1>7. \A i \in 1 .. Len(F) + 1 : i \in 1 .. Len(F) \/ i = Len(F) + 1
    BY <1>3
  <1>8. \A i \in 1 .. Len(F) : F[i].buffer # b
    BY <1>3 DEF HeldIn
  <1>9. OwnBuffers(G)
    <2> SUFFICES ASSUME NEW i \in 1 .. Len(F) + 1, NEW j \in 1 .. Len(F) + 1,
                        G[i].buffer = G[j].buffer
                 PROVE  i = j
      BY <1>6 DEF OwnBuffers
    <2>1. CASE i \in 1 .. Len(F) /\ j \in 1 .. Len(F)
      BY <1>3, <1>5, <2>1 DEF OwnBuffers
    <2>2. CASE ~(i \in 1 .. Len(F) /\ j \in 1 .. Len(F))
      BY <1>1, <1>5, <1>7, <1>8, <2>2
    <2> QED
      BY <2>1, <2>2
  <1>a. HeldIn(G) = HeldIn(F) \cup {b}
    <2>1. ASSUME NEW c \in HeldIn(G) PROVE c \in HeldIn(F) \cup {b}
      <3>1. PICK i \in 1 .. Len(F) + 1 : c = G[i].buffer
        BY <1>6, <2>1 DEF HeldIn
      <3> QED
        BY <1>1, <1>3, <1>5, <1>7, <3>1 DEF HeldIn
    <2>2. ASSUME NEW c \in HeldIn(F) PROVE c \in HeldIn(G)
      <3>1. PICK i \in 1 .. Len(F) : c = F[i].buffer
        BY <1>3, <2>2 DEF HeldIn
      <3>2. i \in DOMAIN G /\ c = G[i].buffer
        BY <1>3, <1>5, <1>6, <3>1
      <3> QED
        BY <3>2 DEF HeldIn
    <2>3. b \in HeldIn(G)
      <3>1. Len(F) + 1 \in DOMAIN G
        BY <1>3, <1>6
      <3> QED
        BY <1>1, <1>5, <3>1 DEF HeldIn
    <2> QED
      BY <2>1, <2>2, <2>3
  <1>b. \A i \in 1 .. Len(G) : G[i].remaining <= G[i].actual
    <2> SUFFICES ASSUME NEW i \in 1 .. Len(F) + 1 PROVE G[i].remaining <= G[i].actual
      BY <1>5
    <2>1. CASE i \in 1 .. Len(F)
      BY <1>5, <2>1 DEF Streams
    <2>2. CASE i = Len(F) + 1
      BY <1>1, <1>5, <2>2
    <2> QED
      BY <1>7, <2>1, <2>2
  <1>c. \A i \in 2 .. Len(G) : G[i].remaining = G[i].actual /\ G[i].first = Ends(G[i - 1]) + 1
    <2> SUFFICES ASSUME NEW i \in 2 .. Len(F) + 1
                 PROVE  G[i].remaining = G[i].actual /\ G[i].first = Ends(G[i - 1]) + 1
      BY <1>5
    <2>1. i - 1 \in 1 .. Len(F) /\ G[i - 1] = F[i - 1]
      BY <1>3, <1>5
    <2>2. CASE i \in 2 .. Len(F)
      <3>1. i \in 1 .. Len(F) /\ G[i] = F[i]
        BY <1>3, <1>5, <2>2
      <3>2. F[i].remaining = F[i].actual /\ F[i].first = Ends(F[i - 1]) + 1
        BY <2>2 DEF Streams
      <3> QED
        BY <2>1, <3>1, <3>2
    <2>3. CASE i = Len(F) + 1
      <3>1. Len(F) # 0 /\ i - 1 = Len(F) /\ G[i] = f
        BY <1>3, <1>5, <2>1, <2>3
      <3>2. Ends(F[Len(F)]) = z
        BY <3>1 DEF Streams
      <3> QED
        BY <1>1, <2>1, <3>1, <3>2
    <2> QED
      BY <1>3, <2>2, <2>3
  <1>d. Len(G) # 0 /\ FirstLeft(G[1]) = a + 1
    <2>1. CASE Len(F) = 0
      <3>1. a = z /\ G[1] = f /\ Len(G) # 0
        BY <1>5, <2>1 DEF Streams
      <3> QED
        BY <1>2, <3>1
    <2>2. CASE Len(F) # 0
      <3>1. G[1] = F[1] /\ Len(G) # 0
        BY <1>3, <1>5, <2>2
      <3>2. FirstLeft(F[1]) = a + 1
        BY <2>2 DEF Streams
      <3> QED
        BY <3>1, <3>2
    <2> QED
      BY <2>1, <2>2
  <1>e. Ends(G[Len(G)]) = z + n
    BY <1>2, <1>5
  <1> QED
    BY <1>5, <1>9, <1>a, <1>b, <1>c, <1>d, <1>e DEF Streams, G

\* Two intervals, one behind the other.
LEMMA IntervalsJoined ==
  ASSUME NEW a \in Nat, NEW n \in Nat, NEW m \in Nat
  PROVE  Interval(a, n) \o Interval(a + n, m) = Interval(a, n + m)
  <1> DEFINE f == Interval(a, n)
             g == Interval(a + n, m)
             h == Interval(a, n + m)
  <1>1. f \in Seq(Int) /\ Len(f) = n /\ \A i \in 1 .. n : f[i] = a + i - 1
    BY DEF Interval
  <1>2. g \in Seq(Int) /\ Len(g) = m /\ \A i \in 1 .. m : g[i] = a + n + i - 1
    BY DEF Interval
  <1>3. h \in Seq(Int) /\ Len(h) = n + m /\ \A i \in 1 .. n + m : h[i] = a + i - 1
    BY DEF Interval
  <1> HIDE DEF f, g, h
  <1>4. f \in Seq(Int) /\ g \in Seq(Int)
    BY <1>1, <1>2
  <1>5. /\ f \o g \in Seq(Int) /\ Len(f \o g) = Len(f) + Len(g)
        /\ \A i \in 1 .. Len(f) : (f \o g)[i] = f[i]
        /\ \A i \in 1 .. Len(g) : (f \o g)[Len(f) + i] = g[i]
    BY <1>4, TwoJoined
  <1> DEFINE k == f \o g
  <1>6. k \in Seq(Int) /\ Len(k) = n + m
    BY <1>1, <1>2, <1>5
  <1>7. \A i \in 1 .. n : k[i] = f[i]
    BY <1>1, <1>5
  <1>8. \A i \in 1 .. m : k[n + i] = g[i]
    BY <1>1, <1>2, <1>5
  <1> HIDE DEF k
  <1>9. ASSUME NEW i \in 1 .. n + m PROVE k[i] = h[i]
    <2>1. CASE i \in 1 .. n
      BY <1>1, <1>3, <1>7, <2>1
    <2>2. CASE i \notin 1 .. n
      <3>1. i - n \in 1 .. m /\ n + (i - n) = i
        BY <2>2
      <3>2. k[i] = g[i - n]
        BY <1>8, <3>1
      <3>3. g[i - n] = a + n + (i - n) - 1
        BY <1>2, <3>1
      <3>4. h[i] = a + i - 1
        BY <1>3
      <3>5. a + n + (i - n) - 1 = a + i - 1
        OBVIOUS
      <3> QED
        BY <3>2, <3>3, <3>4, <3>5
    <2> QED
      BY <2>1, <2>2
  <1>a. Len(k) = Len(h) /\ \A i \in 1 .. Len(k) : k[i] = h[i]
    BY <1>3, <1>6, <1>9
  <1>b. k = h
    BY <1>3, <1>6, <1>a, SeqEqual
  <1> QED
    BY <1>b DEF f, g, h, k

\* What is so after each round on the fragments F and the buffers B.
Reads(c, F, B, a, z) ==
    /\ c.left \in Nat
    /\ HeldIn(c.fragments) \subseteq HeldIn(F) /\ OwnBuffers(c.fragments)
    /\ c.buffers = B \ (HeldIn(F) \ HeldIn(c.fragments))
    /\ \E n \in Nat : c.bytes = Interval(a + 1, n) /\ Streams(c.fragments, a + n, z)

LEMMA RoundReads ==
  ASSUME NEW c, NEW F, NEW B, NEW a \in Nat, NEW z \in Nat, HeldIn(F) \subseteq B,
         Reads(c, F, B, a, z)
  PROVE  Reads(ReadFront(c), F, B, a, z)
  <1> DEFINE C == c.fragments
             f == Head(C)
             g == C[1]
  <1>1. PICK n \in Nat : c.bytes = Interval(a + 1, n) /\ Streams(C, a + n, z)
    BY DEF Reads
  <1>2. c.left \in Nat /\ HeldIn(C) \subseteq HeldIn(F) /\ OwnBuffers(C)
        /\ c.buffers = B \ (HeldIn(F) \ HeldIn(C)) /\ C \in Seq(SinkFragments)
    BY <1>1 DEF Reads, Streams
  <1> HIDE DEF C, f, g
  <1>3. CASE c.left = 0 \/ C = <<>>
    <2>1. ReadFront(c) = c
      BY <1>3 DEF ReadFront, C
    <2> QED
      BY <2>1
  <1>4. CASE c.left # 0 /\ C # <<>>
    <2>1. Len(C) # 0 /\ a + n \in Nat
      BY <1>2, <1>4
    <2>2. /\ g \in SinkFragments /\ FirstLeft(g) = a + n + 1 /\ f = g
          /\ Streams(Tail(C), a + n + g.remaining, z)
      BY <1>1, <2>1, FrontGone DEF f, g
    <2>3. /\ OwnBuffers(Tail(C)) /\ HeldIn(Tail(C)) = HeldIn(C) \ {g.buffer}
          /\ g.buffer \in HeldIn(C)
      BY <1>2, <2>1, FrontBuffer DEF g
    <2>4. g.remaining \in Nat \ {0}
      BY <2>2, FragmentNumbers
    <2>5. ASSUME NEW m \in Nat
          PROVE  Interval(a + 1, n) \o Interval(FirstLeft(g), m) = Interval(a + 1, n + m)
      <3>1. a + 1 \in Nat /\ a + n + 1 = (a + 1) + n
        OBVIOUS
      <3>2. Interval(a + 1, n) \o Interval((a + 1) + n, m) = Interval(a + 1, n + m)
        BY <3>1, IntervalsJoined
      <3> QED
        BY <2>2, <3>1, <3>2
    <2>6. CASE c.left >= g.remaining
      <3> DEFINE d == ReadFront(c)
      <3>1. d = [fragments |-> Tail(C), buffers |-> c.buffers \ {g.buffer},
                 left |-> c.left - g.remaining,
                 bytes |-> c.bytes \o Interval(FirstLeft(g), g.remaining)]
        BY <1>4, <2>2, <2>6, Zenon DEF ReadFront, C, f
      <3> HIDE DEF d
      <3>2. c.left - g.remaining \in Nat
        BY <1>2, <2>4, <2>6
      <3>3. d.left \in Nat /\ d.fragments = Tail(C) /\ d.buffers = c.buffers \ {g.buffer}
        BY <3>1, <3>2
      <3>4. d.bytes = Interval(a + 1, n + g.remaining)
        BY <1>1, <2>4, <2>5, <3>1
      <3>5. d.buffers = B \ (HeldIn(F) \ HeldIn(d.fragments))
        BY <1>2, <2>3, <3>3
      <3>6. n + g.remaining \in Nat /\ a + n + g.remaining = a + (n + g.remaining)
        BY <2>4
      <3>7. Streams(d.fragments, a + (n + g.remaining), z)
        BY <2>2, <3>3, <3>6
      <3>8. HeldIn(d.fragments) \subseteq HeldIn(F) /\ OwnBuffers(d.fragments)
        BY <1>2, <2>3, <3>3
      <3>9. Reads(d, F, B, a, z)
        BY <3>3, <3>4, <3>5, <3>6, <3>7, <3>8 DEF Reads
      <3> QED
        BY <3>9 DEF d
    <2>7. CASE ~(c.left >= g.remaining)
      <3> DEFINE d == ReadFront(c)
                 G == ReadInPart(C, c.left)
      <3>1. d = [fragments |-> G, buffers |-> c.buffers, left |-> 0,
                 bytes |-> c.bytes \o Interval(FirstLeft(g), c.left)]
        BY <1>4, <2>2, <2>7, Zenon DEF ReadFront, ReadInPart, C, f, g
      <3> HIDE DEF d
      <3>2. c.left \in Nat \ {0} /\ c.left < g.remaining
        BY <1>2, <1>4, <2>4, <2>7
      <3>3. Streams(G, a + n + c.left, z) /\ OwnBuffers(G) /\ HeldIn(G) = HeldIn(C)
        BY <1>1, <1>2, <2>1, <3>2, FrontRead DEF g
      <3> HIDE DEF G
      <3>4. d.left \in Nat /\ d.fragments = G /\ d.buffers = c.buffers
        BY <3>1
      <3>5. d.bytes = Interval(a + 1, n + c.left)
        BY <1>1, <1>2, <2>5, <3>1
      <3>6. n + c.left \in Nat /\ a + n + c.left = a + (n + c.left)
        BY <1>2
      <3>7. Streams(d.fragments, a + (n + c.left), z)
        BY <3>3, <3>4, <3>6
      <3>8. HeldIn(d.fragments) \subseteq HeldIn(F) /\ OwnBuffers(d.fragments)
        BY <1>2, <3>3, <3>4
      <3>9. d.buffers = B \ (HeldIn(F) \ HeldIn(d.fragments))
        BY <1>2, <3>3, <3>4
      <3>a. Reads(d, F, B, a, z)
        BY <3>4, <3>5, <3>6, <3>7, <3>8, <3>9 DEF Reads
      <3> QED
        BY <3>a DEF d
    <2> QED
      BY <2>6, <2>7
  <1> QED
    BY <1>3, <1>4

\* The rounds of the loop, one after another.
Rounds(u, m, c) == u = [n \in 0 .. m |-> IF n = 0 THEN c ELSE ReadFront(u[n - 1])]

LEMMA LoopRuns == ASSUME NEW c, NEW m \in Nat PROVE \E u : Rounds(u, m, c)
  <1> DEFINE S == {x \in Nat : ~ \E u : Rounds(u, x, c)}
  <1> SUFFICES ASSUME S # {} PROVE FALSE
    OBVIOUS
  <1>1. PICK x \in S : \A y \in S : x <= y
    BY LeastExists
  <1>2. x \in Nat /\ ~ \E u : Rounds(u, x, c)
    OBVIOUS
  <1>3. CASE x = 0
    <2> DEFINE u == [n \in 0 .. 0 |-> c]
    <2>1. Rounds(u, 0, c)
      BY DEF Rounds
    <2> QED
      BY <1>2, <1>3, <2>1
  <1>4. CASE x # 0
    <2>1. x - 1 \in Nat /\ x - 1 \notin S
      BY <1>1, <1>2, <1>4
    <2>2. PICK u : Rounds(u, x - 1, c)
      BY <2>1
    <2> DEFINE v == [n \in 0 .. x |-> IF n = x THEN ReadFront(u[x - 1]) ELSE u[n]]
    <2>3. \A n \in 0 .. x - 1 : u[n] = IF n = 0 THEN c ELSE ReadFront(u[n - 1])
      BY <2>2 DEF Rounds
    <2>4. ASSUME NEW n \in 0 .. x PROVE v[n] = IF n = 0 THEN c ELSE ReadFront(v[n - 1])
      <3>1. CASE n = x
        <4>1. n # 0 /\ n - 1 \in 0 .. x /\ n - 1 # x
          BY <1>2, <1>4, <3>1
        <4>2. v[n - 1] = u[x - 1] /\ v[n] = ReadFront(u[x - 1])
          BY <3>1, <4>1
        <4> QED
          BY <4>1, <4>2
      <3>2. CASE n # x
        <4>1. n \in 0 .. x - 1 /\ v[n] = u[n]
          BY <1>2, <3>2
        <4>2. CASE n = 0
          BY <2>3, <4>1, <4>2
        <4>3. CASE n # 0
          <5>1. n - 1 \in 0 .. x /\ n - 1 # x
            BY <1>2, <4>3
          <5>2. v[n - 1] = u[n - 1]
            BY <5>1
          <5> QED
            BY <2>3, <4>1, <4>3, <5>2
        <4> QED
          BY <4>2, <4>3
      <3> QED
        BY <3>1, <3>2
    <2>5. v = [n \in 0 .. x |-> v[n]]
      OBVIOUS
    <2> HIDE DEF v
    <2>6. Rounds(v, x, c)
      BY <2>4, <2>5, Zenon DEF Rounds
    <2> QED
      BY <1>2, <2>6
  <1> QED
    BY <1>3, <1>4

\* A read leaves what each of its rounds keeps.
LEMMA LoopReads ==
  ASSUME NEW F, NEW B, NEW a \in Nat, NEW z \in Nat, NEW size \in Nat, HeldIn(F) \subseteq B,
         Streams(F, a, z), OwnBuffers(F)
  PROVE  Reads(Consumed(F, B, size), F, B, a, z)
  <1> DEFINE c == Unread(F, B, size)
             m == Len(F)
             u == CHOOSE v : Rounds(v, m, c)
  <1>1. m \in Nat
    BY DEF Streams
  <1>2. Rounds(u, m, c)
    BY <1>1, LoopRuns
  <1>3. Consumed(F, B, size) = u[m]
    BY Zenon DEF Consumed, Rounds
  <1>4. Reads(c, F, B, a, z)
    <2>1. Interval(a + 1, 0) = <<>>
      BY DEF Interval
    <2>2. /\ c.fragments = F /\ c.buffers = B /\ c.left = size /\ c.bytes = <<>>
      BY DEF Unread
    <2> HIDE DEF c
    <2>3. a + 0 = a
      OBVIOUS
    <2>4. c.bytes = Interval(a + 1, 0) /\ Streams(c.fragments, a + 0, z)
      BY <2>1, <2>2, <2>3
    <2>5. c.buffers = B \ (HeldIn(F) \ HeldIn(c.fragments))
      BY <2>2
    <2> QED
      BY <2>2, <2>4, <2>5 DEF Reads
  <1> HIDE DEF c, m, u
  <1>5. \A n \in 0 .. m : u[n] = IF n = 0 THEN c ELSE ReadFront(u[n - 1])
    BY <1>2 DEF Rounds
  <1> DEFINE S == {n \in Nat : n \in 0 .. m /\ ~ Reads(u[n], F, B, a, z)}
  <1>6. S = {}
    <2> SUFFICES ASSUME S # {} PROVE FALSE
      OBVIOUS
    <2>1. S \in SUBSET Nat
      OBVIOUS
    <2>2. PICK x \in S : \A y \in S : x <= y
      BY <2>1, LeastExists
    <2>3. CASE x = 0
      BY <1>4, <1>5, <2>2, <2>3
    <2>4. CASE x # 0
      <3>1. x - 1 \in 0 .. m /\ x - 1 \in Nat /\ x - 1 \notin S
        BY <1>1, <2>2, <2>4
      <3>2. Reads(u[x - 1], F, B, a, z)
        BY <3>1
      <3>3. u[x] = ReadFront(u[x - 1])
        BY <1>5, <2>4
      <3> QED
        BY <3>2, <3>3, RoundReads
    <2> QED
      BY <2>3, <2>4
  <1>7. m \in 0 .. m /\ m \in Nat
    BY <1>1
  <1> QED
    BY <1>3, <1>6, <1>7

-----------------------------------------------------------------------------
\* A buffer from the heap is one that no fragment holds.
LEMMA NewBufferIsNew ==
  ASSUME buffers \subseteq Nat, IsFiniteSet(buffers)
  PROVE  NewBuffer \in Nat /\ NewBuffer \notin buffers
  <1>1. Cardinality(buffers) \in Nat
    BY FS_CardinalityType
  <1>2. \E b \in 0 .. Cardinality(buffers) : b \notin buffers
    <2> SUFFICES ASSUME 0 .. Cardinality(buffers) \subseteq buffers PROVE FALSE
      OBVIOUS
    <2>1. Cardinality(0 .. Cardinality(buffers)) = Cardinality(buffers) + 1
      BY <1>1, FS_Interval
    <2>2. Cardinality(0 .. Cardinality(buffers)) <= Cardinality(buffers)
      BY FS_Subset
    <2> QED
      BY <1>1, <2>1, <2>2
  <1>3. NewBuffer \in 0 .. Cardinality(buffers) /\ NewBuffer \notin buffers
    BY <1>2, Zenon DEF NewBuffer
  <1> QED
    BY <1>1, <1>3

\* Bytes that wait for a reader were written.
LEMMA StreamEnds ==
  ASSUME NEW F, NEW a \in Nat, NEW z \in Nat, Streams(F, a, z), Len(F) # 0
  PROVE  z # 0
  <1>1. F \in Seq(SinkFragments) /\ Len(F) \in DOMAIN F /\ Ends(F[Len(F)]) = z
    BY DEF Streams
  <1>2. F[Len(F)] \in SinkFragments
    BY <1>1
  <1>3. /\ F[Len(F)].first \in Nat \ {0} /\ F[Len(F)].actual \in Nat \ {0}
        /\ Ends(F[Len(F)]) = F[Len(F)].first + F[Len(F)].actual - 1
    BY <1>2, FragmentNumbers
  <1>4. PICK u \in Nat \ {0}, v \in Nat \ {0} :
            u = F[Len(F)].first /\ v = F[Len(F)].actual
    BY <1>3
  <1>5. z = u + v - 1
    BY <1>1, <1>3, <1>4
  <1> QED
    BY <1>5

\* The fragments of sink k become G, with buffers of its own or new ones.
LEMMA OneChanged ==
  ASSUME SinkInv, NEW k \in Sink, Exists(k), NEW G,
         sinks' = [sinks EXCEPT ![k].fragments = G],
         sent' \in [Sink -> Nat], taken' \in [Sink -> Nat],
         \A l \in Sink \ {k} : sent'[l] = sent[l] /\ taken'[l] = taken[l],
         sent'[k] = 0 => taken'[k] = 0,
         Streams(G, taken'[k], sent'[k]), OwnBuffers(G), HeldIn(G) \subseteq buffers',
         buffers' \subseteq Nat, IsFiniteSet(buffers'),
         buffers \ HeldIn(sinks[k].fragments) \subseteq buffers',
         \A b \in HeldIn(G) : b \in buffers => b \in HeldIn(sinks[k].fragments)
  PROVE  SinkInv'
  <1>1. sinks = [l \in Sink |-> sinks[l]] /\ sinks' = [l \in Sink |-> sinks'[l]]
    <2>1. sinks = [l \in Sink |-> sinks[l]]
      BY DEF SinkInv
    <2>2. sinks' = [l \in Sink |-> IF l = k THEN [sinks[k] EXCEPT !.fragments = G] ELSE sinks[l]]
      BY <2>1
    <2> QED
      BY <2>1, <2>2
  <1>2. \A l \in Sink \ {k} : sinks'[l] = sinks[l]
    BY <1>1
  <1>3. sinks'[k] = [owner |-> sinks[k].owner, writers |-> sinks[k].writers, fragments |-> G]
    <2>1. sinks[k] = [owner |-> sinks[k].owner, writers |-> sinks[k].writers,
                      fragments |-> sinks[k].fragments]
      BY DEF SinkInv
    <2>2. sinks'[k] = [sinks[k] EXCEPT !.fragments = G]
      BY <1>1
    <2> QED
      BY <2>1, <2>2
  <1>4. sinks'[k].owner = sinks[k].owner /\ sinks'[k].fragments = G
    BY <1>3
  <1>5. \A l \in Sink : sinks'[l] = [owner |-> sinks'[l].owner, writers |-> sinks'[l].writers,
                                     fragments |-> sinks'[l].fragments]
    <2> SUFFICES ASSUME NEW l \in Sink
                 PROVE  sinks'[l] = [owner |-> sinks'[l].owner, writers |-> sinks'[l].writers,
                                     fragments |-> sinks'[l].fragments]
      OBVIOUS
    <2>1. CASE l = k
      BY <1>3, <2>1
    <2>2. CASE l # k
      BY <1>2, <2>2 DEF SinkInv
    <2> QED
      BY <2>1, <2>2
  <1>6. \A l, m \in Sink : l # m =>
            HeldIn(sinks[l].fragments) \cap HeldIn(sinks[m].fragments) = {}
    BY DEF SinkInv
  <1>7. \A l \in Sink : HeldIn(sinks[l].fragments) \subseteq buffers
    BY DEF SinkInv, SinkFits
  <1>8. \A l \in Sink \ {k} : HeldIn(sinks[l].fragments) \subseteq buffers'
    BY <1>6, <1>7
  <1>9. \A l \in Sink \ {k} : HeldIn(sinks[l].fragments) \cap HeldIn(G) = {}
    BY <1>6, <1>7
  <1>a. \A l \in Sink : SinkFits(l)'
    <2> SUFFICES ASSUME NEW l \in Sink PROVE SinkFits(l)'
      OBVIOUS
    <2>1. CASE l = k
      BY <1>4, <2>1 DEF SinkFits, Exists
    <2>2. CASE l # k
      <3>1. SinkFits(l)
        BY DEF SinkInv
      <3> QED
        BY <1>2, <1>8, <2>2, <3>1 DEF SinkFits, Exists
    <2> QED
      BY <2>1, <2>2
  <1>b. \A l, m \in Sink : l # m =>
            HeldIn(sinks'[l].fragments) \cap HeldIn(sinks'[m].fragments) = {}
    <2> SUFFICES ASSUME NEW l \in Sink, NEW m \in Sink, l # m
                 PROVE  HeldIn(sinks'[l].fragments) \cap HeldIn(sinks'[m].fragments) = {}
      OBVIOUS
    <2>1. CASE l = k
      BY <1>2, <1>4, <1>9, <2>1
    <2>2. CASE m = k
      BY <1>2, <1>4, <1>9, <2>2
    <2>3. CASE l # k /\ m # k
      BY <1>2, <1>6, <2>3
    <2> QED
      BY <2>1, <2>2, <2>3
  <1>c. \A l \in Sink : sent'[l] = 0 => taken'[l] = 0
    <2> SUFFICES ASSUME NEW l \in Sink, sent'[l] = 0 PROVE taken'[l] = 0
      OBVIOUS
    <2>1. CASE l # k
      BY <2>1 DEF SinkInv
    <2> QED
      BY <2>1
  <1> QED
    BY <1>1, <1>5, <1>a, <1>b, <1>c DEF SinkInv

LEMMA SinkInitInv == SinkInit => SinkInv
  <1> SUFFICES ASSUME SinkInit PROVE SinkInv
    OBVIOUS
  <1>1. \A k \in Sink : sinks[k] = NoSink
    BY DEF SinkInit
  <1>2. \A k \in Sink : /\ sinks[k].owner = "none" /\ sinks[k].fragments = <<>>
                        /\ HeldIn(sinks[k].fragments) = {} /\ OwnBuffers(sinks[k].fragments)
    BY <1>1 DEF NoSink, HeldIn, OwnBuffers
  <1>3. \A k \in Sink : SinkFits(k)
    BY <1>2 DEF SinkFits, Exists
  <1>4. sinks = [k \in Sink |-> sinks[k]]
    BY <1>1 DEF SinkInit
  <1>5. \A k \in Sink : sinks[k] = [owner |-> sinks[k].owner, writers |-> sinks[k].writers,
                                    fragments |-> sinks[k].fragments]
    BY <1>1 DEF NoSink
  <1>6. buffers \subseteq Nat /\ IsFiniteSet(buffers)
    BY FS_EmptySet DEF SinkInit
  <1>7. sent \in [Sink -> Nat] /\ taken \in [Sink -> Nat] /\ \A k \in Sink : taken[k] = 0
    BY DEF SinkInit
  <1> QED
    BY <1>2, <1>3, <1>4, <1>5, <1>6, <1>7 DEF SinkInv

LEMMA RefusedInv ==
  ASSUME SinkInv, NEW call, NEW code, Refused(call, code)
  PROVE  SinkInv'
  BY DEF Refused, SinkInv, SinkFits, Exists

\* What a read of sink k finds and leaves.
LEMMA ReadOfSink ==
  ASSUME SinkInv, NEW k \in Sink, Exists(k), NEW size \in Nat
  PROVE  Reads(Consumed(sinks[k].fragments, buffers, size),
               sinks[k].fragments, buffers, taken[k], sent[k])
  <1>1. SinkFits(k) /\ taken[k] \in Nat /\ sent[k] \in Nat
    BY DEF SinkInv
  <1>2. /\ HeldIn(sinks[k].fragments) \subseteq buffers /\ OwnBuffers(sinks[k].fragments)
        /\ Streams(sinks[k].fragments, taken[k], sent[k])
    BY <1>1 DEF SinkFits
  <1> QED
    BY <1>1, <1>2, LoopReads

LEMMA CreateInv ==
  ASSUME SinkInv, NEW p \in SinkProc, NEW k \in Sink, NEW writers,
         CreateSteadyDatasink(p, k, writers)
  PROVE  SinkInv'
  <1> DEFINE new == [owner |-> p, writers |-> writers, fragments |-> <<>>]
  <1>1. /\ sinks' = [sinks EXCEPT ![k] = new] /\ ~Exists(k) /\ sent[k] = 0
        /\ buffers' = buffers /\ sent' = sent /\ taken' = taken
    BY DEF CreateSteadyDatasink
  <1>2. new.fragments = <<>> /\ new = [owner |-> new.owner, writers |-> new.writers,
                                       fragments |-> new.fragments]
    OBVIOUS
  <1>3. sinks = [l \in Sink |-> sinks[l]]
    BY DEF SinkInv
  <1> HIDE DEF new
  <1>4. /\ sinks' = [l \in Sink |-> sinks'[l]] /\ sinks'[k] = new
        /\ \A l \in Sink \ {k} : sinks'[l] = sinks[l]
    BY <1>1, <1>3
  <1>5. sinks[k].fragments = <<>> /\ \A l \in Sink : sinks'[l].fragments = sinks[l].fragments
    <2>1. sinks[k].fragments = <<>>
      BY <1>1 DEF SinkInv, SinkFits
    <2> QED
      BY <1>2, <1>4, <2>1
  <1>6. \A l \in Sink : sinks'[l] = [owner |-> sinks'[l].owner, writers |-> sinks'[l].writers,
                                     fragments |-> sinks'[l].fragments]
    <2> SUFFICES ASSUME NEW l \in Sink
                 PROVE  sinks'[l] = [owner |-> sinks'[l].owner, writers |-> sinks'[l].writers,
                                     fragments |-> sinks'[l].fragments]
      OBVIOUS
    <2>1. CASE l = k
      BY <1>2, <1>4, <2>1
    <2>2. CASE l # k
      BY <1>4, <2>2 DEF SinkInv
    <2> QED
      BY <2>1, <2>2
  <1>7. Streams(<<>>, taken[k], sent[k])
    BY <1>1 DEF SinkInv, Streams
  <1>8. \A l \in Sink : SinkFits(l)'
    <2> SUFFICES ASSUME NEW l \in Sink PROVE SinkFits(l)'
      OBVIOUS
    <2>1. SinkFits(l)
      BY DEF SinkInv
    <2>2. CASE l = k
      BY <1>1, <1>5, <1>7, <2>1, <2>2 DEF SinkFits
    <2>3. CASE l # k
      BY <1>1, <1>4, <2>1, <2>3 DEF SinkFits, Exists
    <2> QED
      BY <2>2, <2>3
  <1> QED
    BY <1>1, <1>4, <1>5, <1>6, <1>8 DEF SinkInv

LEMMA WriteInv ==
  ASSUME SinkInv, NEW p \in SinkProc, NEW k \in Sink, NEW size \in Sizes,
         NEW readable \in BOOLEAN, WriteToSink(p, k, size, readable)
  PROVE  SinkInv'
  <1> DEFINE F == sinks[k].fragments
             G == WithLast(F, sent[k], size, NewBuffer)
             written == /\ Exists(k) /\ p \in sinks[k].writers
                        /\ TakesSize(size) /\ Len(F) <= MaxFragments /\ readable
  <1>1. CASE ~written
    <2>1. Refused("write", 0)
      BY <1>1 DEF WriteToSink
    <2> QED
      BY <2>1, RefusedInv
  <1>2. CASE written
    <2>1. /\ sinks' = [sinks EXCEPT ![k].fragments = Append(@, Fragment(sent[k] + 1, size, NewBuffer))]
          /\ buffers' = buffers \cup {NewBuffer} /\ sent' = [sent EXCEPT ![k] = @ + size]
          /\ taken' = taken
      BY <1>2 DEF WriteToSink
    <2>2. sinks' = [sinks EXCEPT ![k].fragments = G]
      BY <2>1 DEF SinkInv, WithLast
    <2>3. Exists(k) /\ size \in Nat \ {0}
      BY <1>2, DataSinkAssumption DEF TakesSize
    <2>4. /\ SinkFits(k) /\ taken[k] \in Nat /\ sent[k] \in Nat
          /\ buffers \subseteq Nat /\ IsFiniteSet(buffers)
          /\ sent \in [Sink -> Nat] /\ taken \in [Sink -> Nat]
      BY DEF SinkInv
    <2>5. NewBuffer \in Nat /\ NewBuffer \notin buffers
      BY <2>4, NewBufferIsNew
    <2>6. HeldIn(F) \subseteq buffers /\ OwnBuffers(F) /\ Streams(F, taken[k], sent[k])
      BY <2>3, <2>4 DEF SinkFits
    <2>7. NewBuffer \notin HeldIn(F)
      BY <2>5, <2>6
    <2> HIDE DEF F
    <2>8. /\ Streams(G, taken[k], sent[k] + size) /\ OwnBuffers(G)
          /\ HeldIn(G) = HeldIn(F) \cup {NewBuffer}
      BY <2>3, <2>4, <2>5, <2>6, <2>7, LastWritten
    <2> HIDE DEF G
    <2>9. /\ sent' \in [Sink -> Nat] /\ taken' \in [Sink -> Nat]
          /\ sent'[k] = sent[k] + size /\ taken'[k] = taken[k]
          /\ \A l \in Sink \ {k} : sent'[l] = sent[l] /\ taken'[l] = taken[l]
      BY <2>1, <2>3, <2>4
    <2>a. sent'[k] # 0
      BY <2>3, <2>4, <2>9
    <2>b. buffers' \subseteq Nat /\ IsFiniteSet(buffers')
      BY <2>1, <2>4, <2>5, FS_AddElement
    <2>c. HeldIn(G) \subseteq buffers'
      BY <2>1, <2>6, <2>8
    <2>d. \A b \in HeldIn(G) : b \in buffers => b \in HeldIn(sinks[k].fragments)
      BY <2>5, <2>8 DEF F
    <2>e. Streams(G, taken'[k], sent'[k])
      BY <2>8, <2>9
    <2>f. buffers \ HeldIn(sinks[k].fragments) \subseteq buffers'
      BY <2>1
    <2> QED
      BY <2>2, <2>3, <2>8, <2>9, <2>a, <2>b, <2>c, <2>d, <2>e, <2>f, OneChanged
  <1> QED
    BY <1>1, <1>2

\* A sink without fragments yields no bytes.
LEMMA EmptyRead ==
  ASSUME NEW B, NEW size
  PROVE  Consumed(<<>>, B, size).bytes = <<>>
  <1> DEFINE c == Unread(<<>>, B, size)
             u == CHOOSE v : Rounds(v, 0, c)
  <1>1. Len(<<>>) = 0
    OBVIOUS
  <1>2. Rounds(u, 0, c)
    BY LoopRuns
  <1>3. Consumed(<<>>, B, size) = u[0]
    BY <1>1, Zenon DEF Consumed, Rounds
  <1> HIDE DEF u
  <1>4. u[0] = c
    BY <1>2 DEF Rounds
  <1> QED
    BY <1>3, <1>4 DEF Unread

LEMMA StreamInv ==
  ASSUME SinkInv, NEW p \in SinkProc, NEW k \in Sink, NEW size \in Sizes,
         NEW writable \in BOOLEAN, ReadFromSink(p, k, size, writable)
  PROVE  SinkInv'
  <1> DEFINE F == sinks[k].fragments
             c == Consumed(F, buffers, size)
  <1>1. CASE ~Owns(p, k) \/ ~TakesSize(size) \/ c.bytes = <<>>
    <2>1. Refused("stream", -1) \/ Refused("stream", 0)
      BY <1>1 DEF ReadFromSink
    <2> QED
      BY <2>1, RefusedInv
  <1>2. CASE Owns(p, k) /\ TakesSize(size) /\ c.bytes # <<>>
    <2>1. /\ sinks' = [sinks EXCEPT ![k].fragments = c.fragments]
          /\ buffers' = c.buffers /\ taken' = [taken EXCEPT ![k] = @ + Len(c.bytes)]
          /\ sent' = sent
      BY <1>2 DEF ReadFromSink
    <2>2. /\ SinkFits(k) /\ taken[k] \in Nat /\ sent[k] \in Nat
          /\ buffers \subseteq Nat /\ IsFiniteSet(buffers)
          /\ sent \in [Sink -> Nat] /\ taken \in [Sink -> Nat]
      BY DEF SinkInv
    <2>3. Exists(k)
      <3> SUFFICES ASSUME ~Exists(k) PROVE FALSE
        OBVIOUS
      <3>1. F = <<>>
        BY <2>2 DEF SinkFits
      <3>2. c.bytes = <<>>
        BY <3>1, EmptyRead
      <3> QED
        BY <1>2, <3>2
    <2>4. size \in Nat
      BY DataSinkAssumption
    <2>5. Reads(c, F, buffers, taken[k], sent[k])
      BY <2>3, <2>4, ReadOfSink
    <2>6. HeldIn(F) \subseteq buffers /\ Streams(F, taken[k], sent[k])
      BY <2>2, <2>3 DEF SinkFits
    <2>7. F # <<>>
      BY <1>2, EmptyRead
    <2> HIDE DEF F, c
    <2>8. PICK n \in Nat : c.bytes = Interval(taken[k] + 1, n)
                           /\ Streams(c.fragments, taken[k] + n, sent[k])
      BY <2>5 DEF Reads
    <2>9. /\ HeldIn(c.fragments) \subseteq HeldIn(F) /\ OwnBuffers(c.fragments)
          /\ c.buffers = buffers \ (HeldIn(F) \ HeldIn(c.fragments))
      BY <2>5 DEF Reads
    <2>a. Len(c.bytes) = n
      BY <2>8 DEF Interval
    <2>b. /\ taken' \in [Sink -> Nat] /\ taken'[k] = taken[k] + n /\ sent' \in [Sink -> Nat]
          /\ \A l \in Sink \ {k} : sent'[l] = sent[l] /\ taken'[l] = taken[l]
      BY <2>1, <2>2, <2>8, <2>a
    <2>c. sent'[k] # 0
      <3>1. Len(F) # 0
        BY <2>6, <2>7 DEF Streams
      <3> QED
        BY <2>1, <2>2, <2>6, <3>1, StreamEnds
    <2>d. buffers' \subseteq Nat /\ IsFiniteSet(buffers')
      <3>1. buffers' \in SUBSET buffers
        BY <2>1, <2>9
      <3> QED
        BY <2>2, <3>1, FS_Subset
    <2>e. HeldIn(c.fragments) \subseteq buffers'
      BY <2>1, <2>6, <2>9
    <2>f. buffers \ HeldIn(sinks[k].fragments) \subseteq buffers'
      BY <2>1, <2>9 DEF F
    <2>g. \A b \in HeldIn(c.fragments) : b \in buffers => b \in HeldIn(sinks[k].fragments)
      BY <2>9 DEF F
    <2>h. Streams(c.fragments, taken'[k], sent'[k])
      BY <2>1, <2>8, <2>b
    <2>i. DEFINE G == c.fragments
    <2>j. sinks' = [sinks EXCEPT ![k].fragments = G]
      BY <2>1
    <2> QED
      BY <2>3, <2>9, <2>b, <2>c, <2>d, <2>e, <2>f, <2>g, <2>h, <2>j, OneChanged
  <1> QED
    BY <1>1, <1>2

LEMMA BlockInv ==
  ASSUME SinkInv, NEW p \in SinkProc, NEW k \in Sink, NEW writable \in BOOLEAN,
         ReadFragment(p, k, writable)
  PROVE  SinkInv'
  <1> DEFINE F == sinks[k].fragments
             f == Head(F)
             g == F[1]
             T == Tail(F)
  <1>1. CASE ~Owns(p, k) \/ F = <<>> \/ ~writable
    <2>1. Refused("block", -1)
      BY <1>1 DEF ReadFragment
    <2> QED
      BY <2>1, RefusedInv
  <1>2. CASE ~(~Owns(p, k) \/ F = <<>> \/ ~writable)
    <2>1. /\ sinks' = [sinks EXCEPT ![k].fragments = T]
          /\ buffers' = buffers \ {f.buffer} /\ taken' = [taken EXCEPT ![k] = @ + f.remaining]
          /\ sent' = sent
      BY <1>2 DEF ReadFragment
    <2>2. /\ SinkFits(k) /\ taken[k] \in Nat /\ sent[k] \in Nat
          /\ buffers \subseteq Nat /\ IsFiniteSet(buffers)
          /\ sent \in [Sink -> Nat] /\ taken \in [Sink -> Nat]
      BY DEF SinkInv
    <2>3. Exists(k)
      BY <1>2, <2>2 DEF SinkFits
    <2>4. /\ HeldIn(F) \subseteq buffers /\ Streams(F, taken[k], sent[k]) /\ OwnBuffers(F)
      BY <2>2, <2>3 DEF SinkFits
    <2>5. F \in Seq(SinkFragments) /\ Len(F) # 0
      BY <1>2, <2>4 DEF Streams
    <2> HIDE DEF F, f, g, T
    <2>6. /\ g \in SinkFragments /\ f = g /\ Streams(T, taken[k] + g.remaining, sent[k])
      BY <2>2, <2>4, <2>5, FrontGone DEF f, g, T
    <2>7. OwnBuffers(T) /\ HeldIn(T) = HeldIn(F) \ {g.buffer} /\ g.buffer \in HeldIn(F)
      BY <2>4, <2>5, FrontBuffer DEF g, T
    <2>8. g.remaining \in Nat
      BY <2>6, FragmentNumbers
    <2>b. /\ taken' \in [Sink -> Nat] /\ taken'[k] = taken[k] + g.remaining /\ sent' \in [Sink -> Nat]
          /\ \A l \in Sink \ {k} : sent'[l] = sent[l] /\ taken'[l] = taken[l]
      BY <2>1, <2>2, <2>6, <2>8
    <2>c. sent'[k] # 0
      BY <2>1, <2>2, <2>4, <2>5, StreamEnds
    <2>d. buffers' \subseteq Nat /\ IsFiniteSet(buffers')
      <3>1. buffers' \in SUBSET buffers
        BY <2>1
      <3> QED
        BY <2>2, <3>1, FS_Subset
    <2>e. HeldIn(T) \subseteq buffers'
      BY <2>1, <2>4, <2>6, <2>7
    <2>f. buffers \ HeldIn(sinks[k].fragments) \subseteq buffers'
      BY <2>1, <2>6, <2>7 DEF F
    <2>g. \A b \in HeldIn(T) : b \in buffers => b \in HeldIn(sinks[k].fragments)
      BY <2>7 DEF F
    <2>h. Streams(T, taken'[k], sent'[k])
      BY <2>1, <2>6, <2>b
    <2> QED
      BY <2>1, <2>3, <2>7, <2>b, <2>c, <2>d, <2>e, <2>f, <2>g, <2>h, OneChanged
  <1> QED
    BY <1>1, <1>2

LEMMA DeathInv ==
  ASSUME SinkInv, NEW p \in SinkProc, OwnerDies(p)
  PROVE  SinkInv'
  <1>1. /\ sinks' = [k \in Sink |-> IF Owns(p, k) THEN NoSink ELSE sinks[k]]
        /\ buffers' = buffers /\ sent' = sent /\ taken' = taken
    BY DEF OwnerDies
  <1>2. /\ NoSink = [owner |-> NoSink.owner, writers |-> NoSink.writers,
                     fragments |-> NoSink.fragments]
        /\ NoSink.fragments = <<>> /\ NoSink.owner = "none"
    BY DEF NoSink
  <1>3. \A k \in Sink : sinks'[k] = NoSink \/ sinks'[k] = sinks[k]
    BY <1>1
  <1>4. HeldIn(<<>>) = {} /\ OwnBuffers(<<>>)
    BY DEF HeldIn, OwnBuffers
  <1>5. \A k \in Sink : SinkFits(k)'
    <2> SUFFICES ASSUME NEW k \in Sink PROVE SinkFits(k)'
      OBVIOUS
    <2>1. CASE sinks'[k] = NoSink
      BY <1>2, <1>4, <2>1 DEF SinkFits, Exists
    <2>2. CASE sinks'[k] = sinks[k]
      BY <1>1, <2>2 DEF SinkInv, SinkFits, Exists
    <2> QED
      BY <1>3, <2>1, <2>2
  <1>6. \A k \in Sink : sinks'[k] = [owner |-> sinks'[k].owner, writers |-> sinks'[k].writers,
                                     fragments |-> sinks'[k].fragments]
    <2> SUFFICES ASSUME NEW k \in Sink
                 PROVE  sinks'[k] = [owner |-> sinks'[k].owner, writers |-> sinks'[k].writers,
                                     fragments |-> sinks'[k].fragments]
      OBVIOUS
    <2>1. CASE sinks'[k] = NoSink
      BY <1>2, <2>1
    <2>2. CASE sinks'[k] = sinks[k]
      BY <2>2 DEF SinkInv
    <2> QED
      BY <1>3, <2>1, <2>2
  <1>7. \A k \in Sink : HeldIn(sinks'[k].fragments) \subseteq HeldIn(sinks[k].fragments)
    <2> SUFFICES ASSUME NEW k \in Sink
                 PROVE  HeldIn(sinks'[k].fragments) \subseteq HeldIn(sinks[k].fragments)
      OBVIOUS
    <2> QED
      BY <1>2, <1>3, <1>4
  <1>8. \A k, l \in Sink : k # l =>
            HeldIn(sinks'[k].fragments) \cap HeldIn(sinks'[l].fragments) = {}
    BY <1>7 DEF SinkInv
  <1>9. sinks' = [k \in Sink |-> sinks'[k]]
    BY <1>1
  <1> QED
    BY <1>1, <1>5, <1>6, <1>8, <1>9 DEF SinkInv

LEMMA SinkStepInv == SinkInv /\ [SinkNext]_sinkVars => SinkInv'
  <1> SUFFICES ASSUME SinkInv, [SinkNext]_sinkVars PROVE SinkInv'
    OBVIOUS
  <1>1. ASSUME NEW p \in SinkProc, OwnerDies(p) PROVE SinkInv'
    BY <1>1, DeathInv
  <1>2. ASSUME NEW p \in SinkProc, NEW k \in Sink, NEW writers \in Grants,
               CreateSteadyDatasink(p, k, writers)
        PROVE  SinkInv'
    BY <1>2, CreateInv
  <1>3. ASSUME NEW p \in SinkProc, NEW k \in Sink, FetchFragmentSize(p, k) PROVE SinkInv'
    <2>1. PICK code : Refused("size", code)
      BY <1>3 DEF FetchFragmentSize
    <2> QED
      BY <2>1, RefusedInv
  <1>4. ASSUME NEW p \in SinkProc, NEW k \in Sink, NEW able \in BOOLEAN, ReadFragment(p, k, able)
        PROVE  SinkInv'
    BY <1>4, BlockInv
  <1>5. ASSUME NEW p \in SinkProc, NEW k \in Sink, NEW able \in BOOLEAN, NEW size \in Sizes,
               WriteToSink(p, k, size, able)
        PROVE  SinkInv'
    BY <1>5, WriteInv
  <1>6. ASSUME NEW p \in SinkProc, NEW k \in Sink, NEW able \in BOOLEAN, NEW size \in Sizes,
               ReadFromSink(p, k, size, able)
        PROVE  SinkInv'
    BY <1>6, StreamInv
  <1>7. CASE UNCHANGED sinkVars
    BY <1>7 DEF sinkVars, SinkInv, SinkFits, Exists
  <1>8. ASSUME NEW p \in SinkProc, NamesNoSink(p) PROVE SinkInv'
    BY <1>8, RefusedInv DEF NamesNoSink
  <1> QED
    BY <1>1, <1>2, <1>3, <1>4, <1>5, <1>6, <1>7, <1>8 DEF SinkNext

LEMMA SinkInvHolds == SinkSpec => []SinkInv
  <1>1. SinkInit => SinkInv
    BY SinkInitInv
  <1>2. SinkInv /\ [SinkNext]_sinkVars => SinkInv'
    BY SinkStepInv
  <1> QED
    BY <1>1, <1>2, PTL DEF SinkSpec

\* No two fragments share a buffer, and none refers to a freed one, however the
\* calls of processes and their deaths interleave.
THEOREM BuffersOwned == SinkSpec => []FragmentsOwnTheirBuffers
  <1>1. SinkInv => FragmentsOwnTheirBuffers
    <2> SUFFICES ASSUME SinkInv PROVE FragmentsOwnTheirBuffers
      OBVIOUS
    <2>1. \A k \in Sink : HeldBy(k) = HeldIn(sinks[k].fragments)
      BY DEF HeldBy, HeldIn
    <2>2. ASSUME NEW k \in Sink PROVE Cardinality(HeldBy(k)) = Len(sinks[k].fragments)
      <3> DEFINE F == sinks[k].fragments
      <3>1. F \in Seq(SinkFragments) /\ OwnBuffers(F)
        <4>1. SinkFits(k)
          BY DEF SinkInv
        <4>2. <<>> \in Seq(SinkFragments)
          OBVIOUS
        <4> QED
          BY <4>1, <4>2 DEF SinkFits, Streams
      <3>2. DOMAIN F = 1 .. Len(F) /\ Len(F) \in Nat
        BY <3>1
      <3> HIDE DEF F
      <3> DEFINE f == [i \in 1 .. Len(F) |-> F[i].buffer]
      <3>3. f \in Bijection(1 .. Len(F), HeldIn(F))
        <4>1. f \in [1 .. Len(F) -> HeldIn(F)]
          BY <3>2 DEF HeldIn
        <4>2. \A i, j \in 1 .. Len(F) : f[i] = f[j] => i = j
          BY <3>1, <3>2 DEF OwnBuffers
        <4>3. \A b \in HeldIn(F) : \E i \in 1 .. Len(F) : f[i] = b
          BY <3>2 DEF HeldIn
        <4> HIDE DEF f
        <4> QED
          BY <4>1, <4>2, <4>3 DEF Bijection, Injection, Surjection, IsInjective
      <3>4. IsFiniteSet(1 .. Len(F)) /\ Cardinality(1 .. Len(F)) = Len(F)
        <4>1. PICK n \in Nat : n = Len(F)
          BY <3>2
        <4>2. IsFiniteSet(1 .. n) /\ Cardinality(1 .. n) = IF 1 > n THEN 0 ELSE n - 1 + 1
          BY FS_Interval
        <4>3. Cardinality(1 .. n) = n
          BY <4>2
        <4> QED
          BY <4>1, <4>2, <4>3
      <3>5. Cardinality(HeldIn(F)) = Len(F)
        BY <3>3, <3>4, FS_Bijection DEF ExistsBijection
      <3> QED
        BY <2>1, <3>5 DEF F
    <2>3. \A k \in Sink : HeldBy(k) \subseteq buffers
      BY <2>1 DEF SinkInv, SinkFits
    <2>4. \A k, l \in Sink : k # l => HeldBy(k) \cap HeldBy(l) = {}
      BY <2>1 DEF SinkInv
    <2> QED
      BY <2>2, <2>3, <2>4 DEF FragmentsOwnTheirBuffers
  <1> QED
    BY <1>1, SinkInvHolds, PTL

\* A read of a stream returns the bytes behind those that have left the sink,
\* however writes, reads of whole fragments and failed copies come between.
THEOREM StreamsInOrder == SinkSpec => StreamReadsAreNext
  <1> DEFINE Next(k) ==
        taken'[k] > taken[k] /\ answer'.call = "stream" /\ answer'.bytes # <<>>
        => answer'.bytes = Interval(taken[k] + 1, taken'[k] - taken[k])
  <1>1. SinkInv /\ [SinkNext]_sinkVars => [\A k \in Sink : Next(k)]_sinkVars
    <2> SUFFICES ASSUME SinkInv, SinkNext, NEW k \in Sink, taken'[k] > taken[k],
                        answer'.call = "stream", answer'.bytes # <<>>
                 PROVE  answer'.bytes = Interval(taken[k] + 1, taken'[k] - taken[k])
      OBVIOUS
    <2>1. taken \in [Sink -> Nat] /\ taken' # taken
      BY DEF SinkInv
    <2>2. \A call, code : ~Refused(call, code)
      BY <2>1 DEF Refused
    <2>3. \A p \in SinkProc : ~OwnerDies(p)
      BY <2>1 DEF OwnerDies
    <2>4. \A p \in SinkProc, l \in Sink, writers \in Grants :
            ~CreateSteadyDatasink(p, l, writers) /\ ~FetchFragmentSize(p, l)
      BY <2>1, <2>2 DEF CreateSteadyDatasink, FetchFragmentSize
    <2>5. \A p \in SinkProc, l \in Sink, able \in BOOLEAN, size \in Sizes :
            ~WriteToSink(p, l, size, able)
      BY <2>1, <2>2 DEF WriteToSink
    <2>6. \A p \in SinkProc, l \in Sink, able \in BOOLEAN : ~ReadFragment(p, l, able)
      BY <2>2 DEF ReadFragment, Answer
    <2>7. PICK p \in SinkProc, l \in Sink, able \in BOOLEAN, size \in Sizes :
            ReadFromSink(p, l, size, able)
      BY <2>2, <2>3, <2>4, <2>5, <2>6 DEF SinkNext, FetchFragmentSize, NamesNoSink
    <2> DEFINE F == sinks[l].fragments
               c == Consumed(F, buffers, size)
    <2>8. /\ Owns(p, l) /\ c.bytes # <<>> /\ taken' = [taken EXCEPT ![l] = @ + Len(c.bytes)]
          /\ answer' = Answer("stream", Len(c.bytes), c.bytes) \/ answer' = Answer("stream", -1, <<>>)
      BY <2>2, <2>7 DEF ReadFromSink
    <2>9. l = k
      BY <2>1, <2>8
    <2>a. answer'.bytes = c.bytes
      BY <2>8 DEF Answer
    <2>b. Exists(l)
      <3> SUFFICES ASSUME ~Exists(l) PROVE FALSE
        OBVIOUS
      <3>1. F = <<>>
        BY DEF SinkInv, SinkFits
      <3> QED
        BY <2>8, <3>1, EmptyRead
    <2>c. size \in Nat
      BY DataSinkAssumption
    <2>d. Reads(c, F, buffers, taken[l], sent[l])
      BY <2>b, <2>c, ReadOfSink
    <2> HIDE DEF c, F
    <2>e. PICK n \in Nat : c.bytes = Interval(taken[l] + 1, n)
      BY <2>d DEF Reads
    <2>f. Len(c.bytes) = n
      BY <2>e DEF Interval
    <2>g. taken'[l] - taken[l] = n
      BY <2>1, <2>8, <2>f
    <2> QED
      BY <2>9, <2>a, <2>e, <2>g
  <1> QED
    BY <1>1, SinkInvHolds, PTL DEF SinkSpec, StreamReadsAreNext

===============================================================================
