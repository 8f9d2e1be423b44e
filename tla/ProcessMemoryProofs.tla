------------------------- MODULE ProcessMemoryProofs -------------------------
(***************************************************************************)
(* Proofs about the memory of processes, for any number of processes,      *)
(* frames, tables and threads: no frame has two users, no more is lost     *)
(* than a frame of each dead thread, and mapped pages stay as they are.    *)
(*                                                                         *)
(* FramesHaveOneUser is not inductive: it says nothing of what the entries *)
(* and stacks of one space have to do with each other, nor of a space that *)
(* is being built.  Holds says it for a record of used frames and a space, *)
(* as the helpers of the model pass it on; MemInv says it for all spaces.  *)
(* Once a frame in use was freed nothing is claimed: SoundInv.             *)
(***************************************************************************)
EXTENDS ProcessMemory, FiniteSetTheorems, WellFoundedInduction, NaturalsInduction, TLAPS

\* The fields of a page table entry, of a stack and of a space have their types.
AnyFrame == Nat \cup {NoFrame, GpuFrame}
Entries == [present : BOOLEAN, frame : AnyFrame, release : BOOLEAN, dynamic : BOOLEAN]
Stacks == [at : Page, frames : SUBSET Nat]
Spaces ==
    [alive : BOOLEAN, shared : Nat \cup {NoFrame}, directory : Nat \cup {NoFrame},
     tables : [0 .. NumTables - 1 -> Nat \cup {NoFrame}], entry : [Page -> Entries],
     stacks : SUBSET Stacks, pixels : BOOLEAN, loading : BOOLEAN]

\* A space s uses frame f for the purpose k, at place n.
Uses(s, k, n, f) ==
    \/ k = "shared" /\ n = 0 /\ f = s.shared
    \/ k = "directory" /\ n = 0 /\ f = s.directory
    \/ k = "table" /\ n \in 0 .. NumTables - 1 /\ s.tables[n] # NoFrame /\ f = s.tables[n]
    \/ k = "page" /\ n \in Page /\ s.entry[n].present /\ s.entry[n].release /\ f = s.entry[n].frame
    \/ k = "stack" /\ \E t \in s.stacks : n = t.at /\ f \in t.frames

\* The frames of a space.
Held(s) == {f \in Frame : \E k, n : Uses(s, k, n, f)}

\* A frame serves one purpose, at one place.
OneUse(s) == \A k, l, m, n, f : Uses(s, k, m, f) /\ Uses(s, l, n, f) => k = l /\ m = n

\* The first page of a stack has one of its two frames.
StackFits(s, t) ==
    /\ s.entry[t.at].present /\ ~s.entry[t.at].release
    /\ \E f \in Nat : f # s.entry[t.at].frame /\ t.frames = {s.entry[t.at].frame, f}

\* The stacks of a space are on pages of their own.
StacksFit(s) ==
    /\ IsFiniteSet(s.stacks)
    /\ \A t \in s.stacks : StackFits(s, t)
    /\ \A t, u \in s.stacks : t.at = u.at => t = u

\* Pages that wait for a frame are released with the process.
Regular(s) == StacksFit(s) /\ \A v \in Page : s.entry[v].dynamic => s.entry[v].release

\* Of the frames U in use, all but B serve space s, each for one purpose.
Holds(U, s, B) ==
    /\ s \in Spaces /\ s.alive /\ B \subseteq U
    /\ \A k, n, f : Uses(s, k, n, f) => f \in U \ B
    /\ \A f \in U \ B : \E k, n : Uses(s, k, n, f)
    /\ OneUse(s) /\ Regular(s)
------------------------------------------------------------------------------
\* A set of numbers that is not empty has a least one.
LEMMA LeastExists ==
  ASSUME NEW S \in SUBSET Nat, S # {}
  PROVE  \E x \in S : \A y \in S : x <= y
  <1>1. PICK x \in S : \A y \in S : ~(<<y, x>> \in OpToRel(<, Nat))
    BY NatLessThanWellFounded, WFMin
  <1>2. \A y \in S : ~(y < x)
    BY <1>1 DEF OpToRel
  <1> QED BY <1>2

\* alloc_physical_page finds a run of free frames.
LEMMA FirstFree ==
  ASSUME NEW U \in SUBSET Frame, NEW n \in Nat \ {0}
  PROVE  /\ First(U, n) \in Nat
         /\ \A f \in First(U, n) .. First(U, n) + n - 1 : f \notin U /\ f \in Nat
         /\ Taken(U, n) = U \cup (First(U, n) .. First(U, n) + n - 1)
  <1> USE ProcessMemoryAssumption
  <1>1. NumFrames \in Fits(U, n)
    <2>1. NumFrames \in 0 .. 2 * NumFrames
      OBVIOUS
    <2>2. (NumFrames .. NumFrames + n - 1) \cap U = {}
      BY DEF Frame
    <2> QED
      BY <2>1, <2>2 DEF Fits
  <1>2. Fits(U, n) \in SUBSET Nat
    BY DEF Fits
  <1>3. \E f \in Fits(U, n) : \A g \in Fits(U, n) : f <= g
    BY <1>1, <1>2, LeastExists
  <1>4. First(U, n) \in Fits(U, n)
    BY <1>3, Zenon DEF First
  <1>5. First(U, n) \in Nat /\ (First(U, n) .. First(U, n) + n - 1) \cap U = {}
    BY <1>4 DEF Fits
  <1> QED
    BY <1>5 DEF Taken

\* It finds one frame.
LEMMA OneFree ==
  ASSUME NEW U \in SUBSET Frame
  PROVE  First(U, 1) \in Nat /\ First(U, 1) \notin U /\ Taken(U, 1) = U \cup {First(U, 1)}
  <1> DEFINE f == First(U, 1)
  <1>0. 1 \in Nat \ {0}
    OBVIOUS
  <1>1. f \in Nat
    BY <1>0, FirstFree, Zenon
  <1>2. /\ \A g \in f .. f + 1 - 1 : g \notin U
        /\ Taken(U, 1) = U \cup (f .. f + 1 - 1)
    BY <1>0, FirstFree, Zenon
  <1> HIDE DEF f
  <1>3. f .. f + 1 - 1 = {f}
    BY <1>1
  <1> QED
    BY <1>1, <1>2, <1>3 DEF f

\* It finds two frames, next to each other.
LEMMA TwoFree ==
  ASSUME NEW U \in SUBSET Frame
  PROVE  /\ First(U, 2) \in Nat /\ First(U, 2) + 1 \in Nat
         /\ First(U, 2) \notin U /\ First(U, 2) + 1 \notin U
         /\ Taken(U, 2) = U \cup {First(U, 2), First(U, 2) + 1}
  <1> DEFINE f == First(U, 2)
  <1>0. 2 \in Nat \ {0}
    OBVIOUS
  <1>1. f \in Nat
    BY <1>0, FirstFree, Zenon
  <1>2. /\ \A g \in f .. f + 2 - 1 : g \notin U
        /\ Taken(U, 2) = U \cup (f .. f + 2 - 1)
    BY <1>0, FirstFree, Zenon
  <1> HIDE DEF f
  <1>3. f .. f + 2 - 1 = {f, f + 1}
    BY <1>1
  <1> QED
    BY <1>1, <1>2, <1>3 DEF f

\* Frames that are taken serve nobody yet.
LEMMA Reserved ==
  ASSUME NEW U, NEW s, NEW B, Holds(U, s, B), NEW X, X \cap U = {}
  PROVE  Holds(U \cup X, s, B \cup X)
  BY DEF Holds

\* Then the space puts them to use.
LEMMA Claimed ==
  ASSUME NEW U, NEW s, NEW B, NEW C, NEW z, Holds(U, s, C), B \subseteq C,
         z \in Spaces, z.alive, Regular(z),
         \A k, n, f : Uses(s, k, n, f) => Uses(z, k, n, f),
         \A k, n, f : Uses(z, k, n, f) => Uses(s, k, n, f) \/ f \in C \ B,
         \A f \in C \ B : \E k, n : Uses(z, k, n, f),
         \A k, l, m, n, f : f \in C \ B /\ Uses(z, k, m, f) /\ Uses(z, l, n, f) => k = l /\ m = n
  PROVE  Holds(U, z, B)
  <1>1. B \subseteq U /\ \A k, n, f : Uses(z, k, n, f) => f \in U \ B
    BY DEF Holds
  <1>2. \A f \in U \ B : \E k, n : Uses(z, k, n, f)
    <2> SUFFICES ASSUME NEW f \in U \ B PROVE \E k, n : Uses(z, k, n, f)
      OBVIOUS
    <2>1. CASE f \in C
      BY <2>1
    <2>2. CASE f \notin C
      BY <2>2 DEF Holds
    <2> QED
      BY <2>1, <2>2
  <1>3. OneUse(z)
    <2> SUFFICES ASSUME NEW k, NEW l, NEW m, NEW n, NEW f, Uses(z, k, m, f), Uses(z, l, n, f)
                 PROVE  k = l /\ m = n
      BY DEF OneUse
    <2>1. CASE f \in C \ B
      BY <2>1
    <2>2. CASE f \notin C \ B
      BY <2>2 DEF Holds, OneUse
    <2> QED
      BY <2>1, <2>2
  <1> QED
    BY <1>1, <1>2, <1>3 DEF Holds

\* Pages that are not present are given frames of C, or promised some, or
\* mapped to frames that the space does not own.
LEMMA PagesClaimed ==
  ASSUME NEW U, NEW s, NEW B, NEW C, NEW z, Holds(U, s, C), B \subseteq C, z \in Spaces,
         /\ z.alive = s.alive /\ z.shared = s.shared /\ z.directory = s.directory
         /\ z.tables = s.tables /\ z.stacks = s.stacks,
         \A u \in Page : z.entry[u] # s.entry[u] =>
            /\ ~s.entry[u].present
            /\ z.entry[u].dynamic => z.entry[u].release
            /\ z.entry[u].present /\ z.entry[u].release => z.entry[u].frame \in C \ B,
         \A f \in C \ B : \E u \in Page : /\ z.entry[u].present /\ z.entry[u].release
                                          /\ z.entry[u].frame = f,
         \A u, w \in Page : /\ z.entry[u].present /\ z.entry[u].release /\ z.entry[u].frame \in C \ B
                            /\ z.entry[w].present /\ z.entry[w].release
                            /\ z.entry[u].frame = z.entry[w].frame
                            => u = w
  PROVE  Holds(U, z, B)
  <1>1. Regular(z)
    <2>1. Regular(s) /\ s \in Spaces
      BY DEF Holds
    <2>2. ASSUME NEW t \in s.stacks PROVE StackFits(z, t)
      <3>1. StackFits(s, t) /\ t.at \in Page
        BY <2>1 DEF Regular, StacksFit, Spaces, Stacks
      <3>2. z.entry[t.at] = s.entry[t.at]
        BY <3>1 DEF StackFits
      <3> QED
        BY <3>1, <3>2 DEF StackFits
    <2>3. StacksFit(z)
      BY <2>1, <2>2 DEF Regular, StacksFit
    <2>4. \A v \in Page : z.entry[v].dynamic => z.entry[v].release
      BY <2>1 DEF Regular
    <2> QED
      BY <2>3, <2>4 DEF Regular
  <1>2. ASSUME NEW k, NEW n, NEW f, k # "page" PROVE Uses(s, k, n, f) <=> Uses(z, k, n, f)
    BY <1>2 DEF Uses
  <1>3. ASSUME NEW n, NEW f
        PROVE  /\ Uses(s, "page", n, f) => Uses(z, "page", n, f)
               /\ Uses(z, "page", n, f) => Uses(s, "page", n, f) \/ f \in C \ B
    BY DEF Uses
  <1>4. \A f \in C \ B : \E k, n : Uses(z, k, n, f)
    <2> SUFFICES ASSUME NEW f \in C \ B PROVE Uses(z, "page", CHOOSE n : Uses(z, "page", n, f), f)
      OBVIOUS
    <2>1. PICK u \in Page : z.entry[u].present /\ z.entry[u].release /\ z.entry[u].frame = f
      OBVIOUS
    <2>2. Uses(z, "page", u, f)
      BY <2>1 DEF Uses
    <2> QED
      BY <2>2
  <1>5. \A k, n, f : Uses(s, k, n, f) => Uses(z, k, n, f)
    BY <1>2, <1>3
  <1>6. \A k, n, f : Uses(z, k, n, f) => Uses(s, k, n, f) \/ f \in C \ B
    BY <1>2, <1>3
  <1>7. ASSUME NEW k, NEW l, NEW m, NEW n, NEW f \in C \ B, Uses(z, k, m, f), Uses(z, l, n, f)
        PROVE  k = l /\ m = n
    <2>1. \A j, i : ~Uses(s, j, i, f)
      BY DEF Holds
    <2>2. k = "page" /\ l = "page"
      BY <1>2, <1>7, <2>1
    <2>3. /\ m \in Page /\ z.entry[m].present /\ z.entry[m].release /\ f = z.entry[m].frame
          /\ n \in Page /\ z.entry[n].present /\ z.entry[n].release /\ f = z.entry[n].frame
      BY <1>7, <2>2 DEF Uses
    <2>4. z.entry[m].frame \in C \ B /\ z.entry[m].frame = z.entry[n].frame
      BY <2>3
    <2>5. m = n
      BY <2>3, <2>4
    <2> QED
      BY <2>2, <2>5
  <1>8. z.alive
    BY DEF Holds
  <1> QED
    BY <1>1, <1>4, <1>5, <1>6, <1>7, <1>8, Claimed

------------------------------------------------------------------------------
\* Quotient and remainder.
LEMMA DivMod ==
  ASSUME NEW p \in Nat \ {0}, NEW n \in Nat
  PROVE  \E q \in Nat, r \in 0 .. p - 1 : n \div p = q /\ n % p = r /\ n = p * q + r
  <1>1. n \div p \in Nat
    BY SMT
  <1>2. n % p \in 0 .. p - 1
    BY SMT
  <1>3. n = p * (n \div p) + (n % p)
    BY SMT
  <1> QED BY <1>1, <1>2, <1>3, Zenon

\* Multiples keep the order of their factors.
LEMMA Scaled ==
  ASSUME NEW p \in Nat \ {0}, NEW a \in Int, NEW b \in Int
  PROVE  /\ p * a \in Int
         /\ a <= b => p * a <= p * b
         /\ p * a < p * b => a < b
         /\ p * (a + 1) = p * a + p
  BY SMT

\* Every page has a table, and a later page none before it.
LEMMA Tables ==
  ASSUME NEW u \in Page, NEW v \in Page, u <= v
  PROVE  TableOf(u) \in 0 .. NumTables - 1 /\ TableOf(v) \in 0 .. NumTables - 1
         /\ TableOf(u) <= TableOf(v)
  <1> USE ProcessMemoryAssumption
  <1>1. TablePages \in Nat \ {0} /\ NumTables \in Int
    OBVIOUS
  <1>2. PICK P \in Int : P = TablePages * NumTables
    BY <1>1, Scaled
  <1>3. u \in Nat /\ v \in Nat /\ u < P /\ v < P
    BY <1>2 DEF Page
  <1>4. PICK q \in Nat, r \in 0 .. TablePages - 1 :
            u \div TablePages = q /\ u % TablePages = r /\ u = TablePages * q + r
    BY <1>1, <1>3, DivMod
  <1>5. PICK h \in Nat, i \in 0 .. TablePages - 1 :
            v \div TablePages = h /\ v % TablePages = i /\ v = TablePages * h + i
    BY <1>1, <1>3, DivMod
  <1>6. PICK Q \in Int : Q = TablePages * q
    BY <1>1, Scaled
  <1>7. PICK H \in Int : H = TablePages * h
    BY <1>1, Scaled
  <1>8. q < NumTables
    <2>1. Q < P
      BY <1>3, <1>4, <1>6
    <2>2. TablePages * q < TablePages * NumTables
      BY <1>2, <1>6, <2>1
    <2>3. q \in Int
      OBVIOUS
    <2> QED
      BY <1>1, <2>2, <2>3, Scaled
  <1>9. h < NumTables
    <2>1. H < P
      BY <1>3, <1>5, <1>7
    <2>2. TablePages * h < TablePages * NumTables
      BY <1>2, <1>7, <2>1
    <2>3. h \in Int
      OBVIOUS
    <2> QED
      BY <1>1, <2>2, <2>3, Scaled
  <1>10. q < h + 1
    <2>1. Q < H + TablePages
      BY <1>3, <1>4, <1>5, <1>6, <1>7
    <2>2. TablePages * (h + 1) = H + TablePages
      <3>1. h \in Int
        OBVIOUS
      <3>2. TablePages * (h + 1) = TablePages * h + TablePages
        BY <1>1, <3>1, Scaled
      <3> QED
        BY <1>7, <3>2
    <2>3. TablePages * q < TablePages * (h + 1)
      BY <1>6, <2>1, <2>2
    <2>4. q \in Int /\ h + 1 \in Int
      OBVIOUS
    <2> QED
      BY <1>1, <2>3, <2>4, Scaled
  <1>11. TableOf(u) = q /\ TableOf(v) = h
    BY <1>4, <1>5 DEF TableOf
  <1> QED
    BY <1>8, <1>9, <1>10, <1>11

\* A page table made for a space.
LEMMA TableMade ==
  ASSUME NEW U \in SUBSET Frame, NEW s, NEW B, Holds(U, s, B),
         NEW d \in 0 .. NumTables - 1, s.tables[d] = NoFrame,
         Taken(U, 1) \subseteq Frame
  PROVE  Holds(Taken(U, 1), [s EXCEPT !.tables[d] = First(U, 1)], B)
  <1> USE ProcessMemoryAssumption
  <1> DEFINE f == First(U, 1)
             z == [s EXCEPT !.tables[d] = f]
             C == B \cup {f}
  <1>1. f \in Nat /\ f \notin U /\ Taken(U, 1) = U \cup {f}
    BY OneFree
  <1>2. f # NoFrame
    BY <1>1 DEF Frame
  <1>3. s \in Spaces /\ Regular(s) /\ s.alive /\ B \subseteq U
    BY DEF Holds
  <1> HIDE DEF f
  <1>4. /\ z \in Spaces /\ z.alive = s.alive /\ z.shared = s.shared /\ z.directory = s.directory
        /\ z.entry = s.entry /\ z.stacks = s.stacks
        /\ z.tables = [s.tables EXCEPT ![d] = f]
    BY <1>1, <1>3 DEF Spaces
  <1> HIDE DEF z
  <1>5. Holds(U \cup {f}, s, C)
    <2>1. {f} \cap U = {}
      BY <1>1
    <2> QED
      BY <2>1, Reserved
  <1>6. s.tables \in [0 .. NumTables - 1 -> Nat \cup {NoFrame}]
    BY <1>3 DEF Spaces
  <1>7. z.tables[d] = f /\ \A n \in 0 .. NumTables - 1 : n # d => z.tables[n] = s.tables[n]
    BY <1>4, <1>6
  <1>8. Regular(z)
    BY <1>3, <1>4 DEF Regular, StacksFit, StackFits
  <1>9. ASSUME NEW k, NEW n, NEW g
        PROVE  Uses(z, k, n, g) <=> Uses(s, k, n, g) \/ (k = "table" /\ n = d /\ g = f)
    BY <1>2, <1>4, <1>7 DEF Uses
  <1>10. C \ B = {f}
    BY <1>1, <1>3
  <1>11. \A k, n : ~Uses(s, k, n, f)
    BY <1>1 DEF Holds
  <1>12. B \subseteq C
    OBVIOUS
  <1> HIDE DEF C
  <1>13. Holds(U \cup {f}, z, B)
    <2>1. z.alive
      BY <1>3, <1>4
    <2>2. /\ \A k, n, g : Uses(s, k, n, g) => Uses(z, k, n, g)
          /\ \A k, n, g : Uses(z, k, n, g) => Uses(s, k, n, g) \/ g \in C \ B
      BY <1>9, <1>10
    <2>3. \A g \in C \ B : \E k, n : Uses(z, k, n, g)
      BY <1>9, <1>10
    <2>4. \A k, l, m, n, g : g \in C \ B /\ Uses(z, k, m, g) /\ Uses(z, l, n, g)
                             => k = l /\ m = n
      BY <1>9, <1>10, <1>11
    <2> QED
      BY <1>4, <1>5, <1>8, <1>12, <2>1, <2>2, <2>3, <2>4, Claimed
  <1> QED
    BY <1>1, <1>13 DEF z, f

\* M comes of the frames U and the space s by making page tables.
Tabled(M, U, s, B) ==
    /\ M = [used |-> M.used, s |-> M.s]
    /\ U \subseteq M.used
    /\ "entry" \in DOMAIN M.s /\ M.s.entry = s.entry
    /\ M.used \subseteq Frame => Holds(M.used, M.s, B) /\ M.s.stacks = s.stacks

\* A page table that is there is kept, one that is not is made.
LEMMA TableKept ==
  ASSUME NEW M, NEW U, NEW s, NEW B, Tabled(M, U, s, B), NEW d \in 0 .. NumTables - 1
  PROVE  Tabled(WithTable(M, d), U, s, B)
  <1>1. CASE M.s.tables[d] # NoFrame
    BY <1>1 DEF WithTable
  <1>2. CASE M.s.tables[d] = NoFrame
    <2> DEFINE f == First(M.used, 1)
               z == [M.s EXCEPT !.tables[d] = f]
               used1 == Taken(M.used, 1)
    <2>1. WithTable(M, d) = [used |-> used1, s |-> z]
      BY <1>2 DEF WithTable
    <2>2. M.used \subseteq used1
      BY DEF Taken
    <2>4. "entry" \in DOMAIN z /\ z.entry = s.entry
      <3>1. "entry" \in DOMAIN M.s /\ M.s.entry = s.entry
        BY DEF Tabled
      <3>2. DOMAIN z = DOMAIN M.s
        OBVIOUS
      <3>3. z.entry = M.s.entry
        BY <3>1
      <3> QED
        BY <3>1, <3>2, <3>3
    <2>3. ASSUME used1 \subseteq Frame
          PROVE  Holds(used1, z, B) /\ z.stacks = s.stacks
      <3>1. M.used \in SUBSET Frame
        BY <2>2, <2>3
      <3>2. Holds(M.used, M.s, B) /\ M.s.stacks = s.stacks
        BY <3>1 DEF Tabled
      <3>3. Holds(used1, z, B)
        BY <1>2, <2>3, <3>1, <3>2, TableMade
      <3>4. z.stacks = M.s.stacks
        BY <3>2 DEF Holds, Spaces
      <3> QED
        BY <3>2, <3>3, <3>4
    <2> HIDE DEF z, used1, f
    <2> QED
      BY <2>1, <2>2, <2>3, <2>4 DEF Tabled
  <1> QED
    BY <1>1, <1>2

\* The rounds of the loop that makes the tables from .. m.
TableRounds(u, m, from, M) ==
    u = [d \in from - 1 .. m |-> IF d < from THEN M ELSE WithTable(u[d - 1], d)]

\* The loop that makes tables does what its rounds say.
LEMMA TableLoopRuns ==
  ASSUME NEW M, NEW from \in Int, NEW n \in Nat
  PROVE  \E u : TableRounds(u, from - 1 + n, from, M)
  <1> DEFINE S == {x \in Nat : ~ \E u : TableRounds(u, from - 1 + x, from, M)}
  <1> SUFFICES ASSUME S # {} PROVE FALSE
    OBVIOUS
  <1>1. PICK x \in S : \A y \in S : x <= y
    BY LeastExists
  <1>2. x \in Nat /\ ~ \E u : TableRounds(u, from - 1 + x, from, M)
    OBVIOUS
  <1>3. CASE x = 0
    <2> DEFINE u == [d \in from - 1 .. from - 1 |-> M]
    <2>1. \A d \in from - 1 .. from - 1 : d < from
      OBVIOUS
    <2>2. TableRounds(u, from - 1, from, M)
      BY <2>1 DEF TableRounds
    <2>3. from - 1 + x = from - 1
      BY <1>3
    <2> QED
      BY <1>2, <2>2, <2>3
  <1>4. CASE x # 0
    <2>1. x - 1 \in Nat /\ x - 1 \notin S
      BY <1>1, <1>2, <1>4
    <2>2. PICK u : TableRounds(u, from - 1 + (x - 1), from, M)
      BY <2>1
    <2> DEFINE m == from - 1 + x
               v == [d \in from - 1 .. m |-> IF d = m THEN WithTable(u[m - 1], m) ELSE u[d]]
    <2>3. \A d \in from - 1 .. m - 1 : u[d] = IF d < from THEN M ELSE WithTable(u[d - 1], d)
      <3>1. from - 1 + (x - 1) = m - 1
        BY <1>2
      <3> QED
        BY <2>2, <3>1 DEF TableRounds
    <2>4. m \in Int /\ m >= from
      BY <1>2, <1>4
    <2> HIDE DEF m
    <2>5. ASSUME NEW d \in from - 1 .. m
          PROVE  v[d] = IF d < from THEN M ELSE WithTable(v[d - 1], d)
      <3>1. CASE d = m
        <4>1. ~(d < from) /\ d - 1 \in from - 1 .. m /\ d - 1 # m
          BY <2>4, <3>1
        <4>2. v[d - 1] = u[m - 1] /\ v[d] = WithTable(u[m - 1], m)
          BY <3>1, <4>1
        <4> QED
          BY <3>1, <4>1, <4>2
      <3>2. CASE d # m
        <4>1. d \in from - 1 .. m - 1 /\ v[d] = u[d]
          BY <2>4, <3>2
        <4>2. CASE d < from
          BY <2>3, <4>1, <4>2
        <4>3. CASE ~(d < from)
          <5>1. d - 1 \in from - 1 .. m /\ d - 1 # m
            BY <2>4, <4>3
          <5>2. v[d - 1] = u[d - 1]
            BY <5>1
          <5> QED
            BY <2>3, <4>1, <4>3, <5>2
        <4> QED
          BY <4>2, <4>3
      <3> QED
        BY <3>1, <3>2
    <2>6. v = [d \in from - 1 .. m |-> v[d]]
      OBVIOUS
    <2> HIDE DEF v
    <2>7. TableRounds(v, m, from, M)
      BY <2>5, <2>6, Zenon DEF TableRounds
    <2> QED
      BY <1>2, <2>7 DEF m
  <1> QED
    BY <1>3, <1>4

\* It makes the tables it should: the first round that failed would contradict the
\* one before.
LEMMA TablesMade ==
  ASSUME NEW M, NEW U, NEW s, NEW B, Tabled(M, U, s, B),
         NEW from \in 0 .. NumTables - 1, NEW to \in 0 .. NumTables - 1, from <= to + 1
  PROVE  Tabled(WithTables(M, from, to), U, s, B)
  <1> USE ProcessMemoryAssumption
  <1> DEFINE u == CHOOSE v : TableRounds(v, to, from, M)
  <1>1. TableRounds(u, to, from, M)
    <2>1. to - from + 1 \in Nat /\ from \in Int /\ from - 1 + (to - from + 1) = to
      OBVIOUS
    <2>2. \E v : TableRounds(v, from - 1 + (to - from + 1), from, M)
      BY <2>1, TableLoopRuns
    <2> QED
      BY <2>1, <2>2
  <1>2. WithTables(M, from, to) = u[to]
    BY Zenon DEF WithTables, TableRounds
  <1> HIDE DEF u
  <1>3. \A d \in from - 1 .. to : u[d] = IF d < from THEN M ELSE WithTable(u[d - 1], d)
    BY <1>1 DEF TableRounds
  <1> DEFINE S == {n \in Nat : n <= to - from + 1 /\ ~Tabled(u[from - 1 + n], U, s, B)}
  <1>4. S = {}
    <2> SUFFICES ASSUME S # {} PROVE FALSE
      OBVIOUS
    <2>1. PICK x \in S : \A y \in S : x <= y
      BY LeastExists
    <2>2. x \in Nat /\ x <= to - from + 1 /\ ~Tabled(u[from - 1 + x], U, s, B)
      OBVIOUS
    <2>3. CASE x = 0
      <3>1. from - 1 + x \in from - 1 .. to /\ from - 1 + x < from
        BY <2>3
      <3>2. u[from - 1 + x] = M
        BY <1>3, <3>1
      <3> QED
        BY <2>2, <3>2
    <2>4. CASE x # 0
      <3> DEFINE d == from - 1 + x
      <3>1. x - 1 \in Nat /\ x - 1 \notin S /\ x - 1 <= to - from + 1
        BY <2>1, <2>2, <2>4
      <3>2. from - 1 + (x - 1) = d - 1
        BY <2>2
      <3>3. Tabled(u[d - 1], U, s, B)
        BY <3>1, <3>2
      <3>4. d \in from - 1 .. to /\ ~(d < from) /\ d \in 0 .. NumTables - 1
        BY <2>2, <2>4
      <3> HIDE DEF d
      <3>5. u[d] = WithTable(u[d - 1], d)
        BY <1>3, <3>4
      <3>6. Tabled(u[d], U, s, B)
        BY <3>3, <3>4, <3>5, TableKept
      <3> QED
        BY <2>2, <3>6 DEF d
    <2> QED
      BY <2>3, <2>4
  <1>5. to - from + 1 \in Nat /\ to - from + 1 <= to - from + 1 /\ from - 1 + (to - from + 1) = to
    OBVIOUS
  <1>6. Tabled(u[to], U, s, B)
    BY <1>4, <1>5
  <1> QED
    BY <1>2, <1>6

------------------------------------------------------------------------------
\* The search finds empty pages.
LEMMA RunFound ==
  ASSUME NEW s, NEW count \in Nat \ {0}, FreeRuns(s, count) # {}
  PROVE  /\ FindFreeVirtualPages(s, count) \in FreeRuns(s, count)
         /\ FindFreeVirtualPages(s, count) \in Nat
         /\ \A i \in 0 .. count - 1 :
                /\ FindFreeVirtualPages(s, count) + i \in Page
                /\ s.entry[FindFreeVirtualPages(s, count) + i] = NoEntry
  <1> USE ProcessMemoryAssumption
  <1>1. TablePages * NumTables \in Int
    BY Scaled
  <1>2. FreeRuns(s, count) \in SUBSET Nat
    BY <1>1 DEF FreeRuns, UserStart
  <1>3. \E v \in FreeRuns(s, count) : \A u \in FreeRuns(s, count) : v <= u
    BY <1>2, LeastExists
  <1>4. FindFreeVirtualPages(s, count) \in FreeRuns(s, count)
    BY <1>3, Zenon DEF FindFreeVirtualPages
  <1>5. ASSUME NEW v \in FreeRuns(s, count)
        PROVE  v \in Nat /\ \A i \in 0 .. count - 1 : v + i \in Page /\ s.entry[v + i] = NoEntry
    <2>1. PICK P \in Int : P = TablePages * NumTables
      BY <1>1
    <2>2. v \in Nat /\ v <= P - count
      BY <1>2, <2>1 DEF FreeRuns, UserStart
    <2>3. \A i \in 0 .. count - 1 : s.entry[v + i] = NoEntry
      BY DEF FreeRuns
    <2>4. \A i \in 0 .. count - 1 : v + i \in 0 .. P - 1
      BY <2>2
    <2> QED
      BY <2>1, <2>2, <2>3, <2>4 DEF Page
  <1> QED
    BY <1>4, <1>5

\* The search makes tables and finds empty pages.
LEMMA SearchedKept ==
  ASSUME NEW M, NEW U, NEW s, NEW B, Tabled(M, U, s, B), NEW count \in Nat \ {0},
         FreeRuns(s, count) # {}
  PROVE  /\ Tabled(Searched(M, count), U, s, B)
         /\ FindFreeVirtualPages(M.s, count) = FindFreeVirtualPages(s, count)
         /\ FindFreeVirtualPages(Searched(M, count).s, count) = FindFreeVirtualPages(s, count)
  <1> USE ProcessMemoryAssumption
  <1>1. ASSUME NEW z, z.entry = s.entry
        PROVE  FindFreeVirtualPages(z, count) = FindFreeVirtualPages(s, count)
    BY <1>1 DEF FindFreeVirtualPages, FreeRuns
  <1>2. FindFreeVirtualPages(M.s, count) = FindFreeVirtualPages(s, count)
    BY <1>1 DEF Tabled
  <1> DEFINE v == FindFreeVirtualPages(s, count)
  <1>3. v \in Nat /\ v + (count - 1) \in Page
    BY RunFound
  <1> HIDE DEF v
  <1>4. v + count - 1 \in Page
    <2>1. v + count - 1 = v + (count - 1)
      BY <1>3
    <2> QED
      BY <1>3, <2>1
  <1>5. TableOf(v + count - 1) \in 0 .. NumTables - 1
    <2>1. v + count - 1 <= v + count - 1
      BY <1>3
    <2> QED
      BY <1>4, <2>1, Tables
  <1>6. Tabled(WithTables(M, 1, TableOf(v + count - 1)), U, s, B)
    <2>1. 1 \in 0 .. NumTables - 1 /\ 1 <= TableOf(v + count - 1) + 1
      BY <1>5
    <2> QED
      BY <1>5, <2>1, TablesMade
  <1>7. Searched(M, count) = WithTables(M, 1, TableOf(v + count - 1))
    BY <1>2 DEF Searched, v
  <1>8. Tabled(Searched(M, count), U, s, B)
    BY <1>6, <1>7
  <1>9. Searched(M, count).s.entry = s.entry
    BY <1>8 DEF Tabled
  <1> QED
    BY <1>1, <1>2, <1>8, <1>9 DEF v

\* Space z is s but for its pages.
SameBut(z, s) ==
    /\ z \in Spaces /\ z.alive = s.alive /\ z.shared = s.shared
    /\ z.directory = s.directory /\ z.tables = s.tables /\ z.stacks = s.stacks

\* The pages v, v + 1, ... of z are mapped to frames from f on, the rest are those
\* of s.
MappedPages(z, s, v, f, count, release) ==
    \A u \in Page : z.entry[u] = IF u \in v .. v + count - 1
                                 THEN Entry(TRUE, f + u - v, release, FALSE) ELSE s.entry[u]

\* Mapping pages changes nothing else.
LEMMA MappedFields ==
  ASSUME NEW s \in Spaces, NEW v \in Page, NEW f \in Nat, NEW count \in Nat,
         NEW release \in BOOLEAN
  PROVE  /\ SameBut(Mapped(s, v, f, count, release), s)
         /\ MappedPages(Mapped(s, v, f, count, release), s, v, f, count, release)
  <1> USE ProcessMemoryAssumption
  <1> DEFINE e == [u \in Page |-> IF u \in v .. v + count - 1
                                  THEN Entry(TRUE, f + u - v, release, FALSE) ELSE s.entry[u]]
             z == [s EXCEPT !.entry = e]
  <1>1. Mapped(s, v, f, count, release) = z
    BY DEF Mapped
  <1>2. e \in [Page -> Entries]
    <2>1. ASSUME NEW u \in Page, u \in v .. v + count - 1
          PROVE  Entry(TRUE, f + u - v, release, FALSE) \in Entries
      <3>1. Page \in SUBSET Nat
        BY DEF Page
      <3>2. f + u - v \in AnyFrame
        BY <2>1, <3>1 DEF AnyFrame
      <3> QED
        BY <3>2 DEF Entry, Entries
    <2>2. \A u \in Page : s.entry[u] \in Entries
      BY DEF Spaces
    <2> QED
      BY <2>1, <2>2
  <1>3. \A u \in Page : e[u] = IF u \in v .. v + count - 1
                               THEN Entry(TRUE, f + u - v, release, FALSE) ELSE s.entry[u]
    OBVIOUS
  <1> HIDE DEF e
  <1>4. /\ z \in Spaces /\ z.alive = s.alive /\ z.shared = s.shared
        /\ z.directory = s.directory /\ z.tables = s.tables /\ z.stacks = s.stacks
        /\ z.entry = e
    BY <1>2 DEF Spaces
  <1> HIDE DEF z
  <1> QED
    BY <1>1, <1>3, <1>4 DEF SameBut, MappedPages

\* A stack of two frames, of which at least one is mapped.
LEMMA StackMade ==
  ASSUME NEW U, NEW s, NEW B, NEW C, NEW z, Holds(U, s, C), B \subseteq C, z \in Spaces,
         NEW v \in Page, NEW f \in Nat, NEW g \in Nat, f # g, C \ B = {f, g},
         /\ z.alive = s.alive /\ z.shared = s.shared /\ z.directory = s.directory
         /\ z.tables = s.tables,
         z.stacks = s.stacks \cup {[at |-> v, frames |-> {f, g}]},
         \A u \in Page : z.entry[u] # s.entry[u] =>
            ~s.entry[u].present /\ ~z.entry[u].release /\ ~z.entry[u].dynamic,
         ~s.entry[v].present, z.entry[v].present, z.entry[v].frame \in {f, g}
  PROVE  Holds(U, z, B)
  <1> DEFINE t == [at |-> v, frames |-> {f, g}]
  <1>1. s \in Spaces /\ Regular(s) /\ s.alive
    BY DEF Holds
  <1>2. t.at = v /\ t.frames = {f, g} /\ z.stacks = s.stacks \cup {t}
    OBVIOUS
  <1> HIDE DEF t
  <1>3. Regular(z)
    <2>1. ASSUME NEW y \in s.stacks PROVE StackFits(z, y) /\ y.at # v
      <3>1. StackFits(s, y) /\ y.at \in Page
        BY <1>1 DEF Regular, StacksFit, Spaces, Stacks
      <3>2. z.entry[y.at] = s.entry[y.at] /\ y.at # v
        BY <3>1 DEF StackFits
      <3> QED
        BY <3>1, <3>2 DEF StackFits
    <2>2. StackFits(z, t)
      <3>1. z.entry[v] # s.entry[v]
        OBVIOUS
      <3>2. z.entry[v].present /\ ~z.entry[v].release
        BY <3>1
      <3>3. \E h \in Nat : h # z.entry[v].frame /\ {f, g} = {z.entry[v].frame, h}
        <4>1. CASE z.entry[v].frame = f
          BY <4>1
        <4>2. CASE z.entry[v].frame = g
          BY <4>2
        <4> QED
          BY <4>1, <4>2
      <3> QED
        BY <1>2, <3>2, <3>3 DEF StackFits
    <2>3. IsFiniteSet(z.stacks)
      <3>1. IsFiniteSet(s.stacks)
        BY <1>1 DEF Regular, StacksFit
      <3> QED
        BY <1>2, <3>1, FS_AddElement
    <2>4. StacksFit(z)
      <3>1. \A y \in z.stacks : StackFits(z, y)
        BY <1>2, <2>1, <2>2
      <3>2. \A y, x \in z.stacks : y.at = x.at => y = x
        BY <1>1, <1>2, <2>1 DEF Regular, StacksFit
      <3> QED
        BY <2>3, <3>1, <3>2 DEF StacksFit
    <2>5. \A u \in Page : z.entry[u].dynamic => z.entry[u].release
      BY <1>1 DEF Regular
    <2> QED
      BY <2>4, <2>5 DEF Regular
  <1>4. ASSUME NEW k, NEW n, NEW h
        PROVE  Uses(z, k, n, h) <=> Uses(s, k, n, h) \/ (k = "stack" /\ n = v /\ h \in {f, g})
    <2>1. CASE k = "stack"
      <3>1. Uses(z, k, n, h) <=> \E y \in z.stacks : n = y.at /\ h \in y.frames
        BY <2>1 DEF Uses
      <3>2. Uses(s, k, n, h) <=> \E y \in s.stacks : n = y.at /\ h \in y.frames
        BY <2>1 DEF Uses
      <3> QED
        BY <1>2, <2>1, <3>1, <3>2
    <2>2. CASE k = "page"
      BY <2>2 DEF Uses
    <2>3. CASE k # "stack" /\ k # "page"
      BY <2>3 DEF Uses
    <2> QED
      BY <2>1, <2>2, <2>3
  <1>5. ASSUME NEW h \in {f, g} PROVE \A k, n : ~Uses(s, k, n, h)
    BY DEF Holds
  <1>6. \A k, n, h : Uses(s, k, n, h) => Uses(z, k, n, h)
    BY <1>4
  <1>7. \A k, n, h : Uses(z, k, n, h) => Uses(s, k, n, h) \/ h \in C \ B
    BY <1>4
  <1>8. \A h \in C \ B : \E k, n : Uses(z, k, n, h)
    BY <1>4
  <1>9. \A k, l, m, n, h : h \in C \ B /\ Uses(z, k, m, h) /\ Uses(z, l, n, h) => k = l /\ m = n
    BY <1>4, <1>5
  <1>10. z.alive
    BY <1>1
  <1> QED
    BY <1>3, <1>6, <1>7, <1>8, <1>9, <1>10, Claimed

------------------------------------------------------------------------------
\* M comes of the frames U and the space s: whatever serves others still does,
\* and the space keeps its stacks and present pages.
Grown(M, U, s, B) ==
    M.used \subseteq Frame =>
        /\ U \subseteq M.used /\ Holds(M.used, M.s, B) /\ s.stacks \subseteq M.s.stacks
        /\ \A v \in Page : s.entry[v].present => M.s.entry[v] = s.entry[v]

\* create_thread takes nothing that is in use.
LEMMA ThreadGrown ==
  ASSUME NEW U \in SUBSET Frame, NEW s, NEW B, Holds(U, s, B), FreeRuns(s, 2) # {}
  PROVE  Grown(CreatedThread([used |-> U, s |-> s]), U, s, B)
  <1> DEFINE f == First(U, 2)
             N0 == [used |-> Taken(U, 2), s |-> s]
             N == Searched(N0, 2)
             v == FindFreeVirtualPages(N.s, 2)
             C == B \cup {f, f + 1}
             y == Mapped(N.s, v, f + 1, 1, FALSE)
             t == [at |-> v, frames |-> {f, f + 1}]
             z == WithStack(y, v, {f, f + 1})
  <1>1. CreatedThread([used |-> U, s |-> s]) = [N EXCEPT !.s = z]
    <2>1. [[used |-> U, s |-> s] EXCEPT !.used = Taken(@, 2)] = N0
      OBVIOUS
    <2>2. [used |-> U, s |-> s].used = U
      OBVIOUS
    <2> QED
      BY <2>1, <2>2, Zenon DEF CreatedThread
  <1>2. /\ f \in Nat /\ f + 1 \in Nat /\ f \notin U /\ f + 1 \notin U
        /\ Taken(U, 2) = U \cup {f, f + 1}
    BY TwoFree
  <1>3. s \in Spaces /\ B \subseteq U
    BY DEF Holds
  <1>4. Tabled(N0, Taken(U, 2), s, C)
    <2>1. {f, f + 1} \cap U = {}
      BY <1>2
    <2>4. Holds(U \cup {f, f + 1}, s, C)
      BY <2>1, Reserved
    <2>2. Holds(Taken(U, 2), s, C)
      BY <1>2, <2>4
    <2>3. "entry" \in DOMAIN s
      BY <1>3 DEF Spaces
    <2> QED
      BY <2>2, <2>3 DEF Tabled
  <1> HIDE DEF N0
  <1>5. 2 \in Nat \ {0}
    OBVIOUS
  <1>6. Tabled(N, Taken(U, 2), s, C) /\ v = FindFreeVirtualPages(s, 2)
    BY <1>4, <1>5, SearchedKept
  <1>7. v + 0 \in Page /\ s.entry[v + 0] = NoEntry /\ v \in Nat
    BY <1>5, <1>6, RunFound
  <1>8. v \in Page /\ s.entry[v] = NoEntry
    <2>1. v + 0 = v
      BY <1>7
    <2> QED
      BY <1>7, <2>1
  <1>9. ~s.entry[v].present
    BY <1>8 DEF NoEntry, Entry
  <1>10. C \ B = {f, f + 1} /\ B \subseteq C
    BY <1>2, <1>3
  <1>11. f # f + 1
    BY <1>2
  <1> HIDE DEF f, N, v, C
  <1>12. ASSUME N.used \subseteq Frame
         PROVE  /\ U \subseteq N.used /\ Holds(N.used, z, B) /\ s.stacks \subseteq z.stacks
                /\ \A u \in Page : s.entry[u].present => z.entry[u] = s.entry[u]
    <2>1. /\ Holds(N.used, N.s, C) /\ N.s.stacks = s.stacks /\ N.s.entry = s.entry
          /\ U \subseteq N.used
      BY <1>2, <1>6, <1>12 DEF Tabled
    <2>2. N.s \in Spaces
      BY <2>1 DEF Holds
    <2>3. SameBut(y, N.s) /\ MappedPages(y, N.s, v, f + 1, 1, FALSE)
      BY <1>2, <1>8, <2>2, MappedFields
    <2>4. \A u \in Page : y.entry[u] = IF u = v THEN Entry(TRUE, f + 1, FALSE, FALSE)
                                                ELSE s.entry[u]
      <3>1. ASSUME NEW u \in Page
            PROVE  (u \in v .. v + 1 - 1 <=> u = v) /\ (u = v => f + 1 + u - v = f + 1)
        BY <1>2, <1>7 DEF Page
      <3> QED
        BY <2>1, <2>3, <3>1 DEF MappedPages
    <2> HIDE DEF y
    <2>5. t \in Stacks
      BY <1>2, <1>8 DEF Stacks
    <2>6. /\ z \in Spaces /\ z.alive = N.s.alive /\ z.shared = N.s.shared
          /\ z.directory = N.s.directory /\ z.tables = N.s.tables
          /\ z.stacks = N.s.stacks \cup {t} /\ z.entry = y.entry
      BY <2>3, <2>5 DEF Spaces, WithStack, SameBut
    <2> HIDE DEF z
    <2>7. \A u \in Page : z.entry[u] # N.s.entry[u] =>
            ~N.s.entry[u].present /\ ~z.entry[u].release /\ ~z.entry[u].dynamic
      BY <1>9, <2>1, <2>4, <2>6 DEF Entry
    <2>8. z.entry[v].present /\ z.entry[v].frame \in {f, f + 1} /\ ~N.s.entry[v].present
      BY <1>8, <1>9, <2>1, <2>4, <2>6 DEF Entry
    <2>9. Holds(N.used, z, B)
      BY <1>2, <1>8, <1>10, <1>11, <2>1, <2>6, <2>7, <2>8, StackMade
    <2>10. \A u \in Page : s.entry[u].present => z.entry[u] = s.entry[u]
      BY <1>9, <2>4, <2>6
    <2> QED
      BY <2>1, <2>6, <2>9, <2>10
  <1> HIDE DEF z
  <1>13. [N EXCEPT !.s = z].used = N.used /\ [N EXCEPT !.s = z].s = z
    <2>1. N = [used |-> N.used, s |-> N.s]
      BY <1>6 DEF Tabled
    <2>2. DOMAIN N = {"used", "s"}
      BY <2>1
    <2> QED
      BY <2>2
  <1> QED
    BY <1>1, <1>12, <1>13 DEF Grown

------------------------------------------------------------------------------
\* A new process, before it has pages of its own.
Started(shared, directory, table) ==
    [NoSpace EXCEPT !.alive = TRUE, !.loading = TRUE, !.shared = shared,
                    !.directory = directory, !.tables[0] = table, !.entry = Identity]

\* Such a process has the low memory mapped to itself, and nothing else.
LEMMA StartedEntries ==
  ASSUME NEW v \in Page
  PROVE  /\ Identity[v] \in Entries
         /\ ~Identity[v].release /\ ~Identity[v].dynamic
         /\ v >= UserStart => Identity[v] = NoEntry
  <1> USE ProcessMemoryAssumption
  <1>1. LowPage \in SUBSET Nat
    BY DEF LowPage
  <1>2. CASE v \in LowPage
    <2>2. Identity[v] = Entry(TRUE, v, FALSE, FALSE)
      BY <1>2 DEF Identity
    <2>3. ~(v >= UserStart)
      BY <1>2 DEF LowPage, UserStart
    <2> QED
      BY <1>1, <1>2, <2>2, <2>3 DEF Entry, Entries, AnyFrame
  <1>3. CASE v \notin LowPage
    <2>1. Identity[v] = NoEntry
      BY <1>3 DEF Identity
    <2> QED
      BY <2>1 DEF NoEntry, Entry, Entries, AnyFrame
  <1> QED
    BY <1>2, <1>3

\* It holds the shared page, the directory and the low table.
LEMMA StartedHolds ==
  ASSUME NEW U \in SUBSET Frame, NEW a \in Frame, NEW b \in Frame, NEW c \in Frame,
         a \notin U, b \notin U, c \notin U, a # b, a # c, b # c
  PROVE  Holds(U \cup {a, b, c}, Started(a, b, c), U)
  <1> USE ProcessMemoryAssumption
  <1> DEFINE s == Started(a, b, c)
             tables == [d \in 0 .. NumTables - 1 |-> IF d = 0 THEN c ELSE NoFrame]
  <1> DEFINE none == [d \in 0 .. NumTables - 1 |-> NoFrame]
             empty == [v \in Page |-> NoEntry]
             e == Identity
  <1>1. NoSpace = [alive |-> FALSE, shared |-> NoFrame, directory |-> NoFrame, tables |-> none,
                   entry |-> empty, stacks |-> {}, pixels |-> FALSE, loading |-> FALSE]
    BY DEF NoSpace
  <1>t. [none EXCEPT ![0] = c] = tables
    OBVIOUS
  <1>n. none \in [0 .. NumTables - 1 -> Nat \cup {NoFrame}] /\ empty \in [Page -> Entries]
    BY DEF NoEntry, Entry, Entries, AnyFrame
  <1> HIDE DEF none, empty, tables, e
  <1>2. /\ s.alive /\ s.shared = a /\ s.directory = b /\ s.tables = tables
        /\ s.entry = Identity /\ s.stacks = {}
    BY <1>1, <1>t DEF Started, e
  <1>3. Frame \in SUBSET Nat /\ NoFrame \notin Frame
    BY DEF Frame
  <1>4. Identity \in [Page -> Entries]
    <2>1. \A v \in Page : Identity[v] \in Entries
      BY StartedEntries
    <2>2. Identity = [v \in Page |-> Identity[v]]
      BY DEF Identity
    <2> QED
      BY <2>1, <2>2
  <1>5. tables \in [0 .. NumTables - 1 -> Nat \cup {NoFrame}]
    BY <1>3 DEF tables
  <1>6. s \in Spaces
    <2>1. NoSpace \in Spaces
      BY <1>1, <1>n DEF Spaces
    <2>2. none = NoSpace.tables
      BY <1>1
    <2>3. a \in Nat /\ b \in Nat /\ e \in [Page -> Entries]
      BY <1>3, <1>4 DEF e
    <2> QED
      BY <1>5, <1>t, <2>1, <2>2, <2>3 DEF Started, e, Spaces
  <1>7. ASSUME NEW k, NEW n, NEW f
        PROVE  Uses(s, k, n, f) <=> \/ k = "shared" /\ n = 0 /\ f = a
                                    \/ k = "directory" /\ n = 0 /\ f = b
                                    \/ k = "table" /\ n = 0 /\ f = c
    <2> HIDE DEF s
    <2>1. \A d \in 0 .. NumTables - 1 : tables[d] # NoFrame <=> d = 0
      BY <1>3 DEF tables
    <2>2. tables[0] = c /\ 0 \in 0 .. NumTables - 1
      BY DEF tables
    <2>3. ~(k = "page" /\ n \in Page /\ s.entry[n].present /\ s.entry[n].release
            /\ f = s.entry[n].frame)
      BY <1>2, StartedEntries
    <2> QED
      BY <1>2, <2>1, <2>2, <2>3 DEF Uses
  <1>8. Regular(s)
    <2>1. StacksFit(s)
      BY <1>2, FS_EmptySet DEF StacksFit
    <2>2. \A v \in Page : ~s.entry[v].dynamic
      BY <1>2, StartedEntries
    <2> QED
      BY <2>1, <2>2 DEF Regular
  <1> HIDE DEF s
  <1>9. OneUse(s)
    BY <1>7 DEF OneUse
  <1>10. /\ \A k, n, f : Uses(s, k, n, f) => f \in (U \cup {a, b, c}) \ U
         /\ \A f \in (U \cup {a, b, c}) \ U : \E k, n : Uses(s, k, n, f)
    <2>1. Uses(s, "shared", 0, a) /\ Uses(s, "directory", 0, b) /\ Uses(s, "table", 0, c)
      BY <1>7
    <2>2. \A f \in (U \cup {a, b, c}) \ U : f = a \/ f = b \/ f = c
      OBVIOUS
    <2>3. \A k, n, f : Uses(s, k, n, f) => f \in {a, b, c}
      BY <1>7
    <2> QED
      BY <2>1, <2>2, <2>3
  <1>11. Holds(U \cup {a, b, c}, s, U)
    BY <1>2, <1>6, <1>8, <1>9, <1>10 DEF Holds
  <1> QED
    BY <1>11 DEF s

\* The page shared with the kernel is mapped without being owned.
LEMMA SharedMapped ==
  ASSUME NEW U, NEW s, NEW B, Holds(U, s, B), NEW v \in Page, NEW f \in Nat,
         s.entry[v] = NoEntry
  PROVE  Holds(U, Mapped(s, v, f, 1, FALSE), B)
  <1> DEFINE z == Mapped(s, v, f, 1, FALSE)
  <1>1. s \in Spaces
    BY DEF Holds
  <1>2. SameBut(z, s) /\ MappedPages(z, s, v, f, 1, FALSE)
    BY <1>1, MappedFields
  <1> HIDE DEF z
  <1>3. \A u \in Page : z.entry[u] # s.entry[u] =>
            ~s.entry[u].present /\ ~z.entry[u].dynamic /\ ~z.entry[u].release
    <2> SUFFICES ASSUME NEW u \in Page, z.entry[u] # s.entry[u]
                 PROVE  ~s.entry[u].present /\ ~z.entry[u].dynamic /\ ~z.entry[u].release
      OBVIOUS
    <2>1. u \in v .. v + 1 - 1 /\ z.entry[u] = Entry(TRUE, f + u - v, FALSE, FALSE)
      BY <1>2 DEF MappedPages
    <2>2. u = v
      BY <2>1 DEF Page
    <2> QED
      BY <2>1, <2>2 DEF NoEntry, Entry
  <1>4. \A u \in Page : z.entry[u].present /\ z.entry[u].release =>
                        s.entry[u].present /\ s.entry[u].release
    BY <1>3
  <1>5. B \ B = {} /\ B \subseteq B
    OBVIOUS
  <1>6. /\ z \in Spaces /\ z.alive = s.alive /\ z.shared = s.shared
        /\ z.directory = s.directory /\ z.tables = s.tables /\ z.stacks = s.stacks
    BY <1>2 DEF SameBut
  <1>7. \A u \in Page : z.entry[u] # s.entry[u] =>
            /\ ~s.entry[u].present
            /\ z.entry[u].dynamic => z.entry[u].release
            /\ z.entry[u].present /\ z.entry[u].release => z.entry[u].frame \in B \ B
    BY <1>3
  <1>8. Holds(U, z, B)
    BY <1>5, <1>6, <1>7, PagesClaimed
  <1> QED
    BY <1>8 DEF z

\* create_process takes nothing that is in use.
LEMMA ProcessMade ==
  ASSUME NEW U \in SUBSET Frame, CreatedProcess(U).used \subseteq Frame
  PROVE  /\ U \subseteq CreatedProcess(U).used
         /\ Holds(CreatedProcess(U).used, CreatedProcess(U).s, U)
  <1> USE ProcessMemoryAssumption
  <1> DEFINE a == First(U, 1)
             U1 == Taken(U, 1)
             b == First(U1, 1)
             U2 == Taken(U1, 1)
             c == First(U2, 1)
             U3 == Taken(U2, 1)
             s0 == Started(a, b, c)
             M == WithTable([used |-> U3, s |-> s0], TableOf(SharedPage))
             s1 == Mapped(M.s, SharedPage, a, 1, FALSE)
             f == First(M.used, 2)
             U4 == Taken(M.used, 2)
             C == U \cup {f, f + 1}
             O == Searched([used |-> U4, s |-> s1], 2)
             v == FindFreeVirtualPages(O.s, 2)
             y == Mapped(O.s, v, f, 2, FALSE)
             z == WithStack(y, v, {f, f + 1})
  <1>1. M = [used |-> M.used, s |-> M.s]
    BY DEF WithTable
  <1>2. CreatedProcess(U) = [O EXCEPT !.s = z]
    <2> DEFINE N == [used |-> M.used, s |-> s1]
    <2>1. [M EXCEPT !.s = s1] = N
      <3> HIDE DEF M, s1
      <3> QED
        BY <1>1
    <2>2. [N EXCEPT !.used = U4] = [used |-> U4, s |-> s1]
      <3> HIDE DEF M, s1, U4
      <3> QED
        OBVIOUS
    <2>3. N.used = M.used /\ N.s = s1
      OBVIOUS
    <2> HIDE DEF N
    <2> QED
      BY <2>1, <2>2, <2>3, Zenon DEF CreatedProcess, Started
  <1> HIDE DEF z
  <1>3. ASSUME O = [used |-> O.used, s |-> O.s]
        PROVE  CreatedProcess(U).used = O.used /\ CreatedProcess(U).s = z
    <2> HIDE DEF O
    <2>1. DOMAIN O = {"used", "s"}
      BY <1>3
    <2> QED
      BY <1>2, <2>1
  <1>4. U \subseteq U1 /\ U1 \subseteq U2 /\ U2 \subseteq U3 /\ M.used \subseteq U4
    BY DEF Taken
  <1>5. Page \in SUBSET Nat /\ SharedPage \in Page /\ SharedPage >= UserStart
    <2>1. PICK P \in Int : P = TablePages * NumTables
      BY Scaled
    <2>2. TablePages * 2 <= TablePages * NumTables
      BY Scaled
    <2>3. TablePages * 2 = TablePages + TablePages
      BY SMT
    <2> QED
      BY <2>1, <2>2, <2>3 DEF Page, SharedPage, UserStart
  <1>6. "entry" \in DOMAIN s0 /\ s0.entry = Identity
    <2> HIDE DEF a, b, c
    <2>1. "entry" \in DOMAIN NoSpace
      BY DEF NoSpace
    <2> QED
      BY <2>1 DEF Started
  <1>7. ASSUME U3 \subseteq Frame PROVE Holds(U3, s0, U)
    <2>1. U \in SUBSET Frame /\ U1 \in SUBSET Frame /\ U2 \in SUBSET Frame
      BY <1>4, <1>7
    <2>2. /\ a \notin U /\ U1 = U \cup {a}
          /\ b \notin U1 /\ U2 = U1 \cup {b}
          /\ c \notin U2 /\ U3 = U2 \cup {c}
      BY <2>1, OneFree
    <2> HIDE DEF a, b, c, U1, U2, U3
    <2>3. /\ a \in Frame /\ b \in Frame /\ c \in Frame
          /\ a \notin U /\ b \notin U /\ c \notin U /\ a # b /\ a # c /\ b # c
          /\ U3 = U \cup {a, b, c}
      BY <1>7, <2>2
    <2> QED
      BY <2>3, StartedHolds
  <1>8. a \in Nat
    BY OneFree
  <1> HIDE DEF s0
  <1>9. Tabled([used |-> U3, s |-> s0], U3, s0, U)
    <2> HIDE DEF U3
    <2> QED
      BY <1>6, <1>7 DEF Tabled
  <1>10. Tabled(M, U3, s0, U)
    <2>1. TableOf(SharedPage) \in 0 .. NumTables - 1
      <3>1. SharedPage <= SharedPage
        BY DEF SharedPage
      <3> QED
        BY <1>5, <3>1, Tables
    <2> HIDE DEF U3
    <2> QED
      BY <1>9, <2>1, TableKept
  <1> HIDE DEF M
  <1>11. "entry" \in DOMAIN M.s /\ M.s.entry = Identity /\ U3 \subseteq M.used
    BY <1>6, <1>10 DEF Tabled
  <1> HIDE DEF a, U3
  <1>12. /\ "entry" \in DOMAIN s1
         /\ \A u \in Page : s1.entry[u] = IF u = SharedPage THEN Entry(TRUE, a, FALSE, FALSE)
                                          ELSE Identity[u]
    <2>1. ASSUME NEW u \in Page
          PROVE  /\ u \in SharedPage .. SharedPage + 1 - 1 <=> u = SharedPage
                 /\ u = SharedPage => a + u - SharedPage = a
      BY <1>5, <1>8 DEF SharedPage
    <2> QED
      BY <1>11, <2>1 DEF Mapped
  <1>13. M.s.entry[SharedPage] = NoEntry
    BY <1>5, <1>11, StartedEntries
  <1>14. ASSUME M.used \subseteq Frame PROVE Holds(M.used, s1, U)
    <2>1. Holds(M.used, M.s, U)
      BY <1>10, <1>14 DEF Tabled
    <2> QED
      BY <1>5, <1>8, <1>13, <2>1, SharedMapped
  <1> HIDE DEF s1
  <1>15. FreeRuns(s1, 2) # {}
    <2> DEFINE w == UserStart + 2
    <2>1. PICK P \in Int : P = TablePages * NumTables
      BY Scaled
    <2>2. TablePages * 2 <= TablePages * NumTables
      BY Scaled
    <2>3. TablePages * 2 = TablePages + TablePages
      BY SMT
    <2>4. w \in UserStart .. P - 2 /\ w + 0 \in 0 .. P - 1 /\ w + 1 \in 0 .. P - 1
      BY <2>1, <2>2, <2>3 DEF UserStart
    <2>5. w + 0 # SharedPage /\ w + 1 # SharedPage /\ w + 0 >= UserStart /\ w + 1 >= UserStart
      BY DEF UserStart, SharedPage
    <2>6. w + 0 \in Page /\ w + 1 \in Page
      BY <2>1, <2>4 DEF Page
    <2>7. Identity[w + 0] = NoEntry /\ Identity[w + 1] = NoEntry
      BY <2>5, <2>6, StartedEntries
    <2>8. s1.entry[w + 0] = NoEntry /\ s1.entry[w + 1] = NoEntry
      BY <1>12, <2>5, <2>6, <2>7
    <2>9. \A i \in 0 .. 2 - 1 : i = 0 \/ i = 1
      OBVIOUS
    <2>10. \A i \in 0 .. 2 - 1 : s1.entry[w + i] = NoEntry
      BY <2>8, <2>9
    <2>11. w \in UserStart .. TablePages * NumTables - 2
      BY <2>1, <2>4
    <2> HIDE DEF w
    <2> QED
      BY <2>10, <2>11 DEF FreeRuns
  <1>16. Tabled([used |-> U4, s |-> s1], U4, s1, C)
    <2>1. ASSUME U4 \subseteq Frame PROVE Holds(U4, s1, C)
      <3>1. M.used \in SUBSET Frame
        BY <1>4, <2>1
      <3>2. Holds(M.used, s1, U)
        BY <1>14, <3>1
      <3>3. U4 = M.used \cup {f, f + 1} /\ f \notin M.used /\ f + 1 \notin M.used
        BY <3>1, TwoFree
      <3>4. {f, f + 1} \cap M.used = {}
        BY <3>3
      <3>5. Holds(M.used \cup {f, f + 1}, s1, C)
        BY <3>2, <3>4, Reserved
      <3> QED
        BY <3>3, <3>5
    <2> HIDE DEF U4, C
    <2> QED
      BY <1>12, <2>1 DEF Tabled
  <1>17. 2 \in Nat \ {0}
    OBVIOUS
  <1>18. Tabled(O, U4, s1, C) /\ v = FindFreeVirtualPages(s1, 2)
    <2> HIDE DEF U4, C
    <2> QED
      BY <1>15, <1>16, <1>17, SearchedKept
  <1> HIDE DEF O
  <1>19. /\ v \in Nat /\ v \in Page /\ v + 1 \in Page
         /\ s1.entry[v] = NoEntry /\ s1.entry[v + 1] = NoEntry
    <2>1. v \in Nat /\ \A i \in 0 .. 2 - 1 : v + i \in Page /\ s1.entry[v + i] = NoEntry
      BY <1>15, <1>17, <1>18, RunFound
    <2> HIDE DEF v
    <2>2. v + 0 \in Page /\ s1.entry[v + 0] = NoEntry /\ v + 1 \in Page /\ s1.entry[v + 1] = NoEntry
      BY <2>1
    <2>3. v + 0 = v
      BY <2>1
    <2> QED
      BY <2>1, <2>2, <2>3
  <1>20. ASSUME O.used \subseteq Frame
         PROVE  U \subseteq O.used /\ Holds(O.used, z, U)
    <2>1. U4 \subseteq O.used /\ Holds(O.used, O.s, C) /\ O.s.entry = s1.entry
      <3> HIDE DEF U4, C
      <3> QED
        BY <1>18, <1>20 DEF Tabled
    <2>2. M.used \in SUBSET Frame /\ U \subseteq M.used
      <3> HIDE DEF U4, U1, U2
      <3> QED
        BY <1>4, <1>11, <1>20, <2>1
    <2>3. /\ f \in Nat /\ f + 1 \in Nat /\ f \notin M.used /\ f + 1 \notin M.used
          /\ U4 = M.used \cup {f, f + 1}
      BY <2>2, TwoFree
    <2> HIDE DEF f, v, U4
    <2>4. C \ U = {f, f + 1} /\ U \subseteq C /\ f # f + 1
      BY <2>2, <2>3
    <2> HIDE DEF C
    <2>5. O.s \in Spaces
      BY <2>1 DEF Holds
    <2>6. SameBut(y, O.s) /\ MappedPages(y, O.s, v, f, 2, FALSE)
      <3>1. FALSE \in BOOLEAN /\ 2 \in Nat
        OBVIOUS
      <3> QED
        BY <1>19, <2>3, <2>5, <3>1, MappedFields
    <2>7. \A u \in Page : y.entry[u] = IF u = v THEN Entry(TRUE, f, FALSE, FALSE)
                                        ELSE IF u = v + 1 THEN Entry(TRUE, f + 1, FALSE, FALSE)
                                        ELSE s1.entry[u]
      <3>1. ASSUME NEW u \in Page
            PROVE  /\ u \in v .. v + 2 - 1 <=> u = v \/ u = v + 1
                   /\ u = v => f + u - v = f
                   /\ u = v + 1 => f + u - v = f + 1
        BY <1>5, <1>19, <2>3
      <3> QED
        BY <2>1, <2>6, <3>1 DEF MappedPages
    <2> HIDE DEF y
    <2>8. [at |-> v, frames |-> {f, f + 1}] \in Stacks
      BY <1>19, <2>3 DEF Stacks
    <2>9. /\ z \in Spaces /\ z.alive = O.s.alive /\ z.shared = O.s.shared
          /\ z.directory = O.s.directory /\ z.tables = O.s.tables
          /\ z.stacks = O.s.stacks \cup {[at |-> v, frames |-> {f, f + 1}]} /\ z.entry = y.entry
      BY <2>6, <2>8 DEF Spaces, WithStack, SameBut, z
    <2>10. v # v + 1
      BY <1>19
    <2>11. \A u \in Page : z.entry[u] # O.s.entry[u] =>
              ~O.s.entry[u].present /\ ~z.entry[u].release /\ ~z.entry[u].dynamic
      BY <1>19, <2>1, <2>7, <2>9 DEF Entry, NoEntry
    <2>12. /\ z.entry[v].present /\ z.entry[v].frame \in {f, f + 1}
           /\ ~O.s.entry[v].present
      BY <1>19, <2>1, <2>7, <2>9 DEF Entry, NoEntry
    <2>13. Holds(O.used, z, U)
      <3>1. PICK g \in Nat : g = f + 1
        BY <2>3
      <3>2. v \in Page
        BY <1>19
      <3>3. C \ U = {f, g} /\ f # g /\ f \in Nat
        BY <2>3, <2>4, <3>1
      <3>4. z.stacks = O.s.stacks \cup {[at |-> v, frames |-> {f, g}]}
        BY <2>9, <3>1
      <3>5. z.entry[v].frame \in {f, g}
        BY <2>12, <3>1
      <3>6. Holds(O.used, O.s, C)
        BY <2>1
      <3> QED
        BY <2>4, <2>9, <2>11, <2>12, <3>2, <3>3, <3>4, <3>5, <3>6, StackMade
    <2> QED
      BY <2>1, <2>2, <2>3, <2>13
  <1>21. O = [used |-> O.used, s |-> O.s]
    <2> HIDE DEF U4, C
    <2> QED
      BY <1>18 DEF Tabled
  <1> HIDE DEF a, b, c, U1, U2, U3, M, f, U4, C, v, y
  <1> QED
    BY <1>3, <1>20, <1>21

------------------------------------------------------------------------------
\* Space z is s but for page w, whose entry is e.
OnePage(z, s, w, e) ==
    SameBut(z, s) /\ \A u \in Page : z.entry[u] = IF u = w THEN e ELSE s.entry[u]

\* A page gets a frame of its own.
LEMMA PageGiven ==
  ASSUME NEW U \in SUBSET Frame, NEW s, NEW B, Holds(U, s, B), NEW w \in Page, NEW z, NEW e,
         OnePage(z, s, w, e), ~s.entry[w].present,
         e.present, e.release, e.frame = First(U, 1)
  PROVE  Holds(Taken(U, 1), z, B)
  <1> DEFINE f == First(U, 1)
             C == B \cup {f}
  <1>1. f \notin U /\ Taken(U, 1) = U \cup {f}
    BY OneFree
  <1> HIDE DEF f
  <1>2. Holds(U \cup {f}, s, C)
    <2>1. {f} \cap U = {}
      BY <1>1
    <2> QED
      BY <2>1, Reserved
  <1>3. B \subseteq U /\ s \in Spaces
    BY DEF Holds
  <1>4. C \ B = {f} /\ B \subseteq C
    BY <1>1, <1>3
  <1>5. e.frame = f
    BY DEF f
  <1> HIDE DEF C
  <1>6. /\ z \in Spaces /\ z.alive = s.alive /\ z.shared = s.shared
        /\ z.directory = s.directory /\ z.tables = s.tables /\ z.stacks = s.stacks
    BY DEF OnePage, SameBut
  <1>7. z.entry[w] = e /\ \A u \in Page : u # w => z.entry[u] = s.entry[u]
    BY DEF OnePage
  <1>8. \A u \in Page : z.entry[u] # s.entry[u] =>
            /\ ~s.entry[u].present
            /\ z.entry[u].dynamic => z.entry[u].release
            /\ z.entry[u].present /\ z.entry[u].release => z.entry[u].frame \in C \ B
    BY <1>4, <1>5, <1>7
  <1>9. \A g \in C \ B : \E u \in Page : /\ z.entry[u].present /\ z.entry[u].release
                                         /\ z.entry[u].frame = g
    BY <1>4, <1>5, <1>7
  <1>10. \A u \in Page : z.entry[u].present /\ z.entry[u].release /\ z.entry[u].frame \in C \ B
                         => u = w
    <2> SUFFICES ASSUME NEW u \in Page, z.entry[u].present, z.entry[u].release,
                        z.entry[u].frame \in C \ B, u # w
                 PROVE  FALSE
      OBVIOUS
    <2>1. Uses(s, "page", u, f)
      BY <1>4, <1>7 DEF Uses
    <2> QED
      BY <1>1, <2>1 DEF Holds
  <1>11. \A u, x \in Page : /\ z.entry[u].present /\ z.entry[u].release /\ z.entry[u].frame \in C \ B
                            /\ z.entry[x].present /\ z.entry[x].release
                            /\ z.entry[u].frame = z.entry[x].frame
                            => u = x
    <2> SUFFICES ASSUME NEW u \in Page, NEW x \in Page,
                        z.entry[u].present, z.entry[u].release, z.entry[u].frame \in C \ B,
                        z.entry[x].present, z.entry[x].release,
                        z.entry[u].frame = z.entry[x].frame
                 PROVE  u = x
      BY Zenon
    <2>1. z.entry[x].frame \in C \ B
      OBVIOUS
    <2>2. u = w /\ x = w
      BY <1>10, <2>1
    <2> QED
      BY <2>2
  <1>12. Holds(U \cup {f}, z, B)
    BY <1>2, <1>4, <1>6, <1>8, <1>9, <1>11, PagesClaimed
  <1> QED
    BY <1>1, <1>12

\* A page gets an entry that uses no frame of its own.
LEMMA PageSet ==
  ASSUME NEW U, NEW s, NEW B, Holds(U, s, B), NEW w \in Page, NEW z, NEW e,
         OnePage(z, s, w, e), ~s.entry[w].present,
         ~(e.present /\ e.release), e.dynamic => e.release
  PROVE  Holds(U, z, B)
  <1>1. B \ B = {} /\ B \subseteq B
    OBVIOUS
  <1>2. /\ z \in Spaces /\ z.alive = s.alive /\ z.shared = s.shared
        /\ z.directory = s.directory /\ z.tables = s.tables /\ z.stacks = s.stacks
    BY DEF OnePage, SameBut
  <1>3. z.entry[w] = e /\ \A u \in Page : u # w => z.entry[u] = s.entry[u]
    BY DEF OnePage
  <1>4. \A u \in Page : z.entry[u] # s.entry[u] =>
            /\ ~s.entry[u].present
            /\ z.entry[u].dynamic => z.entry[u].release
            /\ z.entry[u].present /\ z.entry[u].release => z.entry[u].frame \in B \ B
    BY <1>3
  <1> QED
    BY <1>1, <1>2, <1>4, PagesClaimed

\* One entry is set.
LEMMA OnePageIs ==
  ASSUME NEW s \in Spaces, NEW w \in Page, NEW e \in Entries
  PROVE  OnePage([s EXCEPT !.entry[w] = e], s, w, e)
  <1> DEFINE z == [s EXCEPT !.entry[w] = e]
  <1>1. s.entry \in [Page -> Entries]
    BY DEF Spaces
  <1>2. [s.entry EXCEPT ![w] = e] \in [Page -> Entries]
    BY <1>1
  <1>3. /\ z \in Spaces /\ z.alive = s.alive /\ z.shared = s.shared
        /\ z.directory = s.directory /\ z.tables = s.tables /\ z.stacks = s.stacks
        /\ z.entry = [s.entry EXCEPT ![w] = e]
    BY <1>2 DEF Spaces
  <1> HIDE DEF z
  <1>4. \A u \in Page : z.entry[u] = IF u = w THEN e ELSE s.entry[u]
    BY <1>1, <1>3
  <1>5. OnePage(z, s, w, e)
    BY <1>3, <1>4 DEF OnePage, SameBut
  <1> QED
    BY <1>5 DEF z

\* Call 19 takes nothing that is in use.
LEMMA PixelsGrown ==
  ASSUME NEW U \in SUBSET Frame, NEW s, NEW B, Holds(U, s, B), FreeRuns(s, 1) # {}
  PROVE  LET M == Searched([used |-> U, s |-> s], 1)
             v == FindFreeVirtualPages(M.s, 1)
         IN  Grown([used |-> M.used,
                    s |-> [M.s EXCEPT !.pixels = TRUE,
                                      !.entry[v] = Entry(TRUE, GpuFrame, FALSE, FALSE)]],
                   U, s, B)
  <1> DEFINE N == [used |-> U, s |-> s]
             M == Searched(N, 1)
             v == FindFreeVirtualPages(M.s, 1)
             e == Entry(TRUE, GpuFrame, FALSE, FALSE)
             z == [M.s EXCEPT !.pixels = TRUE, !.entry[v] = e]
  <1>1. s \in Spaces
    BY DEF Holds
  <1>2. Tabled(N, U, s, B)
    <2>1. "entry" \in DOMAIN s
      BY <1>1 DEF Spaces
    <2> QED
      BY <2>1 DEF Tabled
  <1> HIDE DEF N
  <1>3. Tabled(M, U, s, B) /\ v = FindFreeVirtualPages(s, 1)
    <2>1. 1 \in Nat \ {0}
      OBVIOUS
    <2> QED
      BY <1>2, <2>1, SearchedKept
  <1>4. v \in Page /\ s.entry[v] = NoEntry
    <2>1. 1 \in Nat \ {0} /\ 0 \in 0 .. 1 - 1
      OBVIOUS
    <2>2. v \in Nat /\ v + 0 \in Page /\ s.entry[v + 0] = NoEntry
      BY <1>3, <2>1, RunFound
    <2>3. v + 0 = v
      BY <2>2
    <2> QED
      BY <2>2, <2>3
  <1> HIDE DEF M, v
  <1>5. ASSUME M.used \subseteq Frame
        PROVE  /\ U \subseteq M.used /\ Holds(M.used, z, B) /\ s.stacks \subseteq z.stacks
               /\ \A u \in Page : s.entry[u].present => z.entry[u] = s.entry[u]
    <2>1. /\ U \subseteq M.used /\ Holds(M.used, M.s, B) /\ M.s.entry = s.entry
          /\ M.s.stacks = s.stacks
      BY <1>3, <1>5 DEF Tabled
    <2>2. M.s \in Spaces
      BY <2>1 DEF Holds
    <2> DEFINE y == [M.s EXCEPT !.entry[v] = e]
    <2>3. e \in Entries /\ e.present /\ ~e.release /\ ~e.dynamic
      BY DEF Entry, Entries, AnyFrame
    <2> HIDE DEF e
    <2>4. OnePage(y, M.s, v, e)
      BY <1>4, <2>2, <2>3, OnePageIs
    <2>5. z = [y EXCEPT !.pixels = TRUE]
      BY <2>2 DEF Spaces
    <2> HIDE DEF y, z
    <2>6. OnePage(z, M.s, v, e)
      BY <2>4, <2>5 DEF OnePage, SameBut, Spaces
    <2>7. ~M.s.entry[v].present
      BY <1>4, <2>1 DEF NoEntry, Entry
    <2>8. Holds(M.used, z, B)
      BY <1>4, <2>1, <2>3, <2>6, <2>7, PageSet
    <2> QED
      BY <2>1, <2>6, <2>7, <2>8 DEF OnePage, SameBut
  <1> HIDE DEF z
  <1>6. Grown([used |-> M.used, s |-> z], U, s, B)
    BY <1>5 DEF Grown
  <1> QED
    BY <1>6, Zenon DEF z, e, v, M, N

\* The pages of a segment are mapped to frames of their own.
LEMMA SegmentGrown ==
  ASSUME NEW U \in SUBSET Frame, NEW s, NEW B, Holds(U, s, B), NEW v \in Nat,
         v + 2 - 1 \in Page, PreferredFree(s, v, 2)
  PROVE  LET M == WithTables([used |-> Taken(U, 2), s |-> s], TableOf(v), TableOf(v + 2 - 1))
         IN  Grown([M EXCEPT !.s = Mapped(@, v, First(U, 2), 2, TRUE)], U, s, B)
  <1> USE ProcessMemoryAssumption
  <1> DEFINE f == First(U, 2)
             C == B \cup {f, f + 1}
             N == [used |-> Taken(U, 2), s |-> s]
             M == WithTables(N, TableOf(v), TableOf(v + 2 - 1))
             z == Mapped(M.s, v, f, 2, TRUE)
  <1>1. s \in Spaces /\ B \subseteq U
    BY DEF Holds
  <1>2. /\ f \in Nat /\ f + 1 \in Nat /\ f \notin U /\ f + 1 \notin U
        /\ Taken(U, 2) = U \cup {f, f + 1}
    BY TwoFree
  <1>3. Tabled(N, Taken(U, 2), s, C)
    <2>1. {f, f + 1} \cap U = {}
      BY <1>2
    <2>2. Holds(U \cup {f, f + 1}, s, C)
      BY <2>1, Reserved
    <2>3. Holds(Taken(U, 2), s, C)
      BY <1>2, <2>2
    <2>4. "entry" \in DOMAIN s
      BY <1>1 DEF Spaces
    <2> QED
      BY <2>3, <2>4 DEF Tabled
  <1> HIDE DEF N
  <1>4. v \in Page /\ v + 1 \in Page /\ v + 2 - 1 = v + 1 /\ Page \in SUBSET Nat
    <2>1. PICK P \in Int : P = TablePages * NumTables
      BY Scaled
    <2>2. v + 2 - 1 \in 0 .. P - 1
      BY <2>1 DEF Page
    <2>3. v \in 0 .. P - 1 /\ v + 2 - 1 = v + 1
      BY <2>1, <2>2
    <2> QED
      BY <2>1, <2>3 DEF Page
  <1>5. s.entry[v] = NoEntry /\ s.entry[v + 1] = NoEntry
    <2>1. \A i \in 0 .. 2 - 1 : v + i \in Page => s.entry[v + i] = NoEntry
      BY DEF PreferredFree
    <2>2. s.entry[v + 0] = NoEntry /\ s.entry[v + 1] = NoEntry /\ v + 0 = v
      BY <1>4, <2>1
    <2> QED
      BY <2>2
  <1>6. Tabled(M, Taken(U, 2), s, C)
    <2>1. /\ TableOf(v) \in 0 .. NumTables - 1 /\ TableOf(v + 2 - 1) \in 0 .. NumTables - 1
          /\ TableOf(v) <= TableOf(v + 2 - 1)
      <3>1. v <= v + 2 - 1
        OBVIOUS
      <3> QED
        BY <1>4, <3>1, Tables
    <2>2. TableOf(v) <= TableOf(v + 2 - 1) + 1
      BY <2>1
    <2> QED
      BY <1>3, <2>1, <2>2, TablesMade
  <1>7. C \ B = {f, f + 1} /\ B \subseteq C /\ f # f + 1
    BY <1>1, <1>2
  <1> HIDE DEF f, M, C
  <1>8. ASSUME M.used \subseteq Frame
        PROVE  /\ U \subseteq M.used /\ Holds(M.used, z, B) /\ s.stacks \subseteq z.stacks
               /\ \A u \in Page : s.entry[u].present => z.entry[u] = s.entry[u]
    <2>1. /\ U \subseteq M.used /\ Holds(M.used, M.s, C) /\ M.s.entry = s.entry
          /\ M.s.stacks = s.stacks
      BY <1>2, <1>6, <1>8 DEF Tabled
    <2>2. M.s \in Spaces
      BY <2>1 DEF Holds
    <2>3. SameBut(z, M.s) /\ MappedPages(z, M.s, v, f, 2, TRUE)
      <3>1. TRUE \in BOOLEAN /\ 2 \in Nat
        OBVIOUS
      <3> QED
        BY <1>2, <1>4, <2>2, <3>1, MappedFields
    <2>4. \A u \in Page : z.entry[u] = IF u = v THEN Entry(TRUE, f, TRUE, FALSE)
                                       ELSE IF u = v + 1 THEN Entry(TRUE, f + 1, TRUE, FALSE)
                                       ELSE s.entry[u]
      <3>1. ASSUME NEW u \in Page
            PROVE  /\ u \in v .. v + 2 - 1 <=> u = v \/ u = v + 1
                   /\ u = v => f + u - v = f
                   /\ u = v + 1 => f + u - v = f + 1
        BY <1>2, <1>4
      <3> QED
        BY <2>1, <2>3, <3>1 DEF MappedPages
    <2> HIDE DEF z
    <2>5. /\ z \in Spaces /\ z.alive = M.s.alive /\ z.shared = M.s.shared
          /\ z.directory = M.s.directory /\ z.tables = M.s.tables /\ z.stacks = M.s.stacks
      BY <2>3 DEF SameBut
    <2>6. v # v + 1
      OBVIOUS
    <2>7. /\ z.entry[v] = Entry(TRUE, f, TRUE, FALSE)
          /\ z.entry[v + 1] = Entry(TRUE, f + 1, TRUE, FALSE)
          /\ \A u \in Page : u # v /\ u # v + 1 => z.entry[u] = s.entry[u]
      BY <1>4, <2>4, <2>6
    <2>8. /\ z.entry[v].present /\ z.entry[v].release /\ ~z.entry[v].dynamic
          /\ z.entry[v].frame = f
          /\ z.entry[v + 1].present /\ z.entry[v + 1].release /\ ~z.entry[v + 1].dynamic
          /\ z.entry[v + 1].frame = f + 1
          /\ ~s.entry[v].present /\ ~s.entry[v + 1].present
      BY <1>5, <2>7 DEF Entry, NoEntry
    <2>9. \A u \in Page : z.entry[u] # M.s.entry[u] =>
            /\ ~M.s.entry[u].present
            /\ z.entry[u].dynamic => z.entry[u].release
            /\ z.entry[u].present /\ z.entry[u].release => z.entry[u].frame \in C \ B
      BY <1>7, <2>1, <2>7, <2>8
    <2>10. \A g \in C \ B : \E u \in Page : /\ z.entry[u].present /\ z.entry[u].release
                                            /\ z.entry[u].frame = g
      BY <1>4, <1>7, <2>8
    <2>11. ASSUME NEW u \in Page, z.entry[u].present, z.entry[u].release,
                  z.entry[u].frame \in C \ B
           PROVE  (u = v /\ z.entry[u].frame = f) \/ (u = v + 1 /\ z.entry[u].frame = f + 1)
      <3>1. CASE u # v /\ u # v + 1
        <4>1. M.s.entry[u] = z.entry[u]
          BY <2>1, <2>7, <3>1
        <4>2. Uses(M.s, "page", u, z.entry[u].frame)
          BY <2>11, <4>1 DEF Uses
        <4>3. z.entry[u].frame \notin C
          BY <2>1, <4>2 DEF Holds
        <4> QED
          BY <2>11, <4>3
      <3>2. CASE u = v
        BY <2>8, <3>2
      <3>3. CASE u = v + 1
        BY <2>8, <3>3
      <3> QED
        BY <3>1, <3>2, <3>3
    <2>12. \A u, x \in Page : /\ z.entry[u].present /\ z.entry[u].release
                              /\ z.entry[u].frame \in C \ B
                              /\ z.entry[x].present /\ z.entry[x].release
                              /\ z.entry[u].frame = z.entry[x].frame
                              => u = x
      <3> SUFFICES ASSUME NEW u \in Page, NEW x \in Page,
                          z.entry[u].present, z.entry[u].release, z.entry[u].frame \in C \ B,
                          z.entry[x].present, z.entry[x].release,
                          z.entry[u].frame = z.entry[x].frame
                   PROVE  u = x
        BY Zenon
      <3>1. z.entry[x].frame \in C \ B
        OBVIOUS
      <3>2. (u = v /\ z.entry[u].frame = f) \/ (u = v + 1 /\ z.entry[u].frame = f + 1)
        BY <2>11
      <3>3. (x = v /\ z.entry[x].frame = f) \/ (x = v + 1 /\ z.entry[x].frame = f + 1)
        BY <2>11, <3>1
      <3> QED
        BY <1>7, <3>2, <3>3
    <2>13. Holds(M.used, z, B)
      BY <1>7, <2>1, <2>5, <2>9, <2>10, <2>12, PagesClaimed
    <2>14. \A u \in Page : s.entry[u].present => z.entry[u] = s.entry[u]
      BY <2>7, <2>8
    <2> QED
      BY <2>1, <2>5, <2>13, <2>14
  <1> HIDE DEF z
  <1>9. M = [used |-> M.used, s |-> M.s]
    BY <1>6 DEF Tabled
  <1>10. [M EXCEPT !.s = z].used = M.used /\ [M EXCEPT !.s = z].s = z
    <2>1. DOMAIN M = {"used", "s"}
      BY <1>9
    <2> QED
      BY <2>1
  <1>11. Grown([M EXCEPT !.s = z], U, s, B)
    BY <1>8, <1>10 DEF Grown
  <1> QED
    BY <1>11, Zenon DEF z, M, N, f

------------------------------------------------------------------------------
\* M comes of the frames U and the space s: the pages v .. v + n - 1 of call 21
\* are provided.
Providing(M, U, s, B, v, n) ==
    M.used \subseteq Frame =>
        /\ U \subseteq M.used /\ Holds(M.used, M.s, B) /\ M.s.stacks = s.stacks
        /\ \A u \in Page : s.entry[u].present => M.s.entry[u] = s.entry[u]
        /\ \A u \in Page : u >= v + n => M.s.entry[u] = s.entry[u]

\* One round of call 21.
LEMMA PageProvided ==
  ASSUME NEW M, NEW U \in SUBSET Frame, NEW s, NEW B, NEW v \in Nat, NEW n \in Nat,
         Providing(M, U, s, B, v, n), v + n \in Page, s.entry[v + n] = NoEntry,
         NEW immediately \in BOOLEAN, NEW dynamic \in BOOLEAN
  PROVE  Providing(ProvidedPage(M, v + n, immediately, dynamic), U, s, B, v, n + 1)
  <1> DEFINE w == v + n
             T == WithTable(M, TableOf(w))
             f == IF immediately THEN First(T.used, 1) ELSE NoFrame
             used1 == IF immediately THEN Taken(T.used, 1) ELSE T.used
             e == Entry(immediately, f, TRUE, dynamic)
             z == [T.s EXCEPT !.entry[w] = e]
  <1>1. ProvidedPage(M, w, immediately, dynamic) = [used |-> used1, s |-> z]
    BY Zenon DEF ProvidedPage
  <1>2. TableOf(w) \in 0 .. NumTables - 1
    <2>1. w <= w
      OBVIOUS
    <2> QED
      BY <2>1, Tables
  <1>3. M.used \subseteq T.used /\ T.used \subseteq used1
    BY DEF WithTable, Taken
  <1>4. ASSUME used1 \subseteq Frame
        PROVE  /\ U \subseteq used1 /\ Holds(used1, z, B) /\ z.stacks = s.stacks
               /\ \A u \in Page : s.entry[u].present => z.entry[u] = s.entry[u]
               /\ \A u \in Page : u >= v + (n + 1) => z.entry[u] = s.entry[u]
    <2>1. M.used \in SUBSET Frame /\ T.used \in SUBSET Frame
      BY <1>3, <1>4
    <2>2. /\ U \subseteq M.used /\ Holds(M.used, M.s, B) /\ M.s.stacks = s.stacks
          /\ \A u \in Page : s.entry[u].present => M.s.entry[u] = s.entry[u]
          /\ \A u \in Page : u >= w => M.s.entry[u] = s.entry[u]
      BY <2>1 DEF Providing
    <2> DEFINE N == [used |-> M.used, s |-> M.s]
    <2>3. Tabled(N, M.used, M.s, B)
      <3>1. "entry" \in DOMAIN M.s
        BY <2>2 DEF Holds, Spaces
      <3> QED
        BY <2>2, <3>1 DEF Tabled
    <2>4. Tabled(WithTable(N, TableOf(w)), M.used, M.s, B)
      <3> HIDE DEF N
      <3> QED
        BY <1>2, <2>3, TableKept
    <2>5. /\ WithTable(N, TableOf(w)).used = T.used
          /\ WithTable(N, TableOf(w)).s = T.s
      BY DEF WithTable
    <2> HIDE DEF N, T
    <2>6. Holds(T.used, T.s, B) /\ T.s.stacks = s.stacks /\ T.s.entry = M.s.entry
      BY <2>1, <2>2, <2>4, <2>5 DEF Tabled
    <2>7. T.s \in Spaces
      BY <2>6 DEF Holds
    <2>8. w \in Page /\ M.s.entry[w] = NoEntry
      <3>1. w >= w
        OBVIOUS
      <3> QED
        BY <2>2, <3>1
    <2>9. First(T.used, 1) \in Nat
      BY <2>1, OneFree
    <2>10. /\ e \in Entries /\ e.release /\ (e.present <=> immediately)
           /\ e.frame = f
      BY <2>9 DEF Entry, Entries, AnyFrame
    <2> HIDE DEF e, w
    <2>11. OnePage(z, T.s, w, e)
      BY <2>7, <2>8, <2>10, OnePageIs
    <2> HIDE DEF z
    <2>12. ~T.s.entry[w].present
      BY <2>6, <2>8 DEF NoEntry, Entry
    <2>13. Holds(used1, z, B)
      <3>1. CASE immediately
        <4>1. used1 = Taken(T.used, 1) /\ e.frame = First(T.used, 1) /\ e.present
          BY <2>10, <3>1
        <4> HIDE DEF used1, f
        <4> QED
          BY <2>1, <2>6, <2>8, <2>10, <2>11, <2>12, <4>1, PageGiven
      <3>2. CASE ~immediately
        <4>1. used1 = T.used /\ ~e.present
          BY <2>10, <3>2
        <4> HIDE DEF used1, f
        <4>2. ~(e.present /\ e.release) /\ (e.dynamic => e.release)
          BY <2>10, <4>1
        <4> QED
          BY <2>6, <2>8, <2>11, <2>12, <4>1, <4>2, PageSet
      <3> QED
        BY <3>1, <3>2
    <2>14. z.stacks = s.stacks /\ \A u \in Page : u # w => z.entry[u] = M.s.entry[u]
      BY <2>6, <2>11 DEF OnePage, SameBut
    <2>15. \A u \in Page : s.entry[u].present => u # w
      BY DEF NoEntry, Entry, w
    <2>16. \A u \in Page : u >= v + (n + 1) => u >= w /\ u # w
      BY DEF w, Page
    <2> HIDE DEF used1
    <2> QED
      BY <1>3, <2>1, <2>2, <2>13, <2>14, <2>15, <2>16
  <1> HIDE DEF used1, z
  <1> QED
    BY <1>1, <1>4 DEF Providing

\* The rounds of the loop that provides m pages from v on.
PageRounds(u, m, M, v, immediately, dynamic) ==
    u = [n \in 0 .. m |->
            IF n = 0 THEN M ELSE ProvidedPage(u[n - 1], v + n - 1, immediately, dynamic)]

\* Its loop does what the rounds say.
LEMMA PageLoopRuns ==
  ASSUME NEW M, NEW v, NEW m \in Nat, NEW immediately, NEW dynamic
  PROVE  \E u : PageRounds(u, m, M, v, immediately, dynamic)
  <1> DEFINE S == {x \in Nat : ~ \E u : PageRounds(u, x, M, v, immediately, dynamic)}
             Given(p, n) == ProvidedPage(p, v + n - 1, immediately, dynamic)
  <1> SUFFICES ASSUME S # {} PROVE FALSE
    OBVIOUS
  <1>1. PICK x \in S : \A y \in S : x <= y
    BY LeastExists
  <1>2. x \in Nat /\ ~ \E u : PageRounds(u, x, M, v, immediately, dynamic)
    OBVIOUS
  <1>3. CASE x = 0
    <2> DEFINE u == [n \in 0 .. 0 |-> M]
    <2>1. \A n \in 0 .. 0 : n = 0
      OBVIOUS
    <2>2. PageRounds(u, 0, M, v, immediately, dynamic)
      BY <2>1 DEF PageRounds
    <2> QED
      BY <1>2, <1>3, <2>2
  <1>4. CASE x # 0
    <2>1. x - 1 \in Nat /\ x - 1 \notin S
      BY <1>1, <1>2, <1>4
    <2>2. PICK u : PageRounds(u, x - 1, M, v, immediately, dynamic)
      BY <2>1
    <2> DEFINE y == [n \in 0 .. x |-> IF n = x THEN Given(u[x - 1], x) ELSE u[n]]
    <2>3. \A n \in 0 .. x - 1 : u[n] = IF n = 0 THEN M ELSE Given(u[n - 1], n)
      BY <2>2 DEF PageRounds
    <2> HIDE DEF Given
    <2>4. ASSUME NEW n \in 0 .. x PROVE y[n] = IF n = 0 THEN M ELSE Given(y[n - 1], n)
      <3>1. CASE n = x
        <4>1. n # 0 /\ n - 1 \in 0 .. x /\ n - 1 # x
          BY <1>2, <1>4, <3>1
        <4>2. y[n - 1] = u[x - 1] /\ y[n] = Given(u[x - 1], x)
          BY <3>1, <4>1
        <4> QED
          BY <3>1, <4>1, <4>2
      <3>2. CASE n # x
        <4>1. n \in 0 .. x - 1 /\ y[n] = u[n]
          BY <1>2, <3>2
        <4>2. CASE n = 0
          BY <2>3, <4>1, <4>2
        <4>3. CASE n # 0
          <5>1. n - 1 \in 0 .. x /\ n - 1 # x
            BY <1>2, <4>3
          <5>2. y[n - 1] = u[n - 1]
            BY <5>1
          <5> QED
            BY <2>3, <4>1, <4>3, <5>2
        <4> QED
          BY <4>2, <4>3
      <3> QED
        BY <3>1, <3>2
    <2>5. y = [n \in 0 .. x |-> y[n]]
      OBVIOUS
    <2> HIDE DEF y
    <2>6. PageRounds(y, x, M, v, immediately, dynamic)
      BY <2>4, <2>5, Zenon DEF PageRounds, Given
    <2> QED
      BY <1>2, <2>6
  <1> QED
    BY <1>3, <1>4

\* Call 21 takes nothing that is in use: the first round that did would follow one
\* that did not.
LEMMA ProvidedGrown ==
  ASSUME NEW M, NEW U \in SUBSET Frame, NEW s, NEW B, NEW v \in Nat, NEW count \in Nat,
         Providing(M, U, s, B, v, 0),
         \A i \in 0 .. count - 1 : v + i \in Page /\ s.entry[v + i] = NoEntry,
         NEW immediately \in BOOLEAN, NEW dynamic \in BOOLEAN
  PROVE  Grown(Provided(M, v, count, immediately, dynamic), U, s, B)
  <1> DEFINE u == CHOOSE y : PageRounds(y, count, M, v, immediately, dynamic)
  <1>1. PageRounds(u, count, M, v, immediately, dynamic)
    BY PageLoopRuns
  <1>2. Provided(M, v, count, immediately, dynamic) = u[count]
    BY Zenon DEF Provided, PageRounds
  <1> HIDE DEF u
  <1>3. \A n \in 0 .. count : u[n] = IF n = 0 THEN M
                          ELSE ProvidedPage(u[n - 1], v + n - 1, immediately, dynamic)
    BY <1>1 DEF PageRounds
  <1> DEFINE S == {n \in Nat : n <= count /\ ~Providing(u[n], U, s, B, v, n)}
  <1>4. S = {}
    <2> SUFFICES ASSUME S # {} PROVE FALSE
      OBVIOUS
    <2>1. PICK x \in S : \A y \in S : x <= y
      BY LeastExists
    <2>2. x \in Nat /\ x <= count /\ ~Providing(u[x], U, s, B, v, x)
      OBVIOUS
    <2>3. CASE x = 0
      BY <1>3, <2>2, <2>3
    <2>4. CASE x # 0
      <3>1. PICK n \in Nat : x = n + 1 /\ n <= count /\ n \notin S
        <4>1. x - 1 \in Nat /\ x = (x - 1) + 1 /\ x - 1 <= count /\ x - 1 \notin S
          BY <2>1, <2>2, <2>4
        <4> QED
          BY <4>1
      <3>2. Providing(u[n], U, s, B, v, n)
        BY <3>1
      <3>3. /\ n \in 0 .. count - 1 /\ x \in 0 .. count /\ x - 1 = n
            /\ v + x - 1 = v + n
        BY <2>2, <3>1
      <3>4. u[x] = ProvidedPage(u[n], v + n, immediately, dynamic)
        BY <1>3, <2>4, <3>3
      <3>5. v + n \in Page /\ s.entry[v + n] = NoEntry
        BY <3>3
      <3>6. Providing(u[x], U, s, B, v, n + 1)
        BY <3>2, <3>4, <3>5, PageProvided
      <3> QED
        BY <2>2, <3>1, <3>6
    <2> QED
      BY <2>3, <2>4
  <1>5. Providing(u[count], U, s, B, v, count)
    BY <1>4
  <1> QED
    BY <1>2, <1>5 DEF Grown, Providing

------------------------------------------------------------------------------
\* Nor does a page fault.
LEMMA FaultGrown ==
  ASSUME NEW U \in SUBSET Frame, NEW s, NEW B, Holds(U, s, B), NEW v \in Page,
         ~s.entry[v].present, s.entry[v].dynamic
  PROVE  Grown([used |-> Taken(U, 1),
                s |-> [s EXCEPT !.entry[v].present = TRUE, !.entry[v].frame = First(U, 1)]],
               U, s, B)
  <1> DEFINE f == First(U, 1)
             e == [s.entry[v] EXCEPT !.present = TRUE, !.frame = f]
             z == [s EXCEPT !.entry[v].present = TRUE, !.entry[v].frame = f]
  <1>1. s \in Spaces /\ s.entry[v].release
    BY DEF Holds, Regular
  <1>2. f \in Nat
    BY OneFree
  <1>3. s.entry \in [Page -> Entries] /\ s.entry[v] \in Entries
    BY <1>1 DEF Spaces
  <1> HIDE DEF f
  <1>4. e \in Entries /\ e.present /\ e.release /\ e.frame = f
    BY <1>1, <1>2, <1>3 DEF Entries, AnyFrame
  <1>5. z = [s EXCEPT !.entry = [[s.entry EXCEPT ![v].present = TRUE] EXCEPT ![v].frame = f]]
    BY <1>1, <1>3 DEF Spaces
  <1>6. [[s.entry EXCEPT ![v].present = TRUE] EXCEPT ![v].frame = f] = [s.entry EXCEPT ![v] = e]
    BY <1>3
  <1> HIDE DEF e, z
  <1>7. [s.entry EXCEPT ![v] = e] \in [Page -> Entries]
    BY <1>3, <1>4
  <1>8. OnePage(z, s, v, e)
    <2>1. z = [s EXCEPT !.entry = [s.entry EXCEPT ![v] = e]]
      BY <1>5, <1>6
    <2>2. z.entry = [s.entry EXCEPT ![v] = e]
      BY <1>1, <2>1 DEF Spaces
    <2>3. \A u \in Page : z.entry[u] = IF u = v THEN e ELSE s.entry[u]
      BY <1>3, <2>2
    <2>4. SameBut(z, s)
      BY <1>1, <1>7, <2>1 DEF SameBut, Spaces
    <2> QED
      BY <2>3, <2>4 DEF OnePage
  <1>9. Holds(Taken(U, 1), z, B)
    BY <1>4, <1>8, PageGiven DEF f
  <1>10. /\ U \subseteq Taken(U, 1) /\ s.stacks \subseteq z.stacks
         /\ \A u \in Page : s.entry[u].present => z.entry[u] = s.entry[u]
    BY <1>8 DEF OnePage, SameBut, Taken
  <1>11. Grown([used |-> Taken(U, 1), s |-> z], U, s, B)
    BY <1>9, <1>10 DEF Grown
  <1> QED
    BY <1>11 DEF z, f

------------------------------------------------------------------------------
\* A function that is one to one keeps the size of a set.
LEMMA ImageSize ==
  ASSUME NEW S, IsFiniteSet(S), NEW g, \A x, y \in S : g[x] = g[y] => x = y
  PROVE  IsFiniteSet({g[x] : x \in S}) /\ Cardinality({g[x] : x \in S}) = Cardinality(S)
  <1> DEFINE T == {g[x] : x \in S}
             h == [x \in S |-> g[x]]
  <1>1. h \in [S -> T] /\ \A x \in S : h[x] = g[x]
    OBVIOUS
  <1>2. \A y \in T : \E x \in S : h[x] = y
    OBVIOUS
  <1> HIDE DEF h
  <1>3. DOMAIN h = S
    BY <1>1
  <1>4. IsInjective(h)
    BY <1>1, <1>3 DEF IsInjective
  <1> HIDE DEF T
  <1>5. h \in Bijection(S, T)
    BY <1>1, <1>2, <1>4 DEF Bijection, Injection, Surjection
  <1>6. ExistsBijection(S, T)
    BY <1>5 DEF ExistsBijection
  <1> QED
    BY <1>6, FS_Bijection DEF T

\* The frame of a stack that kill_thread does not release.
OtherFrame(s, t) == CHOOSE f \in t.frames : f # s.entry[t.at].frame
OtherFrames(s, T) == {OtherFrame(s, t) : t \in T}

\* A stack has the frame of its first page and that one.
LEMMA StackFrames2 ==
  ASSUME NEW s, Regular(s), NEW t \in s.stacks
  PROVE  /\ t.frames = {s.entry[t.at].frame, OtherFrame(s, t)}
         /\ OtherFrame(s, t) # s.entry[t.at].frame
         /\ OtherFrame(s, t) \in Nat
  <1>1. PICK f \in Nat : f # s.entry[t.at].frame /\ t.frames = {s.entry[t.at].frame, f}
    BY DEF Regular, StacksFit, StackFits
  <1>2. \A g \in t.frames : g # s.entry[t.at].frame <=> g = f
    BY <1>1
  <1>3. OtherFrame(s, t) = f
    BY <1>1, <1>2 DEF OtherFrame
  <1> QED
    BY <1>1, <1>3

\* There are as many of these as there are stacks.
LEMMA OthersCounted ==
  ASSUME NEW U, NEW s, NEW B, Holds(U, s, B), NEW T \in SUBSET s.stacks
  PROVE  /\ IsFiniteSet(OtherFrames(s, T)) /\ Cardinality(OtherFrames(s, T)) = Cardinality(T)
         /\ OtherFrames(s, T) \subseteq U \ B
  <1>1. Regular(s) /\ OneUse(s) /\ \A k, n, f : Uses(s, k, n, f) => f \in U \ B
    BY DEF Holds
  <1>2. IsFiniteSet(T)
    <2>1. IsFiniteSet(s.stacks)
      BY <1>1 DEF Regular, StacksFit
    <2> QED
      BY <2>1, FS_Subset
  <1>3. ASSUME NEW t \in T PROVE Uses(s, "stack", t.at, OtherFrame(s, t))
    <2>1. OtherFrame(s, t) \in t.frames
      BY <1>1, StackFrames2
    <2> QED
      BY <2>1 DEF Uses
  <1> DEFINE g == [t \in T |-> OtherFrame(s, t)]
  <1>4. \A t, u \in T : g[t] = g[u] => t = u
    <2> SUFFICES ASSUME NEW t \in T, NEW u \in T, OtherFrame(s, t) = OtherFrame(s, u)
                 PROVE  t = u
      OBVIOUS
    <2>1. t.at = u.at
      BY <1>1, <1>3 DEF OneUse
    <2> QED
      BY <1>1, <2>1 DEF Regular, StacksFit
  <1>5. {g[t] : t \in T} = OtherFrames(s, T)
    BY DEF OtherFrames
  <1> HIDE DEF g
  <1>6. IsFiniteSet({g[t] : t \in T}) /\ Cardinality({g[t] : t \in T}) = Cardinality(T)
    BY <1>2, <1>4, ImageSize
  <1>7. OtherFrames(s, T) \subseteq U \ B
    BY <1>1, <1>3 DEF OtherFrames
  <1> QED
    BY <1>5, <1>6, <1>7

\* Dead threads leave one frame of their stacks behind, and free the other.
Abandoned(M, U, s, B, T) ==
    /\ Holds(M.used, M.s, B \cup OtherFrames(s, T))
    /\ M.used \subseteq U /\ M.s.stacks = s.stacks \ T
    /\ \A v \in Page : ~(\E t \in T : t.at = v) => M.s.entry[v] = s.entry[v]

\* kill_thread, of any of the threads, frees no frame that is still in use.
LEMMA ThreadsKilled ==
  ASSUME NEW U \in SUBSET Frame, NEW s, NEW B, Holds(U, s, B), NEW T \in SUBSET s.stacks
  PROVE  Abandoned(KilledThreads([used |-> U, s |-> s], T), U, s, B, T)
  <1> DEFINE G == {s.entry[t.at].frame : t \in T}
             O == OtherFrames(s, T)
             e == [v \in Page |-> IF \E t \in T : t.at = v THEN NoEntry ELSE s.entry[v]]
             z == [s EXCEPT !.stacks = s.stacks \ T, !.entry = e]
             M == KilledThreads([used |-> U, s |-> s], T)
  <1>1. M.used = U \ G /\ M.s = z
    <2>1. [s EXCEPT !.stacks = @ \ T, !.entry = [v \in Page |->
                            IF \E t \in T : t.at = v THEN NoEntry ELSE @[v]]] = z
      OBVIOUS
    <2> HIDE DEF z
    <2> QED
      BY <2>1 DEF KilledThreads, Freed
  <1>2. /\ s \in Spaces /\ s.alive /\ B \subseteq U /\ OneUse(s) /\ Regular(s)
        /\ \A k, n, f : Uses(s, k, n, f) => f \in U \ B
        /\ \A f \in U \ B : \E k, n : Uses(s, k, n, f)
    BY DEF Holds
  <1>3. /\ \A t \in s.stacks : t.at \in Page /\ StackFits(s, t)
        /\ \A t, u \in s.stacks : t.at = u.at => t = u
    BY <1>2 DEF Regular, StacksFit, Spaces, Stacks
  <1>4. e \in [Page -> Entries]
    <2>1. NoEntry \in Entries
      BY DEF NoEntry, Entry, Entries, AnyFrame
    <2>2. \A v \in Page : s.entry[v] \in Entries
      BY <1>2 DEF Spaces
    <2> QED
      BY <2>1, <2>2
  <1>5. \A v \in Page : e[v] = IF \E t \in T : t.at = v THEN NoEntry ELSE s.entry[v]
    OBVIOUS
  <1> HIDE DEF e
  <1>6. s.stacks \ T \in SUBSET Stacks
    BY <1>2 DEF Spaces
  <1>7. /\ z \in Spaces /\ z.alive = s.alive /\ z.shared = s.shared /\ z.directory = s.directory
        /\ z.tables = s.tables /\ z.stacks = s.stacks \ T /\ z.entry = e
    BY <1>2, <1>4, <1>6 DEF Spaces
  <1> HIDE DEF z
  <1>8. ASSUME NEW k, NEW n, NEW f
        PROVE  Uses(z, k, n, f) <=>
                 Uses(s, k, n, f) /\ ~(k = "stack" /\ \E t \in T : n = t.at)
    <2>1. CASE k = "stack"
      <3>1. Uses(z, k, n, f) <=> \E t \in s.stacks \ T : n = t.at /\ f \in t.frames
        BY <1>7, <2>1 DEF Uses
      <3>2. Uses(s, k, n, f) <=> \E t \in s.stacks : n = t.at /\ f \in t.frames
        BY <2>1 DEF Uses
      <3>3. \A t \in s.stacks \ T, u \in T : t.at # u.at
        BY <1>3
      <3> QED
        BY <2>1, <3>1, <3>2, <3>3
    <2>2. CASE k = "page"
      <3>1. \A v \in Page : z.entry[v].present /\ z.entry[v].release =>
                                z.entry[v] = s.entry[v]
        BY <1>5, <1>7 DEF NoEntry, Entry
      <3>2. ASSUME NEW v \in Page, s.entry[v].release PROVE z.entry[v] = s.entry[v]
        <4>1. ~(\E t \in T : t.at = v)
          BY <1>3, <3>2 DEF StackFits
        <4> QED
          BY <1>5, <1>7, <4>1
      <3> QED
        BY <2>2, <3>1, <3>2 DEF Uses
    <2>3. CASE k # "stack" /\ k # "page"
      BY <1>7, <2>3 DEF Uses
    <2> QED
      BY <2>1, <2>2, <2>3
  <1>9. ASSUME NEW t \in T
        PROVE  t.frames = {s.entry[t.at].frame, OtherFrame(s, t)}
    BY <1>2, StackFrames2
  <1>10. ASSUME NEW f PROVE f \in G \cup O <=> \E t \in T : Uses(s, "stack", t.at, f)
    <2>1. f \in G \cup O <=> \E t \in T : f \in t.frames
      BY <1>9 DEF OtherFrames
    <2>2. ASSUME NEW t \in T PROVE Uses(s, "stack", t.at, f) <=> f \in t.frames
      <3>1. Uses(s, "stack", t.at, f) <=> \E u \in s.stacks : t.at = u.at /\ f \in u.frames
        BY DEF Uses
      <3> QED
        BY <1>3, <3>1
    <2> QED
      BY <2>1, <2>2
  <1>11. G \subseteq U \ B /\ O \subseteq U \ B /\ G \cap O = {}
    <2>1. G \subseteq U \ B /\ O \subseteq U \ B
      BY <1>2, <1>10
    <2>2. ASSUME NEW t \in T, NEW u \in T, s.entry[t.at].frame = OtherFrame(s, u) PROVE FALSE
      <3>1. Uses(s, "stack", t.at, s.entry[t.at].frame)
        BY <1>9 DEF Uses
      <3>2. Uses(s, "stack", u.at, OtherFrame(s, u))
        BY <1>9 DEF Uses
      <3>3. t.at = u.at
        BY <1>2, <2>2, <3>1, <3>2 DEF OneUse
      <3> QED
        BY <1>2, <2>2, <3>3, StackFrames2
    <2> QED
      BY <2>1, <2>2 DEF OtherFrames
  <1> HIDE DEF G, O
  <1>12. ASSUME NEW k, NEW n, NEW f, Uses(z, k, n, f) PROVE f \in (U \ G) \ (B \cup O)
    <2>1. f \in U \ B
      BY <1>2, <1>8, <1>12
    <2>2. f \notin G \cup O
      <3> SUFFICES ASSUME NEW t \in T, Uses(s, "stack", t.at, f) PROVE FALSE
        BY <1>10
      <3>1. k = "stack" /\ n = t.at
        BY <1>2, <1>8, <1>12 DEF OneUse
      <3> QED
        BY <1>8, <1>12, <3>1
    <2> QED
      BY <2>1, <2>2
  <1>13. ASSUME NEW f \in (U \ G) \ (B \cup O) PROVE \E k, n : Uses(z, k, n, f)
    <2>1. PICK k, n : Uses(s, k, n, f)
      BY <1>2
    <2>2. f \notin G \cup O
      OBVIOUS
    <2>3. ~(k = "stack" /\ \E t \in T : n = t.at)
      BY <1>10, <2>1, <2>2
    <2> QED
      BY <1>8, <2>1, <2>3
  <1>14. OneUse(z)
    BY <1>2, <1>8 DEF OneUse
  <1>15. Regular(z)
    <2>1. ASSUME NEW t \in z.stacks PROVE StackFits(z, t)
      <3>1. t \in s.stacks /\ ~(\E u \in T : u.at = t.at) /\ t.at \in Page
        BY <1>3, <1>7
      <3>2. z.entry[t.at] = s.entry[t.at]
        BY <1>5, <1>7, <3>1
      <3> QED
        BY <1>3, <3>1, <3>2 DEF StackFits
    <2>2. IsFiniteSet(z.stacks)
      <3>1. IsFiniteSet(s.stacks) /\ z.stacks \in SUBSET s.stacks
        BY <1>2, <1>7 DEF Regular, StacksFit
      <3> QED
        BY <3>1, FS_Subset
    <2>3. StacksFit(z)
      BY <1>3, <1>7, <2>1, <2>2 DEF StacksFit
    <2>4. \A v \in Page : z.entry[v].dynamic => z.entry[v].release
      BY <1>2, <1>5, <1>7 DEF Regular, NoEntry, Entry
    <2> QED
      BY <2>3, <2>4 DEF Regular
  <1>16. B \cup O \subseteq U \ G
    BY <1>2, <1>11
  <1>17. Holds(U \ G, z, B \cup O)
    BY <1>2, <1>7, <1>12, <1>13, <1>14, <1>15, <1>16 DEF Holds
  <1>18. \A v \in Page : ~(\E t \in T : t.at = v) => z.entry[v] = s.entry[v]
    BY <1>5, <1>7
  <1>19. /\ Holds(M.used, M.s, B \cup O) /\ M.used \subseteq U /\ M.s.stacks = s.stacks \ T
         /\ \A v \in Page : ~(\E t \in T : t.at = v) => M.s.entry[v] = s.entry[v]
    BY <1>1, <1>7, <1>17, <1>18
  <1> HIDE DEF M
  <1>20. Abandoned(M, U, s, B, T)
    BY <1>19 DEF O, Abandoned
  <1> QED
    BY <1>20 DEF M

\* A process without threads gives back all that it holds.
LEMMA AllReleased ==
  ASSUME NEW U \in SUBSET Frame, NEW s, NEW B, Holds(U, s, B), s.stacks = {}
  PROVE  Freed(U, Released(s)) = B
  <1> USE ProcessMemoryAssumption
  <1>1. /\ s \in Spaces /\ B \subseteq U
        /\ \A k, n, f : Uses(s, k, n, f) => f \in U \ B
        /\ \A f \in U \ B : \E k, n : Uses(s, k, n, f)
    BY DEF Holds
  <1>2. DOMAIN s.tables = 0 .. NumTables - 1
    BY <1>1 DEF Spaces
  <1>3. ASSUME NEW f, f \in U PROVE f \in Released(s) <=> f \notin B
    <2>1. f # NoFrame
      BY <1>3 DEF Frame
    <2>2. f \in Released(s) <=> \E k, n : Uses(s, k, n, f)
      <3>1. ASSUME f \in Released(s) PROVE \E k, n : Uses(s, k, n, f)
        <4>1. CASE f = s.shared
          <5>1. Uses(s, "shared", 0, f)
            BY <4>1 DEF Uses
          <5> QED
            BY <5>1
        <4>2. CASE f = s.directory
          <5>1. Uses(s, "directory", 0, f)
            BY <4>2 DEF Uses
          <5> QED
            BY <5>1
        <4>3. CASE \E d \in DOMAIN s.tables : f = s.tables[d]
          <5>1. PICK d \in 0 .. NumTables - 1 : f = s.tables[d]
            BY <1>2, <4>3
          <5>2. Uses(s, "table", d, f)
            BY <2>1, <5>1 DEF Uses
          <5> QED
            BY <5>2
        <4>4. CASE \E v \in Page : /\ s.entry[v].present /\ s.entry[v].release
                                   /\ f = s.entry[v].frame
          <5>1. PICK v \in Page : /\ s.entry[v].present /\ s.entry[v].release
                                  /\ f = s.entry[v].frame
            BY <4>4
          <5>2. Uses(s, "page", v, f)
            BY <5>1 DEF Uses
          <5> QED
            BY <5>2
        <4> QED
          BY <3>1, <4>1, <4>2, <4>3, <4>4 DEF Released
      <3>2. ASSUME NEW k, NEW n, Uses(s, k, n, f) PROVE f \in Released(s)
        <4>1. k # "stack"
          BY <3>2 DEF Uses
        <4>2. CASE k = "table"
          BY <1>2, <3>2, <4>2 DEF Uses, Released
        <4>3. CASE k = "page"
          BY <3>2, <4>3 DEF Uses, Released
        <4>4. CASE k # "table" /\ k # "page"
          BY <3>2, <4>1, <4>4 DEF Uses, Released
        <4> QED
          BY <4>2, <4>3, <4>4
      <3> QED
        BY <3>1, <3>2
    <2>3. f \notin B <=> \E k, n : Uses(s, k, n, f)
      BY <1>1, <1>3
    <2> QED
      BY <2>2, <2>3
  <1> QED
    BY <1>1, <1>3 DEF Freed

------------------------------------------------------------------------------
(***************************************************************************)
(* The invariant.                                                          *)
(***************************************************************************)

\* Frames in use that serve nobody.
Leaked == used \ (heap \cup UNION {Held(space[p]) : p \in Proc})

MemInv ==
    /\ used \subseteq Frame /\ heap \subseteq used /\ reaped \in Nat
    /\ space \in [Proc -> Spaces]
    /\ \A p \in Proc : IF space[p].alive THEN Holds(used, space[p], used \ Held(space[p]))
                       ELSE space[p] = NoSpace
    /\ \A p \in Proc : Held(space[p]) \cap heap = {}
    /\ \A p, q \in Proc : p # q => Held(space[p]) \cap Held(space[q]) = {}
    /\ Cardinality(Leaked) <= reaped

\* From space s to z no page is lost but those of stacks that go.
PagesKept(s, z) ==
    \A v \in Page : s.entry[v].present /\ ~(\E t \in s.stacks \ z.stacks : t.at = v)
                    => z.entry[v] = s.entry[v]

Kept == \A p \in Proc : space'[p].alive => PagesKept(space[p], space'[p])

\* The invariant says nothing of what follows when frames in use were freed.
SoundInv == sound => MemInv
StepKept == SoundInv' /\ Kept

\* The space of p becomes z, leaves the frames X behind and frees W besides.
Moved(p, z, X, W) ==
    /\ space' = [space EXCEPT ![p] = z] /\ z \in Spaces
    /\ heap' = heap /\ used' \subseteq Frame
    /\ X \subseteq Held(space[p]) /\ reaped' = reaped + Cardinality(X)
    /\ W \cap (heap \cup UNION {Held(space[q]) : q \in Proc \ {p}}) = {}
    /\ \/ z.alive /\ Holds(used', z, ((used \ Held(space[p])) \cup X) \ W)
       \/ z = NoSpace /\ used' = ((used \ Held(space[p])) \cup X) \ W
    /\ z.alive => PagesKept(space[p], z)

\* A process that does not exist holds nothing.
LEMMA NoSpaceIs ==
  NoSpace \in Spaces /\ ~NoSpace.alive /\ Held(NoSpace) = {} /\ NoSpace.stacks = {}
  /\ (\A v \in Page : NoSpace.entry[v] = NoEntry) /\ ~NoSpace.loading
  <1> USE ProcessMemoryAssumption
  <1> DEFINE none == [d \in 0 .. NumTables - 1 |-> NoFrame]
             empty == [v \in Page |-> NoEntry]
  <1>1. NoSpace = [alive |-> FALSE, shared |-> NoFrame, directory |-> NoFrame, tables |-> none,
                   entry |-> empty, stacks |-> {}, pixels |-> FALSE, loading |-> FALSE]
    BY DEF NoSpace
  <1>2. none \in [0 .. NumTables - 1 -> Nat \cup {NoFrame}] /\ empty \in [Page -> Entries]
    BY DEF NoEntry, Entry, Entries, AnyFrame
  <1>3. \A d \in 0 .. NumTables - 1 : none[d] = NoFrame
    OBVIOUS
  <1>4. \A v \in Page : empty[v] = NoEntry
    OBVIOUS
  <1> HIDE DEF none, empty
  <1>5. NoSpace \in Spaces
    BY <1>1, <1>2 DEF Spaces
  <1>6. /\ ~NoSpace.alive /\ NoSpace.stacks = {} /\ ~NoSpace.loading
        /\ NoSpace.shared = NoFrame /\ NoSpace.directory = NoFrame
        /\ NoSpace.tables = none /\ NoSpace.entry = empty
    BY <1>1
  <1>7. ASSUME NEW f \in Frame, NEW k, NEW n PROVE ~Uses(NoSpace, k, n, f)
    <2>1. f # NoFrame
      BY DEF Frame
    <2> QED
      BY <1>3, <1>4, <1>6, <2>1 DEF Uses, NoEntry, Entry
  <1> QED
    BY <1>4, <1>5, <1>6, <1>7 DEF Held

\* What a space holds is what does not serve others.
LEMMA HeldIs ==
  ASSUME NEW U \in SUBSET Frame, NEW s, NEW B, Holds(U, s, B)
  PROVE  Held(s) = U \ B /\ U \ Held(s) = B
  BY DEF Holds, Held

\* What others do with the other frames does not matter.
LEMMA Rebased ==
  ASSUME NEW U \in SUBSET Frame, NEW V \in SUBSET Frame, NEW s, Holds(U, s, U \ Held(s)),
         Held(s) \subseteq V
  PROVE  Holds(V, s, V \ Held(s))
  <1>1. \A k, n, f : Uses(s, k, n, f) => f \in V \ (V \ Held(s))
    BY DEF Holds
  <1>2. \A f \in V \ (V \ Held(s)) : \E k, n : Uses(s, k, n, f)
    BY DEF Held
  <1> QED
    BY <1>1, <1>2 DEF Holds

\* All that is held is in use.
LEMMA HeldUsed ==
  ASSUME MemInv, NEW p \in Proc
  PROVE  Held(space[p]) \subseteq used
  <1>1. CASE space[p].alive
    <2>1. Holds(used, space[p], used \ Held(space[p]))
      BY <1>1 DEF MemInv
    <2> QED
      BY <2>1 DEF Holds, Held
  <1>2. CASE ~space[p].alive
    BY <1>2, NoSpaceIs DEF MemInv
  <1> QED
    BY <1>1, <1>2

\* A step of one process that leaves the others alone keeps the invariant.
LEMMA MovedInv ==
  ASSUME MemInv, NEW p \in Proc, NEW z, NEW X, NEW W, Moved(p, z, X, W)
  PROVE  StepKept
  <1> DEFINE B == used \ Held(space[p])
             C == (B \cup X) \ W
  <1>1. /\ used \in SUBSET Frame /\ heap \subseteq used /\ reaped \in Nat
        /\ space \in [Proc -> Spaces]
        /\ \A q \in Proc : Held(space[q]) \cap heap = {}
        /\ \A q, r \in Proc : q # r => Held(space[q]) \cap Held(space[r]) = {}
        /\ Cardinality(Leaked) <= reaped
    BY DEF MemInv
  <1>2. /\ space' = [space EXCEPT ![p] = z] /\ z \in Spaces
        /\ heap' = heap /\ used' \in SUBSET Frame
        /\ X \subseteq Held(space[p]) /\ reaped' = reaped + Cardinality(X)
        /\ W \cap heap = {} /\ \A q \in Proc : q # p => W \cap Held(space[q]) = {}
        /\ (z.alive /\ Holds(used', z, C)) \/ (z = NoSpace /\ used' = C)
    BY DEF Moved
  <1>3. Held(z) = used' \ C /\ used' \ Held(z) = C /\ C \subseteq used'
    <2>1. CASE Holds(used', z, C)
      <3>1. C \subseteq used'
        BY <2>1 DEF Holds
      <3> QED
        BY <1>2, <2>1, <3>1, HeldIs
    <2>2. CASE z = NoSpace /\ used' = C
      BY <2>2, NoSpaceIs
    <2> QED
      BY <1>2, <2>1, <2>2
  <1>4. \A q \in Proc : Held(space[q]) \subseteq used
    BY HeldUsed
  <1>5. space'[p] = z /\ \A q \in Proc : q # p => space'[q] = space[q]
    BY <1>1, <1>2
  <1>6. \A q \in Proc : q # p => Held(space[q]) \subseteq C
    BY <1>1, <1>2, <1>4
  <1>7. heap \subseteq C
    BY <1>1, <1>2
  <1>8. space' \in [Proc -> Spaces]
    BY <1>1, <1>2
  <1>9. ASSUME NEW q \in Proc
        PROVE  IF space'[q].alive THEN Holds(used', space'[q], used' \ Held(space'[q]))
               ELSE space'[q] = NoSpace
    <2>1. CASE q = p
      <3>1. CASE Holds(used', z, C) /\ z.alive
        BY <1>3, <1>5, <2>1, <3>1
      <3>2. CASE z = NoSpace
        BY <1>5, <2>1, <3>2, NoSpaceIs
      <3> QED
        BY <1>2, <3>1, <3>2
    <2>2. CASE q # p
      <3>1. space'[q] = space[q] /\ Held(space[q]) \subseteq used'
        BY <1>3, <1>5, <1>6, <2>2
      <3>2. CASE space[q].alive
        <4>1. Holds(used, space[q], used \ Held(space[q]))
          BY <3>2 DEF MemInv
        <4>2. Holds(used', space[q], used' \ Held(space[q]))
          BY <1>1, <1>2, <3>1, <4>1, Rebased
        <4> QED
          BY <3>1, <3>2, <4>2
      <3>3. CASE ~space[q].alive
        BY <3>1, <3>3 DEF MemInv
      <3> QED
        BY <3>2, <3>3
    <2> QED
      BY <2>1, <2>2
  <1>10. \A q \in Proc : Held(space'[q]) \cap heap = {}
    BY <1>1, <1>3, <1>5, <1>7
  <1>11. \A q, r \in Proc : q # r => Held(space'[q]) \cap Held(space'[r]) = {}
    BY <1>1, <1>3, <1>5, <1>6
  <1>12. Leaked' \subseteq Leaked \cup X
    <2>1. \A f : f \in Leaked <=> /\ f \in used /\ f \notin heap
                                  /\ \A q \in Proc : f \notin Held(space[q])
      BY DEF Leaked
    <2>2. \A f : f \in Leaked' <=> /\ f \in used' /\ f \notin heap
                                   /\ \A q \in Proc : f \notin Held(space'[q])
      BY <1>2 DEF Leaked
    <2>3. ASSUME NEW f, f \in Leaked' PROVE f \in Leaked \cup X
      <3>1. f \in used' /\ f \notin heap /\ f \notin Held(z)
        BY <1>5, <2>2, <2>3
      <3>2. f \in B \/ f \in X
        BY <1>3, <3>1
      <3>3. ASSUME f \in B PROVE f \in Leaked
        <4>1. \A q \in Proc : f \notin Held(space[q])
          BY <1>5, <2>2, <2>3, <3>3
        <4> QED
          BY <2>1, <3>1, <3>3, <4>1
      <3> QED
        BY <3>2, <3>3
    <2> QED
      BY <2>3
  <1>13. Cardinality(Leaked') <= reaped' /\ reaped' \in Nat
    <2>1. IsFiniteSet(Frame)
      <3>1. 0 \in Int /\ NumFrames - 1 \in Int
        BY ProcessMemoryAssumption
      <3> QED
        BY <3>1, FS_Interval DEF Frame
    <2>2. Leaked \in SUBSET Frame /\ X \in SUBSET Frame
      BY <1>1, <1>2, <1>4 DEF Leaked
    <2>3. IsFiniteSet(Leaked) /\ IsFiniteSet(X) /\ IsFiniteSet(Leaked \cap X)
      BY <2>1, <2>2, FS_Subset
    <2>4. /\ Cardinality(Leaked) \in Nat /\ Cardinality(X) \in Nat
          /\ Cardinality(Leaked \cap X) \in Nat
      BY <2>3, FS_CardinalityType
    <2>5. /\ IsFiniteSet(Leaked \cup X)
          /\ Cardinality(Leaked \cup X)
                = Cardinality(Leaked) + Cardinality(X) - Cardinality(Leaked \cap X)
      BY <2>3, FS_Union
    <2>6. IsFiniteSet(Leaked') /\ Cardinality(Leaked') <= Cardinality(Leaked \cup X)
      BY <1>12, <2>5, FS_Subset
    <2>7. Cardinality(Leaked') \in Nat
      BY <2>6, FS_CardinalityType
    <2> QED
      BY <1>1, <1>2, <2>4, <2>5, <2>6, <2>7
  <1>14. MemInv'
    <2>1. heap' \subseteq used'
      BY <1>2, <1>3, <1>7
    <2>2. \A q \in Proc : Held(space'[q]) \cap heap' = {}
      BY <1>2, <1>10
    <2>3. used' \subseteq Frame
      BY <1>2
    <2> HIDE DEF B, C
    <2> QED
      BY <1>8, <1>9, <1>11, <1>13, <2>1, <2>2, <2>3 DEF MemInv
  <1>15. Kept
    <2>1. \A q \in Proc : q # p => PagesKept(space[q], space'[q])
      BY <1>5 DEF PagesKept
    <2> QED
      BY <1>5, <2>1 DEF Kept, Moved
  <1> QED
    BY <1>14, <1>15 DEF StepKept, SoundInv

\* Where the model ends, every space stays as it was.
LEMMA LostKept ==
  ASSUME Lost
  PROVE  StepKept
  BY DEF Lost, StepKept, SoundInv, Kept, PagesKept

------------------------------------------------------------------------------
(***************************************************************************)
(* The frames of a space, purpose by purpose.                              *)
(***************************************************************************)

FirstFrames(s) == {s.entry[t.at].frame : t \in s.stacks}
FramesOfStacks(s) == UNION {t.frames : t \in s.stacks}
TablesMadeBy(s) == {d \in DOMAIN s.tables : s.tables[d] # NoFrame}
FramesOfTables(s) == {s.tables[d] : d \in TablesMadeBy(s)}
PagesOwned(s) == {v \in Page : s.entry[v].present /\ s.entry[v].release}
FramesOfPages(s) == {s.entry[v].frame : v \in PagesOwned(s)}

\* The frames of a space by their purpose.
LEMMA HeldParts ==
  ASSUME NEW U \in SUBSET Frame, NEW s, NEW B, Holds(U, s, B)
  PROVE  Held(s) = {s.shared, s.directory} \cup FramesOfStacks(s)
                        \cup FramesOfTables(s) \cup FramesOfPages(s)
  <1>1. \A k, n, f : Uses(s, k, n, f) => f \in Frame
    BY DEF Holds
  <1>2. DOMAIN s.tables = 0 .. NumTables - 1
    BY DEF Holds, Spaces
  <1>3. ASSUME NEW f, NEW k, NEW n, Uses(s, k, n, f)
        PROVE  f \in {s.shared, s.directory} \cup FramesOfStacks(s)
                        \cup FramesOfTables(s) \cup FramesOfPages(s)
    BY <1>2, <1>3 DEF Uses, FramesOfStacks, FramesOfTables, TablesMadeBy, FramesOfPages, PagesOwned
  <1>4. Uses(s, "shared", 0, s.shared) /\ Uses(s, "directory", 0, s.directory)
    BY DEF Uses
  <1>5. ASSUME NEW f \in FramesOfStacks(s) PROVE \E n : Uses(s, "stack", n, f)
    BY DEF Uses, FramesOfStacks
  <1>6. ASSUME NEW f \in FramesOfTables(s) PROVE \E n : Uses(s, "table", n, f)
    BY <1>2 DEF Uses, FramesOfTables, TablesMadeBy
  <1>7. ASSUME NEW f \in FramesOfPages(s) PROVE \E n : Uses(s, "page", n, f)
    BY DEF Uses, FramesOfPages, PagesOwned
  <1>8. Held(s) \subseteq {s.shared, s.directory} \cup FramesOfStacks(s)
                        \cup FramesOfTables(s) \cup FramesOfPages(s)
    BY <1>3 DEF Held
  <1>9. {s.shared, s.directory} \cup FramesOfStacks(s)
            \cup FramesOfTables(s) \cup FramesOfPages(s) \subseteq Held(s)
    BY <1>1, <1>4, <1>5, <1>6, <1>7 DEF Held
  <1> QED
    BY <1>8, <1>9

\* A process that lives holds its frames.
LEMMA AliveHolds ==
  ASSUME MemInv, NEW p \in Proc, space[p].alive
  PROVE  /\ used \in SUBSET Frame /\ space[p] \in Spaces
         /\ Holds(used, space[p], used \ Held(space[p]))
  BY DEF MemInv

\* FramesOf names the frames that a process holds.
LEMMA FramesHeld ==
  ASSUME MemInv, NEW p \in Proc
  PROVE  FramesOf(p) = Held(space[p])
  <1>1. CASE ~space[p].alive
    BY <1>1, NoSpaceIs DEF FramesOf, MemInv
  <1>2. CASE space[p].alive
    <2> DEFINE s == space[p]
               B == used \ Held(s)
    <2>1. used \in SUBSET Frame /\ Holds(used, s, B)
      BY <1>2, AliveHolds
    <2>2. \A k, n, f : Uses(s, k, n, f) => f \in Frame
      BY <2>1 DEF Holds
    <2>3. TableFrames(p) = FramesOfTables(s)
      <3>1. DOMAIN s.tables = 0 .. NumTables - 1
        BY <2>1 DEF Holds, Spaces
      <3>2. \A d \in TablesMadeBy(s) : s.tables[d] \in Frame
        BY <2>2, <3>1 DEF Uses, TablesMadeBy
      <3>3. NoFrame \notin Frame
        BY ProcessMemoryAssumption DEF Frame
      <3> QED
        BY <3>2, <3>3 DEF TableFrames, FramesOfTables, TablesMadeBy
    <2>4. StackFrames(p) = FramesOfStacks(s)
      BY DEF StackFrames, FramesOfStacks
    <2>5. OwnFrames(p) = FramesOfPages(s)
      BY DEF OwnFrames, OwnPages, FramesOfPages, PagesOwned
    <2>6. Held(s) = {s.shared, s.directory} \cup FramesOfStacks(s)
                        \cup FramesOfTables(s) \cup FramesOfPages(s)
      BY <2>1, HeldParts
    <2> QED
      BY <1>2, <2>3, <2>4, <2>5, <2>6 DEF FramesOf
  <1> QED
    BY <1>1, <1>2

------------------------------------------------------------------------------
(***************************************************************************)
(* One step after the other.                                               *)
(***************************************************************************)

\* Nothing is held at first.
LEMMA MemInitInv == MemInit => MemInv
  <1> SUFFICES ASSUME MemInit PROVE MemInv
    OBVIOUS
  <1>1. used = {} /\ heap = {} /\ reaped = 0 /\ space = [p \in Proc |-> NoSpace]
    BY DEF MemInit
  <1>2. \A p \in Proc : space[p] = NoSpace
    BY <1>1
  <1>3. \A p \in Proc : Held(space[p]) = {} /\ ~space[p].alive
    BY <1>2, NoSpaceIs
  <1>4. space \in [Proc -> Spaces]
    BY <1>1, NoSpaceIs
  <1>5. Leaked = {}
    BY <1>1 DEF Leaked
  <1>6. Cardinality(Leaked) = reaped
    BY <1>1, <1>5, FS_EmptySet
  <1> QED
    BY <1>1, <1>2, <1>3, <1>4, <1>6 DEF MemInv

\* Leaving no frame behind counts as none.
LEMMA NothingLeft == Cardinality({}) = 0 /\ \A n \in Nat : n + Cardinality({}) = n
  BY FS_EmptySet

\* A process that takes frames leaves the others alone.
LEMMA GrownMoved ==
  ASSUME MemInv, NEW p \in Proc, NEW M, Grown(M, used, space[p], used \ Held(space[p])),
         Commits(p, M), heap' = heap, reaped' = reaped
  PROVE  StepKept
  <1> DEFINE B == used \ Held(space[p])
  <1>1. CASE ~(M.used \subseteq Frame)
    BY <1>1, LostKept DEF Commits
  <1>2. CASE M.used \subseteq Frame
    <2>1. used' = M.used /\ space' = [space EXCEPT ![p] = M.s]
      BY <1>2 DEF Commits
    <2>2. /\ Holds(M.used, M.s, B) /\ space[p].stacks \subseteq M.s.stacks
          /\ \A v \in Page : space[p].entry[v].present => M.s.entry[v] = space[p].entry[v]
      BY <1>2 DEF Grown
    <2>3. M.s \in Spaces /\ M.s.alive
      BY <2>2 DEF Holds
    <2>4. PagesKept(space[p], M.s)
      BY <2>2 DEF PagesKept
    <2>5. reaped' = reaped + Cardinality({})
      BY NothingLeft DEF MemInv
    <2>6. (B \cup {}) \ {} = B
      OBVIOUS
    <2>7. Moved(p, M.s, {}, {})
      BY <1>2, <2>1, <2>2, <2>3, <2>4, <2>5, <2>6 DEF Moved
    <2> QED
      BY <2>7, MovedInv
  <1> QED
    BY <1>1, <1>2

\* The steps, one lemma each.
LEMMA CreateProcessKept ==
  ASSUME MemInv, NEW p \in Proc, CreateProcessMemory(p)
  PROVE  StepKept
  <1> DEFINE M == CreatedProcess(used)
  <1>1. Commits(p, M) /\ heap' = heap /\ reaped' = reaped
    BY DEF CreateProcessMemory
  <1>2. space[p] = NoSpace /\ used \in SUBSET Frame
    BY DEF CreateProcessMemory, MemInv
  <1>3. CASE ~(M.used \subseteq Frame)
    <2> HIDE DEF M
    <2> QED
      BY <1>1, <1>3, LostKept DEF Commits
  <1>4. CASE M.used \subseteq Frame
    <2>1. used \subseteq M.used /\ Holds(M.used, M.s, used)
      BY <1>2, <1>4, ProcessMade
    <2> HIDE DEF M
    <2>2. used \ Held(space[p]) = used
      BY <1>2, NoSpaceIs
    <2>3. /\ space[p].stacks \subseteq M.s.stacks
          /\ \A v \in Page : space[p].entry[v].present => M.s.entry[v] = space[p].entry[v]
      BY <1>2, NoSpaceIs DEF NoEntry, Entry
    <2>4. Grown(M, used, space[p], used \ Held(space[p]))
      BY <2>1, <2>2, <2>3 DEF Grown
    <2> QED
      BY <1>1, <2>4, GrownMoved
  <1> QED
    BY <1>3, <1>4

\* The death of a process, whatever killed it.
LEMMA EndsKept ==
  ASSUME MemInv, NEW p \in Proc, space[p].alive, Ends(p)
  PROVE  StepKept
  <1> DEFINE s == space[p]
             B == used \ Held(s)
             T == s.stacks
             X == OtherFrames(s, T)
             M == KilledThreads(View(p), T)
  <1>1. used \in SUBSET Frame /\ s \in Spaces /\ Holds(used, s, B)
    BY AliveHolds
  <1>2. View(p) = [used |-> used, s |-> s]
    BY DEF View
  <1>3. T \in SUBSET s.stacks
    OBVIOUS
  <1>4. /\ Holds(M.used, M.s, B \cup X) /\ M.used \subseteq used /\ M.s.stacks = s.stacks \ T
    <2>1. M = KilledThreads([used |-> used, s |-> s], T)
      BY <1>2
    <2> HIDE DEF B, T, s, M
    <2>2. Abandoned(M, used, s, B, T)
      BY <1>1, <1>3, <2>1, ThreadsKilled
    <2> QED
      BY <2>2 DEF Abandoned
  <1>5. Cardinality(X) = Cardinality(T) /\ X \subseteq used \ B
    <2> HIDE DEF B, T, s
    <2> QED
      BY <1>1, <1>3, OthersCounted
  <1> HIDE DEF X
  <1>6. M.used \in SUBSET Frame /\ M.s.stacks = {}
    BY <1>1, <1>4
  <1>7. Freed(M.used, Released(M.s)) = B \cup X
    <2> HIDE DEF M, B
    <2> QED
      BY <1>4, <1>6, AllReleased
  <1>8. PICK W : /\ used' = Freed(M.used, Released(M.s) \cup W)
                 /\ space' = [space EXCEPT ![p] = NoSpace]
                 /\ reaped' = reaped + Cardinality(T) /\ heap' = heap
                 /\ sound' = (W \cap FramesBeside(p) = {})
    BY DEF Ends
  <1>9. B \cup X \subseteq Frame /\ X \subseteq Held(s)
    BY <1>1, <1>5
  <1>10. CASE W \cap FramesBeside(p) = {}
    <2>1. used' = ((used \ Held(space[p])) \cup X) \ W
      <3>1. Freed(M.used, Released(M.s) \cup W) = Freed(M.used, Released(M.s)) \ W
        BY DEF Freed
      <3> QED
        BY <1>7, <1>8, <3>1
    <2>2. used' \subseteq Frame /\ X \subseteq Held(space[p])
      BY <1>9, <2>1
    <2>3. reaped' = reaped + Cardinality(X)
      BY <1>5, <1>8
    <2>4. W \cap (heap \cup UNION {Held(space[q]) : q \in Proc \ {p}}) = {}
      <3>1. \A q \in Proc \ {p} : FramesOf(q) = Held(space[q])
        BY FramesHeld
      <3> QED
        BY <1>10, <3>1 DEF FramesBeside
    <2>5. Moved(p, NoSpace, X, W)
      BY <1>8, <2>1, <2>2, <2>3, <2>4, NoSpaceIs DEF Moved
    <2> QED
      BY <2>5, MovedInv
  <1>11. CASE W \cap FramesBeside(p) # {}
    <2>1. ~sound'
      BY <1>8, <1>11
    <2>2. space'[p] = NoSpace /\ \A q \in Proc : q # p => space'[q] = space[q]
      BY <1>8 DEF MemInv
    <2>3. Kept
      BY <2>2, NoSpaceIs DEF Kept, PagesKept
    <2> QED
      BY <2>1, <2>3 DEF StepKept, SoundInv
  <1> QED
    BY <1>10, <1>11

LEMMA KillThreadKept ==
  ASSUME MemInv, NEW p \in Proc, NEW t \in space[p].stacks, KillThreadMemory(p, t)
  PROVE  StepKept
  <1> DEFINE s == space[p]
             B == used \ Held(s)
             T == {t}
             X == OtherFrames(s, T)
             M == KilledThreads([used |-> used, s |-> s], T)
  <1>1. /\ Commits(p, M) /\ reaped' = reaped + 1 /\ heap' = heap /\ space[p].alive
    BY DEF KillThreadMemory, Running, View
  <1>2. used \in SUBSET Frame /\ s \in Spaces /\ Holds(used, s, B)
    BY <1>1, AliveHolds
  <1>3. T \in SUBSET s.stacks
    OBVIOUS
  <1>4. /\ Holds(M.used, M.s, B \cup X) /\ M.used \subseteq used /\ M.s.stacks = s.stacks \ T
        /\ \A v \in Page : ~(\E u \in T : u.at = v) => M.s.entry[v] = s.entry[v]
    <2> HIDE DEF B, T, s
    <2>1. Abandoned(M, used, s, B, T)
      BY <1>2, <1>3, ThreadsKilled
    <2> QED
      BY <2>1 DEF Abandoned
  <1>5. Cardinality(X) = Cardinality(T) /\ X \subseteq used \ B
    <2> HIDE DEF B, T, s
    <2> QED
      BY <1>2, <1>3, OthersCounted
  <1>6. Cardinality(T) = 1
    BY FS_Singleton
  <1> HIDE DEF X, M
  <1>7. M.s \in Spaces /\ M.s.alive
    BY <1>4 DEF Holds
  <1>8. PagesKept(s, M.s)
    <2>1. s.stacks \ M.s.stacks = T
      BY <1>4
    <2> HIDE DEF T, s
    <2> QED
      BY <1>4, <2>1 DEF PagesKept
  <1>9. Moved(p, M.s, X, {})
    <2>1. used' = M.used /\ space' = [space EXCEPT ![p] = M.s] /\ used' \subseteq Frame
      BY <1>1, <1>2, <1>4 DEF Commits
    <2>2. X \subseteq Held(space[p])
      BY <1>5
    <2>3. Holds(used', M.s, ((used \ Held(space[p])) \cup X) \ {})
      BY <1>4, <2>1
    <2>4. reaped' = reaped + Cardinality(X)
      BY <1>1, <1>5, <1>6
    <2> QED
      BY <1>1, <1>7, <1>8, <2>1, <2>2, <2>3, <2>4 DEF Moved
  <1> QED
    BY <1>9, MovedInv

LEMMA CreateThreadKept ==
  ASSUME MemInv, NEW p \in Proc, CreateThreadMemory(p)
  PROVE  StepKept
  <1> SUFFICES ASSUME RoomIn(p, 2) PROVE StepKept
    BY LostKept DEF CreateThreadMemory
  <1>1. /\ space[p].alive /\ FreeRuns(space[p], 2) # {} /\ Commits(p, CreatedThread(View(p)))
        /\ heap' = heap /\ reaped' = reaped
    BY DEF CreateThreadMemory, Running, RoomIn
  <1>2. /\ used \in SUBSET Frame /\ Holds(used, space[p], used \ Held(space[p]))
    BY <1>1, AliveHolds
  <1>3. View(p) = [used |-> used, s |-> space[p]]
    BY DEF View
  <1>4. Grown(CreatedThread(View(p)), used, space[p], used \ Held(space[p]))
    BY <1>1, <1>2, <1>3, ThreadGrown
  <1> QED
    BY <1>1, <1>4, GrownMoved

LEMMA MapPixelsKept ==
  ASSUME MemInv, NEW p \in Proc, MapPixels(p)
  PROVE  StepKept
  <1> SUFFICES ASSUME RoomIn(p, 1) PROVE StepKept
    BY LostKept DEF MapPixels
  <1> DEFINE M == Searched([used |-> used, s |-> space[p]], 1)
             v == FindFreeVirtualPages(M.s, 1)
             N == [used |-> M.used,
                   s |-> [M.s EXCEPT !.pixels = TRUE,
                                     !.entry[v] = Entry(TRUE, GpuFrame, FALSE, FALSE)]]
  <1>1. /\ space[p].alive /\ FreeRuns(space[p], 1) # {} /\ Commits(p, N)
        /\ heap' = heap /\ reaped' = reaped
    BY DEF MapPixels, Running, RoomIn, View
  <1>2. /\ used \in SUBSET Frame /\ Holds(used, space[p], used \ Held(space[p]))
    BY <1>1, AliveHolds
  <1>3. Grown(N, used, space[p], used \ Held(space[p]))
    BY <1>1, <1>2, PixelsGrown
  <1> HIDE DEF N
  <1> QED
    BY <1>1, <1>3, GrownMoved

LEMMA LoadSegmentKept ==
  ASSUME MemInv, NEW p \in Proc, NEW v \in NamedPages, LoadSegment(p, v, 2)
  PROVE  StepKept
  <1> USE ProcessMemoryAssumption
  <1> DEFINE M == WithTables([used |-> Taken(used, 2), s |-> space[p]],
                             TableOf(v), TableOf(v + 2 - 1))
             N == [M EXCEPT !.s = Mapped(@, v, First(used, 2), 2, TRUE)]
  <1>1. /\ space[p].loading /\ v \in Nat
        /\ IF PreferredFree(space[p], v, 2)
           THEN /\ IF v + 2 - 1 \in Page THEN Commits(p, N) ELSE Lost
                /\ heap' = heap /\ reaped' = reaped
           ELSE Ends(p)
    BY DEF LoadSegment
  <1>2. space[p].alive
    BY <1>1, NoSpaceIs DEF MemInv
  <1>3. /\ used \in SUBSET Frame /\ Holds(used, space[p], used \ Held(space[p]))
    BY <1>2, AliveHolds
  <1>4. CASE PreferredFree(space[p], v, 2) /\ v + 2 - 1 \in Page
    <2>1. Grown(N, used, space[p], used \ Held(space[p]))
      BY <1>1, <1>3, <1>4, SegmentGrown
    <2> HIDE DEF N
    <2> QED
      BY <1>1, <1>4, <2>1, GrownMoved
  <1>5. CASE ~PreferredFree(space[p], v, 2)
    <2> HIDE DEF N
    <2> QED
      BY <1>1, <1>2, <1>5, EndsKept
  <1>6. CASE PreferredFree(space[p], v, 2) /\ v + 2 - 1 \notin Page
    <2> HIDE DEF N
    <2> QED
      BY <1>1, <1>6, LostKept
  <1> QED
    BY <1>4, <1>5, <1>6

\* Before its first round call 21 has provided nothing.
LEMMA ProvidingAtFirst ==
  ASSUME NEW M, NEW U, NEW s, NEW B, Tabled(M, U, s, B), NEW v \in Nat
  PROVE  Providing(M, U, s, B, v, 0)
  BY DEF Tabled, Providing

LEMMA AllocatePagesKept ==
  ASSUME MemInv, NEW p \in Proc, NEW immediately \in BOOLEAN, NEW dynamic \in BOOLEAN,
         AllocatePages(p, 2, immediately, dynamic)
  PROVE  StepKept
  <1> SUFFICES ASSUME RoomIn(p, 2) PROVE StepKept
    BY LostKept DEF AllocatePages
  <1> DEFINE N == [used |-> used, s |-> space[p]]
             M == Searched(N, 2)
             v == FindFreeVirtualPages(M.s, 2)
             B == used \ Held(space[p])
  <1>1. /\ space[p].alive /\ FreeRuns(space[p], 2) # {}
        /\ Commits(p, Provided(M, v, 2, immediately, dynamic))
        /\ heap' = heap /\ reaped' = reaped
    BY DEF AllocatePages, Running, RoomIn, View
  <1>2. /\ used \in SUBSET Frame /\ space[p] \in Spaces /\ Holds(used, space[p], B)
    BY <1>1, AliveHolds
  <1>3. Tabled(N, used, space[p], B)
    <2>1. "entry" \in DOMAIN space[p]
      BY <1>2 DEF Spaces
    <2> HIDE DEF B
    <2> QED
      BY <1>2, <2>1 DEF Tabled
  <1> HIDE DEF N, B
  <1>4. 2 \in Nat \ {0}
    OBVIOUS
  <1>5. Tabled(M, used, space[p], B) /\ v = FindFreeVirtualPages(space[p], 2)
    BY <1>1, <1>3, <1>4, SearchedKept
  <1>6. v \in Nat /\ \A i \in 0 .. 2 - 1 : v + i \in Page /\ space[p].entry[v + i] = NoEntry
    BY <1>1, <1>4, <1>5, RunFound
  <1> HIDE DEF M, v
  <1>7. Providing(M, used, space[p], B, v, 0)
    BY <1>5, <1>6, ProvidingAtFirst
  <1>8. Grown(Provided(M, v, 2, immediately, dynamic), used, space[p], B)
    BY <1>2, <1>4, <1>6, <1>7, ProvidedGrown
  <1> QED
    BY <1>1, <1>8, GrownMoved DEF B

LEMMA AllocatePagesAtKept ==
  ASSUME MemInv, NEW p \in Proc, NEW immediately \in BOOLEAN, NEW dynamic \in BOOLEAN,
         NEW v \in NamedPages, NEW n \in {1, 3}, AllocatePagesAt(p, v, n, immediately, dynamic)
  PROVE  StepKept
  <1> SUFFICES ASSUME v + n - 1 \in Page PROVE StepKept
    BY LostKept DEF AllocatePagesAt
  <1> DEFINE N == [used |-> used, s |-> space[p]]
             B == used \ Held(space[p])
  <1>1. /\ space[p].alive /\ PreferredFree(space[p], v, n)
        /\ Commits(p, Provided(N, v, n, immediately, dynamic))
        /\ heap' = heap /\ reaped' = reaped /\ v \in Nat
    BY ProcessMemoryAssumption DEF AllocatePagesAt, Running, View
  <1>2. /\ used \in SUBSET Frame /\ space[p] \in Spaces /\ Holds(used, space[p], B)
    BY <1>1, AliveHolds
  <1>3. Tabled(N, used, space[p], B)
    <2>1. "entry" \in DOMAIN space[p]
      BY <1>2 DEF Spaces
    <2> HIDE DEF B
    <2> QED
      BY <1>2, <2>1 DEF Tabled
  <1> HIDE DEF N, B
  <1>4. n \in Nat
    OBVIOUS
  <1>5. \A i \in 0 .. n - 1 : v + i \in Page /\ space[p].entry[v + i] = NoEntry
    <2>1. PICK P \in Int : P = TablePages * NumTables
      BY ProcessMemoryAssumption, Scaled
    <2>2. \A i \in 0 .. n - 1 : v + i \in Page
      BY <1>1, <2>1 DEF Page
    <2> QED
      BY <1>1, <2>2 DEF PreferredFree
  <1>6. Providing(N, used, space[p], B, v, 0)
    BY <1>1, <1>3, ProvidingAtFirst
  <1>7. Grown(Provided(N, v, n, immediately, dynamic), used, space[p], B)
    BY <1>1, <1>2, <1>4, <1>5, <1>6, ProvidedGrown
  <1> QED
    BY <1>1, <1>7, GrownMoved DEF B

LEMMA PageFaultKept ==
  ASSUME MemInv, NEW p \in Proc, NEW v \in Page, PageFault(p, v)
  PROVE  StepKept
  <1> DEFINE e == space[p].entry[v]
             M == [used |-> Taken(used, 1),
                   s |-> [space[p] EXCEPT !.entry[v].present = TRUE,
                                          !.entry[v].frame = First(used, 1)]]
             given == space[p].tables[TableOf(v)] # NoFrame /\ ~e.present /\ e.dynamic
  <1>1. space[p].alive /\ IF given THEN Commits(p, M) /\ heap' = heap /\ reaped' = reaped
                          ELSE Ends(p)
    BY DEF PageFault, Running
  <1>2. /\ used \in SUBSET Frame /\ Holds(used, space[p], used \ Held(space[p]))
    BY <1>1, AliveHolds
  <1>3. CASE given
    <2>1. Grown(M, used, space[p], used \ Held(space[p]))
      BY <1>2, <1>3, FaultGrown
    <2> HIDE DEF M
    <2> QED
      BY <1>1, <1>3, <2>1, GrownMoved
  <1>4. CASE ~given
    <2> HIDE DEF M, given
    <2> QED
      BY <1>1, <1>4, EndsKept
  <1> QED
    BY <1>3, <1>4

LEMMA StartProcessKept ==
  ASSUME MemInv, NEW p \in Proc, StartProcess(p)
  PROVE  StepKept
  <1> DEFINE s == space[p]
             z == [s EXCEPT !.loading = FALSE]
             B == used \ Held(s)
  <1>1. /\ s.loading /\ used' = used /\ heap' = heap /\ reaped' = reaped
        /\ space' = [space EXCEPT ![p] = z]
    BY DEF StartProcess
  <1>2. s.alive
    BY <1>1, NoSpaceIs DEF MemInv
  <1>3. used \in SUBSET Frame /\ s \in Spaces /\ Holds(used, s, B)
    BY <1>2, AliveHolds
  <1> HIDE DEF s, B
  <1>4. /\ z \in Spaces /\ z.alive = s.alive /\ z.shared = s.shared /\ z.directory = s.directory
        /\ z.tables = s.tables /\ z.stacks = s.stacks /\ z.entry = s.entry
    BY <1>3 DEF Spaces
  <1> HIDE DEF z
  <1>5. B \subseteq B /\ B \ B = {}
    OBVIOUS
  <1>6. Holds(used, z, B)
    BY <1>3, <1>4, <1>5, PagesClaimed
  <1>7. reaped' = reaped + Cardinality({})
    BY <1>1, NothingLeft DEF MemInv
  <1>8. Moved(p, z, {}, {})
    <2>1. (B \cup {}) \ {} = B
      OBVIOUS
    <2>2. PagesKept(s, z)
      BY <1>4 DEF PagesKept
    <2> QED
      BY <1>1, <1>2, <1>3, <1>4, <1>6, <1>7, <2>1, <2>2 DEF Moved, s, B
  <1> QED
    BY <1>8, MovedInv

LEMMA HeapGrowsKept ==
  ASSUME MemInv, HeapGrows
  PROVE  StepKept
  <1> DEFINE f == First(used, 1)
  <1> SUFFICES ASSUME f \in Frame PROVE StepKept
    BY LostKept DEF HeapGrows
  <1>1. /\ f \in Frame /\ used' = Taken(used, 1) /\ heap' = heap \cup {f}
        /\ space' = space /\ reaped' = reaped
    BY DEF HeapGrows
  <1>2. used \in SUBSET Frame
    BY DEF MemInv
  <1>3. f \notin used /\ used' = used \cup {f}
    BY <1>1, <1>2, OneFree
  <1> HIDE DEF f
  <1>4. used' \in SUBSET Frame /\ heap' \subseteq used'
    BY <1>1, <1>2, <1>3 DEF MemInv
  <1>5. \A p \in Proc : Held(space[p]) \subseteq used
    BY HeldUsed
  <1>6. ASSUME NEW p \in Proc
        PROVE  IF space[p].alive THEN Holds(used', space[p], used' \ Held(space[p]))
               ELSE space[p] = NoSpace
    <2>1. CASE space[p].alive
      <3>1. Holds(used, space[p], used \ Held(space[p]))
        BY <2>1 DEF MemInv
      <3>2. Held(space[p]) \subseteq used'
        BY <1>3, <1>5
      <3>3. Holds(used', space[p], used' \ Held(space[p]))
        BY <1>2, <1>4, <3>1, <3>2, Rebased
      <3> QED
        BY <2>1, <3>3
    <2>2. CASE ~space[p].alive
      BY <2>2 DEF MemInv
    <2> QED
      BY <2>1, <2>2
  <1>7. \A p \in Proc : Held(space[p]) \cap heap' = {}
    BY <1>1, <1>3, <1>5 DEF MemInv
  <1>8. Leaked' = Leaked
    BY <1>1, <1>3, <1>5 DEF Leaked
  <1>9. MemInv'
    BY <1>1, <1>4, <1>6, <1>7, <1>8 DEF MemInv
  <1>10. Kept
    BY <1>1 DEF Kept, PagesKept
  <1> QED
    BY <1>9, <1>10 DEF StepKept, SoundInv

\* Every step keeps the invariant, and the pages of every process.
LEMMA EveryStep == SoundInv /\ [MemNext]_memVars => StepKept
  <1>1. ASSUME SoundInv, UNCHANGED memVars PROVE StepKept
    <2>1. /\ used' = used /\ space' = space /\ heap' = heap /\ reaped' = reaped
          /\ sound' = sound
      BY <1>1 DEF memVars
    <2>2. Leaked' = Leaked
      BY <2>1 DEF Leaked
    <2>3. MemInv => MemInv'
      BY <2>1, <2>2 DEF MemInv
    <2>4. Kept
      BY <2>1 DEF Kept, PagesKept
    <2> QED
      BY <1>1, <2>1, <2>3, <2>4 DEF StepKept, SoundInv
  <1> SUFFICES ASSUME MemInv, MemStep PROVE StepKept
    BY <1>1 DEF MemNext, SoundInv
  <1>2. ASSUME NEW p \in Proc, CreateProcessMemory(p) PROVE StepKept
    BY <1>2, CreateProcessKept
  <1>3. ASSUME NEW p \in Proc, CreateThreadMemory(p) PROVE StepKept
    BY <1>3, CreateThreadKept
  <1>4. ASSUME NEW p \in Proc, KillProcessMemory(p) PROVE StepKept
    BY <1>4, EndsKept DEF KillProcessMemory, Running
  <1>5. ASSUME NEW p \in Proc, MapPixels(p) PROVE StepKept
    BY <1>5, MapPixelsKept
  <1>6. ASSUME NEW p \in Proc, StartProcess(p) PROVE StepKept
    BY <1>6, StartProcessKept
  <1>7. ASSUME NEW p \in Proc, NEW t \in space[p].stacks, KillThreadMemory(p, t)
        PROVE  StepKept
    BY <1>7, KillThreadKept
  <1>8. ASSUME NEW p \in Proc, NEW v \in Page, PageFault(p, v) PROVE StepKept
    BY <1>8, PageFaultKept
  <1>9. ASSUME NEW p \in Proc, NEW v \in NamedPages, LoadSegment(p, v, 2)
        PROVE  StepKept
    BY <1>9, LoadSegmentKept
  <1>10. ASSUME NEW p \in Proc, NEW immediately \in BOOLEAN, NEW dynamic \in BOOLEAN,
                AllocatePages(p, 2, immediately, dynamic)
         PROVE  StepKept
    BY <1>10, AllocatePagesKept
  <1>11. ASSUME NEW p \in Proc, NEW immediately \in BOOLEAN, NEW dynamic \in BOOLEAN,
                NEW v \in NamedPages, NEW n \in {1, 3},
                AllocatePagesAt(p, v, n, immediately, dynamic)
         PROVE  StepKept
    BY <1>11, AllocatePagesAtKept
  <1>12. CASE HeapGrows
    BY <1>12, HeapGrowsKept
  <1> QED
    BY <1>2, <1>3, <1>4, <1>5, <1>6, <1>7, <1>8, <1>9, <1>10, <1>11, <1>12 DEF MemStep

\* So the invariant always holds.
LEMMA MemInvHolds == MemSpec => []SoundInv
  <1>1. SoundInv /\ [MemNext]_memVars => SoundInv'
    BY EveryStep DEF StepKept
  <1>2. MemInit => SoundInv
    BY MemInitInv DEF SoundInv
  <1> QED
    BY <1>1, <1>2, PTL DEF MemSpec

------------------------------------------------------------------------------
(***************************************************************************)
(* What the invariant says of the frames of a process.                     *)
(***************************************************************************)

\* The sizes of sets that share nothing add up.
LEMMA DisjointSize ==
  ASSUME NEW S, IsFiniteSet(S), NEW T, IsFiniteSet(T), S \cap T = {}
  PROVE  /\ IsFiniteSet(S \cup T)
         /\ Cardinality(S \cup T) = Cardinality(S) + Cardinality(T)
  <1>1. Cardinality(S) \in Nat /\ Cardinality(T) \in Nat
    BY FS_CardinalityType
  <1>2. /\ IsFiniteSet(S \cup T)
        /\ Cardinality(S \cup T) = Cardinality(S) + Cardinality(T) - Cardinality(S \cap T)
    BY FS_Union
  <1>3. Cardinality(S \cap T) = 0
    BY FS_EmptySet
  <1> QED
    BY <1>1, <1>2, <1>3

\* Two frames for each stack.
LEMMA StacksCounted ==
  ASSUME NEW U \in SUBSET Frame, NEW s, NEW B, Holds(U, s, B)
  PROVE  /\ IsFiniteSet(FramesOfStacks(s))
         /\ Cardinality(FramesOfStacks(s)) = 2 * Cardinality(s.stacks)
  <1> DEFINE S == s.stacks
             g == [t \in S |-> s.entry[t.at].frame]
             X == OtherFrames(s, S)
  <1>1. Regular(s) /\ OneUse(s)
    BY DEF Holds
  <1>2. IsFiniteSet(S) /\ \A t, u \in S : t.at = u.at => t = u
    BY <1>1 DEF Regular, StacksFit
  <1>3. \A t \in S : /\ t.frames = {s.entry[t.at].frame, OtherFrame(s, t)}
                     /\ OtherFrame(s, t) # s.entry[t.at].frame
    BY <1>1, StackFrames2
  <1>4. \A t \in S : /\ Uses(s, "stack", t.at, s.entry[t.at].frame)
                     /\ Uses(s, "stack", t.at, OtherFrame(s, t))
    BY <1>3 DEF Uses
  <1>5. \A t, u \in S : g[t] = g[u] => t = u
    <2> SUFFICES ASSUME NEW t \in S, NEW u \in S, s.entry[t.at].frame = s.entry[u.at].frame
                 PROVE  t = u
      OBVIOUS
    <2>1. t.at = u.at
      BY <1>1, <1>4 DEF OneUse
    <2> QED
      BY <1>2, <2>1
  <1>6. {g[t] : t \in S} = FirstFrames(s)
    BY DEF FirstFrames
  <1>7. FirstFrames(s) \cap X = {}
    <2> SUFFICES ASSUME NEW t \in S, NEW u \in S, s.entry[t.at].frame = OtherFrame(s, u)
                 PROVE  FALSE
      BY DEF FirstFrames, OtherFrames
    <2>1. t.at = u.at
      BY <1>1, <1>4 DEF OneUse
    <2>2. t = u
      BY <1>2, <2>1
    <2> QED
      BY <1>3, <2>2
  <1>8. FramesOfStacks(s) = FirstFrames(s) \cup X
    BY <1>3 DEF FramesOfStacks, FirstFrames, OtherFrames
  <1> HIDE DEF g
  <1>9. IsFiniteSet(FirstFrames(s)) /\ Cardinality(FirstFrames(s)) = Cardinality(S)
    BY <1>2, <1>5, <1>6, ImageSize
  <1>10. IsFiniteSet(X) /\ Cardinality(X) = Cardinality(S)
    <2>1. S \in SUBSET s.stacks
      OBVIOUS
    <2> QED
      BY <2>1, OthersCounted
  <1>11. Cardinality(S) \in Nat
    BY <1>2, FS_CardinalityType
  <1> HIDE DEF S, X
  <1>12. /\ IsFiniteSet(FirstFrames(s) \cup X)
         /\ Cardinality(FirstFrames(s) \cup X) = Cardinality(FirstFrames(s)) + Cardinality(X)
    BY <1>7, <1>9, <1>10, DisjointSize
  <1> QED
    BY <1>8, <1>9, <1>10, <1>11, <1>12 DEF S

\* A frame for each page table.
LEMMA TablesCounted ==
  ASSUME NEW U \in SUBSET Frame, NEW s, NEW B, Holds(U, s, B)
  PROVE  /\ IsFiniteSet(FramesOfTables(s))
         /\ Cardinality(FramesOfTables(s)) = Cardinality(TablesMadeBy(s))
         /\ IsFiniteSet(TablesMadeBy(s))
  <1> USE ProcessMemoryAssumption
  <1> DEFINE D == TablesMadeBy(s)
             g == s.tables
  <1>1. OneUse(s) /\ DOMAIN s.tables = 0 .. NumTables - 1
    BY DEF Holds, Spaces
  <1>2. IsFiniteSet(0 .. NumTables - 1)
    BY FS_Interval
  <1>3. D \in SUBSET (0 .. NumTables - 1)
    BY <1>1 DEF TablesMadeBy
  <1>4. IsFiniteSet(D)
    BY <1>2, <1>3, FS_Subset
  <1>5. \A d \in D : Uses(s, "table", d, g[d])
    BY <1>3 DEF Uses, TablesMadeBy
  <1>6. \A x, y \in D : g[x] = g[y] => x = y
    BY <1>1, <1>5 DEF OneUse
  <1>7. {g[d] : d \in D} = FramesOfTables(s)
    BY DEF FramesOfTables
  <1> HIDE DEF g
  <1>8. IsFiniteSet({g[d] : d \in D}) /\ Cardinality({g[d] : d \in D}) = Cardinality(D)
    BY <1>4, <1>6, ImageSize
  <1> QED
    BY <1>4, <1>7, <1>8

\* There are finitely many pages.
LEMMA PageIsFinite == IsFiniteSet(Page)
  <1> USE ProcessMemoryAssumption
  <1>1. PICK n \in Int : n = TablePages * NumTables
    BY Scaled
  <1> QED
    BY <1>1, FS_Interval DEF Page

\* A frame for each page that the process owns.
LEMMA PagesCounted ==
  ASSUME NEW U \in SUBSET Frame, NEW s, NEW B, Holds(U, s, B)
  PROVE  /\ IsFiniteSet(FramesOfPages(s))
         /\ Cardinality(FramesOfPages(s)) = Cardinality(PagesOwned(s))
         /\ IsFiniteSet(PagesOwned(s))
  <1> DEFINE V == PagesOwned(s)
             g == [v \in Page |-> s.entry[v].frame]
  <1>1. OneUse(s)
    BY DEF Holds
  <1>2. V \in SUBSET Page
    BY DEF PagesOwned
  <1>3. IsFiniteSet(V)
    BY <1>2, PageIsFinite, FS_Subset
  <1>4. \A v \in V : Uses(s, "page", v, g[v])
    BY DEF Uses, PagesOwned
  <1>5. {g[v] : v \in V} = FramesOfPages(s)
    BY <1>2 DEF FramesOfPages
  <1> HIDE DEF g
  <1>6. \A x, y \in V : g[x] = g[y] => x = y
    BY <1>1, <1>4 DEF OneUse
  <1>7. IsFiniteSet({g[v] : v \in V}) /\ Cardinality({g[v] : v \in V}) = Cardinality(V)
    BY <1>3, <1>6, ImageSize
  <1> QED
    BY <1>3, <1>5, <1>7

\* The size of what a process holds is the number of its purposes.
LEMMA HeldCounted ==
  ASSUME NEW U \in SUBSET Frame, NEW s, NEW B, Holds(U, s, B)
  PROVE  Cardinality(Held(s)) = 2 + 2 * Cardinality(s.stacks)
                + Cardinality(TablesMadeBy(s)) + Cardinality(PagesOwned(s))
  <1> DEFINE R == {s.shared, s.directory}
             S == FramesOfStacks(s)
             T == FramesOfTables(s)
             V == FramesOfPages(s)
  <1>1. OneUse(s)
    BY DEF Holds
  <1>2. Uses(s, "shared", 0, s.shared) /\ Uses(s, "directory", 0, s.directory)
    BY DEF Uses
  <1>3. \A f \in S : \E n : Uses(s, "stack", n, f)
    BY DEF Uses, FramesOfStacks
  <1>4. \A f \in T : \E n : Uses(s, "table", n, f)
    <2>1. DOMAIN s.tables = 0 .. NumTables - 1
      BY DEF Holds, Spaces
    <2> QED
      BY <2>1 DEF Uses, FramesOfTables, TablesMadeBy
  <1>5. \A f \in V : \E n : Uses(s, "page", n, f)
    BY DEF Uses, FramesOfPages, PagesOwned
  <1>6. s.shared # s.directory
    BY <1>1, <1>2 DEF OneUse
  <1>7. R \cap S = {} /\ R \cap T = {} /\ R \cap V = {}
    BY <1>1, <1>2, <1>3, <1>4, <1>5 DEF OneUse
  <1>8. S \cap T = {} /\ S \cap V = {} /\ T \cap V = {}
    BY <1>1, <1>3, <1>4, <1>5 DEF OneUse
  <1>9. IsFiniteSet(R) /\ Cardinality(R) = 2
    <2>1. IsFiniteSet({s.shared}) /\ Cardinality({s.shared}) = 1
      BY FS_Singleton
    <2>2. IsFiniteSet({s.directory}) /\ Cardinality({s.directory}) = 1
      BY FS_Singleton
    <2>3. {s.shared} \cap {s.directory} = {} /\ R = {s.shared} \cup {s.directory}
      BY <1>6
    <2>4. /\ IsFiniteSet({s.shared} \cup {s.directory})
          /\ Cardinality({s.shared} \cup {s.directory})
                = Cardinality({s.shared}) + Cardinality({s.directory})
      BY <2>1, <2>2, <2>3, DisjointSize, Zenon
    <2> HIDE DEF R
    <2> QED
      BY <2>1, <2>2, <2>3, <2>4
  <1>10. IsFiniteSet(S) /\ Cardinality(S) = 2 * Cardinality(s.stacks)
    BY StacksCounted
  <1>11. IsFiniteSet(T) /\ Cardinality(T) = Cardinality(TablesMadeBy(s))
    BY TablesCounted
  <1>12. IsFiniteSet(V) /\ Cardinality(V) = Cardinality(PagesOwned(s))
    BY PagesCounted
  <1>13. Held(s) = (R \cup S) \cup (T \cup V)
    BY HeldParts
  <1> HIDE DEF R, S, T, V
  <1>14. IsFiniteSet(R \cup S) /\ Cardinality(R \cup S) = Cardinality(R) + Cardinality(S)
    BY <1>7, <1>9, <1>10, DisjointSize
  <1>15. IsFiniteSet(T \cup V) /\ Cardinality(T \cup V) = Cardinality(T) + Cardinality(V)
    BY <1>8, <1>11, <1>12, DisjointSize
  <1>16. (R \cup S) \cap (T \cup V) = {}
    BY <1>7, <1>8
  <1>17. Cardinality((R \cup S) \cup (T \cup V))
            = (Cardinality(R) + Cardinality(S)) + (Cardinality(T) + Cardinality(V))
    BY <1>14, <1>15, <1>16, DisjointSize
  <1>18. Cardinality(S) \in Nat /\ Cardinality(T) \in Nat /\ Cardinality(V) \in Nat
    BY <1>10, <1>11, <1>12, FS_CardinalityType
  <1> QED
    BY <1>9, <1>10, <1>11, <1>12, <1>13, <1>17, <1>18

\* No frame is ever in use twice, for any number of processes, frames, tables
\* and threads and whatever flags the entries of the low memory hold, until one
\* of them makes the kernel free a frame that is in use.
THEOREM FramesKept == MemSpec => []FramesHaveOneUser
  <1>1. SoundInv => FramesHaveOneUser
    <2> SUFFICES ASSUME MemInv PROVE FramesHaveOneUser
      BY DEF SoundInv, FramesHaveOneUser
    <2>1. \A p \in Proc : FramesOf(p) = Held(space[p]) /\ Held(space[p]) \subseteq used
      BY FramesHeld, HeldUsed
    <2>2. heap \cup UNION {FramesOf(p) : p \in Proc} \subseteq used
      BY <2>1 DEF MemInv
    <2>3. \A p, q \in Proc : p # q => FramesOf(p) \cap FramesOf(q) = {}
      BY <2>1 DEF MemInv
    <2>4. ASSUME NEW p \in Proc, space[p].alive
          PROVE  /\ FramesOf(p) \cap heap = {}
                 /\ Cardinality(FramesOf(p)) =
                        2 + 2 * Cardinality(space[p].stacks)
                          + Cardinality({d \in DOMAIN space[p].tables :
                                            space[p].tables[d] # NoFrame})
                          + Cardinality(OwnPages(p))
      <3>1. used \in SUBSET Frame /\ Holds(used, space[p], used \ Held(space[p]))
        BY <2>4, AliveHolds
      <3>2. Cardinality(Held(space[p])) = 2 + 2 * Cardinality(space[p].stacks)
                + Cardinality(TablesMadeBy(space[p])) + Cardinality(PagesOwned(space[p]))
        BY <3>1, HeldCounted
      <3>3. OwnPages(p) = PagesOwned(space[p])
        BY DEF OwnPages, PagesOwned
      <3>4. FramesOf(p) \cap heap = {}
        BY <2>1 DEF MemInv
      <3> QED
        BY <2>1, <3>2, <3>3, <3>4 DEF TablesMadeBy
    <2> QED
      BY <2>2, <2>3, <2>4 DEF FramesHaveOneUser
  <1> QED
    BY <1>1, MemInvHolds, PTL

\* No more frames are ever lost than one of each thread that died, however many
\* processes come and go.
THEOREM OnlyStacksLost == MemSpec => []OnlyStacksLeak
  <1>1. SoundInv => OnlyStacksLeak
    <2> SUFFICES ASSUME MemInv PROVE OnlyStacksLeak
      BY DEF SoundInv, OnlyStacksLeak
    <2>1. \A p \in Proc : FramesOf(p) = Held(space[p])
      BY FramesHeld
    <2>2. used \ (heap \cup UNION {FramesOf(p) : p \in Proc}) = Leaked
      BY <2>1 DEF Leaked
    <2> QED
      BY <2>2 DEF MemInv, OnlyStacksLeak
  <1> QED
    BY <1>1, MemInvHolds, PTL

\* No step of any process, and no growth of the heap, takes a page that is in
\* use from its process or maps it elsewhere.
THEOREM MappingsKept == MemSpec => MappingsAreKept
  <1>1. SoundInv /\ [MemNext]_memVars =>
            [\A p \in Proc : \A v \in Page :
                /\ space[p].entry[v].present
                /\ space'[p].alive
                /\ ~\E t \in space[p].stacks \ space'[p].stacks : t.at = v
                => space'[p].entry[v] = space[p].entry[v]]_memVars
    BY EveryStep DEF StepKept, Kept, PagesKept
  <1>2. MemSpec => []SoundInv
    BY MemInvHolds
  <1> QED
    BY <1>1, <1>2, PTL DEF MemSpec, MappingsAreKept
==============================================================================
