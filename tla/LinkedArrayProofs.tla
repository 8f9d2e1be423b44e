------------------------- MODULE LinkedArrayProofs --------------------------
(***************************************************************************)
(* The linked array never breaks its links and implements the sequence its *)
(* users believe in, for every capacity, every element and whatever the    *)
(* memory of its storage held.                                             *)
(***************************************************************************)
EXTENDS LinkedArray, QueueOpsProofs

(***************************************************************************)
(* Sequences by their places.                                              *)
(***************************************************************************)

\* The walk c with the slot e put after its i-th place.
Inserted(c, i, e) ==
    [j \in 1 .. Len(c) + 1 |->
        IF j <= i THEN c[j] ELSE IF j = i + 1 THEN e ELSE c[j - 1]]

LEMMA InsertedFacts ==
    ASSUME NEW S, NEW c \in Seq(S), NEW i \in 0 .. Len(c), NEW e \in S
    PROVE  /\ Inserted(c, i, e) \in Seq(S)
           /\ Len(Inserted(c, i, e)) = Len(c) + 1
           /\ \A j \in 0 .. Len(c) + 2 :
                Place(Inserted(c, i, e), j) =
                    IF j <= i THEN Place(c, j)
                    ELSE IF j = i + 1 THEN e ELSE Place(c, j - 1)
<1> DEFINE d == Inserted(c, i, e)
<1>1. \A j \in 1 .. Len(c) + 1 :
        /\ d[j] \in S
        /\ d[j] = IF j <= i THEN c[j] ELSE IF j = i + 1 THEN e ELSE c[j - 1]
  BY DEF Inserted
<1>2. d \in [1 .. Len(c) + 1 -> S] /\ Len(c) + 1 \in Nat
  BY <1>1 DEF Inserted
<1>3. d \in Seq(S) /\ Len(d) = Len(c) + 1
  BY <1>2
<1> HIDE DEF d
<1>4. ASSUME NEW j \in 0 .. Len(c) + 2
      PROVE  Place(d, j) = IF j <= i THEN Place(c, j)
                           ELSE IF j = i + 1 THEN e ELSE Place(c, j - 1)
  <2>1. CASE j = 0
    BY <2>1 DEF Place
  <2>2. CASE j = Len(c) + 2
    BY <1>3, <2>2 DEF Place
  <2>3. CASE j \in 1 .. Len(c) + 1
    <3>1. Place(d, j) = d[j]
      BY <1>3, <2>3 DEF Place
    <3>2. CASE j <= i
      BY <1>1, <2>3, <3>1, <3>2 DEF Place
    <3>3. CASE j = i + 1
      BY <1>1, <2>3, <3>1, <3>3
    <3>4. CASE j > i + 1
      <4>1. j - 1 \in 1 .. Len(c) /\ d[j] = c[j - 1]
        BY <1>1, <2>3, <3>4
      <4> QED BY <3>1, <3>4, <4>1 DEF Place
    <3> QED BY <2>3, <3>2, <3>3, <3>4
  <2> QED BY <2>1, <2>2, <2>3
<1> QED BY <1>3, <1>4 DEF d

LEMMA SkippingFacts ==
    ASSUME NEW S, NEW c \in Seq(S), NEW k \in 1 .. Len(c)
    PROVE  /\ List!Skipping(c, k) \in Seq(S)
           /\ Len(List!Skipping(c, k)) = Len(c) - 1
           /\ \A j \in 1 .. Len(c) - 1 :
                List!Skipping(c, k)[j] = IF j < k THEN c[j] ELSE c[j + 1]
           /\ \A j \in 0 .. Len(c) :
                Place(List!Skipping(c, k), j) =
                    IF j < k THEN Place(c, j) ELSE Place(c, j + 1)
<1> DEFINE d == List!Skipping(c, k)
<1>1. \A j \in 1 .. Len(c) - 1 :
        d[j] \in S /\ d[j] = IF j < k THEN c[j] ELSE c[j + 1]
  BY DEF List!Skipping
<1>2. d \in [1 .. Len(c) - 1 -> S] /\ Len(c) - 1 \in Nat
  BY <1>1 DEF List!Skipping
<1>3. d \in Seq(S) /\ Len(d) = Len(c) - 1
  BY <1>2
<1> QED BY <1>1, <1>3 DEF Place

\* The places of a walk are distinct entries of the list.
LEMMA PlaceFacts ==
    ASSUME NEW L, NEW c, L.size \in Nat, L.capacity \in Nat, WalkOf(L, c)
    PROVE  /\ \A i \in 0 .. L.size + 1 :
                Place(c, i) \in Entry(L.capacity)
           /\ \A i \in 1 .. L.size : /\ Place(c, i) = c[i]
                                     /\ c[i] \in Slot(L.capacity)
           /\ \A i, j \in 0 .. L.size + 1 :
                Place(c, i) = Place(c, j) => i = j
<1>1. \A i \in 1 .. L.size : c[i] \in Slot(L.capacity) /\ Place(c, i) = c[i]
  BY DEF WalkOf, Place
<1>2. /\ Place(c, 0) = head_entry /\ Place(c, L.size + 1) = tail_entry
      /\ \A s \in Slot(L.capacity) : s # head_entry /\ s # tail_entry
      /\ head_entry # tail_entry
  BY DEF WalkOf, Place, Slot, head_entry, tail_entry
<1>3. \A i \in 0 .. L.size + 1 : Place(c, i) \in Entry(L.capacity)
  BY <1>1, <1>2 DEF Entry
<1>4. \A i, j \in 1 .. L.size : c[i] = c[j] => i = j
  BY DEF WalkOf
<1>5. \A i \in 0 .. L.size + 1 : i = 0 \/ i = L.size + 1 \/ i \in 1 .. L.size
  OBVIOUS
<1>6. \A i, j \in 0 .. L.size + 1 : Place(c, i) = Place(c, j) => i = j
  BY <1>1, <1>2, <1>4, <1>5
<1> QED BY <1>1, <1>3, <1>6

\* A walk is what one finds by following the links, and there is no other.
LEMMA OrderIs ==
    ASSUME NEW L, NEW c, L.size \in Nat, WalkOf(L, c)
    PROVE  Order(L) = c
<1> DEFINE P(w) == w = [k \in 1 .. L.size |->
                            IF k = 1 THEN L.next[head_entry]
                            ELSE L.next[w[k - 1]]]
<1>1. Order(L) = CHOOSE w : P(w)
  BY DEF Order
<1>2. P(c)
  <2>1. DOMAIN c = 1 .. L.size /\ c = [k \in 1 .. L.size |-> c[k]]
    BY DEF WalkOf
  <2>2. ASSUME NEW k \in 1 .. L.size
        PROVE  c[k] = IF k = 1 THEN L.next[head_entry] ELSE L.next[c[k - 1]]
    <3>1. /\ k - 1 \in 0 .. L.size
          /\ Place(c, k - 1) = IF k = 1 THEN head_entry ELSE c[k - 1]
          /\ Place(c, k - 1 + 1) = c[k]
      BY DEF WalkOf, Place
    <3> QED BY <3>1 DEF WalkOf
  <2> QED BY <2>1, <2>2
<1>3. ASSUME NEW w, P(w) PROVE w = c
  <2> DEFINE Bad == {k \in 1 .. L.size : w[k] # c[k]}
  <2>1. ASSUME Bad # {} PROVE FALSE
    <3>1. PICK k \in Bad : \A y \in Bad : k <= y
      <4>1. Bad \in SUBSET Nat
        OBVIOUS
      <4> HIDE DEF Bad
      <4> QED BY <2>1, <4>1, LeastNat
    <3>2. k \in 1 .. L.size /\ w[k] # c[k]
      BY <3>1
    <3>3. w[k] = IF k = 1 THEN L.next[head_entry] ELSE L.next[w[k - 1]]
      BY <1>3, <3>2
    <3>4. c[k] = IF k = 1 THEN L.next[head_entry] ELSE L.next[c[k - 1]]
      BY <1>2, <3>2
    <3>5. CASE k = 1
      BY <3>2, <3>3, <3>4, <3>5
    <3>6. CASE k # 1
      <4>1. k - 1 \in 1 .. L.size /\ k - 1 \notin Bad
        BY <3>1, <3>2, <3>6
      <4> QED BY <4>1, <3>2, <3>3, <3>4, <3>6
    <3> QED BY <3>5, <3>6
  <2>2. DOMAIN w = 1 .. L.size /\ w = [k \in DOMAIN w |-> w[k]]
    BY <1>3
  <2>3. DOMAIN c = 1 .. L.size /\ c = [k \in DOMAIN c |-> c[k]]
    BY <1>2
  <2> QED BY <2>1, <2>2, <2>3
<1> HIDE DEF P
<1>4. P(CHOOSE w : P(w))
  BY <1>2
<1> QED BY <1>1, <1>3, <1>4

-----------------------------------------------------------------------------
(***************************************************************************)
(* What each private function does to a walk.                              *)
(***************************************************************************)

\* The elements of a list in order.
ElementsOf(L) == [k \in 1 .. L.size |-> L.value[Order(L)[k]]]

\* What is remembered as free is free, and remembered once.
CacheOK(L) ==
    /\ \A e \in {L.next_index, L.next_index_2} \ {NullPtr} : ~L.occupied[e]
    /\ L.next_index = L.next_index_2 => L.next_index = NullPtr

\* A list between two operations: whole, and with a free entry.
Good(L) ==
    /\ L.capacity \in Nat /\ L.capacity >= 2
    /\ L \in ListType(L.capacity)
    /\ L.size + 1 <= L.capacity
    /\ WalkOf(L, Order(L))
    /\ CacheOK(L)

\* A new entry takes its place in the walk.
LEMMA LinkedWalk ==
    ASSUME NEW n \in Nat, NEW L \in ListType(n), NEW c, WalkOf(L, c),
           NEW i \in 0 .. L.size, NEW e \in Slot(n), NEW v \in Value,
           \A j \in 1 .. L.size : c[j] # e,
           e \notin {L.next_index, L.next_index_2},
           NEW M, M = Linked(L, e, v, Place(c, i), Place(c, i + 1))
    PROVE  /\ M \in ListType(n)
           /\ M.capacity = n
           /\ M.size = L.size + 1
           /\ M.occupied = [L.occupied EXCEPT ![e] = TRUE]
           /\ M.next_index = L.next_index
           /\ M.next_index_2 = L.next_index_2
           /\ M.value = [L.value EXCEPT ![e] = v]
           /\ WalkOf(M, Inserted(c, i, e))
<1> DEFINE a == Place(c, i)
           b == Place(c, i + 1)
           d == Inserted(c, i, e)
<1>1. /\ L.size \in Nat /\ L.capacity = n
      /\ L.occupied \in [Slot(n) -> BOOLEAN]
      /\ L.value \in [Slot(n) -> Value \cup {NoValue}]
      /\ L.next \in [Entry(n) -> Entry(n) \cup {NullPtr}]
      /\ L.prev \in [Entry(n) -> Entry(n) \cup {NullPtr}]
  BY DEF ListType
<1>2. /\ \A j \in 0 .. L.size + 1 : Place(c, j) \in Entry(n)
      /\ \A j \in 1 .. L.size : Place(c, j) = c[j] /\ c[j] \in Slot(n)
      /\ \A j, k \in 0 .. L.size + 1 : Place(c, j) = Place(c, k) => j = k
  BY <1>1, PlaceFacts
<1>3. \A j \in 0 .. L.size + 1 : Place(c, j) # e
  <2>1. e # head_entry /\ e # tail_entry
    BY DEF Slot, head_entry, tail_entry
  <2>2. /\ Place(c, 0) = head_entry /\ Place(c, L.size + 1) = tail_entry
    BY DEF WalkOf, Place
  <2>3. \A j \in 0 .. L.size + 1 : j = 0 \/ j = L.size + 1 \/ j \in 1 .. L.size
    BY <1>1
  <2> QED BY <1>2, <2>1, <2>2, <2>3
<1>4. /\ a \in Entry(n) /\ b \in Entry(n) /\ e \in Entry(n)
      /\ a # e /\ b # e
  BY <1>1, <1>2, <1>3 DEF Entry
<1>5. /\ M.capacity = n
      /\ M.size = L.size + 1
      /\ M.occupied = [L.occupied EXCEPT ![e] = TRUE]
      /\ M.next_index = L.next_index
      /\ M.next_index_2 = L.next_index_2
      /\ M.value = [L.value EXCEPT ![e] = v]
      /\ M.next = [L.next EXCEPT ![e] = b, ![a] = e]
      /\ M.prev = [L.prev EXCEPT ![e] = a, ![b] = e]
      /\ M \in ListType(n)
  <2> DEFINE oc == [L.occupied EXCEPT ![e] = TRUE]
             va == [L.value EXCEPT ![e] = v]
             nx == [L.next EXCEPT ![e] = b, ![a] = e]
             pv == [L.prev EXCEPT ![e] = a, ![b] = e]
  <2>1. /\ M = [L EXCEPT !.value = va, !.occupied = oc, !.size = L.size + 1,
                        !.next = nx, !.prev = pv]
        /\ M.capacity = n /\ M.size = L.size + 1 /\ M.occupied = oc
        /\ M.value = va /\ M.next = nx /\ M.prev = pv
        /\ M.next_index = L.next_index /\ M.next_index_2 = L.next_index_2
    <3>1. M = Linked(L, e, v, a, b)
      OBVIOUS
    <3> HIDE DEF a, b
    <3> QED BY <1>1, <3>1 DEF Linked, ListType
  <2>2. /\ oc \in [Slot(n) -> BOOLEAN]
        /\ va \in [Slot(n) -> Value \cup {NoValue}]
        /\ nx \in [Entry(n) -> Entry(n) \cup {NullPtr}]
        /\ pv \in [Entry(n) -> Entry(n) \cup {NullPtr}]
    <3> HIDE DEF a, b
    <3> QED BY <1>1, <1>4
  <2>3. M \in ListType(n)
    <3> DEFINE B == [Slot(n) -> BOOLEAN]
               V == [Slot(n) -> Value \cup {NoValue}]
               E == [Entry(n) -> Entry(n) \cup {NullPtr}]
               F == Slot(n) \cup {NullPtr}
               C == {n}
               N == Nat
               sz == L.size + 1
               T == [size : N, capacity : C, occupied : B, value : V,
                     next : E, prev : E, next_index : F, next_index_2 : F]
    <3>1. ListType(n) = T
      BY DEF ListType
    <3>2. L \in T
      BY <3>1
    <3>3. oc \in B /\ va \in V /\ nx \in E /\ pv \in E /\ sz \in N
      BY <1>1, <2>2
    <3>4. M = [L EXCEPT !.value = va, !.occupied = oc, !.size = sz,
                        !.next = nx, !.prev = pv]
      BY <2>1
    <3> HIDE DEF oc, va, nx, pv, sz, B, V, E, F, C, N
    <3>5. M \in T
      BY <3>2, <3>3, <3>4, Zenon
    <3> QED BY <3>1, <3>5
  <2> QED BY <2>1, <2>3
<1>6. \A x \in Entry(n) :
        /\ M.next[x] = IF x = a THEN e ELSE IF x = e THEN b ELSE L.next[x]
        /\ M.prev[x] = IF x = b THEN e ELSE IF x = e THEN a ELSE L.prev[x]
  <2> HIDE DEF a, b
  <2> QED BY <1>1, <1>4, <1>5
<1>7. c \in Seq(Slot(n)) /\ Len(c) = L.size
  BY <1>1 DEF WalkOf
<1>8. /\ d \in Seq(Slot(n))
      /\ Len(d) = L.size + 1
      /\ \A j \in 0 .. L.size + 2 :
            Place(d, j) = IF j <= i THEN Place(c, j)
                          ELSE IF j = i + 1 THEN e ELSE Place(c, j - 1)
  <2>1. i \in 0 .. Len(c) /\ Len(c) + 1 = L.size + 1 /\ Len(c) + 2 = L.size + 2
    BY <1>7
  <2>2. /\ d \in Seq(Slot(n))
        /\ Len(d) = Len(c) + 1
        /\ \A j \in 0 .. Len(c) + 2 :
              Place(d, j) = IF j <= i THEN Place(c, j)
                            ELSE IF j = i + 1 THEN e ELSE Place(c, j - 1)
    <3>1. \A x \in Seq(Slot(n)) : \A y \in 0 .. Len(x) : \A z \in Slot(n) :
            /\ Inserted(x, y, z) \in Seq(Slot(n))
            /\ Len(Inserted(x, y, z)) = Len(x) + 1
            /\ \A j \in 0 .. Len(x) + 2 :
                 Place(Inserted(x, y, z), j) =
                   IF j <= y THEN Place(x, j)
                   ELSE IF j = y + 1 THEN z ELSE Place(x, j - 1)
      <4> TAKE x \in Seq(Slot(n))
      <4> TAKE y \in 0 .. Len(x)
      <4> TAKE z \in Slot(n)
      <4> HIDE DEF a, b, d
      <4> QED BY InsertedFacts
    <3> HIDE DEF a, b
    <3> QED BY <1>7, <2>1, <3>1, ZenonT(40)
  <2> HIDE DEF d
  <2> QED BY <1>7, <2>1, <2>2
<1>9. ASSUME NEW j \in 0 .. L.size + 1
      PROVE  /\ M.next[Place(d, j)] = Place(d, j + 1)
             /\ M.prev[Place(d, j + 1)] = Place(d, j)
  <2>0. \A k \in 0 .. L.size : /\ L.next[Place(c, k)] = Place(c, k + 1)
                               /\ L.prev[Place(c, k + 1)] = Place(c, k)
    BY DEF WalkOf
  <2> HIDE DEF d
  <2>1. CASE j < i
    <3>1. /\ Place(d, j) = Place(c, j) /\ Place(d, j + 1) = Place(c, j + 1)
          /\ j \in 0 .. L.size /\ j + 1 \in 0 .. L.size
      BY <1>1, <1>8, <2>1
    <3>2. Place(c, j) # a /\ Place(c, j + 1) # b
      BY <1>1, <1>2, <3>1, <2>1
    <3>3. Place(c, j) \in Entry(n) /\ Place(c, j + 1) \in Entry(n)
      BY <1>1, <1>2, <3>1
    <3> HIDE DEF a, b
    <3> QED BY <1>1, <1>3, <1>6, <2>0, <3>1, <3>2, <3>3
  <2>2. CASE j = i
    <3>1. Place(d, j) = a /\ Place(d, j + 1) = e
      BY <1>1, <1>8, <2>2
    <3> HIDE DEF a, b
    <3> QED BY <1>4, <1>6, <3>1
  <2>3. CASE j = i + 1
    <3>1. Place(d, j) = e /\ Place(d, j + 1) = b
      BY <1>1, <1>8, <2>3
    <3> HIDE DEF a, b
    <3> QED BY <1>4, <1>6, <3>1
  <2>4. CASE j > i + 1
    <3>1. /\ Place(d, j) = Place(c, j - 1) /\ Place(d, j + 1) = Place(c, j)
          /\ j - 1 \in 0 .. L.size /\ j \in 0 .. L.size + 1
      BY <1>1, <1>8, <2>4
    <3>2. Place(c, j - 1) # a /\ Place(c, j) # b
      BY <1>1, <1>2, <3>1, <2>4
    <3>3. Place(c, j - 1) \in Entry(n) /\ Place(c, j) \in Entry(n)
      BY <1>1, <1>2, <3>1
    <3>4. L.next[Place(c, j - 1)] = Place(c, j) /\ L.prev[Place(c, j)] = Place(c, j - 1)
      BY <2>0, <3>1
    <3> HIDE DEF a, b
    <3> QED BY <1>1, <1>3, <1>6, <3>1, <3>2, <3>3, <3>4
  <2> QED BY <1>1, <2>1, <2>2, <2>3, <2>4
<1>10. \A j \in 1 .. L.size + 1 :
        d[j] = IF j <= i THEN c[j] ELSE IF j = i + 1 THEN e ELSE c[j - 1]
  BY <1>7 DEF Inserted
<1>11. \A j, k \in 1 .. L.size + 1 : d[j] = d[k] => j = k
  <2>1. \A j, k \in 1 .. L.size : c[j] = c[k] => j = k
    BY DEF WalkOf
  <2> HIDE DEF d
  <2> QED BY <1>1, <1>10, <2>1
<1>12. ASSUME NEW j \in 1 .. L.size + 1
       PROVE  /\ M.occupied[d[j]]
              /\ M.value[d[j]] \in Value
              /\ d[j] \notin {M.next_index, M.next_index_2}
  <2>1. CASE d[j] = e
    <3> HIDE DEF d
    <3> QED BY <1>1, <1>5, <2>1
  <2>2. CASE \E k \in 1 .. L.size : d[j] = c[k]
    <3>1. PICK k \in 1 .. L.size : d[j] = c[k]
      BY <2>2
    <3>2. /\ L.occupied[c[k]] /\ L.value[c[k]] \in Value
          /\ c[k] \notin {L.next_index, L.next_index_2}
          /\ c[k] # e /\ c[k] \in Slot(n)
      BY <1>2 DEF WalkOf
    <3> HIDE DEF d
    <3> QED BY <1>1, <1>5, <3>1, <3>2
  <2>3. d[j] = e \/ \E k \in 1 .. L.size : d[j] = c[k]
    <3>1. j <= i => j \in 1 .. L.size
      BY <1>1
    <3>2. j > i + 1 => j - 1 \in 1 .. L.size
      BY <1>1
    <3> HIDE DEF d
    <3> QED BY <1>1, <1>10, <3>1, <3>2
  <2> QED BY <2>1, <2>2, <2>3
<1>13. WalkOf(M, d)
  <2> HIDE DEF d
  <2> QED BY <1>1, <1>5, <1>8, <1>9, <1>11, <1>12 DEF WalkOf
<1> QED BY <1>5, <1>13

\* An entry leaves the walk and may be remembered as free.
LEMMA UnlinkedWalk ==
    ASSUME NEW n \in Nat, NEW L \in ListType(n), NEW c, WalkOf(L, c),
           CacheOK(L), NEW k \in 1 .. L.size
    PROVE  LET M == Unlinked(L, c[k], Place(c, k - 1), Place(c, k + 1))
           IN  /\ M \in ListType(n)
               /\ M.capacity = n
               /\ M.size = L.size - 1
               /\ M.value = L.value
               /\ WalkOf(M, List!Skipping(c, k))
               /\ CacheOK(M)
<1> DEFINE a == Place(c, k - 1)
           b == Place(c, k + 1)
           e == c[k]
           N == [L EXCEPT !.next[a] = b, !.prev[b] = a,
                          !.occupied[e] = FALSE, !.size = @ - 1]
           M == Unlinked(L, e, a, b)
           d == List!Skipping(c, k)
<1>1. /\ L.size \in Nat /\ L.capacity = n
      /\ L.occupied \in [Slot(n) -> BOOLEAN]
      /\ L.value \in [Slot(n) -> Value \cup {NoValue}]
      /\ L.next \in [Entry(n) -> Entry(n) \cup {NullPtr}]
      /\ L.prev \in [Entry(n) -> Entry(n) \cup {NullPtr}]
      /\ L.next_index \in Slot(n) \cup {NullPtr}
      /\ L.next_index_2 \in Slot(n) \cup {NullPtr}
  BY DEF ListType
<1>2. /\ \A j \in 0 .. L.size + 1 : Place(c, j) \in Entry(n)
      /\ \A j \in 1 .. L.size : Place(c, j) = c[j] /\ c[j] \in Slot(n)
      /\ \A j, i \in 0 .. L.size + 1 : Place(c, j) = Place(c, i) => j = i
  BY <1>1, PlaceFacts
<1>3. a \in Entry(n) /\ b \in Entry(n) /\ e \in Slot(n)
  <2>1. k - 1 \in 0 .. L.size + 1 /\ k + 1 \in 0 .. L.size + 1
    BY <1>1
  <2> QED BY <1>2, <2>1
<1>4. /\ N \in ListType(n)
      /\ N.capacity = n
      /\ N.size = L.size - 1
      /\ N.value = L.value
      /\ N.occupied = [L.occupied EXCEPT ![e] = FALSE]
      /\ N.next = [L.next EXCEPT ![a] = b]
      /\ N.prev = [L.prev EXCEPT ![b] = a]
      /\ N.next_index = L.next_index /\ N.next_index_2 = L.next_index_2
  <2> DEFINE oc == [L.occupied EXCEPT ![e] = FALSE]
             nx == [L.next EXCEPT ![a] = b]
             pv == [L.prev EXCEPT ![b] = a]
             sz == L.size - 1
  <2>1. /\ N = [L EXCEPT !.next = nx, !.prev = pv, !.occupied = oc,
                        !.size = sz]
        /\ N.capacity = n /\ N.size = sz /\ N.occupied = oc
        /\ N.value = L.value /\ N.next = nx /\ N.prev = pv
        /\ N.next_index = L.next_index /\ N.next_index_2 = L.next_index_2
    <3> HIDE DEF a, b, e
    <3> QED BY <1>1 DEF ListType
  <2>2. /\ oc \in [Slot(n) -> BOOLEAN]
        /\ nx \in [Entry(n) -> Entry(n) \cup {NullPtr}]
        /\ pv \in [Entry(n) -> Entry(n) \cup {NullPtr}]
        /\ sz \in Nat
    <3> HIDE DEF a, b, e
    <3> QED BY <1>1, <1>3
  <2>3. N \in ListType(n)
    <3> DEFINE B == [Slot(n) -> BOOLEAN]
               V == [Slot(n) -> Value \cup {NoValue}]
               E == [Entry(n) -> Entry(n) \cup {NullPtr}]
               F == Slot(n) \cup {NullPtr}
               C == {n}
               S == Nat
               T == [size : S, capacity : C, occupied : B, value : V,
                     next : E, prev : E, next_index : F, next_index_2 : F]
    <3>1. ListType(n) = T
      BY DEF ListType
    <3>2. L \in T
      BY <3>1
    <3>3. oc \in B /\ nx \in E /\ pv \in E /\ sz \in S
      BY <2>2
    <3>4. N = [L EXCEPT !.next = nx, !.prev = pv, !.occupied = oc,
                        !.size = sz]
      BY <2>1
    <3> HIDE DEF N, oc, nx, pv, sz, B, V, E, F, C, S
    <3>5. N \in T
      BY <3>2, <3>3, <3>4, Zenon
    <3> QED BY <3>1, <3>5
  <2> HIDE DEF N
  <2> QED BY <2>1, <2>3
<1>5. /\ M \in ListType(n)
      /\ M.capacity = N.capacity /\ M.size = N.size /\ M.value = N.value
      /\ M.occupied = N.occupied /\ M.next = N.next /\ M.prev = N.prev
      /\ M.next_index = IF L.next_index = NullPtr THEN e ELSE L.next_index
      /\ M.next_index_2 =
            IF L.next_index # NullPtr /\ L.next_index_2 = NullPtr
            THEN e ELSE L.next_index_2
  <2>1. M = Cached(N, e)
    BY DEF Unlinked
  <2> HIDE DEF M, N, e
  <2>2. CASE L.next_index = NullPtr
    <3>1. M = [N EXCEPT !.next_index = e]
      BY <1>4, <2>1, <2>2 DEF Cached
    <3> QED BY <1>3, <1>4, <2>2, <3>1 DEF ListType
  <2>3. CASE L.next_index # NullPtr /\ L.next_index_2 = NullPtr
    <3>1. M = [N EXCEPT !.next_index_2 = e]
      BY <1>4, <2>1, <2>3 DEF Cached
    <3> QED BY <1>3, <1>4, <2>3, <3>1 DEF ListType
  <2>4. CASE L.next_index # NullPtr /\ L.next_index_2 # NullPtr
    BY <1>4, <2>1, <2>4 DEF Cached
  <2> QED BY <2>2, <2>3, <2>4
<1>6. /\ c \in Seq(Slot(n)) /\ Len(c) = L.size
      /\ d \in Seq(Slot(n)) /\ Len(d) = L.size - 1
      /\ \A j \in 1 .. L.size - 1 : d[j] = IF j < k THEN c[j] ELSE c[j + 1]
      /\ \A j \in 0 .. L.size :
            Place(d, j) = IF j < k THEN Place(c, j) ELSE Place(c, j + 1)
  <2>1. c \in Seq(Slot(n)) /\ Len(c) = L.size
    BY <1>1 DEF WalkOf
  <2>2. /\ d \in Seq(Slot(n)) /\ Len(d) = Len(c) - 1
        /\ \A j \in 1 .. Len(c) - 1 : d[j] = IF j < k THEN c[j] ELSE c[j + 1]
        /\ \A j \in 0 .. Len(c) :
              Place(d, j) = IF j < k THEN Place(c, j) ELSE Place(c, j + 1)
    <3> HIDE DEF a, b, e, M, N
    <3> QED BY <2>1, SkippingFacts
  <2> HIDE DEF d
  <2> QED BY <2>1, <2>2
<1>7. ASSUME NEW j \in 0 .. L.size - 1
      PROVE  /\ M.next[Place(d, j)] = Place(d, j + 1)
             /\ M.prev[Place(d, j + 1)] = Place(d, j)
  <2>1. \A i \in 0 .. L.size : /\ L.next[Place(c, i)] = Place(c, i + 1)
                               /\ L.prev[Place(c, i + 1)] = Place(c, i)
    BY DEF WalkOf
  <2>2. \A x \in Entry(n) :
          /\ M.next[x] = IF x = a THEN b ELSE L.next[x]
          /\ M.prev[x] = IF x = b THEN a ELSE L.prev[x]
    <3> HIDE DEF a, b, e, M, N
    <3> QED BY <1>1, <1>3, <1>4, <1>5
  <2> HIDE DEF M, N, d
  <2>3. CASE j < k - 1
    <3>1. /\ Place(d, j) = Place(c, j) /\ Place(d, j + 1) = Place(c, j + 1)
          /\ j \in 0 .. L.size /\ j + 1 \in 0 .. L.size + 1
      BY <1>1, <1>6, <2>3
    <3>2. Place(c, j) # a /\ Place(c, j + 1) # b
      BY <1>1, <1>2, <3>1, <2>3
    <3>3. Place(c, j) \in Entry(n) /\ Place(c, j + 1) \in Entry(n)
      BY <1>1, <1>2, <3>1
    <3> HIDE DEF a, b
    <3> QED BY <2>1, <2>2, <3>1, <3>2, <3>3
  <2>4. CASE j = k - 1
    <3>1. Place(d, j) = a /\ Place(d, j + 1) = b
      BY <1>1, <1>6, <2>4
    <3> HIDE DEF a, b
    <3> QED BY <1>3, <2>2, <3>1
  <2>5. CASE j > k - 1
    <3>1. /\ Place(d, j) = Place(c, j + 1)
          /\ Place(d, j + 1) = Place(c, j + 1 + 1)
          /\ j + 1 \in 0 .. L.size /\ j + 1 + 1 \in 0 .. L.size + 1
      <4>1. Place(d, j + 1) = Place(c, j + 1 + 1)
        BY <1>1, <1>6, <2>5
      <4>2. Place(d, j) = Place(c, j + 1)
        BY <1>1, <1>6, <2>5
      <4> QED BY <1>1, <4>1, <4>2
    <3>2. Place(c, j + 1) # a /\ Place(c, j + 1 + 1) # b
      BY <1>1, <1>2, <3>1, <2>5
    <3>3. Place(c, j + 1) \in Entry(n) /\ Place(c, j + 1 + 1) \in Entry(n)
      BY <1>1, <1>2, <3>1
    <3>4. /\ L.next[Place(c, j + 1)] = Place(c, j + 1 + 1)
          /\ L.prev[Place(c, j + 1 + 1)] = Place(c, j + 1)
      BY <2>1, <3>1
    <3> HIDE DEF a, b
    <3> QED BY <2>2, <3>1, <3>2, <3>3, <3>4
  <2> QED BY <1>1, <2>3, <2>4, <2>5
<1>8. \A i, j \in 1 .. L.size : c[i] = c[j] => i = j
  BY DEF WalkOf
<1>9. \A i, j \in 1 .. L.size - 1 : d[i] = d[j] => i = j
  <2> SUFFICES ASSUME NEW i \in 1 .. L.size - 1, NEW j \in 1 .. L.size - 1, d[i] = d[j]
               PROVE  i = j
    OBVIOUS
  <2> DEFINE at(m) == IF m < k THEN m ELSE m + 1
  <2>1. /\ at(i) \in 1 .. L.size /\ at(j) \in 1 .. L.size
        /\ d[i] = c[at(i)] /\ d[j] = c[at(j)]
    <3> HIDE DEF d
    <3> QED BY <1>1, <1>6
  <2>2. at(i) = at(j)
    <3> HIDE DEF d, at
    <3> QED BY <1>8, <2>1
  <2> QED BY <1>1, <2>2
<1>10. ASSUME NEW j \in 1 .. L.size - 1
       PROVE  /\ M.occupied[d[j]]
              /\ M.value[d[j]] \in Value
              /\ d[j] \notin {M.next_index, M.next_index_2}
  <2>1. PICK i \in 1 .. L.size : d[j] = c[i] /\ i # k
    <3> HIDE DEF d
    <3>1. j \in 1 .. L.size /\ j + 1 \in 1 .. L.size
      BY <1>1
    <3>2. CASE j < k
      BY <1>6, <3>1, <3>2
    <3>3. CASE j >= k
      BY <1>6, <3>1, <3>3
    <3> QED BY <1>1, <3>2, <3>3
  <2>2. /\ L.occupied[c[i]] /\ L.value[c[i]] \in Value
        /\ c[i] \notin {L.next_index, L.next_index_2}
        /\ c[i] # e /\ c[i] \in Slot(n)
    BY <1>2, <1>8, <2>1 DEF WalkOf
  <2> HIDE DEF M, N, d, e
  <2> QED BY <1>1, <1>3, <1>4, <1>5, <2>1, <2>2
<1>11. WalkOf(M, d)
  <2> HIDE DEF M, N, d, e, a, b
  <2> QED BY <1>1, <1>4, <1>5, <1>6, <1>7, <1>9, <1>10 DEF WalkOf
<1>12. CacheOK(M)
  <2>1. /\ e \notin {L.next_index, L.next_index_2}
        /\ e # NullPtr
    <3>1. \A s \in Slot(n) : s # NullPtr
      BY DEF Slot, NullPtr
    <3> QED BY <1>3, <3>1 DEF WalkOf
  <2>2. /\ \A x \in {L.next_index, L.next_index_2} \ {NullPtr} :
                x \in Slot(n) /\ ~L.occupied[x]
        /\ L.next_index = L.next_index_2 => L.next_index = NullPtr
    BY <1>1 DEF CacheOK
  <2>3. /\ ~M.occupied[e]
        /\ \A x \in Slot(n) : x # e => M.occupied[x] = L.occupied[x]
    <3> HIDE DEF M, N, e
    <3> QED BY <1>1, <1>3, <1>4, <1>5
  <2> HIDE DEF M, N, e
  <2> QED BY <1>5, <2>1, <2>2, <2>3 DEF CacheOK
<1> HIDE DEF N
<1> QED BY <1>4, <1>5, <1>11, <1>12

\* The move to new storage puts the k-th element into the k-th entry.
LEMMA ResizedWalk ==
    ASSUME NEW n \in Nat, NEW L, L.capacity \in Nat,
           L \in ListType(L.capacity), WalkOf(L, Order(L)),
           L.size \in 1 .. n, NEW flags \in [Slot(n) -> BOOLEAN]
    PROVE  LET M == Resized(L, n, flags)
           IN  /\ M \in ListType(n)
               /\ M.capacity = n
               /\ M.size = L.size
               /\ WalkOf(M, [k \in 1 .. L.size |-> k])
               /\ CacheOK(M)
               /\ \A k \in 1 .. L.size : M.value[k] = L.value[Order(L)[k]]
<1> DEFINE M == Resized(L, n, flags)
           d == [k \in 1 .. L.size |-> k]
           oc == [s \in Slot(n) |-> s <= L.size \/ flags[s]]
           va == [s \in Slot(n) |->
                    IF s <= L.size THEN L.value[Order(L)[s]] ELSE NoValue]
           nx == [e \in Entry(n) |->
                    IF e \in 0 .. L.size - 1 THEN e + 1
                    ELSE IF e = L.size THEN tail_entry ELSE NullPtr]
           pv == [e \in Entry(n) |->
                    IF e \in 1 .. L.size THEN e - 1
                    ELSE IF e = tail_entry THEN L.size ELSE NullPtr]
<1>1. M = [size |-> L.size, capacity |-> n, occupied |-> oc, value |-> va,
           next |-> nx, prev |-> pv,
           next_index |-> NullPtr, next_index_2 |-> NullPtr]
  BY DEF Resized
<1>2. /\ L.size \in Nat /\ L.size >= 1 /\ L.size <= n
      /\ L.value \in [Slot(L.capacity) -> Value \cup {NoValue}]
  BY DEF ListType
<1>3. \A k \in 1 .. L.size : /\ Order(L)[k] \in Slot(L.capacity)
                             /\ L.value[Order(L)[k]] \in Value
  BY DEF WalkOf
<1>4. \A k \in 1 .. L.size : k \in Slot(n)
  BY <1>2 DEF Slot
<1>5. oc \in [Slot(n) -> BOOLEAN]
  OBVIOUS
<1>6. va \in [Slot(n) -> Value \cup {NoValue}]
  <2>1. \A s \in Slot(n) : s <= L.size => s \in 1 .. L.size
    BY <1>2 DEF Slot
  <2> QED BY <2>1, <1>3
<1>7. /\ nx \in [Entry(n) -> Entry(n) \cup {NullPtr}]
      /\ pv \in [Entry(n) -> Entry(n) \cup {NullPtr}]
  <2>1. /\ \A e \in 0 .. L.size - 1 : e + 1 \in Entry(n)
        /\ tail_entry \in Entry(n) /\ L.size \in Entry(n)
        /\ \A e \in 1 .. L.size : e - 1 \in Entry(n)
    BY <1>2 DEF Entry, Slot, head_entry, tail_entry
  <2> QED BY <2>1
<1>8. M \in ListType(n)
  <2> HIDE DEF oc, va, nx, pv
  <2> QED BY <1>1, <1>2, <1>5, <1>6, <1>7 DEF ListType
<1>9. /\ d \in Seq(Slot(n)) /\ Len(d) = L.size
      /\ \A k \in 1 .. L.size : d[k] = k
  BY <1>2, <1>4
<1>10. /\ \A k \in 0 .. L.size : Place(d, k) = k
       /\ Place(d, L.size + 1) = tail_entry
  BY <1>2, <1>9 DEF Place, head_entry
<1>11. ASSUME NEW k \in 0 .. L.size
       PROVE  /\ nx[Place(d, k)] = Place(d, k + 1)
              /\ pv[Place(d, k + 1)] = Place(d, k)
  <2>1. Place(d, k) = k /\ k \in Entry(n)
    BY <1>2, <1>10 DEF Entry, Slot, head_entry
  <2>2. CASE k = L.size
    <3>1. /\ Place(d, k + 1) = tail_entry /\ tail_entry \in Entry(n)
          /\ tail_entry \notin 1 .. L.size /\ k \notin 0 .. L.size - 1
      BY <1>2, <1>10, <2>2 DEF Entry, tail_entry
    <3> HIDE DEF d
    <3> QED BY <2>1, <2>2, <3>1
  <2>3. CASE k < L.size
    <3>1. /\ Place(d, k + 1) = k + 1 /\ k + 1 \in Entry(n)
          /\ k + 1 \in 1 .. L.size /\ k \in 0 .. L.size - 1
      BY <1>2, <1>10, <2>3 DEF Entry, Slot
    <3> HIDE DEF d
    <3> QED BY <1>2, <2>1, <2>3, <3>1
  <2> QED BY <1>2, <2>2, <2>3
<1>12. \A k \in 1 .. L.size : /\ oc[k] /\ va[k] \in Value
                              /\ va[k] = L.value[Order(L)[k]]
                              /\ k # NullPtr
  <2>1. \A k \in 1 .. L.size : k \in Slot(n) /\ k <= L.size /\ k # NullPtr
    BY <1>2, <1>4 DEF NullPtr
  <2> QED BY <2>1, <1>3
<1>13. WalkOf(M, d)
  <2> HIDE DEF oc, va, nx, pv, d, M
  <2>1. \A k \in 1 .. M.size : /\ M.occupied[d[k]]
                               /\ M.value[d[k]] \in Value
                               /\ d[k] \notin {M.next_index, M.next_index_2}
    BY <1>1, <1>9, <1>12
  <2>2. \A i, j \in 1 .. M.size : d[i] = d[j] => i = j
    BY <1>1, <1>9
  <2> QED BY <1>1, <1>9, <1>11, <2>1, <2>2 DEF WalkOf
<1>14. CacheOK(M)
  BY <1>1 DEF CacheOK
<1> HIDE DEF oc, va, nx, pv
<1> QED BY <1>1, <1>8, <1>12, <1>13, <1>14

-----------------------------------------------------------------------------
(***************************************************************************)
(* What each operation does to a list and to its elements.                 *)
(***************************************************************************)

LEMMA GoodFacts ==
    ASSUME NEW L, Good(L)
    PROVE  /\ L.size \in Nat
           /\ Order(L) \in Seq(Slot(L.capacity))
           /\ Len(Order(L)) = L.size
           /\ ElementsOf(L) \in Seq(Value)
           /\ Len(ElementsOf(L)) = L.size
           /\ \A k \in 1 .. L.size :
                /\ ElementsOf(L)[k] = L.value[Order(L)[k]]
                /\ L.value[Order(L)[k]] \in Value
           /\ L.next[head_entry] = Place(Order(L), 1)
           /\ L.prev[tail_entry] = Place(Order(L), L.size)
           /\ \A k \in 1 .. L.size :
                /\ Order(L)[k] = Place(Order(L), k)
                /\ L.next[Order(L)[k]] = Place(Order(L), k + 1)
                /\ L.prev[Order(L)[k]] = Place(Order(L), k - 1)
<1> DEFINE c == Order(L)
<1>1. L.size \in Nat
  BY DEF Good, ListType
<1>2. /\ c \in Seq(Slot(L.capacity)) /\ Len(c) = L.size
      /\ \A k \in 1 .. L.size : L.value[c[k]] \in Value
      /\ \A k \in 0 .. L.size : /\ L.next[Place(c, k)] = Place(c, k + 1)
                                /\ L.prev[Place(c, k + 1)] = Place(c, k)
  BY DEF Good, WalkOf
<1>3. /\ Place(c, 0) = head_entry /\ Place(c, L.size + 1) = tail_entry
      /\ \A k \in 1 .. L.size : c[k] = Place(c, k)
  BY <1>1, <1>2 DEF Place
<1>4. /\ ElementsOf(L) \in Seq(Value) /\ Len(ElementsOf(L)) = L.size
      /\ \A k \in 1 .. L.size : ElementsOf(L)[k] = L.value[c[k]]
  BY <1>1, <1>2 DEF ElementsOf
<1> HIDE DEF c
<1>5. /\ L.next[head_entry] = Place(c, 1)
      /\ L.prev[tail_entry] = Place(c, L.size)
  <2>1. 0 \in 0 .. L.size /\ L.size \in 0 .. L.size
    BY <1>1
  <2> QED BY <1>2, <1>3, <2>1
<1>6. ASSUME NEW k \in 1 .. L.size
      PROVE  /\ L.next[c[k]] = Place(c, k + 1)
             /\ L.prev[c[k]] = Place(c, k - 1)
  <2>1. k \in 0 .. L.size /\ k - 1 \in 0 .. L.size /\ k - 1 + 1 = k
    BY <1>1
  <2> QED BY <1>2, <1>3, <2>1
<1> QED BY <1>1, <1>2, <1>3, <1>4, <1>5, <1>6 DEF c

\* Before an element is added there is room for it and for one more.
LEMMA GrownGood ==
    ASSUME NEW L, Good(L), NEW n \in Nat, n >= L.capacity + 1,
           NEW M \in Grown(L, n)
    PROVE  Good(M) /\ M.size + 2 <= M.capacity /\ ElementsOf(M) = ElementsOf(L)
<1>1. L.size \in Nat /\ L.capacity \in Nat /\ L.capacity >= 2
  BY GoodFacts DEF Good
<1>2. CASE L.size + 2 <= L.capacity
  BY <1>1, <1>2 DEF Grown
<1>3. CASE L.size + 2 > L.capacity
  <2>1. PICK flags \in [Slot(n) -> StaleFlags] : M = Resized(L, n, flags)
    BY <1>1, <1>3 DEF Grown
  <2>2. flags \in [Slot(n) -> BOOLEAN]
    BY LinkedArrayAssumption
  <2>3. L.size \in 1 .. n /\ L.size + 1 <= L.capacity
    BY <1>1, <1>3 DEF Good
  <2> DEFINE d == [k \in 1 .. L.size |-> k]
  <2>4. /\ M \in ListType(n) /\ M.capacity = n /\ M.size = L.size
        /\ WalkOf(M, d) /\ CacheOK(M)
        /\ \A k \in 1 .. L.size : M.value[k] = L.value[Order(L)[k]]
    BY <1>1, <2>1, <2>2, <2>3, ResizedWalk DEF Good
  <2>5. Order(M) = d
    <3> HIDE DEF d
    <3> QED BY <1>1, <2>4, OrderIs
  <2>6. Good(M)
    <3> HIDE DEF d
    <3> QED BY <1>1, <2>3, <2>4, <2>5 DEF Good
  <2>7. ElementsOf(M) = ElementsOf(L)
    BY <2>4, <2>5 DEF ElementsOf
  <2> QED BY <1>1, <2>3, <2>4, <2>6, <2>7
<1> QED BY <1>1, <1>2, <1>3

\* The entry that is handed out is not in use, nor remembered any longer.
LEMMA ProbedGood ==
    ASSUME NEW L, Good(L), ProbeIndex(L) # NullPtr
    PROVE  /\ ProbeIndex(L) \in Slot(L.capacity)
           /\ \A k \in 1 .. L.size : Order(L)[k] # ProbeIndex(L)
           /\ ProbeIndex(L) \notin {Probed(L).next_index, Probed(L).next_index_2}
           /\ Probed(L) \in ListType(L.capacity)
           /\ WalkOf(Probed(L), Order(L))
           /\ CacheOK(Probed(L))
           /\ Probed(L).size = L.size /\ Probed(L).capacity = L.capacity
           /\ Probed(L).value = L.value
           /\ Probed(L).next = L.next /\ Probed(L).prev = L.prev
<1> DEFINE e == ProbeIndex(L)
           n == L.capacity
           M == Probed(L)
<1>1. /\ L \in ListType(n) /\ L.size \in Nat /\ n \in Nat
      /\ L.next_index \in Slot(n) \cup {NullPtr}
      /\ L.next_index_2 \in Slot(n) \cup {NullPtr}
      /\ \A s \in Slot(n) : s # NullPtr
  BY DEF Good, ListType, Slot, NullPtr
<1>2. e \in Slot(n) /\ ~L.occupied[e]
  <2>1. CASE L.next_index # NullPtr
    BY <1>1, <2>1 DEF ProbeIndex, Good, CacheOK
  <2>2. CASE L.next_index = NullPtr /\ L.next_index_2 # NullPtr
    BY <1>1, <2>2 DEF ProbeIndex, Good, CacheOK
  <2>3. CASE L.next_index = NullPtr /\ L.next_index_2 = NullPtr
    <3>1. /\ Unoccupied(L) # {}
          /\ e = CHOOSE s \in Unoccupied(L) : \A t \in Unoccupied(L) : s <= t
      BY <2>3 DEF ProbeIndex
    <3>2. Unoccupied(L) \in SUBSET Nat
      BY <1>1 DEF Unoccupied, Slot
    <3>3. e \in Unoccupied(L)
      <4>1. \E s \in Unoccupied(L) : \A t \in Unoccupied(L) : s <= t
        BY <3>1, <3>2, LeastNat
      <4> HIDE DEF e
      <4> QED BY <3>1, <4>1
    <3> HIDE DEF e
    <3> QED BY <3>3 DEF Unoccupied
  <2> QED BY <2>1, <2>2, <2>3
<1>3. /\ M.size = L.size /\ M.capacity = n /\ M.value = L.value
      /\ M.next = L.next /\ M.prev = L.prev /\ M.occupied = L.occupied
      /\ M.next_index = NullPtr
      /\ M.next_index_2 =
            IF L.next_index # NullPtr THEN L.next_index_2 ELSE NullPtr
      /\ M \in ListType(n)
  <2>1. CASE L.next_index # NullPtr
    <3>1. M = [L EXCEPT !.next_index = NullPtr]
      BY <2>1 DEF Probed
    <3> HIDE DEF M
    <3> QED BY <1>1, <2>1, <3>1 DEF ListType
  <2>2. CASE L.next_index = NullPtr
    <3>1. M = [L EXCEPT !.next_index_2 = NullPtr]
      BY <2>2 DEF Probed
    <3> HIDE DEF M
    <3> QED BY <1>1, <2>2, <3>1 DEF ListType
  <2> QED BY <2>1, <2>2
<1>4. /\ WalkOf(L, Order(L)) /\ CacheOK(L)
      /\ e = IF L.next_index # NullPtr THEN L.next_index
             ELSE IF L.next_index_2 # NullPtr THEN L.next_index_2 ELSE e
  BY DEF Good, ProbeIndex
<1>5. \A k \in 1 .. L.size : Order(L)[k] # e
  <2>1. \A k \in 1 .. L.size : L.occupied[Order(L)[k]]
    BY <1>4 DEF WalkOf
  <2> HIDE DEF e
  <2> QED BY <1>2, <2>1
<1> HIDE DEF M, e
<1>6. e \notin {M.next_index, M.next_index_2}
  <2>1. e # NullPtr
    BY <1>1, <1>2
  <2>2. L.next_index = L.next_index_2 => L.next_index = NullPtr
    BY <1>4 DEF CacheOK
  <2> QED BY <1>3, <1>4, <2>1, <2>2
<1>7. WalkOf(M, Order(L))
  <2>1. \A k \in 1 .. L.size :
          /\ Order(L)[k] \notin {L.next_index, L.next_index_2}
          /\ Order(L)[k] # NullPtr
    <3>1. \A k \in 1 .. L.size : Order(L)[k] \in Slot(n)
      BY <1>1, <1>4 DEF WalkOf
    <3> QED BY <1>1, <1>4, <3>1 DEF WalkOf
  <2> QED BY <1>3, <1>4, <2>1 DEF WalkOf
<1>8. CacheOK(M)
  BY <1>3, <1>4 DEF CacheOK
<1> QED BY <1>2, <1>3, <1>5, <1>6, <1>7, <1>8 DEF M, e

\* A new element takes its place among the others.
LEMMA LinkedGood ==
    ASSUME NEW L, Good(L), L.size + 2 <= L.capacity,
           ProbeIndex(L) # NullPtr,
           NEW v \in Value, NEW i \in 0 .. L.size
    PROVE  LET M == Linked(Probed(L), ProbeIndex(L), v,
                           Place(Order(L), i), Place(Order(L), i + 1))
           IN  Good(M) /\ ElementsOf(M) = Inserted(ElementsOf(L), i, v)
<1> DEFINE e == ProbeIndex(L)
           c == Order(L)
           n == L.capacity
           P == Probed(L)
           M == Linked(P, e, v, Place(c, i), Place(c, i + 1))
           d == Inserted(c, i, e)
<1>1. /\ n \in Nat /\ n >= 2 /\ L.size \in Nat
      /\ c \in Seq(Slot(n)) /\ Len(c) = L.size
      /\ L.value \in [Slot(n) -> Value \cup {NoValue}]
  BY GoodFacts DEF Good, ListType
<1>2. /\ e \in Slot(n) /\ \A k \in 1 .. L.size : c[k] # e
      /\ e \notin {P.next_index, P.next_index_2}
      /\ P \in ListType(n) /\ WalkOf(P, c) /\ CacheOK(P)
      /\ P.size = L.size /\ P.capacity = n /\ P.value = L.value
  BY ProbedGood
<1> HIDE DEF P, e, c, n
<1>3. /\ M \in ListType(n) /\ M.capacity = n /\ M.size = L.size + 1
      /\ M.occupied = [P.occupied EXCEPT ![e] = TRUE]
      /\ M.next_index = P.next_index /\ M.next_index_2 = P.next_index_2
      /\ M.value = [L.value EXCEPT ![e] = v]
      /\ WalkOf(M, d)
  <2>1. /\ n \in Nat /\ P \in ListType(n) /\ WalkOf(P, c)
        /\ i \in 0 .. P.size /\ e \in Slot(n)
        /\ \A j \in 1 .. P.size : c[j] # e
        /\ e \notin {P.next_index, P.next_index_2}
    BY <1>1, <1>2
  <2>2. M = Linked(P, e, v, Place(c, i), Place(c, i + 1))
    OBVIOUS
  <2> HIDE DEF M, d
  <2>3. /\ M \in ListType(n) /\ M.capacity = n /\ M.size = P.size + 1
        /\ M.occupied = [P.occupied EXCEPT ![e] = TRUE]
        /\ M.next_index = P.next_index /\ M.next_index_2 = P.next_index_2
        /\ M.value = [P.value EXCEPT ![e] = v]
        /\ WalkOf(M, d)
    BY <2>1, <2>2, LinkedWalk DEF d
  <2> QED BY <1>2, <2>3
<1> HIDE DEF M
<1>4. Order(M) = d
  <2> HIDE DEF d
  <2> QED BY <1>1, <1>3, OrderIs
<1>5. CacheOK(M)
  <2>1. P.occupied \in [Slot(n) -> BOOLEAN]
        /\ P.next_index \in Slot(n) \cup {NullPtr}
        /\ P.next_index_2 \in Slot(n) \cup {NullPtr}
    BY <1>2 DEF ListType
  <2> QED BY <1>2, <1>3, <2>1 DEF CacheOK
<1>6. Good(M)
  <2> HIDE DEF d
  <2> QED BY <1>1, <1>3, <1>4, <1>5 DEF Good, n
<1>7. ASSUME NEW k \in 1 .. L.size + 1
      PROVE  M.value[d[k]] = IF k <= i THEN L.value[c[k]]
                             ELSE IF k = i + 1 THEN v ELSE L.value[c[k - 1]]
  <2>1. d[k] = IF k <= i THEN c[k] ELSE IF k = i + 1 THEN e ELSE c[k - 1]
    BY <1>1 DEF Inserted
  <2>2. \A j \in 1 .. L.size : c[j] \in Slot(n) /\ c[j] # e
    BY <1>1, <1>2
  <2>3. \A j \in 1 .. L.size : M.value[c[j]] = L.value[c[j]]
    BY <1>1, <1>3, <2>2
  <2>4. M.value[e] = v
    BY <1>1, <1>2, <1>3
  <2> HIDE DEF d
  <2>5. CASE k <= i
    <3>1. k \in 1 .. L.size
      BY <1>1, <2>5
    <3> QED BY <2>1, <2>3, <2>5, <3>1
  <2>6. CASE k = i + 1
    BY <2>1, <2>4, <2>6
  <2>7. CASE k > i + 1
    <3>1. k - 1 \in 1 .. L.size
      BY <1>1, <2>7
    <3> QED BY <1>1, <2>1, <2>3, <2>7, <3>1
  <2> QED BY <1>1, <2>5, <2>6, <2>7
<1>8. ElementsOf(M) = Inserted(ElementsOf(L), i, v)
  <2>1. /\ Len(ElementsOf(L)) = L.size
        /\ \A k \in 1 .. L.size : ElementsOf(L)[k] = L.value[c[k]]
    BY GoodFacts DEF c
  <2> HIDE DEF d
  <2>2. ElementsOf(M) = [k \in 1 .. L.size + 1 |-> M.value[d[k]]]
    BY <1>3, <1>4 DEF ElementsOf
  <2>3. ASSUME NEW k \in 1 .. L.size + 1
        PROVE  M.value[d[k]] =
                 IF k <= i THEN ElementsOf(L)[k]
                 ELSE IF k = i + 1 THEN v ELSE ElementsOf(L)[k - 1]
    <3>1. (k <= i => k \in 1 .. L.size) /\ (k > i + 1 => k - 1 \in 1 .. L.size)
      BY <1>1
    <3> QED BY <1>1, <1>7, <2>1, <3>1
  <2> QED BY <2>1, <2>2, <2>3 DEF Inserted
<1> QED BY <1>6, <1>8 DEF M, P, e, c

\* An element that leaves takes no other with it.
LEMMA UnlinkedGood ==
    ASSUME NEW L, Good(L), NEW k \in 1 .. L.size
    PROVE  LET M == Unlinked(L, Order(L)[k], Place(Order(L), k - 1),
                             Place(Order(L), k + 1))
           IN  /\ Good(M)
               /\ M.size = L.size - 1
               /\ Order(M) = List!Skipping(Order(L), k)
               /\ ElementsOf(M) = List!Skipping(ElementsOf(L), k)
<1> DEFINE c == Order(L)
           n == L.capacity
           M == Unlinked(L, c[k], Place(c, k - 1), Place(c, k + 1))
           d == List!Skipping(c, k)
<1>1. /\ n \in Nat /\ n >= 2 /\ L.size \in Nat /\ L.size + 1 <= n
      /\ L \in ListType(n) /\ WalkOf(L, c) /\ CacheOK(L)
      /\ c \in Seq(Slot(n)) /\ Len(c) = L.size
  BY GoodFacts DEF Good
<1> HIDE DEF c, n
<1>2. /\ M \in ListType(n) /\ M.capacity = n /\ M.size = L.size - 1
      /\ M.value = L.value /\ WalkOf(M, d) /\ CacheOK(M)
  <2> HIDE DEF M, d
  <2> QED BY <1>1, UnlinkedWalk DEF M, d
<1> HIDE DEF M
<1>3. Order(M) = d
  <2> HIDE DEF d
  <2> QED BY <1>1, <1>2, OrderIs
<1>4. Good(M)
  <2> HIDE DEF d
  <2> QED BY <1>1, <1>2, <1>3 DEF Good
<1>5. ElementsOf(M) = List!Skipping(ElementsOf(L), k)
  <2>1. /\ Len(ElementsOf(L)) = L.size
        /\ \A j \in 1 .. L.size : ElementsOf(L)[j] = L.value[c[j]]
    BY GoodFacts DEF c
  <2>2. \A j \in 1 .. L.size - 1 : d[j] = IF j < k THEN c[j] ELSE c[j + 1]
    BY <1>1 DEF List!Skipping
  <2> HIDE DEF d
  <2>3. ElementsOf(M) = [j \in 1 .. L.size - 1 |-> L.value[d[j]]]
    BY <1>2, <1>3 DEF ElementsOf
  <2>4. ASSUME NEW j \in 1 .. L.size - 1
        PROVE  L.value[d[j]] = IF j < k THEN ElementsOf(L)[j]
                               ELSE ElementsOf(L)[j + 1]
    <3>1. j \in 1 .. L.size /\ j + 1 \in 1 .. L.size
      BY <1>1
    <3> QED BY <2>1, <2>2, <3>1
  <2> QED BY <2>1, <2>3, <2>4 DEF List!Skipping
<1> QED BY <1>2, <1>3, <1>4, <1>5 DEF M, c

\* How many elements the iterator has passed when it is at the entry x.
PositionOf(L, x) ==
    IF x = NullPtr THEN -1
    ELSE IF x = head_entry THEN 0
    ELSE CHOOSE k \in 1 .. L.size : Order(L)[k] = x

LEMMA PositionIs ==
    ASSUME NEW L, Good(L)
    PROVE  /\ PositionOf(L, NullPtr) = -1
           /\ \A k \in 0 .. L.size :
                /\ Place(Order(L), k) # NullPtr
                /\ PositionOf(L, Place(Order(L), k)) = k
<1> DEFINE c == Order(L)
<1>1. /\ L.size \in Nat
      /\ \A k \in 1 .. L.size : /\ Place(c, k) = c[k]
                                /\ c[k] # NullPtr /\ c[k] # head_entry
      /\ \A j, k \in 1 .. L.size : c[j] = c[k] => j = k
  <2>1. L.size \in Nat /\ WalkOf(L, c)
    BY GoodFacts DEF Good
  <2>2. \A s \in Slot(L.capacity) : s # NullPtr /\ s # head_entry
    BY DEF Good, Slot, NullPtr, head_entry
  <2> QED BY <2>1, <2>2 DEF WalkOf, Place
<1>2. Place(c, 0) = head_entry /\ head_entry # NullPtr
  BY DEF Place, head_entry, NullPtr
<1> HIDE DEF c
<1>3. ASSUME NEW k \in 1 .. L.size
      PROVE  PositionOf(L, c[k]) = k
  <2>1. PositionOf(L, c[k]) = CHOOSE j \in 1 .. L.size : c[j] = c[k]
    BY <1>1 DEF PositionOf, c
  <2>2. \A j \in 1 .. L.size : c[j] = c[k] <=> j = k
    BY <1>1
  <2> QED BY <2>1, <2>2
<1>4. PositionOf(L, NullPtr) = -1 /\ PositionOf(L, head_entry) = 0
  BY <1>2 DEF PositionOf
<1>5. \A k \in 0 .. L.size : k = 0 \/ k \in 1 .. L.size
  BY <1>1
<1>6. ASSUME NEW k \in 0 .. L.size
      PROVE  Place(c, k) # NullPtr /\ PositionOf(L, Place(c, k)) = k
  <2>1. CASE k = 0
    BY <1>2, <1>4, <2>1
  <2>2. CASE k \in 1 .. L.size
    BY <1>1, <1>3, <2>2
  <2> QED BY <1>5, <2>1, <2>2
<1> QED BY <1>4, <1>6 DEF c

-----------------------------------------------------------------------------
(***************************************************************************)
(* The inductive invariant and the steps.                                  *)
(***************************************************************************)

\* The list is good, and the iterator is at one of its places, the place of
\* an element if it has just returned one.
IInv ==
    /\ Good(list)
    /\ \/ cursor = NullPtr /\ ~fetched
       \/ \E k \in 0 .. list.size : /\ cursor = Place(Order(list), k)
                                    /\ fetched => k # 0
    /\ fetched \in BOOLEAN
    /\ result \in Value \cup {NoValue}
    /\ status \in {"ok", "full", "out of bounds"}

\* What the invariant says of the abstract list.
LEMMA Abstract ==
    ASSUME IInv
    PROVE  /\ Elements = ElementsOf(list) /\ Position = PositionOf(list, cursor)
           /\ Elements \in Seq(Value) /\ Len(Elements) = list.size
           /\ list.size \in Nat
           /\ cursor = NullPtr <=> Position = -1
           /\ cursor # NullPtr => /\ Position \in 0 .. list.size
                                  /\ cursor = Place(Order(list), Position)
           /\ fetched => cursor # NullPtr /\ Position \in 1 .. list.size
<1>1. Good(list)
  BY DEF IInv
<1>2. Elements = ElementsOf(list) /\ Position = PositionOf(list, cursor)
  BY DEF Elements, ElementsOf, Position, PositionOf
<1>3. /\ Elements \in Seq(Value) /\ Len(Elements) = list.size
      /\ list.size \in Nat
  BY <1>1, <1>2, GoodFacts
<1>4. CASE cursor = NullPtr /\ ~fetched
  <2>1. PositionOf(list, NullPtr) = -1
    BY <1>1, PositionIs
  <2> QED BY <1>2, <1>3, <1>4, <2>1
<1>5. CASE \E k \in 0 .. list.size : /\ cursor = Place(Order(list), k)
                                     /\ fetched => k # 0
  <2>1. PICK k \in 0 .. list.size : /\ cursor = Place(Order(list), k)
                                    /\ fetched => k # 0
    BY <1>5
  <2>2. cursor = Place(Order(list), k)
    BY <2>1
  <2>3. Position = k /\ cursor # NullPtr
    <3>1. /\ Place(Order(list), k) # NullPtr
          /\ PositionOf(list, Place(Order(list), k)) = k
      BY <1>1, PositionIs
    <3> QED BY <1>2, <2>2, <3>1
  <2>4. k \in Nat /\ k # -1 /\ (k # 0 => k \in 1 .. list.size)
    BY <1>3
  <2>5. fetched => k # 0
    BY <2>1
  <2>6. fetched => cursor # NullPtr /\ Position \in 1 .. list.size
    <3>1. k # 0 => Position \in 1 .. list.size
      BY <2>3, <2>4
    <3> QED BY <2>3, <2>5, <3>1, Zenon
  <2> QED BY <1>2, <1>3, <2>2, <2>3, <2>4, <2>6
<1> QED BY <1>4, <1>5 DEF IInv

\* A list just made is good: nothing is linked, whatever its flags say.
LEMMA InitGood ==
    ASSUME Init
    PROVE  IInv /\ List!Init
<1> DEFINE n == InitialSize
<1>1. PICK flags \in [Slot(n) -> StaleFlags] : list = NewList(n, flags)
  BY DEF Init
<1>2. /\ list.size = 0 /\ list.capacity = n /\ n \in Nat /\ n >= 2
      /\ flags \in [Slot(n) -> BOOLEAN]
      /\ list.next_index = NullPtr /\ list.next_index_2 = NullPtr
  BY <1>1, LinkedArrayAssumption DEF NewList
<1>3. /\ list.next[head_entry] = tail_entry
      /\ list.prev[tail_entry] = head_entry
  BY <1>1 DEF NewList, Entry
<1>4. list \in ListType(n)
  <2>1. head_entry \in Entry(n) /\ tail_entry \in Entry(n)
    BY DEF Entry
  <2> HIDE DEF n
  <2> QED BY <1>1, <1>2, <2>1 DEF NewList, ListType
<1>5. WalkOf(list, << >>)
  <2>1. \A i \in 0 .. 0 : i = 0
    OBVIOUS
  <2>2. /\ Place(<< >>, 0) = head_entry /\ Place(<< >>, 0 + 1) = tail_entry
        /\ << >> \in Seq(Slot(n)) /\ Len(<< >>) = 0
    BY DEF Place
  <2>3. \A i \in 1 .. 0 : FALSE
    OBVIOUS
  <2> HIDE DEF n
  <2> QED BY <1>2, <1>3, <2>1, <2>2, <2>3 DEF WalkOf
<1>6. Order(list) = << >>
  BY <1>2, <1>5, OrderIs
<1>7. Good(list)
  BY <1>2, <1>4, <1>5, <1>6 DEF Good, CacheOK
<1>8. IInv
  BY <1>7 DEF IInv, Init
<1>9. List!Init
  <2>1. Elements = << >>
    <3>1. Elements \in Seq(Value) /\ Len(Elements) = 0
      BY <1>2, <1>8, Abstract
    <3> QED BY <3>1
  <2>2. Position = -1
    BY <1>8, Abstract DEF Init
  <2> QED BY <2>1, <2>2 DEF Init, List!Init
<1> QED BY <1>8, <1>9

\* Between two walks.
LEMMA IdleFacts ==
    ASSUME IInv, Idle
    PROVE  List!Idle /\ Position = -1 /\ ~fetched
<1>1. cursor = NullPtr /\ status = "ok"
  BY DEF Idle
<1>2. Position = -1 /\ ~fetched
  BY <1>1, Abstract
<1> QED BY <1>1, <1>2 DEF List!Idle

\* A step that only returns something, or panics.
LEMMA SameList ==
    ASSUME IInv, UNCHANGED <<list, cursor, fetched>>,
           result' \in Value \cup {NoValue},
           status' \in {"ok", "full", "out of bounds"}
    PROVE  IInv' /\ UNCHANGED <<Elements, Position>>
<1>1. Elements' = Elements /\ Position' = Position
  <2>1. Elements = ElementsOf(list) /\ Elements' = ElementsOf(list')
    BY DEF Elements, ElementsOf
  <2>2. /\ Position = PositionOf(list, cursor)
        /\ Position' = PositionOf(list', cursor')
    BY DEF Position, PositionOf
  <2> QED BY <2>1, <2>2
<1>2. IInv'
  BY DEF IInv
<1> QED BY <1>1, <1>2

\* Adding an element at place i, or the panic for want of a free entry.
LEMMA AddsStep ==
    ASSUME IInv, Idle, NEW n \in Nat, n >= list.capacity + 1,
           NEW L \in Grown(list, n), NEW v \in Value, NEW i \in 0 .. L.size,
           Adds(L, v, Place(Order(L), i), Place(Order(L), i + 1))
    PROVE  /\ IInv'
           /\ \/ List!Full
              \/ /\ List!Idle
                 /\ Elements' = Inserted(Elements, i, v)
                 /\ UNCHANGED <<Position, fetched, result, status>>
<1>1. Good(L) /\ L.size + 2 <= L.capacity /\ ElementsOf(L) = Elements
  BY GrownGood, Abstract DEF IInv
<1>2. List!Idle /\ Position = -1 /\ ~fetched
  BY IdleFacts
<1>3. cursor' = NullPtr /\ fetched' = fetched /\ result' = result
  BY DEF Adds, Idle
<1>4. CASE ProbeIndex(L) = NullPtr
  <2>1. list' = L /\ status' = "full"
    BY <1>4 DEF Adds
  <2>2. IInv'
    BY <1>1, <1>2, <1>3, <2>1 DEF IInv
  <2>3. Elements' = Elements /\ Position' = Position
    <3>1. Elements' = ElementsOf(L)
      BY <2>1 DEF Elements, ElementsOf
    <3>2. Position' = -1
      BY <1>3 DEF Position
    <3> QED BY <3>1, <3>2, <1>1, <1>2
  <2>4. List!Full
    BY <1>2, <1>3, <2>1, <2>3 DEF List!Full, List!Panics
  <2> QED BY <2>2, <2>4
<1>5. CASE ProbeIndex(L) # NullPtr
  <2> DEFINE M == Linked(Probed(L), ProbeIndex(L), v,
                         Place(Order(L), i), Place(Order(L), i + 1))
  <2>1. list' = M /\ status' = status
    BY <1>5 DEF Adds
  <2>2. Good(M) /\ ElementsOf(M) = Inserted(Elements, i, v)
    BY <1>1, <1>5, LinkedGood
  <2> HIDE DEF M
  <2>3. IInv'
    BY <1>2, <1>3, <2>1, <2>2 DEF IInv
  <2>4. Elements' = Inserted(Elements, i, v) /\ Position' = Position
    <3>1. Elements' = ElementsOf(M)
      BY <2>1 DEF Elements, ElementsOf
    <3>2. Position' = -1
      BY <1>3 DEF Position
    <3> QED BY <3>1, <3>2, <1>2, <2>2
  <2> QED BY <1>2, <1>3, <2>1, <2>3, <2>4
<1> QED BY <1>4, <1>5

LEMMA PushStep ==
    ASSUME IInv, NEW v \in Value, Push(v)
    PROVE  IInv' /\ (List!Push(v) \/ List!Full)
<1>1. /\ Idle /\ Good(list)
      /\ list.capacity \in Nat /\ list.capacity >= 2
  BY DEF IInv, Good, Push
<1>2. PICK L \in Grown(list, 2 * list.capacity) :
        Adds(L, v, L.prev[tail_entry], tail_entry)
  BY DEF Push
<1>3. 2 * list.capacity \in Nat /\ 2 * list.capacity >= list.capacity + 1
  BY <1>1
<1>4. /\ Good(L) /\ ElementsOf(L) = Elements /\ L.size \in Nat
      /\ L.prev[tail_entry] = Place(Order(L), L.size)
      /\ Place(Order(L), L.size + 1) = tail_entry
  <2>1. Good(L) /\ ElementsOf(L) = Elements
    BY <1>1, <1>3, GrownGood, Abstract
  <2> QED BY <2>1, GoodFacts DEF Place
<1>5. /\ IInv'
      /\ \/ List!Full
         \/ /\ List!Idle
            /\ Elements' = Inserted(Elements, L.size, v)
            /\ UNCHANGED <<Position, fetched, result, status>>
  <2>1. /\ L.size \in 0 .. L.size
        /\ Adds(L, v, Place(Order(L), L.size), Place(Order(L), L.size + 1))
    BY <1>2, <1>4
  <2> QED BY <1>1, <1>3, <2>1, AddsStep
<1>6. Inserted(Elements, L.size, v) = Append(Elements, v)
  <2>1. Elements \in Seq(Value) /\ Len(Elements) = L.size
    BY <1>4, GoodFacts
  <2>2. Append(Elements, v) =
          [j \in 1 .. L.size + 1 |-> IF j <= L.size THEN Elements[j] ELSE v]
    <3> DEFINE q == Append(Elements, v)
    <3>1. /\ q \in Seq(Value) /\ Len(q) = L.size + 1
          /\ \A j \in 1 .. L.size + 1 :
                q[j] = IF j <= L.size THEN Elements[j] ELSE v
      BY <1>4, <2>1
    <3> HIDE DEF q
    <3>2. q = [j \in 1 .. L.size + 1 |-> q[j]]
      BY <1>4, <3>1
    <3> QED BY <3>1, <3>2 DEF q
  <2>3. \A j \in 1 .. L.size + 1 : j <= L.size \/ j = L.size + 1
    BY <1>4
  <2>4. Inserted(Elements, L.size, v) =
          [j \in 1 .. L.size + 1 |-> IF j <= L.size THEN Elements[j] ELSE v]
    BY <2>1, <2>3 DEF Inserted
  <2> QED BY <2>2, <2>4
<1> QED BY <1>5, <1>6 DEF List!Push, List!Becomes

LEMMA UnshiftStep ==
    ASSUME IInv, NEW v \in Value, Unshift(v)
    PROVE  IInv' /\ (List!Unshift(v) \/ List!Full)
<1> DEFINE n == (19 * list.capacity) \div 10
<1>1. /\ Idle /\ Good(list)
      /\ list.capacity \in Nat /\ list.capacity >= 2
  BY DEF IInv, Good, Unshift
<1>2. PICK L \in Grown(list, n) : Adds(L, v, head_entry, L.next[head_entry])
  BY DEF Unshift
<1>3. n \in Nat /\ n >= list.capacity + 1
  BY <1>1
<1> HIDE DEF n
<1>4. /\ Good(L) /\ ElementsOf(L) = Elements /\ L.size \in Nat
      /\ L.next[head_entry] = Place(Order(L), 0 + 1)
      /\ Place(Order(L), 0) = head_entry
  <2>1. Good(L) /\ ElementsOf(L) = Elements
    BY <1>1, <1>3, GrownGood, Abstract
  <2> QED BY <2>1, GoodFacts DEF Place
<1>5. /\ IInv'
      /\ \/ List!Full
         \/ /\ List!Idle
            /\ Elements' = Inserted(Elements, 0, v)
            /\ UNCHANGED <<Position, fetched, result, status>>
  <2>1. /\ 0 \in 0 .. L.size
        /\ Adds(L, v, Place(Order(L), 0), Place(Order(L), 0 + 1))
    BY <1>2, <1>4
  <2> QED BY <1>1, <1>3, <2>1, AddsStep
<1>6. Inserted(Elements, 0, v) = <<v>> \o Elements
  <2>1. Elements \in Seq(Value) /\ Len(Elements) = L.size
    BY <1>4, GoodFacts
  <2> QED BY <1>4, <2>1 DEF Inserted
<1> QED BY <1>5, <1>6 DEF List!Unshift, List!Becomes

\* Removing the k-th element between two walks.
LEMMA UnlinkedStep ==
    ASSUME IInv, Idle, NEW k \in 1 .. list.size,
           list' = Unlinked(list, Order(list)[k], Place(Order(list), k - 1),
                            Place(Order(list), k + 1)),
           UNCHANGED <<cursor, fetched, status>>,
           result' \in Value \cup {NoValue}
    PROVE  /\ IInv' /\ List!Idle
           /\ Elements' = List!Skipping(Elements, k)
           /\ UNCHANGED <<Position, fetched, status>>
<1> DEFINE M == Unlinked(list, Order(list)[k], Place(Order(list), k - 1),
                         Place(Order(list), k + 1))
<1>1. Good(M) /\ ElementsOf(M) = List!Skipping(Elements, k)
  <2>1. Good(list) /\ ElementsOf(list) = Elements
    BY Abstract DEF IInv
  <2> QED BY <2>1, UnlinkedGood
<1> HIDE DEF M
<1>2. List!Idle /\ Position = -1 /\ ~fetched
  BY IdleFacts
<1>3. list' = M
  BY DEF M
<1>4. Elements' = ElementsOf(M)
  BY <1>3 DEF Elements, ElementsOf
<1>5. Position' = -1
  BY DEF Position, Idle
<1>6. IInv'
  BY <1>1, <1>2, <1>3 DEF IInv, Idle
<1> QED BY <1>1, <1>2, <1>4, <1>5, <1>6

LEMMA PopStep ==
    ASSUME IInv, Pop
    PROVE  IInv' /\ List!Pop
<1> DEFINE c == Order(list)
           k == list.size
<1>1. /\ Idle /\ Good(list) /\ k \in 1 .. list.size
      /\ list.prev[tail_entry] = c[k] /\ c[k] = Place(c, k)
      /\ list.prev[c[k]] = Place(c, k - 1)
      /\ tail_entry = Place(c, k + 1)
      /\ Elements[k] = list.value[c[k]] /\ Elements[k] \in Value
      /\ Len(Elements) = k /\ Elements # << >>
  <2>1. Idle /\ Good(list) /\ k \in Nat /\ k > 0
    BY GoodFacts DEF Pop, IInv
  <2>2. k \in 1 .. list.size
    BY <2>1
  <2> QED BY <2>1, <2>2, GoodFacts, Abstract DEF Place
<1>2. /\ list' = Unlinked(list, c[k], Place(c, k - 1), Place(c, k + 1))
      /\ result' = Elements[k] /\ UNCHANGED <<cursor, fetched, status>>
  BY <1>1 DEF Pop
<1>3. /\ IInv' /\ List!Idle /\ Elements' = List!Skipping(Elements, k)
      /\ UNCHANGED <<Position, fetched, status>>
  <2> HIDE DEF k
  <2> QED BY <1>1, <1>2, UnlinkedStep
<1> HIDE DEF k
<1> QED BY <1>1, <1>2, <1>3 DEF List!Pop, List!Take

LEMMA ShiftStep ==
    ASSUME IInv, Shift
    PROVE  IInv' /\ List!Shift
<1> DEFINE c == Order(list)
<1>1. /\ Idle /\ Good(list) /\ 1 \in 1 .. list.size
      /\ list.next[head_entry] = c[1] /\ c[1] = Place(c, 1)
      /\ list.next[c[1]] = Place(c, 1 + 1)
      /\ head_entry = Place(c, 1 - 1)
      /\ Elements[1] = list.value[c[1]] /\ Elements[1] \in Value
      /\ Elements # << >>
  <2>1. Idle /\ Good(list) /\ list.size \in Nat /\ list.size > 0
    BY GoodFacts DEF Shift, IInv
  <2>2. 1 \in 1 .. list.size
    BY <2>1
  <2> QED BY <2>1, <2>2, GoodFacts, Abstract DEF Place
<1>2. /\ list' = Unlinked(list, c[1], Place(c, 1 - 1), Place(c, 1 + 1))
      /\ result' = Elements[1] /\ UNCHANGED <<cursor, fetched, status>>
  BY <1>1 DEF Shift
<1>3. /\ IInv' /\ List!Idle /\ Elements' = List!Skipping(Elements, 1)
      /\ UNCHANGED <<Position, fetched, status>>
  BY <1>1, <1>2, UnlinkedStep
<1> QED BY <1>1, <1>2, <1>3 DEF List!Shift, List!Take

LEMMA RemoveAtStep ==
    ASSUME IInv, NEW i \in 0 .. list.size, RemoveAt(i)
    PROVE  IInv' /\ List!RemoveAt(i)
<1> DEFINE c == Order(list)
           k == i + 1
<1>1. /\ Idle /\ Good(list) /\ list.size \in Nat /\ i \in Nat
      /\ Len(Elements) = list.size
      /\ List!Idle
  <2>1. Idle /\ Good(list)
    BY DEF RemoveAt, IInv
  <2>2. list.size \in Nat /\ Len(Elements) = list.size
    BY Abstract
  <2> QED BY <2>1, <2>2, IdleFacts
<1>2. CASE i >= list.size
  <2>1. /\ status' = "out of bounds"
        /\ UNCHANGED <<list, cursor, fetched, result>>
    BY <1>2 DEF RemoveAt, Panics
  <2>2. IInv' /\ UNCHANGED <<Elements, Position>>
    <3>1. result' \in Value \cup {NoValue}
      BY <2>1 DEF IInv
    <3> QED BY <2>1, <3>1, SameList
  <2>3. ~(i < Len(Elements))
    BY <1>1, <1>2
  <2> QED BY <1>1, <2>1, <2>2, <2>3 DEF List!RemoveAt, List!Panics
<1>3. CASE i < list.size
  <2>1. k \in 1 .. list.size /\ i < Len(Elements)
    BY <1>1, <1>3
  <2>2. /\ list' = Unlinked(list, c[k], list.prev[c[k]], list.next[c[k]])
        /\ UNCHANGED <<cursor, fetched, result, status>>
    <3>1. ~(i >= list.size)
      BY <1>1, <1>3
    <3> QED BY <3>1, Zenon DEF RemoveAt, Removed
  <2>3. /\ list.prev[c[k]] = Place(c, k - 1)
        /\ list.next[c[k]] = Place(c, k + 1)
    BY <1>1, <2>1, GoodFacts
  <2>4. result' \in Value \cup {NoValue}
    BY <2>2 DEF IInv
  <2>5. /\ IInv' /\ Elements' = List!Skipping(Elements, k)
        /\ UNCHANGED <<Position, fetched, status>>
    <3> HIDE DEF k
    <3> QED BY <1>1, <2>1, <2>2, <2>3, <2>4, UnlinkedStep
  <2> QED BY <1>1, <2>1, <2>2, <2>5 DEF List!RemoveAt, List!Becomes
<1> QED BY <1>1, <1>2, <1>3

\* Reading changes nothing, and returns what the sequence holds.
LEMMA ReadStep ==
    ASSUME IInv
    PROVE  /\ Peek => IInv' /\ List!Peek
           /\ PeekFront => IInv' /\ List!PeekFront
           /\ \A i \in 0 .. list.size : GetAt(i) => IInv' /\ List!GetAt(i)
<1> DEFINE c == Order(list)
<1>1. /\ Good(list) /\ list.size \in Nat
      /\ Len(Elements) = list.size
      /\ \A k \in 1 .. list.size : /\ Elements[k] = list.value[c[k]]
                                   /\ Elements[k] \in Value
                                   /\ c[k] = Place(c, k)
      /\ list.next[head_entry] = Place(c, 1)
      /\ list.prev[tail_entry] = Place(c, list.size)
  <2>1. Good(list)
    BY DEF IInv
  <2>2. /\ Elements = ElementsOf(list) /\ list.size \in Nat
        /\ Len(Elements) = list.size
    BY Abstract
  <2> QED BY <2>1, <2>2, GoodFacts
<1>2. Idle => List!Idle
  BY IdleFacts
<1>3. ASSUME NEW k \in 1 .. list.size, Returns(list.value[c[k]])
      PROVE  IInv' /\ List!Returns(Elements[k])
  <2>1. /\ result' = Elements[k] /\ result' \in Value
        /\ UNCHANGED <<list, cursor, fetched, status>>
    BY <1>1, <1>3 DEF Returns
  <2>2. status' \in {"ok", "full", "out of bounds"}
    BY <2>1 DEF IInv
  <2>3. IInv' /\ UNCHANGED <<Elements, Position>>
    BY <2>1, <2>2, SameList
  <2> QED BY <2>1, <2>3 DEF List!Returns
<1>4. ASSUME Peek PROVE IInv' /\ List!Peek
  <2>1. list.size \in 1 .. list.size /\ Elements # << >>
    BY <1>1, <1>4 DEF Peek
  <2>2. Returns(list.value[c[list.size]])
    BY <1>1, <1>4, <2>1 DEF Peek
  <2>3. IInv' /\ List!Returns(Elements[list.size])
    BY <1>3, <2>1, <2>2
  <2> QED BY <1>1, <1>2, <1>4, <2>1, <2>3 DEF Peek, List!Peek
<1>5. ASSUME PeekFront PROVE IInv' /\ List!PeekFront
  <2>1. 1 \in 1 .. list.size /\ Elements # << >>
    BY <1>1, <1>5 DEF PeekFront
  <2>2. Returns(list.value[c[1]])
    BY <1>1, <1>5, <2>1 DEF PeekFront
  <2>3. IInv' /\ List!Returns(Elements[1])
    BY <1>3, <2>1, <2>2
  <2> QED BY <1>2, <1>5, <2>1, <2>3 DEF PeekFront, List!PeekFront
<1>6. ASSUME NEW i \in 0 .. list.size, GetAt(i)
      PROVE  IInv' /\ List!GetAt(i)
  <2>1. List!Idle /\ i \in Nat
    <3>1. Idle
      BY <1>6, Zenon DEF GetAt
    <3> QED BY <1>1, <1>2, <3>1
  <2>2. CASE i >= list.size
    <3>1. /\ status' = "out of bounds"
          /\ UNCHANGED <<list, cursor, fetched, result>>
      BY <1>6, <2>2 DEF GetAt, Panics
    <3>2. IInv' /\ UNCHANGED <<Elements, Position>>
      <4>1. result' \in Value \cup {NoValue}
        BY <3>1 DEF IInv
      <4> QED BY <3>1, <4>1, SameList
    <3>3. ~(i < Len(Elements))
      BY <1>1, <2>1, <2>2
    <3> QED BY <2>1, <3>1, <3>2, <3>3 DEF List!GetAt, List!Panics
  <2>3. CASE i < list.size
    <3>1. i + 1 \in 1 .. list.size /\ i < Len(Elements)
      BY <1>1, <2>1, <2>3
    <3>2. Returns(list.value[c[i + 1]])
      <4>1. ~(i >= list.size)
        BY <1>1, <2>1, <2>3
      <4> QED BY <1>6, <4>1, Zenon DEF GetAt
    <3>3. IInv' /\ List!Returns(Elements[i + 1])
      BY <1>3, <3>1, <3>2
    <3> QED BY <2>1, <3>1, <3>3 DEF List!GetAt
  <2> QED BY <1>1, <2>1, <2>2, <2>3
<1> QED BY <1>4, <1>5, <1>6

\* The iterator during a walk: it is at place k, and the entry that follows
\* is the tail exactly when k is the last.
LEMMA WalkingFacts ==
    ASSUME IInv, Walking
    PROVE  /\ List!Walking /\ Good(list)
           /\ Position \in 0 .. list.size
           /\ list.size \in Nat /\ Len(Elements) = list.size
           /\ cursor = Place(Order(list), Position)
           /\ list.next[cursor] = Place(Order(list), Position + 1)
           /\ list.next[cursor] = tail_entry <=> Position = list.size
           /\ fetched => Position # 0
<1> DEFINE c == Order(list)
           k == Position
<1>1. /\ Good(list) /\ list.size \in Nat /\ Len(Elements) = list.size
      /\ k \in 0 .. list.size /\ cursor = Place(c, k)
  <2>1. cursor # NullPtr
    BY DEF Walking
  <2> QED BY <2>1, Abstract DEF IInv
<1>2. List!Walking
  BY <1>1 DEF Walking, List!Walking
<1>3. list.next[cursor] = Place(c, k + 1)
  <2>1. WalkOf(list, c)
    BY <1>1 DEF Good
  <2> HIDE DEF k, c
  <2> QED BY <1>1, <2>1 DEF WalkOf
<1>4. Place(c, k + 1) = tail_entry <=> k = list.size
  <2>1. list.capacity \in Nat /\ WalkOf(list, c)
    BY <1>1 DEF Good
  <2>2. /\ \A i, j \in 0 .. list.size + 1 : Place(c, i) = Place(c, j) => i = j
        /\ Place(c, list.size + 1) = tail_entry
    BY <1>1, <2>1, PlaceFacts, GoodFacts DEF Place
  <2>3. k + 1 \in 0 .. list.size + 1 /\ list.size + 1 \in 0 .. list.size + 1
    BY <1>1
  <2> HIDE DEF k, c
  <2>4. Place(c, k + 1) = tail_entry => k + 1 = list.size + 1
    BY <2>2, <2>3
  <2> QED BY <1>1, <2>2, <2>4
<1>5. fetched => k # 0
  <2>1. fetched => k \in 1 .. list.size
    BY Abstract
  <2>2. k \in 1 .. list.size => k # 0
    OBVIOUS
  <2> HIDE DEF k
  <2> QED BY <2>1, <2>2, Zenon
<1> QED BY <1>1, <1>2, <1>3, <1>4, <1>5

\* A step of the iterator to place k of the list.
LEMMA MovesTo ==
    ASSUME Good(list'), NEW k \in 0 .. list'.size,
           cursor' = Place(Order(list'), k), fetched' \in BOOLEAN,
           fetched' => k # 0,
           result' \in Value \cup {NoValue}, status' = "ok"
    PROVE  IInv' /\ Position' = k
<1>1. Position' = PositionOf(list', cursor')
  BY DEF Position, PositionOf
<1>2. Position' = k
  BY <1>1, PositionIs
<1>3. IInv'
  BY DEF IInv
<1> QED BY <1>2, <1>3

LEMMA CreateIteratorStep ==
    ASSUME IInv, CreateIterator
    PROVE  IInv' /\ List!CreateIterator
<1>1. /\ Idle /\ cursor' = head_entry
      /\ UNCHANGED <<list, fetched, result, status>>
  BY DEF CreateIterator
<1>2. List!Idle /\ ~fetched /\ Good(list) /\ 0 \in 0 .. list.size
  <2>1. list.size \in Nat
    BY Abstract
  <2>2. Good(list)
    BY DEF IInv
  <2>3. List!Idle /\ ~fetched
    BY <1>1, IdleFacts
  <2> QED BY <2>1, <2>2, <2>3
<1>3. head_entry = Place(Order(list), 0)
  BY DEF Place
<1>4. IInv' /\ Position' = 0
  <2>1. /\ fetched' \in BOOLEAN /\ (fetched' => 0 # 0)
        /\ result' \in Value \cup {NoValue} /\ status' = "ok"
    BY <1>1, <1>2 DEF IInv, Idle
  <2>2. list' = list
    BY <1>1
  <2> QED BY <1>1, <1>2, <1>3, <2>1, <2>2, MovesTo
<1>5. Elements' = Elements
  BY <1>1 DEF Elements
<1> QED BY <1>1, <1>2, <1>4, <1>5 DEF List!CreateIterator

LEMMA IteratorNextStep ==
    ASSUME IInv, IteratorNext
    PROVE  IInv' /\ List!IteratorNext
<1> DEFINE c == Order(list)
           k == Position + 1
<1>1. /\ Walking /\ HasNext /\ fetched' = TRUE
      /\ cursor' = list.next[cursor]
      /\ result' = list.value[list.next[cursor]]
      /\ UNCHANGED <<list, status>>
  BY DEF IteratorNext
<1>2. /\ List!Walking /\ Good(list) /\ list.size \in Nat
      /\ Position \in 0 .. list.size /\ Position < list.size
      /\ Len(Elements) = list.size
      /\ list.next[cursor] = Place(c, k)
  BY <1>1, WalkingFacts DEF HasNext
<1>3. k \in 1 .. list.size /\ k \in 0 .. list.size /\ k # 0
  BY <1>2
<1> HIDE DEF k
<1>4. /\ Place(c, k) = c[k] /\ list.value[c[k]] \in Value
      /\ Elements[k] = list.value[c[k]]
  BY <1>2, <1>3, GoodFacts, Abstract
<1>5. /\ result' = Elements[k] /\ result' \in Value
      /\ cursor' = Place(c, k)
  BY <1>1, <1>2, <1>4
<1>6. IInv' /\ Position' = k
  <2>1. status' = "ok" /\ list' = list
    BY <1>1 DEF Walking
  <2> QED BY <1>1, <1>2, <1>3, <1>5, <2>1, MovesTo
<1>7. Elements' = Elements
  BY <1>1 DEF Elements
<1> QED BY <1>1, <1>2, <1>5, <1>6, <1>7 DEF List!IteratorNext, k

LEMMA IteratorRemoveStep ==
    ASSUME IInv, IteratorRemove
    PROVE  IInv' /\ List!IteratorRemove
<1> DEFINE c == Order(list)
           k == Position
           M == Unlinked(list, c[k], Place(c, k - 1), Place(c, k + 1))
<1>1. /\ Walking /\ fetched /\ list' = Removed(cursor)
      /\ cursor' = list.prev[cursor] /\ fetched' = FALSE
      /\ UNCHANGED <<result, status>>
  BY DEF IteratorRemove
<1>2. /\ List!Walking /\ Good(list) /\ list.size \in Nat
      /\ k \in 0 .. list.size /\ k # 0 /\ cursor = Place(c, k)
  BY <1>1, WalkingFacts
<1> HIDE DEF k
<1>3. k \in 1 .. list.size
  BY <1>2
<1>4. /\ cursor = c[k] /\ list.prev[c[k]] = Place(c, k - 1)
      /\ list.next[c[k]] = Place(c, k + 1)
  BY <1>2, <1>3, GoodFacts
<1>5. list' = M /\ cursor' = Place(c, k - 1)
  BY <1>1, <1>4 DEF Removed
<1>6. /\ Good(M) /\ M.size = list.size - 1
      /\ Order(M) = List!Skipping(c, k)
      /\ ElementsOf(M) = List!Skipping(Elements, k)
  BY <1>2, <1>3, UnlinkedGood, Abstract
<1>7. Place(Order(M), k - 1) = Place(c, k - 1) /\ k - 1 \in 0 .. M.size
  <2>1. c \in Seq(Slot(list.capacity)) /\ Len(c) = list.size
    BY <1>2, GoodFacts
  <2> HIDE DEF c, M
  <2>2. \A j \in 0 .. Len(c) :
          Place(List!Skipping(c, k), j) =
            IF j < k THEN Place(c, j) ELSE Place(c, j + 1)
    BY <1>3, <2>1, SkippingFacts
  <2>3. k - 1 \in 0 .. Len(c) /\ k - 1 < k /\ k - 1 \in 0 .. M.size
    BY <1>2, <1>3, <1>6, <2>1
  <2> QED BY <1>6, <2>2, <2>3
<1> HIDE DEF M
<1>8. IInv' /\ Position' = k - 1
  <2>1. /\ status' = "ok" /\ result' \in Value \cup {NoValue}
        /\ fetched' \in BOOLEAN /\ ~fetched'
    BY <1>1 DEF Walking, IInv
  <2>2. /\ Good(list') /\ k - 1 \in 0 .. list'.size
        /\ cursor' = Place(Order(list'), k - 1)
    BY <1>5, <1>6, <1>7
  <2> QED BY <2>1, <2>2, MovesTo
<1>9. Elements' = List!Skipping(Elements, k)
  <2>1. Elements' = ElementsOf(list')
    BY DEF Elements, ElementsOf
  <2> QED BY <1>5, <1>6, <2>1
<1> QED BY <1>1, <1>2, <1>8, <1>9 DEF List!IteratorRemove, k

LEMMA IteratorEndStep ==
    ASSUME IInv, IteratorEnd
    PROVE  IInv' /\ List!IteratorEnd
<1>1. /\ Walking /\ ~HasNext /\ cursor' = NullPtr /\ fetched' = FALSE
      /\ UNCHANGED <<list, result, status>>
  BY DEF IteratorEnd
<1>2. List!Walking /\ Position = Len(Elements)
  BY <1>1, WalkingFacts DEF HasNext
<1>3. IInv'
  BY <1>1 DEF IInv
<1>4. Elements' = Elements /\ Position' = -1
  BY <1>1 DEF Elements, Position
<1> QED BY <1>1, <1>2, <1>3, <1>4 DEF List!IteratorEnd

-----------------------------------------------------------------------------
(***************************************************************************)
(* The theorems.                                                           *)
(***************************************************************************)

\* Every step keeps the invariant, and is a step of the abstract list.
LEMMA NextStep ==
    ASSUME IInv, [Next]_vars
    PROVE  IInv' /\ [List!Next]_(List!vars)
<1>1. CASE UNCHANGED vars
  <2>1. /\ UNCHANGED <<list, cursor, fetched, result, status>>
        /\ result' \in Value \cup {NoValue}
        /\ status' \in {"ok", "full", "out of bounds"}
    BY <1>1 DEF vars, IInv
  <2>2. IInv' /\ UNCHANGED <<Elements, Position>>
    BY <2>1, SameList
  <2> QED BY <2>1, <2>2 DEF List!vars
<1>2. ASSUME NEW v \in Value, Push(v) \/ Unshift(v)
      PROVE  IInv' /\ List!Next
  BY <1>2, PushStep, UnshiftStep DEF List!Next
<1>3. CASE Pop \/ Shift \/ Peek \/ PeekFront
  <2>1. IInv' /\ (List!Pop \/ List!Shift \/ List!Peek \/ List!PeekFront)
    BY <1>3, PopStep, ShiftStep, ReadStep
  <2> QED BY <2>1 DEF List!Next
<1>4. ASSUME NEW i \in 0 .. list.size, GetAt(i) \/ RemoveAt(i)
      PROVE  IInv' /\ List!Next
  <2>1. IInv' /\ (List!GetAt(i) \/ List!RemoveAt(i))
    BY <1>4, ReadStep, RemoveAtStep
  <2>2. i \in 0 .. Len(Elements)
    BY Abstract
  <2> QED BY <2>1, <2>2 DEF List!Next
<1>5. CASE CreateIterator \/ IteratorNext \/ IteratorRemove \/ IteratorEnd
  <2>1. /\ IInv'
        /\ \/ List!CreateIterator \/ List!IteratorNext
           \/ List!IteratorRemove \/ List!IteratorEnd
    BY <1>5, CreateIteratorStep, IteratorNextStep, IteratorRemoveStep,
       IteratorEndStep
  <2> QED BY <2>1 DEF List!Next
<1>6. CASE Halted
  BY <1>1, <1>6 DEF Halted
<1> QED BY <1>1, <1>2, <1>3, <1>4, <1>5, <1>6 DEF Next

LEMMA Inductive == Spec => []IInv
<1>1. Init => IInv
  BY InitGood
<1>2. IInv /\ [Next]_vars => IInv'
  BY NextStep
<1> QED BY <1>1, <1>2, PTL DEF Spec

\* Every variable has a value of its type, and the iterator an entry of the
\* list's own storage, for storage of any size.
THEOREM TypeCorrect == Spec => []TypeOK
<1>1. IInv => TypeOK
  <2> SUFFICES ASSUME IInv PROVE TypeOK
    OBVIOUS
  <2>1. /\ list.capacity \in Nat /\ list \in ListType(list.capacity)
        /\ list.size \in Nat
        /\ \A k \in 1 .. list.size : Order(list)[k] \in Slot(list.capacity)
    <3>1. Good(list)
      BY DEF IInv
    <3>2. /\ list.size \in Nat /\ Order(list) \in Seq(Slot(list.capacity))
          /\ Len(Order(list)) = list.size
      BY <3>1, GoodFacts
    <3> QED BY <3>1, <3>2 DEF Good
  <2>2. cursor \in Slot(list.capacity) \cup {head_entry, NullPtr}
    <3>1. CASE cursor = NullPtr
      BY <3>1
    <3>2. CASE cursor # NullPtr
      <4>1. /\ Position \in 0 .. list.size
            /\ cursor = Place(Order(list), Position)
        BY <3>2, Abstract
      <4>2. CASE Position = 0
        BY <4>1, <4>2 DEF Place
      <4>3. CASE Position \in 1 .. list.size
        <5>1. Place(Order(list), Position) = Order(list)[Position]
          BY <4>3, GoodFacts DEF IInv
        <5> QED BY <2>1, <4>1, <4>3, <5>1
      <4> QED BY <2>1, <4>1, <4>2, <4>3
    <3> QED BY <3>1, <3>2
  <2> QED BY <2>1, <2>2 DEF IInv, TypeOK
<1> QED BY <1>1, Inductive, PTL

\* The links never break and no entry in use is ever handed out again,
\* whatever the list's memory held before it was given to it.
THEOREM LinksHold == Spec => []WellLinked
<1>1. IInv => WellLinked
  BY DEF IInv, Good, CacheOK, WellLinked
<1> QED BY <1>1, Inductive, PTL

\* The linked array is the sequence its users believe in, through any number
\* of moves to larger storage.
THEOREM Implements == Spec => ImplementsList
<1>1. Init => List!Init
  BY InitGood
<1>2. IInv /\ [Next]_vars => [List!Next]_(List!vars)
  BY NextStep
<1> QED BY <1>1, <1>2, Inductive, PTL DEF Spec, List!Spec, ImplementsList
=============================================================================
