--------------------------- MODULE StructureProofs ----------------------------
(***************************************************************************)
(* Proofs about two structures of shared/: the array that may have gaps,   *)
(* and the hash map.                                                       *)
(***************************************************************************)
EXTENDS QueueOpsProofs, HashMap, FlexArray

-----------------------------------------------------------------------------
(***************************************************************************)
(* Their loops: each is a recursive function of the number of its rounds.  *)
(***************************************************************************)
Round(k, T, n, s) ==
    IF k = 1 THEN FillGap(s)
    ELSE IF k = 2 THEN Carry(s)
    ELSE IF k = 3 THEN MoveBack(s)
    ELSE SetAgain(s, T[n - 1])

\* The function u gives what b rounds of loop k make of x.
Runs(u, k, T, x, b) ==
    u = [n \in 0 .. b |-> IF n = 0 THEN x ELSE Round(k, T, n, u[n - 1])]

\* There is such a function, however many rounds there are.
LEMMA LoopRuns ==
  ASSUME NEW k, NEW T, NEW x, NEW b \in Nat PROVE \E u : Runs(u, k, T, x, b)
  <1> DEFINE S == {m \in Nat : ~ \E u : Runs(u, k, T, x, m)}
  <1> SUFFICES ASSUME S # {} PROVE FALSE
    OBVIOUS
  <1>0. S \in SUBSET Nat
    OBVIOUS
  <1>1. PICK m \in S : \A y \in S : m <= y
    BY <1>0, LeastNat
  <1>2. m \in Nat /\ ~ \E u : Runs(u, k, T, x, m)
    OBVIOUS
  <1>3. CASE m = 0
    <2> DEFINE u == [n \in 0 .. 0 |-> x]
    <2>1. Runs(u, k, T, x, 0)
      BY DEF Runs
    <2> QED
      BY <1>2, <1>3, <2>1
  <1>4. CASE m # 0
    <2>1. m - 1 \in Nat /\ m - 1 \notin S
      BY <1>1, <1>2, <1>4
    <2>2. PICK u : Runs(u, k, T, x, m - 1)
      BY <2>1
    <2> DEFINE J(w, n) == IF n = 0 THEN x ELSE Round(k, T, n, w[n - 1])
               v == [n \in 0 .. m |-> IF n = m THEN J(u, m) ELSE u[n]]
    <2>3. \A n \in 0 .. m - 1 : u[n] = J(u, n)
      BY <2>2 DEF Runs
    <2>4. ASSUME NEW n \in 0 .. m PROVE v[n] = J(v, n)
      <3>1. n # 0 => n - 1 \in 0 .. m /\ n - 1 # m
        BY <1>2
      <3>2. n # 0 => v[n - 1] = u[n - 1]
        BY <3>1
      <3>3. J(v, n) = J(u, n)
        <4> HIDE DEF v
        <4> QED
          BY <3>2
      <3>4. CASE n = m
        BY <3>3, <3>4
      <3>5. CASE n # m
        <4>1. n \in 0 .. m - 1
          BY <1>2, <3>5
        <4>2. v[n] = u[n]
          BY <3>5
        <4> QED
          BY <2>3, <3>3, <4>1, <4>2
      <3> QED
        BY <3>4, <3>5
    <2>5. v = [n \in 0 .. m |-> v[n]]
      OBVIOUS
    <2> HIDE DEF v
    <2>6. Runs(v, k, T, x, m)
      BY <2>4, <2>5, Zenon DEF Runs
    <2> QED
      BY <1>2, <2>6
  <1> QED
    BY <1>3, <1>4

-----------------------------------------------------------------------------
(***************************************************************************)
(* The array that may have gaps, for every capacity and set of elements.   *)
(***************************************************************************)

\* The array c of n cells.
Array(c, n) == n \in Nat /\ c = [i \in 0 .. n - 1 |-> c[i]]

\* The cells in use, what they hold in the order of their indexes, and
\* those of them that were written.
Filled(c) == {i \in DOMAIN c : ~c[i].empty}
Own(c) == {i \in DOMAIN c : Holds(c[i])}
Row(c) == [k \in 1 .. Size(c) |-> c[k - 1].value]
Places(c) == {k \in DOMAIN Row(c) : ~c[k - 1].empty}
OwnPlaces(c) == {k \in DOMAIN Row(c) : k - 1 \in Own(c)}
Elements(c) == Keep(Row(c), Places(c))
OwnElements(c) == Keep(Row(c), OwnPlaces(c))

\* No cell that nobody wrote lies before one that was written.
Front(c) == \A j \in Own(c), i \in Filled(c) \ Own(c) : j < i

LEMMA ArraySize ==
  ASSUME NEW c, NEW n, Array(c, n)
  PROVE  /\ n \in Nat /\ DOMAIN c = 0 .. n - 1 /\ Size(c) = n
         /\ IsFiniteSet(Filled(c))
         /\ IsFiniteSet(Own(c)) /\ Own(c) \in SUBSET (0 .. n - 1) /\ Own(c) \subseteq Filled(c)
  <1>1. n \in Nat /\ DOMAIN c = 0 .. n - 1
    BY DEF Array
  <1>2. IsFiniteSet(0 .. n - 1) /\ Cardinality(0 .. n - 1) = n
    BY <1>1, FS_Interval
  <1>3. /\ Filled(c) \in SUBSET (0 .. n - 1)
        /\ Own(c) \in SUBSET (0 .. n - 1) /\ Own(c) \subseteq Filled(c)
    BY <1>1 DEF Filled, Own, Holds
  <1> QED
    BY <1>1, <1>2, <1>3, FS_Subset DEF Size

LEMMA RowType ==
  ASSUME NEW c, NEW n, Array(c, n)
  PROVE  \E S : /\ Row(c) \in Seq(S) /\ Len(Row(c)) = n /\ DOMAIN Row(c) = 1 .. n
                /\ Places(c) \in SUBSET DOMAIN Row(c)
                /\ \A k \in 1 .. n : Row(c)[k] = c[k - 1].value
                /\ Places(c) = {k \in 1 .. n : ~c[k - 1].empty}
  <1> DEFINE S == {c[k - 1].value : k \in 1 .. n}
             r == Row(c)
  <1>1. n \in Nat /\ r = [k \in 1 .. n |-> c[k - 1].value]
    BY ArraySize DEF Row
  <1>2. \A k \in 1 .. n : r[k] = c[k - 1].value /\ r[k] \in S
    BY <1>1
  <1>3. r = [k \in 1 .. n |-> r[k]]
    BY <1>1
  <1> HIDE DEF r, S
  <1>4. r \in Seq(S) /\ Len(r) = n /\ DOMAIN r = 1 .. n
    BY <1>1, <1>2, <1>3
  <1> QED
    BY <1>2, <1>4 DEF Places, r

\* What was written, picked from what is in use.
LEMMA OwnIs ==
  ASSUME NEW c, NEW n, Array(c, n)
  PROVE  OwnElements(c) = Keep(Elements(c), Where(Elements(c), FlexValue))
  <1>1. PICK S : /\ Row(c) \in Seq(S) /\ Len(Row(c)) = n /\ DOMAIN Row(c) = 1 .. n
                 /\ Places(c) \in SUBSET DOMAIN Row(c)
                 /\ \A k \in 1 .. n : Row(c)[k] = c[k - 1].value
                 /\ Places(c) = {k \in 1 .. n : ~c[k - 1].empty}
    BY RowType
  <1>2. n \in Nat /\ DOMAIN c = 0 .. n - 1
    BY ArraySize
  <1>3. ASSUME NEW k PROVE k \in OwnPlaces(c) <=> k \in Places(c) \cap Where(Row(c), FlexValue)
    <2>1. k \in 1 .. n => k - 1 \in 0 .. n - 1
      BY <1>2
    <2> QED
      BY <1>1, <1>2, <2>1 DEF OwnPlaces, Own, Holds, Where
  <1>4. OwnPlaces(c) = Places(c) \cap Where(Row(c), FlexValue)
    BY <1>3, Zenon
  <1>5. Keep(Keep(Row(c), Places(c)), Where(Keep(Row(c), Places(c)), FlexValue))
           = Keep(Row(c), Places(c) \cap Where(Row(c), FlexValue))
    BY <1>1, KeepKept
  <1> QED
    BY <1>4, <1>5 DEF OwnElements, Elements

\* If none lies before them, the cells that were written are the first ones,
\* when those in use are.
LEMMA FrontFirst ==
  ASSUME NEW c, NEW n, Array(c, n), Front(c), NEW m \in Nat, Filled(c) = 0 .. m - 1
  PROVE  Own(c) = 0 .. Cardinality(Own(c)) - 1
  <1>1. /\ IsFiniteSet(Own(c)) /\ Own(c) \subseteq 0 .. m - 1
    BY ArraySize
  <1>2. PICK W, k : W = Own(c) /\ k = Cardinality(W) /\ k \in Nat
    <2>1. Cardinality(Own(c)) \in Nat
      BY <1>1, FS_CardinalityType
    <2> QED
      BY <2>1
  <1>3. IsFiniteSet(W) /\ W \subseteq 0 .. m - 1
    BY <1>1, <1>2
  <1>4. ASSUME NEW i \in W PROVE i \in 0 .. k - 1
    <2>1. i \in 0 .. m - 1 /\ i \in Nat
      BY <1>3
    <2>2. ASSUME NEW j \in 0 .. i PROVE j \in W
      <3>1. j \in Filled(c) /\ ~(i < j)
        BY <2>1
      <3> QED
        BY <1>2, <3>1 DEF Front
    <2>3. 0 .. i \in SUBSET W
      BY <2>2
    <2>4. Cardinality(0 .. i) = i + 1
      BY <2>1, FS_Interval
    <2>5. Cardinality(0 .. i) <= Cardinality(W)
      BY <1>3, <2>3, FS_Subset
    <2> QED
      BY <1>2, <2>1, <2>4, <2>5
  <1>5. W \in SUBSET (0 .. k - 1)
    BY <1>4
  <1>6. IsFiniteSet(0 .. k - 1) /\ Cardinality(0 .. k - 1) = k
    <2>1. k - 1 \in Int /\ 0 \in Int
      BY <1>2
    <2> QED
      BY <1>2, <2>1, FS_Interval
  <1>7. W = 0 .. k - 1
    BY <1>2, <1>5, <1>6, FS_Subset
  <1> QED
    BY <1>2, <1>7

\* An element moves to a gap before it: nothing that lies between the two is
\* in use, so the elements stay in their order.
Fills(c, d, n, i, g) ==
    /\ Array(c, n) /\ Array(d, n)
    /\ i \in 0 .. n - 1 /\ g \in 0 .. n - 1 /\ g < i
    /\ ~c[i].empty /\ \A j \in g .. i - 1 : c[j].empty
    /\ d[g] = c[i] /\ d[i].empty
    /\ \A j \in 0 .. n - 1 : j # g /\ j # i => d[j] = c[j]

LEMMA FillKeeps ==
  ASSUME NEW c, NEW d, NEW n, NEW i, NEW g, Fills(c, d, n, i, g)
  PROVE  /\ Elements(d) = Elements(c)
         /\ Filled(d) = (Filled(c) \ {i}) \cup {g}
         /\ Own(d) = IF i \in Own(c) THEN (Own(c) \ {i}) \cup {g} ELSE Own(c)
         /\ Front(c) => Front(d)
  <1>1. /\ Array(c, n) /\ Array(d, n) /\ n \in Nat
        /\ i \in 0 .. n - 1 /\ g \in 0 .. n - 1 /\ g < i
        /\ ~c[i].empty /\ \A j \in g .. i - 1 : c[j].empty
        /\ d[g] = c[i] /\ d[i].empty
        /\ \A j \in 0 .. n - 1 : j # g /\ j # i => d[j] = c[j]
    BY ArraySize DEF Fills
  <1>2. Filled(d) = (Filled(c) \ {i}) \cup {g}
    <2>1. DOMAIN c = 0 .. n - 1 /\ DOMAIN d = 0 .. n - 1
      BY <1>1, ArraySize
    <2> QED
      BY <1>1, <2>1 DEF Filled
  <1>16. Own(d) = IF i \in Own(c) THEN (Own(c) \ {i}) \cup {g} ELSE Own(c)
    <2>1. DOMAIN c = 0 .. n - 1 /\ DOMAIN d = 0 .. n - 1
      BY <1>1, ArraySize
    <2>2. g \in g .. i - 1 /\ i # g
      BY <1>1
    <2>3. g \notin Own(c) /\ i \notin Own(d) /\ (g \in Own(d) <=> i \in Own(c))
      BY <1>1, <2>1, <2>2 DEF Own, Holds
    <2>4. \A j : j # g /\ j # i => (j \in Own(d) <=> j \in Own(c))
      BY <1>1, <2>1 DEF Own
    <2> QED
      BY <2>3, <2>4
  <1>17. ASSUME Front(c) PROVE Front(d)
    <2>1. \A j \in g .. i - 1 : j \notin Filled(c)
      BY <1>1 DEF Filled
    <2>2. i \in Filled(c) /\ Filled(c) \subseteq 0 .. n - 1 /\ Own(c) \subseteq Filled(c)
      BY <1>1, ArraySize DEF Filled
    <2>3. ASSUME NEW j \in Own(d), NEW h \in Filled(d), h \notin Own(d) PROVE j < h
      <3>1. CASE j = g
        <4>1. i \in Own(c) /\ h \in Filled(c) /\ h \notin Own(c)
          BY <1>2, <1>16, <2>1, <2>2, <2>3, <3>1, <1>1
        <4>2. i < h
          BY <1>17, <4>1 DEF Front
        <4> QED
          BY <1>1, <2>2, <3>1, <4>1, <4>2
      <3>2. CASE j # g /\ h = g
        <4>1. j \in Own(c) /\ i \notin Own(c) /\ j \in 0 .. n - 1
          BY <1>16, <2>2, <2>3, <3>2
        <4>2. j < i
          BY <1>17, <2>2, <4>1 DEF Front
        <4>3. j \notin g .. i - 1
          BY <2>1, <2>2, <4>1
        <4> QED
          BY <1>1, <3>2, <4>1, <4>2, <4>3
      <3>3. CASE j # g /\ h # g
        <4>1. j \in Own(c) /\ h \in Filled(c) /\ h \notin Own(c)
          BY <1>2, <1>16, <2>3, <3>3
        <4> QED
          BY <1>17, <4>1 DEF Front
      <3> QED
        BY <3>1, <3>2, <3>3
    <2> QED
      BY <2>3 DEF Front
  <1> DEFINE q == Row(c)
             K == Places(c)
             r == Row(d)
             L == Places(d)
  <1>3. PICK S : /\ q \in Seq(S) /\ Len(q) = n /\ DOMAIN q = 1 .. n
                 /\ K \in SUBSET DOMAIN q
                 /\ \A k \in 1 .. n : q[k] = c[k - 1].value
                 /\ K = {k \in 1 .. n : ~c[k - 1].empty}
    BY <1>1, RowType
  <1>4. PICK T : /\ r \in Seq(T) /\ Len(r) = n /\ DOMAIN r = 1 .. n
                 /\ L \in SUBSET DOMAIN r
                 /\ \A k \in 1 .. n : r[k] = d[k - 1].value
                 /\ L = {k \in 1 .. n : ~d[k - 1].empty}
    BY <1>1, RowType
  <1> HIDE DEF q, K, r, L
  <1>5. Keep(q, K) \in Seq(S)
    BY <1>3, KeepFacts
  <1>6. PICK f \in [DOMAIN Keep(q, K) -> K] : ReadsInOrder(Keep(q, K), q, K, f)
    BY <1>3, KeepFacts
  <1> DEFINE m == Len(Keep(q, K))
             h == [j \in 1 .. m |-> IF f[j] = i + 1 THEN g + 1 ELSE f[j]]
  <1>7. m \in Nat /\ DOMAIN Keep(q, K) = 1 .. m
    BY <1>5
  <1>8. /\ \A j \in 1 .. m : f[j] \in K /\ Keep(q, K)[j] = q[f[j]]
        /\ \A a, b \in 1 .. m : a < b => f[a] < f[b]
        /\ \A k \in K : \E j \in 1 .. m : f[j] = k
    BY <1>6, <1>7 DEF ReadsInOrder
  <1>9. K \subseteq 1 .. n /\ L \subseteq 1 .. n
    BY <1>3, <1>4
  <1>10. L = (K \ {i + 1}) \cup {g + 1} /\ i + 1 \in K /\ \A k \in g + 1 .. i : k \notin K
    <2>1. ASSUME NEW k \in 1 .. n, k # i + 1, k # g + 1 PROVE k \in L <=> k \in K
      <3>1. k - 1 \in 0 .. n - 1 /\ k - 1 # i /\ k - 1 # g
        BY <1>1, <2>1
      <3> QED
        BY <1>1, <1>3, <1>4, <3>1
    <2>2. i + 1 \in 1 .. n /\ g + 1 \in 1 .. n /\ (i + 1) - 1 = i /\ (g + 1) - 1 = g
      BY <1>1
    <2>3. i + 1 \in K /\ i + 1 \notin L /\ g + 1 \in L
      BY <1>1, <1>3, <1>4, <2>2
    <2>4. ASSUME NEW k \in g + 1 .. i PROVE k \notin K
      <3>1. k - 1 \in g .. i - 1
        BY <1>1
      <3> QED
        BY <1>1, <1>3, <3>1
    <2> QED
      BY <1>9, <2>1, <2>2, <2>3, <2>4
  <1> HIDE DEF m
  <1>11. ListsInOrder(h, m, L)
    <2>1. \A j \in 1 .. m : h[j] = IF f[j] = i + 1 THEN g + 1 ELSE f[j]
      OBVIOUS
    <2>2. h \in [1 .. m -> L]
      BY <1>8, <1>10
    <2> HIDE DEF h
    <2>3. ASSUME NEW a \in 1 .. m, NEW b \in 1 .. m, a < b PROVE h[a] < h[b]
      <3>1. /\ f[a] < f[b] /\ f[a] \in K /\ f[b] \in K
            /\ f[a] \in 1 .. n /\ f[b] \in 1 .. n
            /\ f[a] \notin g + 1 .. i /\ f[b] \notin g + 1 .. i
        BY <1>8, <1>9, <1>10, <2>3
      <3> QED
        BY <1>1, <2>1, <3>1
    <2>4. ASSUME NEW k \in L PROVE \E j \in 1 .. m : h[j] = k
      <3>1. CASE k = g + 1
        <4>1. PICK j \in 1 .. m : f[j] = i + 1
          BY <1>8, <1>10
        <4> QED
          BY <2>1, <3>1, <4>1
      <3>2. CASE k # g + 1
        <4>1. k \in K /\ k # i + 1
          BY <1>10, <3>2
        <4>2. PICK j \in 1 .. m : f[j] = k
          BY <1>8, <4>1
        <4> QED
          BY <2>1, <4>1, <4>2
      <3> QED
        BY <3>1, <3>2
    <2> QED
      BY <2>2, <2>3, <2>4 DEF ListsInOrder
  <1>12. /\ Len(Keep(r, L)) = m
         /\ \A j \in 1 .. m : Keep(r, L)[j] = r[h[j]]
    <2> HIDE DEF h
    <2>1. L \in SUBSET DOMAIN r /\ r \in Seq(T) /\ m \in Nat
      BY <1>4, <1>7
    <2>2. Len(Keep(r, L)) = m
      BY <1>11, <2>1, KeepEnumerated
    <2>3. \A j \in 1 .. m : Keep(r, L)[j] = r[h[j]]
      BY <1>11, <2>1, KeepEnumerated
    <2> QED
      BY <2>2, <2>3
  <1>13. \A j \in 1 .. m : r[h[j]] = q[f[j]]
    <2> SUFFICES ASSUME NEW j \in 1 .. m PROVE r[h[j]] = q[f[j]]
      OBVIOUS
    <2>1. f[j] \in K /\ f[j] \in 1 .. n /\ h[j] = IF f[j] = i + 1 THEN g + 1 ELSE f[j]
      BY <1>8, <1>9
    <2> HIDE DEF h
    <2>2. CASE f[j] = i + 1
      <3>1. i + 1 \in 1 .. n /\ g + 1 \in 1 .. n /\ (i + 1) - 1 = i /\ (g + 1) - 1 = g
        BY <1>1
      <3>2. r[g + 1] = d[(g + 1) - 1].value /\ q[i + 1] = c[(i + 1) - 1].value
        BY <1>3, <1>4, <3>1
      <3> QED
        BY <1>1, <2>1, <2>2, <3>1, <3>2
    <2>3. CASE f[j] # i + 1
      <3>1. f[j] # g + 1
        BY <1>1, <1>10, <2>1
      <3>2. f[j] - 1 \in 0 .. n - 1 /\ f[j] - 1 # g /\ f[j] - 1 # i
        BY <1>1, <2>1, <2>3, <3>1
      <3>3. r[f[j]] = d[f[j] - 1].value /\ q[f[j]] = c[f[j] - 1].value
        BY <1>3, <1>4, <2>1
      <3> QED
        BY <1>1, <2>1, <2>3, <3>2, <3>3
    <2> QED
      BY <2>2, <2>3
  <1>14. Keep(r, L) \in Seq(T)
    BY <1>4, KeepType
  <1>15. Keep(r, L) = Keep(q, K)
    <2>1. Len(Keep(r, L)) = Len(Keep(q, K))
      BY <1>12 DEF m
    <2>2. \A j \in 1 .. Len(Keep(r, L)) : Keep(r, L)[j] = Keep(q, K)[j]
      BY <1>8, <1>12, <1>13
    <2> QED
      BY <1>5, <1>14, <2>1, <2>2, SameElements
  <1> QED
    BY <1>2, <1>15, <1>16, <1>17 DEF Elements, q, K, r, L

\* A cell moves: there are as many as before.
LEMMA OneMoved ==
  ASSUME NEW F, IsFiniteSet(F), NEW a \in F, NEW g, g \notin F
  PROVE  Cardinality((F \ {a}) \cup {g}) = Cardinality(F)
  <1>1. IsFiniteSet(F \ {a}) /\ Cardinality(F \ {a}) = Cardinality(F) - 1
    BY FS_RemoveElement
  <1>2. g \notin F \ {a}
    OBVIOUS
  <1>3. Cardinality((F \ {a}) \cup {g}) = Cardinality(F \ {a}) + 1
    BY <1>1, <1>2, FS_AddElement
  <1>4. Cardinality(F) \in Nat
    BY FS_CardinalityType
  <1> QED
    BY <1>1, <1>3, <1>4

\* The state of the loop of defragment, at index a of the array b of n cells:
\* the cells before the gap, or before the index if there is no gap, are in use
\* and those from the gap up to the index are not; the elements are those of c,
\* in their order.  G is where the gap is or may come to be.
Closing(b, a, p, c, n, G) ==
    /\ Array(b, n)
    /\ a \in 0 .. n /\ G \in 0 .. a
    /\ (p = -1 /\ G = a) \/ (p = G /\ G < a)
    /\ \A j \in 0 .. G - 1 : ~b[j].empty
    /\ \A j \in G .. a - 1 : b[j].empty
    /\ Elements(b) = Elements(c)
    /\ Cardinality(Filled(b)) = Cardinality(Filled(c))
    /\ Cardinality(Own(b)) = Cardinality(Own(c))
    /\ Front(c) => Front(b)

At(b, a, p) == [cells |-> b, at |-> a, gap |-> p]

\* How many rounds may be left.
Left(a, n, G) == (n - G) * (n + 1) + (n - a)

LEMMA OneLess == ASSUME NEW x \in Int, NEW y \in Int PROVE (x - 1) * y = x * y - y
  BY SMT

LEMMA LessLeft ==
  ASSUME NEW n \in Nat, NEW a \in 0 .. n, NEW G \in 0 .. n, G < n, NEW e \in 0 .. n, e > G
  PROVE  Left(e, n, G + 1) < Left(a, n, G)
  <1>1. PICK x \in Int : x = n - G /\ n - (G + 1) = x - 1
    OBVIOUS
  <1>2. PICK y \in Int : y = x * (n + 1)
    OBVIOUS
  <1>3. (x - 1) * (n + 1) = y - (n + 1)
    BY <1>2, OneLess
  <1>4. Left(a, n, G) = y + (n - a)
    BY <1>1, <1>2 DEF Left
  <1>5. Left(e, n, G + 1) = y - (n + 1) + (n - e)
    BY <1>1, <1>3 DEF Left
  <1> QED
    BY <1>2, <1>4, <1>5

LEMMA FillRound ==
  ASSUME NEW b, NEW a, NEW p, NEW c, NEW n, NEW G, Closing(b, a, p, c, n, G)
  PROVE  \E d, e, q, H : /\ FillGap(At(b, a, p)) = At(d, e, q)
                         /\ Closing(d, e, q, c, n, H)
                         /\ IF a = n THEN e = n ELSE Left(e, n, H) < Left(a, n, G)
  <1>1. /\ Array(b, n)
        /\ a \in 0 .. n /\ G \in 0 .. a
        /\ (p = -1 /\ G = a) \/ (p = G /\ G < a)
        /\ \A j \in 0 .. G - 1 : ~b[j].empty
        /\ \A j \in G .. a - 1 : b[j].empty
        /\ Elements(b) = Elements(c)
        /\ Cardinality(Filled(b)) = Cardinality(Filled(c))
        /\ Cardinality(Own(b)) = Cardinality(Own(c))
        /\ Front(c) => Front(b)
    BY DEF Closing
  <1>2. n \in Nat /\ DOMAIN b = 0 .. n - 1 /\ Size(b) = n
    BY <1>1, ArraySize
  <1> DEFINE s == At(b, a, p)
  <1>3. s.cells = b /\ s.at = a /\ s.gap = p /\ s = [cells |-> b, at |-> a, gap |-> p]
    BY DEF At
  <1> HIDE DEF s
  <1>4. CASE a = n
    <2>1. FillGap(s) = s
      <3>1. a >= n
        BY <1>2, <1>4
      <3> QED
        BY <1>2, <1>3, <3>1, Zenon DEF FillGap
    <2> QED
      BY <1>4, <2>1 DEF s
  <1>5. CASE a # n /\ b[a].empty
    <2>1. FillGap(s) = [s EXCEPT !.at = @ + 1, !.gap = IF @ = -1 THEN a ELSE @]
      BY <1>1, <1>2, <1>3, <1>5 DEF FillGap
    <2>2. a \in Nat /\ a + 1 \in 0 .. n /\ G < a + 1 /\ G \in 0 .. a + 1 /\ G \in 0 .. n
      BY <1>1, <1>2, <1>5
    <2>3. FillGap(s) = At(b, a + 1, G)
      <3>1. FillGap(s) = [cells |-> b, at |-> a + 1, gap |-> IF p = -1 THEN a ELSE p]
        BY <1>3, <2>1
      <3>2. (IF p = -1 THEN a ELSE p) = G
        BY <1>1, <1>2
      <3> QED
        BY <3>1, <3>2 DEF At
    <2>4. \A j \in G .. (a + 1) - 1 : b[j].empty
      BY <1>1, <1>2, <1>5, <2>2
    <2>5. Closing(b, a + 1, G, c, n, G)
      BY <1>1, <2>2, <2>4 DEF Closing
    <2>6. Left(a + 1, n, G) < Left(a, n, G)
      <3>1. PICK y \in Int : y = (n - G) * (n + 1)
        BY <1>2, <2>2
      <3> QED
        BY <1>2, <2>2, <3>1 DEF Left
    <2> QED
      BY <1>5, <2>3, <2>5, <2>6 DEF s
  <1>6. CASE a # n /\ ~b[a].empty /\ p = -1
    <2>1. FillGap(s) = [s EXCEPT !.at = @ + 1]
      BY <1>1, <1>2, <1>3, <1>6 DEF FillGap
    <2>2. a \in Nat /\ G = a /\ a + 1 \in 0 .. n /\ a + 1 \in 0 .. a + 1 /\ G < n
      BY <1>1, <1>2, <1>6
    <2>3. FillGap(s) = At(b, a + 1, -1)
      BY <1>3, <1>6, <2>1 DEF At
    <2>4. /\ \A j \in 0 .. (a + 1) - 1 : ~b[j].empty
          /\ \A j \in a + 1 .. (a + 1) - 1 : b[j].empty
      BY <1>1, <1>6, <2>2
    <2>5. Closing(b, a + 1, -1, c, n, a + 1)
      BY <1>1, <2>2, <2>4 DEF Closing
    <2>6. Left(a + 1, n, a + 1) < Left(a, n, a)
      BY <1>1, <1>2, <2>2, LessLeft
    <2> QED
      BY <1>6, <2>2, <2>3, <2>5, <2>6 DEF s
  <1>7. CASE a # n /\ ~b[a].empty /\ p # -1
    <2> DEFINE d == [b EXCEPT ![G] = b[a], ![a] = FreeCell]
    <2>1. a \in 0 .. n - 1 /\ p = G /\ G < a /\ G \in 0 .. n - 1 /\ G \in Nat /\ a < n
      BY <1>1, <1>2, <1>7
    <2>2. FillGap(s) = At(d, G + 1, -1)
      <3>1. ~(a >= n)
        BY <1>2, <2>1
      <3> QED
        BY <1>2, <1>3, <1>7, <2>1, <3>1, Zenon DEF FillGap, At
    <2>3. /\ d = [i \in 0 .. n - 1 |-> d[i]]
          /\ d[G] = b[a] /\ d[a] = FreeCell
          /\ \A j \in 0 .. n - 1 : j # G /\ j # a => d[j] = b[j]
      <3>1. G \in DOMAIN b /\ a \in DOMAIN b /\ G # a
        BY <1>2, <2>1
      <3>2. d = [i \in 0 .. n - 1 |-> d[i]]
        BY <1>2
      <3> QED
        BY <1>2, <3>1, <3>2
    <2> HIDE DEF d
    <2>4. Fills(b, d, n, a, G)
      <3>1. Array(d, n)
        BY <1>2, <2>3 DEF Array
      <3>2. d[a].empty
        BY <2>3 DEF FreeCell
      <3> QED
        BY <1>1, <1>7, <2>1, <2>3, <3>1, <3>2 DEF Fills
    <2>5. /\ Elements(d) = Elements(b)
          /\ Filled(d) = (Filled(b) \ {a}) \cup {G}
          /\ Own(d) = IF a \in Own(b) THEN (Own(b) \ {a}) \cup {G} ELSE Own(b)
          /\ Front(b) => Front(d)
      BY <2>4, FillKeeps
    <2>6. /\ Cardinality(Filled(d)) = Cardinality(Filled(b))
          /\ Cardinality(Own(d)) = Cardinality(Own(b))
      <3>1. IsFiniteSet(Filled(b)) /\ a \in Filled(b) /\ G \notin Filled(b)
        <4>1. IsFiniteSet(Filled(b))
          BY <1>1, ArraySize
        <4>2. G \in G .. a - 1
          BY <2>1
        <4> QED
          BY <1>1, <1>2, <1>7, <2>1, <4>1, <4>2 DEF Filled
      <3>2. IsFiniteSet(Own(b)) /\ G \notin Own(b)
        BY <1>1, <3>1, ArraySize
      <3> QED
        BY <2>5, <3>1, <3>2, OneMoved
    <2>7. /\ G + 1 \in 0 .. n /\ G + 1 \in 0 .. G + 1
          /\ \A j \in 0 .. (G + 1) - 1 : ~d[j].empty
          /\ \A j \in G + 1 .. (G + 1) - 1 : d[j].empty
      <3>1. ASSUME NEW j \in 0 .. (G + 1) - 1 PROVE ~d[j].empty
        <4>1. CASE j = G
          BY <1>7, <2>3, <4>1
        <4>2. CASE j # G
          <5>1. j \in 0 .. G - 1 /\ j # a /\ j \in 0 .. n - 1
            BY <1>2, <2>1, <4>2
          <5> QED
            BY <1>1, <2>3, <4>2, <5>1
        <4> QED
          BY <4>1, <4>2
      <3> QED
        BY <1>2, <2>1, <3>1
    <2>8. Closing(d, G + 1, -1, c, n, G + 1)
      <3>1. Array(d, n)
        BY <1>2, <2>3 DEF Array
      <3> QED
        BY <1>1, <2>1, <2>5, <2>6, <2>7, <3>1 DEF Closing
    <2>9. Left(G + 1, n, G + 1) < Left(a, n, G)
      BY <1>1, <1>2, <2>1, <2>7, LessLeft
    <2> QED
      BY <1>7, <2>2, <2>8, <2>9 DEF s
  <1> QED
    BY <1>4, <1>5, <1>6, <1>7

\* The function u gives the states of the loop of defragment.
FillRuns(u, c, m) ==
    /\ u[0] = At(c, 0, -1)
    /\ \A k \in 1 .. m : u[k] = FillGap(u[k - 1])
    /\ Defragmented(c) = u[m].cells

LEMMA FilledRuns ==
  ASSUME NEW c, FillRounds(c) \in Nat PROVE \E u : FillRuns(u, c, FillRounds(c))
  <1> DEFINE x == [cells |-> c, at |-> 0, gap |-> -1]
             m == FillRounds(c)
             u == CHOOSE v : v = [k \in 0 .. m |-> IF k = 0 THEN x ELSE FillGap(v[k - 1])]
  <1> HIDE DEF x, m
  <1>1. m \in Nat
    BY DEF m
  <1>2. \E v : v = [k \in 0 .. m |-> IF k = 0 THEN x ELSE FillGap(v[k - 1])]
    <2>1. PICK w : Runs(w, 1, c, x, m)
      BY <1>1, LoopRuns
    <2>2. w = [k \in 0 .. m |-> IF k = 0 THEN x ELSE FillGap(w[k - 1])]
      BY <2>1 DEF Runs, Round
    <2> QED
      BY <2>2
  <1>3. u = [k \in 0 .. m |-> IF k = 0 THEN x ELSE FillGap(u[k - 1])]
    BY <1>2
  <1>4. Defragmented(c) = u[m].cells
    BY DEF Defragmented, x, m
  <1> HIDE DEF u
  <1>5. u[0] = x /\ \A k \in 1 .. m : u[k] = FillGap(u[k - 1])
    BY <1>1, <1>3
  <1> QED
    BY <1>4, <1>5 DEF x, m, FillRuns, At

\* What the loop of defragment leaves: the elements in their order, at the
\* first indexes.
LEMMA DefragmentCloses ==
  ASSUME NEW c, NEW n, Array(c, n)
  PROVE  /\ Array(Defragmented(c), n)
         /\ Elements(Defragmented(c)) = Elements(c)
         /\ Filled(Defragmented(c)) = 0 .. Cardinality(Filled(c)) - 1
         /\ OwnElements(Defragmented(c)) = OwnElements(c)
         /\ Cardinality(Own(Defragmented(c))) = Cardinality(Own(c))
         /\ Front(c) => Own(Defragmented(c)) = 0 .. Cardinality(Own(c)) - 1
  <1> DEFINE m == FillRounds(c)
  <1>1. n \in Nat /\ Size(c) = n /\ m = (n + 1) * (n + 1) /\ m \in Nat
    <2>1. n \in Nat /\ Size(c) = n
      BY ArraySize
    <2>2. (n + 1) * (n + 1) \in Nat
      BY <2>1
    <2> QED
      BY <2>1, <2>2 DEF FillRounds
  <1>2. PICK u : FillRuns(u, c, m)
    BY <1>1, FilledRuns
  <1> HIDE DEF m
  <1>3. Defragmented(c) = u[m].cells
    BY <1>2 DEF FillRuns
  <1>4. u[0] = At(c, 0, -1) /\ \A k \in 1 .. m : u[k] = FillGap(u[k - 1])
    BY <1>2 DEF FillRuns
  <1> DEFINE Fine(k) ==
               \E b, a, p, G : /\ u[k] = At(b, a, p) /\ Closing(b, a, p, c, n, G)
                               /\ a = n \/ Left(a, n, G) + k < m
             Bad == {k \in Nat : k \in 0 .. m /\ ~Fine(k)}
  <1>5. Bad = {}
    <2> SUFFICES ASSUME Bad # {} PROVE FALSE
      OBVIOUS
    <2>0. Bad \in SUBSET Nat
      OBVIOUS
    <2>1. PICK k \in Bad : \A y \in Bad : k <= y
      BY <2>0, LeastNat
    <2>2. k \in Nat /\ k \in 0 .. m /\ ~Fine(k)
      OBVIOUS
    <2>3. CASE k = 0
      <3>2. Closing(c, 0, -1, c, n, 0)
        BY <1>1 DEF Closing
      <3>3. Left(0, n, 0) + 0 < m
        <4>1. PICK y \in Nat : y = n * (n + 1)
          BY <1>1
        <4>2. (n + 1) * (n + 1) = y + (n + 1)
          <5>1. n = (n + 1) - 1
            BY <1>1
          <5>2. ((n + 1) - 1) * (n + 1) = (n + 1) * (n + 1) - (n + 1)
            BY <1>1, OneLess
          <5>3. (n + 1) * (n + 1) \in Int
            BY <1>1
          <5> QED
            BY <1>1, <4>1, <5>1, <5>2, <5>3
        <4>3. Left(0, n, 0) = y + n
          BY <1>1, <4>1 DEF Left
        <4> QED
          BY <1>1, <4>2, <4>3
      <3> QED
        BY <1>4, <2>2, <2>3, <3>2, <3>3
    <2>4. CASE k # 0
      <3>1. k - 1 \in 0 .. m /\ k - 1 \in Nat /\ k - 1 \notin Bad /\ k \in 1 .. m
        BY <1>1, <2>1, <2>2, <2>4
      <3>2. PICK b, a, p, G : /\ u[k - 1] = At(b, a, p) /\ Closing(b, a, p, c, n, G)
                              /\ a = n \/ Left(a, n, G) + (k - 1) < m
        BY <3>1
      <3>3. u[k] = FillGap(u[k - 1])
        BY <1>4, <3>1
      <3>4. PICK d, e, q, H :
                /\ FillGap(At(b, a, p)) = At(d, e, q)
                /\ Closing(d, e, q, c, n, H)
                /\ IF a = n THEN e = n ELSE Left(e, n, H) < Left(a, n, G)
        BY <3>2, FillRound
      <3>5. u[k] = At(d, e, q)
        BY <3>2, <3>3, <3>4
      <3>6. e = n \/ Left(e, n, H) + k < m
        <4>1. Left(e, n, H) \in Int /\ Left(a, n, G) \in Int
          <5>1. a \in Int /\ e \in Int /\ G \in Int /\ H \in Int
            BY <1>1, <3>2, <3>4 DEF Closing
          <5>2. (n - G) * (n + 1) \in Int /\ (n - H) * (n + 1) \in Int
            BY <1>1, <5>1
          <5> QED
            BY <1>1, <5>1, <5>2 DEF Left
        <4> QED
          BY <1>1, <2>2, <3>2, <3>4, <4>1
      <3> QED
        BY <2>2, <3>4, <3>5, <3>6
    <2> QED
      BY <2>3, <2>4
  <1>6. Fine(m)
    <2>1. m \in 0 .. m
      BY <1>1
    <2> QED
      BY <1>1, <1>5, <2>1
  <1>7. PICK r, a, p, G : /\ u[m] = At(r, a, p) /\ Closing(r, a, p, c, n, G)
                          /\ a = n \/ Left(a, n, G) + m < m
    BY <1>6
  <1>8. G \in 0 .. n /\ a \in 0 .. n
    BY <1>1, <1>7 DEF Closing
  <1>9. a = n
    <2>1. (n - G) * (n + 1) \in Nat
      <3>1. n - G \in Nat
        BY <1>1, <1>8
      <3> QED
        BY <1>1, <3>1
    <2>2. Left(a, n, G) \in Nat
      BY <1>1, <1>8, <2>1 DEF Left
    <2> QED
      BY <1>1, <1>7, <2>2
  <1>10. /\ Array(r, n) /\ Elements(r) = Elements(c)
         /\ Cardinality(Filled(r)) = Cardinality(Filled(c))
         /\ \A j \in 0 .. G - 1 : ~r[j].empty
         /\ \A j \in G .. n - 1 : r[j].empty
         /\ Cardinality(Own(r)) = Cardinality(Own(c))
         /\ Front(c) => Front(r)
    BY <1>7, <1>9 DEF Closing
  <1>13. Defragmented(c) = r
    BY <1>3, <1>7 DEF At
  <1>11. Filled(r) = 0 .. G - 1
    <2>1. DOMAIN r = 0 .. n - 1
      BY <1>10, ArraySize
    <2> QED
      BY <1>1, <1>8, <1>10, <2>1 DEF Filled
  <1>12. Cardinality(Filled(r)) = G
    BY <1>8, <1>11, FS_Interval
  <1>14. OwnElements(r) = OwnElements(c)
    <2>1. OwnElements(r) = Keep(Elements(r), Where(Elements(r), FlexValue))
      BY <1>10, OwnIs
    <2>2. OwnElements(c) = Keep(Elements(c), Where(Elements(c), FlexValue))
      BY OwnIs
    <2> QED
      BY <1>10, <2>1, <2>2
  <1>15. Front(r) => Own(r) = 0 .. Cardinality(Own(r)) - 1
    <2>1. G \in Nat
      BY <1>8
    <2> QED
      BY <1>10, <1>11, <2>1, FrontFirst
  <1> QED
    BY <1>10, <1>11, <1>12, <1>13, <1>14, <1>15

\* Where two rows agree, the same is kept of them.
LEMMA KeepSame ==
  ASSUME NEW n \in Nat, NEW K \in SUBSET (1 .. n), NEW q, NEW r, \A k \in K : q[k] = r[k]
  PROVE  Keep(q, K) = Keep(r, K)
  <1>1. \A j \in 1 .. Cardinality(K) : \E i \in K : Rank(K, i) = j
    BY RankFacts
  <1> DEFINE w(j) == CHOOSE i \in K : Rank(K, i) = j
  <1>2. \A j \in 1 .. Cardinality(K) : w(j) \in K
    BY <1>1
  <1>3. /\ Keep(q, K) = [j \in 1 .. Cardinality(K) |-> q[w(j)]]
        /\ Keep(r, K) = [j \in 1 .. Cardinality(K) |-> r[w(j)]]
    BY DEF Keep
  <1> HIDE DEF w
  <1> QED
    BY <1>2, <1>3

\* The array c whose elements are counted by k, and lie at its first indexes
\* unless it calls itself fragmented.
Tidy(c, k, frag) ==
    /\ Array(c, Size(c)) /\ k \in Nat /\ frag \in BOOLEAN
    /\ Cardinality(Own(c)) = k
    /\ ~frag => Own(c) = 0 .. k - 1

\* An array that has not outgrown its first capacity has no entry that nobody
\* wrote.
Whole(c) ==
    /\ Array(c, Size(c)) /\ Size(c) >= FlexCapacity
    /\ Size(c) = FlexCapacity => Filled(c) = Own(c)

Counted == Tidy(cells, next_index, fragmented) /\ flexOccupied = next_index

FlexInv ==
    /\ Whole(cells) /\ fragmented \in BOOLEAN
    /\ flexStatus # "misled" => Counted

LEMMA CapacityIs == FlexCapacity \in Nat /\ FlexCapacity > 0 /\ NoFlexValue \notin FlexValue
  BY FlexArrayAssumption DEF FlexArrayAssumption

\* An array that grows has the elements it had, whatever it gains.
LEMMA GrownKeeps ==
  ASSUME NEW c, Whole(c), NEW i \in Nat, NEW d \in GrownFor(c, i)
  PROVE  \E m : Array(d, m) /\ i \in 0 .. m - 1 /\ Own(d) = Own(c) /\ Whole(d)
  <1>1. PICK n \in Nat : n = Size(c) /\ DOMAIN c = 0 .. n - 1 /\ Array(c, n)
    BY ArraySize DEF Whole
  <1>2. CASE i < n
    BY <1>1, <1>2 DEF GrownFor
  <1>3. CASE ~(i < n)
    <2>1. PICK m \in Nat : m = i + 1 + (19 * n) \div 10
      <3>1. (19 * n) \div 10 \in Nat
        BY <1>1
      <3> QED
        BY <3>1
    <2>2. m > i /\ n < m
      <3>1. (19 * n) \div 10 \in Nat
        BY <1>1
      <3> QED
        BY <1>1, <1>3, <2>1, <3>1
    <2>3. PICK flags \in [n .. m - 1 -> StaleEmpty] :
            d = [j \in 0 .. m - 1 |-> IF j < n THEN c[j]
                                      ELSE [empty |-> flags[j], value |-> NoFlexValue]]
      BY <1>1, <1>3, <2>1, ZenonT(30) DEF GrownFor
    <2>4. \A j \in 0 .. n - 1 : d[j] = c[j]
      BY <1>1, <2>2, <2>3
    <2>5. ASSUME NEW j \in n .. m - 1 PROVE ~Holds(d[j])
      <3>1. j \in 0 .. m - 1 /\ ~(j < n)
        BY <1>1
      <3>2. d[j] = [empty |-> flags[j], value |-> NoFlexValue]
        BY <2>3, <3>1
      <3> QED
        BY <3>2, CapacityIs DEF Holds
    <2>6. d = [j \in 0 .. m - 1 |-> d[j]] /\ DOMAIN d = 0 .. m - 1
      BY <2>3
    <2>7. ASSUME NEW j PROVE j \in Own(d) <=> j \in Own(c)
      <3>1. j \in 0 .. m - 1 <=> j \in 0 .. n - 1 \/ j \in n .. m - 1
        BY <1>1, <2>2
      <3> QED
        BY <1>1, <2>4, <2>5, <2>6, <3>1 DEF Own
    <2>8. Own(d) = Own(c)
      BY <2>7, Zenon
    <2>9. Array(d, m) /\ i \in 0 .. m - 1
      BY <2>1, <2>2, <2>6 DEF Array
    <2>10. Whole(d)
      <3>1. Size(d) = m
        BY <2>9, ArraySize
      <3> QED
        BY <1>1, <2>2, <2>9, <3>1, CapacityIs DEF Whole
    <2> QED
      BY <2>8, <2>9, <2>10
  <1> QED
    BY <1>2, <1>3

\* A cell is filled, or emptied.
LEMMA CellFilled ==
  ASSUME NEW c, NEW n, Array(c, n), NEW i \in 0 .. n - 1, NEW v \in FlexValue
  PROVE  /\ Array([c EXCEPT ![i] = FullCell(v)], n)
         /\ Filled([c EXCEPT ![i] = FullCell(v)]) = Filled(c) \cup {i}
         /\ Own([c EXCEPT ![i] = FullCell(v)]) = Own(c) \cup {i}
  <1>1. n \in Nat /\ DOMAIN c = 0 .. n - 1 /\ c = [j \in 0 .. n - 1 |-> c[j]]
    BY ArraySize DEF Array
  <1> DEFINE d == [c EXCEPT ![i] = FullCell(v)]
  <1>2. /\ d = [j \in 0 .. n - 1 |-> d[j]] /\ d[i] = FullCell(v)
        /\ \A j \in 0 .. n - 1 : j # i => d[j] = c[j]
    BY <1>1
  <1> HIDE DEF d
  <1>3. ~d[i].empty /\ Holds(d[i])
    BY <1>2 DEF FullCell, Holds
  <1>4. DOMAIN d = 0 .. n - 1
    BY <1>2
  <1> QED
    BY <1>1, <1>2, <1>3, <1>4 DEF Array, Filled, Own, d

LEMMA CellEmptied ==
  ASSUME NEW c, NEW n, Array(c, n), NEW i \in 0 .. n - 1
  PROVE  /\ Array([c EXCEPT ![i] = FreeCell], n)
         /\ Filled([c EXCEPT ![i] = FreeCell]) = Filled(c) \ {i}
         /\ Own([c EXCEPT ![i] = FreeCell]) = Own(c) \ {i}
         /\ \A j \in 0 .. n - 1 : j # i => [c EXCEPT ![i] = FreeCell][j] = c[j]
  <1>1. n \in Nat /\ DOMAIN c = 0 .. n - 1 /\ c = [j \in 0 .. n - 1 |-> c[j]]
    BY ArraySize DEF Array
  <1> DEFINE d == [c EXCEPT ![i] = FreeCell]
  <1>2. /\ d = [j \in 0 .. n - 1 |-> d[j]] /\ d[i] = FreeCell
        /\ \A j \in 0 .. n - 1 : j # i => d[j] = c[j]
    BY <1>1
  <1> HIDE DEF d
  <1>3. d[i].empty /\ ~Holds(d[i])
    BY <1>2 DEF FreeCell, Holds
  <1>4. DOMAIN d = 0 .. n - 1
    BY <1>2
  <1> QED
    BY <1>1, <1>2, <1>3, <1>4 DEF Array, Filled, Own, d

LEMMA TidyArray ==
  ASSUME NEW c, NEW k, NEW frag, Tidy(c, k, frag)
  PROVE  \E n \in Nat : /\ Array(c, n) /\ Size(c) = n /\ DOMAIN c = 0 .. n - 1
                        /\ IsFiniteSet(Own(c)) /\ Own(c) \subseteq 0 .. n - 1
                        /\ k \in Nat /\ Cardinality(Own(c)) = k
                        /\ ~frag => Own(c) = 0 .. k - 1
  BY ArraySize DEF Tidy

LEMMA ArrayTidy ==
  ASSUME NEW c, NEW n, Array(c, n), NEW k \in Nat, Cardinality(Own(c)) = k,
         NEW frag \in BOOLEAN, ~frag => Own(c) = 0 .. k - 1
  PROVE  Tidy(c, k, frag)
  BY ArraySize DEF Tidy

\* A push, and a write to a cell that was not in use.
LEMMA TidyFilled ==
  ASSUME NEW d, NEW m, Array(d, m), NEW i \in 0 .. m - 1, i \notin Own(d), NEW v \in FlexValue,
         NEW k \in Nat, Cardinality(Own(d)) = k, IsFiniteSet(Own(d)),
         NEW frag \in BOOLEAN, ~frag => Own(d) = 0 .. k - 1
  PROVE  Tidy([d EXCEPT ![i] = FullCell(v)], k + 1, frag \/ i # k)
  <1> DEFINE e == [d EXCEPT ![i] = FullCell(v)]
  <1>1. Array(e, m) /\ Own(e) = Own(d) \cup {i}
    BY CellFilled
  <1> HIDE DEF e
  <1>2. Cardinality(Own(e)) = k + 1
    BY <1>1, FS_AddElement
  <1>3. ~(frag \/ i # k) => Own(e) = 0 .. (k + 1) - 1
    BY <1>1
  <1> QED
    <2> DEFINE f == frag \/ i # k
    <2>1. f \in BOOLEAN /\ (~f => Own(e) = 0 .. (k + 1) - 1) /\ k + 1 \in Nat
      BY <1>3
    <2> HIDE DEF f
    <2>2. Tidy(e, k + 1, f)
      BY <1>1, <1>2, <2>1, ArrayTidy
    <2> QED
      BY <2>2 DEF e, f

\* A pop, and a removal.
LEMMA TidyEmptied ==
  ASSUME NEW c, NEW k, NEW frag \in BOOLEAN, Tidy(c, k, frag), NEW i \in Own(c)
  PROVE  Tidy([c EXCEPT ![i] = FreeCell], k - 1, frag \/ i # k - 1)
  <1>1. PICK n \in Nat : /\ Array(c, n) /\ Size(c) = n /\ DOMAIN c = 0 .. n - 1
                         /\ IsFiniteSet(Own(c)) /\ Own(c) \subseteq 0 .. n - 1
                         /\ k \in Nat /\ Cardinality(Own(c)) = k
                         /\ ~frag => Own(c) = 0 .. k - 1
    BY TidyArray
  <1> DEFINE e == [c EXCEPT ![i] = FreeCell]
  <1>2. Array(e, n) /\ Own(e) = Own(c) \ {i}
    <2>1. i \in 0 .. n - 1
      BY <1>1
    <2> QED
      BY <1>1, <2>1, CellEmptied
  <1> HIDE DEF e
  <1>3. IsFiniteSet(Own(e)) /\ Cardinality(Own(e)) = k - 1
    <2>1. PICK F : F = Own(c)
      OBVIOUS
    <2>2. IsFiniteSet(F) /\ i \in F /\ Cardinality(F) = k
      BY <1>1, <2>1
    <2>3. IsFiniteSet(F \ {i}) /\ Cardinality(F \ {i}) = Cardinality(F) - 1
      BY <2>2, FS_RemoveElement
    <2> QED
      BY <1>2, <2>1, <2>2, <2>3
  <1>4. k - 1 \in Nat
    BY <1>1, <1>3, FS_CardinalityType
  <1>5. ~(frag \/ i # k - 1) => Own(e) = 0 .. (k - 1) - 1
    BY <1>1, <1>2, <1>4
  <1> QED
    BY <1>2, <1>3, <1>4, <1>5, ArrayTidy DEF e

\* A whole array stays whole.
LEMMA WholeFilled ==
  ASSUME NEW d, NEW m, Whole(d), Array(d, m), NEW i \in 0 .. m - 1, NEW v \in FlexValue
  PROVE  Whole([d EXCEPT ![i] = FullCell(v)]) /\ Size([d EXCEPT ![i] = FullCell(v)]) = Size(d)
  <1> DEFINE e == [d EXCEPT ![i] = FullCell(v)]
  <1>1. Array(e, m) /\ Filled(e) = Filled(d) \cup {i} /\ Own(e) = Own(d) \cup {i}
    BY CellFilled, ZenonT(60)
  <1> HIDE DEF e
  <1>2. Size(e) = m /\ Size(d) = m
    BY <1>1, ArraySize
  <1>3. Whole(e) /\ Size(e) = Size(d)
    BY <1>1, <1>2 DEF Whole
  <1> QED
    BY <1>3 DEF e

LEMMA WholeEmptied ==
  ASSUME NEW d, Whole(d), NEW i \in Filled(d)
  PROVE  Whole([d EXCEPT ![i] = FreeCell]) /\ Size([d EXCEPT ![i] = FreeCell]) = Size(d)
  <1> DEFINE e == [d EXCEPT ![i] = FreeCell]
  <1>1. PICK m : m = Size(d) /\ Array(d, m) /\ i \in 0 .. m - 1
    BY ArraySize DEF Whole, Filled
  <1>2. Array(e, m) /\ Filled(e) = Filled(d) \ {i} /\ Own(e) = Own(d) \ {i}
    BY <1>1, CellEmptied
  <1> HIDE DEF e
  <1>3. Size(e) = m
    BY <1>2, ArraySize
  <1>4. Whole(e) /\ Size(e) = Size(d)
    BY <1>1, <1>2, <1>3 DEF Whole
  <1> QED
    BY <1>4 DEF e

LEMMA WholeDefragmented ==
  ASSUME NEW c, Whole(c)
  PROVE  /\ Whole(Defragmented(c)) /\ Size(Defragmented(c)) = Size(c)
         /\ OwnElements(Defragmented(c)) = OwnElements(c)
  <1>1. PICK n : n = Size(c) /\ Array(c, n)
    BY DEF Whole
  <1>2. /\ Array(Defragmented(c), n)
        /\ OwnElements(Defragmented(c)) = OwnElements(c)
        /\ Filled(Defragmented(c)) = 0 .. Cardinality(Filled(c)) - 1
        /\ Front(c) => Own(Defragmented(c)) = 0 .. Cardinality(Own(c)) - 1
    BY <1>1, DefragmentCloses
  <1>3. Size(Defragmented(c)) = n
    BY <1>2, ArraySize
  <1>4. Filled(c) = Own(c) => Front(c)
    BY DEF Front
  <1> QED
    BY <1>1, <1>2, <1>3, <1>4 DEF Whole

\* Without gaps, the elements come first.
LEMMA TidyDefragmented ==
  ASSUME NEW c, NEW k, NEW frag, Tidy(c, k, frag), Front(c)
  PROVE  Tidy(Defragmented(c), k, FALSE)
  <1>1. PICK n \in Nat : Array(c, n) /\ k \in Nat /\ Cardinality(Own(c)) = k
    BY TidyArray
  <1>2. Array(Defragmented(c), n) /\ Own(Defragmented(c)) = 0 .. k - 1
    BY <1>1, DefragmentCloses
  <1>3. Cardinality(0 .. k - 1) = k
    BY <1>1, FS_Interval
  <1> QED
    BY <1>1, <1>2, <1>3, ArrayTidy

LEMMA GaplessFront ==
  ASSUME NEW c, NEW k, Tidy(c, k, FALSE)
  PROVE  Front(c) /\ Front([c EXCEPT ![0] = FreeCell])
  <1>1. PICK n \in Nat : /\ Array(c, n) /\ k \in Nat /\ Own(c) = 0 .. k - 1
                         /\ Own(c) \subseteq 0 .. n - 1
    BY TidyArray
  <1>2. Filled(c) \subseteq 0 .. n - 1
    BY <1>1, ArraySize DEF Filled
  <1>3. Front(c)
    BY <1>1, <1>2 DEF Front
  <1>4. CASE n > 0
    <2>0. 0 \in 0 .. n - 1
      BY <1>4
    <2>1. /\ Filled([c EXCEPT ![0] = FreeCell]) = Filled(c) \ {0}
          /\ Own([c EXCEPT ![0] = FreeCell]) = Own(c) \ {0}
      BY <1>1, <2>0, CellEmptied
    <2> QED
      BY <1>1, <1>2, <1>3, <2>1 DEF Front
  <1>5. CASE ~(n > 0)
    <2>1. DOMAIN c = 0 .. n - 1 /\ 0 \notin DOMAIN c
      BY <1>1, <1>5, ArraySize
    <2>2. Filled([c EXCEPT ![0] = FreeCell]) = {} /\ Own([c EXCEPT ![0] = FreeCell]) = {}
      BY <1>5, <2>1 DEF Filled, Own
    <2> QED
      BY <1>3, <2>2 DEF Front
  <1> QED
    BY <1>3, <1>4, <1>5

\* What a shift takes, and what it leaves.
LEMMA FirstGone ==
  ASSUME NEW c, NEW k, Tidy(c, k, FALSE), k > 0
  PROVE  /\ 0 \in Own(c)
         /\ c[0].value = OwnElements(c)[1]
         /\ OwnElements([c EXCEPT ![0] = FreeCell]) = Tail(OwnElements(c))
  <1>1. PICK n \in Nat : /\ Array(c, n) /\ Size(c) = n /\ DOMAIN c = 0 .. n - 1
                         /\ Own(c) \subseteq 0 .. n - 1
                         /\ k \in Nat /\ Own(c) = 0 .. k - 1
    BY TidyArray
  <1>2. 0 \in Own(c) /\ 0 \in 0 .. n - 1
    BY <1>1
  <1> DEFINE e == [c EXCEPT ![0] = FreeCell]
             q == Row(c)
             K == OwnPlaces(c)
             r == Row(e)
             L == OwnPlaces(e)
  <1>3. /\ Array(e, n) /\ Own(e) = Own(c) \ {0}
        /\ \A j \in 0 .. n - 1 : j # 0 => e[j] = c[j]
    BY <1>1, <1>2, CellEmptied
  <1> HIDE DEF e
  <1>4. PICK S : /\ q \in Seq(S) /\ DOMAIN q = 1 .. n
                 /\ \A x \in 1 .. n : q[x] = c[x - 1].value
    BY <1>1, RowType
  <1>5. PICK T : /\ r \in Seq(T) /\ DOMAIN r = 1 .. n
                 /\ \A x \in 1 .. n : r[x] = e[x - 1].value
    BY <1>3, RowType
  <1>6. K = {x \in 1 .. n : x - 1 \in Own(c)} /\ L = {x \in 1 .. n : x - 1 \in Own(e)}
    BY <1>4, <1>5 DEF OwnPlaces
  <1> HIDE DEF q, K, r, L
  <1>7. 1 \in 1 .. n /\ 1 \in K /\ \A x \in K : 1 <= x
    BY <1>2, <1>6
  <1>8. L = K \ {1} /\ \A x \in L : r[x] = q[x]
    <2>1. L = K \ {1}
      BY <1>3, <1>6
    <2>2. ASSUME NEW x \in L PROVE r[x] = q[x]
      <3>1. x \in 1 .. n /\ x # 1
        BY <1>6, <2>1
      <3>2. x - 1 \in 0 .. n - 1 /\ x - 1 # 0
        BY <3>1
      <3> QED
        BY <1>3, <1>4, <1>5, <3>1, <3>2
    <2> QED
      BY <2>1, <2>2
  <1>9. /\ Keep(q, K)[1] = q[1]
        /\ Keep(q, K \ {1}) = Tail(Keep(q, K))
    <2>1. q \in Seq(S) /\ K \in SUBSET DOMAIN q
      BY <1>4, <1>6
    <2>2. 1 \in K /\ \A j \in K : 1 <= j
      BY <1>7
    <2> QED
      BY <2>1, <2>2, KeepTail
  <1>10. Keep(r, L) = Keep(q, L)
    <2>1. L \in SUBSET (1 .. n)
      BY <1>6
    <2> QED
      BY <1>1, <1>8, <2>1, KeepSame
  <1>11. q[1] = c[0].value
    BY <1>4, <1>7
  <1> QED
    BY <1>2, <1>8, <1>9, <1>10, <1>11 DEF OwnElements, q, K, r, L, e

\* What a step of the array keeps, and what it may do to the elements.
FlexStepIs ==
    /\ flexStatus' = "misled" => Size(cells') > FlexCapacity
    /\ FlexDefragment => OwnElements(cells') = OwnElements(cells)
    /\ FlexShift /\ flexStatus' = "ok" => /\ flexReply' = OwnElements(cells)[1]
                                          /\ OwnElements(cells') = Tail(OwnElements(cells))

LEMMA SqueezedIs == Squeezed = OwnElements(cells) /\ Written = Own(cells)
  BY DEF Squeezed, OwnElements, Row, OwnPlaces, Written, Own

LEMMA NextSqueezedIs == Squeezed' = OwnElements(cells') /\ Written' = Own(cells')
  BY DEF Squeezed, OwnElements, Row, OwnPlaces, Written, Own, Size

\* An entry nobody wrote is only in an array that has grown.
LEMMA GrownOnly ==
  ASSUME NEW c, Whole(c), NEW i \in DOMAIN c, NeverWritten(c[i])
  PROVE  Size(c) > FlexCapacity
  <1>1. i \in Filled(c) /\ i \notin Own(c)
    BY DEF Filled, Own, Holds, NeverWritten
  <1>2. Size(c) # FlexCapacity /\ Size(c) >= FlexCapacity /\ Size(c) \in Nat
    BY <1>1, ArraySize DEF Whole
  <1> QED
    BY <1>2, CapacityIs

LEMMA NoneFree ==
  ASSUME NEW n \in Nat, NEW c, c = [i \in 0 .. n - 1 |-> FreeCell]
  PROVE  /\ Array(c, n) /\ Size(c) = n /\ Filled(c) = {} /\ Own(c) = {}
         /\ Tidy(c, 0, FALSE)
  <1>1. Array(c, n) /\ Filled(c) = {} /\ Own(c) = {}
    BY DEF Array, Filled, Own, Holds, FreeCell
  <1>2. Cardinality(Own(c)) = 0 /\ Own(c) = 0 .. 0 - 1
    BY <1>1, FS_EmptySet
  <1> QED
    BY <1>1, <1>2, ArraySize, ArrayTidy

LEMMA InitTidy == ASSUME FlexInit PROVE FlexInv
  <1>1. /\ cells = [i \in 0 .. FlexCapacity - 1 |-> FreeCell]
        /\ next_index = 0 /\ flexOccupied = 0 /\ fragmented = FALSE
    BY DEF FlexInit
  <1>2. /\ Array(cells, FlexCapacity) /\ Size(cells) = FlexCapacity
        /\ Filled(cells) = {} /\ Own(cells) = {} /\ Tidy(cells, 0, FALSE)
    BY <1>1, CapacityIs, NoneFree
  <1>3. Whole(cells)
    BY <1>2, CapacityIs DEF Whole
  <1>4. Counted
    BY <1>1, <1>2, Zenon DEF Counted
  <1> QED
    BY <1>1, <1>3, <1>4 DEF FlexInv

LEMMA SetAtTidy ==
  ASSUME FlexInv, NEW i \in Nat, NEW v \in FlexValue, FlexSetAt(i, v)
  PROVE  FlexInv' /\ (flexStatus' = "misled" => Size(cells') > FlexCapacity)
  <1>0. Whole(cells) /\ fragmented \in BOOLEAN /\ Counted
    BY DEF FlexInv, FlexSetAt, FlexOk
  <1>1. Tidy(cells, next_index, fragmented) /\ flexOccupied = next_index
    BY <1>0 DEF Counted
  <1>2. /\ IsFiniteSet(Own(cells))
        /\ next_index \in Nat /\ Cardinality(Own(cells)) = next_index
        /\ ~fragmented => Own(cells) = 0 .. next_index - 1
    BY <1>1, TidyArray
  <1>4. PICK c \in GrownFor(cells, i) :
           /\ cells' = [c EXCEPT ![i] = FullCell(v)]
           /\ IF c[i].empty
              THEN /\ fragmented' = (fragmented \/ i # next_index)
                   /\ flexOccupied' = flexOccupied + 1
                   /\ next_index' = next_index + 1
              ELSE UNCHANGED <<fragmented, flexOccupied, next_index>>
           /\ flexStatus' = Misled(NeverWritten(c[i]))
    BY DEF FlexSetAt
  <1>5. PICK m : Array(c, m) /\ i \in 0 .. m - 1 /\ Own(c) = Own(cells) /\ Whole(c)
    BY <1>0, GrownKeeps
  <1>6. DOMAIN c = 0 .. m - 1
    BY <1>5, ArraySize
  <1>7. Whole(cells') /\ Size(cells') = Size(c)
    BY <1>4, <1>5, WholeFilled
  <1>8. Array(cells', m) /\ Own(cells') = Own(c) \cup {i}
    <2>1. /\ Array([c EXCEPT ![i] = FullCell(v)], m)
          /\ Own([c EXCEPT ![i] = FullCell(v)]) = Own(c) \cup {i}
      <3>1. Array(c, m) /\ i \in 0 .. m - 1
        BY <1>5
      <3> QED
        BY <3>1, CellFilled
    <2> QED
      BY <1>4, <2>1
  <1>9. flexStatus' = "misled" => Size(cells') > FlexCapacity
    BY <1>4, <1>5, <1>6, <1>7, GrownOnly DEF Misled
  <1>10. CASE c[i].empty
    <2>1. i \notin Own(c)
      BY <1>10 DEF Own, Holds
    <2>2. Tidy([c EXCEPT ![i] = FullCell(v)], next_index + 1, fragmented \/ i # next_index)
      BY <1>0, <1>2, <1>5, <2>1, TidyFilled
    <2>3. Tidy(cells', next_index', fragmented') /\ flexOccupied' = next_index'
      BY <1>1, <1>4, <1>10, <2>2
    <2>4. fragmented' \in BOOLEAN
      BY <2>3 DEF Tidy
    <2> QED
      BY <1>7, <1>9, <2>3, <2>4 DEF FlexInv, Counted
  <1>11. CASE ~c[i].empty
    <2>1. UNCHANGED <<fragmented, flexOccupied, next_index>>
      BY <1>4, <1>11
    <2>2. ASSUME flexStatus' # "misled" PROVE Counted'
      <3>1. i \in Own(c)
        <4>1. ~NeverWritten(c[i])
          BY <1>4, <2>2 DEF Misled
        <4> QED
          BY <1>5, <1>6, <1>11, <4>1 DEF Own, Holds, NeverWritten
      <3>2. Own(cells') = Own(cells)
        BY <1>5, <1>8, <3>1
      <3>3. Tidy(cells', next_index, fragmented)
        BY <1>0, <1>2, <1>8, <3>2, ArrayTidy
      <3> QED
        BY <1>1, <2>1, <3>3 DEF Counted
    <2> QED
      BY <1>0, <1>7, <1>9, <2>1, <2>2 DEF FlexInv
  <1> QED
    BY <1>10, <1>11

LEMMA PushTidy ==
  ASSUME FlexInv, NEW v \in FlexValue, FlexPush(v), ~fragmented
  PROVE  FlexInv' /\ flexStatus' = "ok"
  <1>0. Whole(cells) /\ Counted /\ fragmented = FALSE
    BY DEF FlexInv, FlexPush, FlexOk
  <1>1. Tidy(cells, next_index, fragmented) /\ flexOccupied = next_index
    BY <1>0 DEF Counted
  <1>2. /\ IsFiniteSet(Own(cells))
        /\ next_index \in Nat /\ Cardinality(Own(cells)) = next_index
        /\ Own(cells) = 0 .. next_index - 1
    BY <1>0, <1>1, TidyArray
  <1>4. /\ fragmented' = fragmented /\ flexStatus' = flexStatus /\ flexStatus = "ok"
        /\ flexOccupied' = flexOccupied + 1 /\ next_index' = next_index + 1
    BY DEF FlexPush, FlexOk
  <1>5. PICK c \in GrownFor(cells, next_index) :
            cells' = [c EXCEPT ![next_index] = FullCell(v)]
    BY DEF FlexPush
  <1>6. PICK m : /\ Array(c, m) /\ next_index \in 0 .. m - 1 /\ Own(c) = Own(cells)
                 /\ Whole(c)
    BY <1>0, <1>2, <1>5, GrownKeeps
  <1>7. next_index \notin Own(c)
    BY <1>2, <1>6
  <1>8. Tidy([c EXCEPT ![next_index] = FullCell(v)], next_index + 1,
             FALSE \/ next_index # next_index)
    BY <1>2, <1>6, <1>7, TidyFilled
  <1>9. Tidy(cells', next_index', fragmented')
    BY <1>0, <1>4, <1>5, <1>8
  <1>10. Whole(cells')
    BY <1>5, <1>6, WholeFilled
  <1> QED
    BY <1>0, <1>1, <1>4, <1>9, <1>10 DEF FlexInv, Counted

LEMMA PopTidy ==
  ASSUME FlexInv, FlexPop, ~fragmented
  PROVE  FlexInv' /\ flexStatus' = "ok"
  <1>0. Whole(cells) /\ Counted /\ fragmented = FALSE
    BY DEF FlexInv, FlexPop, FlexOk
  <1>1. Tidy(cells, next_index, fragmented) /\ flexOccupied = next_index
    BY <1>0 DEF Counted
  <1>2. next_index \in Nat /\ Own(cells) = 0 .. next_index - 1
    BY <1>0, <1>1 DEF Tidy
  <1>3. fragmented' = fragmented /\ next_index > 0 /\ flexStatus' = flexStatus /\ flexStatus = "ok"
    BY DEF FlexPop, FlexOk
  <1>4. next_index - 1 \in Own(cells)
    BY <1>2, <1>3
  <1>5. ~cells[next_index - 1].empty /\ next_index - 1 \in Filled(cells)
    BY <1>4 DEF Own, Filled, Holds
  <1>6. /\ cells' = [cells EXCEPT ![next_index - 1] = FreeCell]
        /\ flexOccupied' = flexOccupied - 1 /\ next_index' = next_index - 1
    BY <1>5 DEF FlexPop
  <1>7. Tidy(cells', next_index - 1, FALSE \/ next_index - 1 # next_index - 1)
    BY <1>0, <1>1, <1>2, <1>4, <1>6, TidyEmptied
  <1>8. Whole(cells')
    BY <1>0, <1>5, <1>6, WholeEmptied
  <1> QED
    BY <1>0, <1>1, <1>2, <1>3, <1>6, <1>7, <1>8 DEF FlexInv, Counted

LEMMA RemoveAtTidy ==
  ASSUME FlexInv, NEW i \in Nat, FlexRemoveAt(i)
  PROVE  FlexInv' /\ (flexStatus' = "misled" => Size(cells') > FlexCapacity)
  <1>0. Whole(cells) /\ Counted /\ fragmented \in BOOLEAN
    BY DEF FlexInv, FlexRemoveAt, FlexOk
  <1>1. Tidy(cells, next_index, fragmented) /\ flexOccupied = next_index
    BY <1>0 DEF Counted
  <1>3. PICK n \in Nat : Size(cells) = n /\ DOMAIN cells = 0 .. n - 1
    BY <1>1, TidyArray
  <1>4. i \in Filled(cells) /\ i \in DOMAIN cells /\ ~cells[i].empty
    BY <1>3 DEF FlexRemoveAt, Filled
  <1>5. /\ cells' = [cells EXCEPT ![i] = FreeCell]
        /\ fragmented' = (fragmented \/ i # next_index - 1)
        /\ next_index' = next_index - 1 /\ flexOccupied' = flexOccupied - 1
        /\ flexStatus' = Misled(NeverWritten(cells[i]))
    BY DEF FlexRemoveAt, LeavesGap
  <1>6. Whole(cells') /\ Size(cells') = Size(cells)
    BY <1>0, <1>4, <1>5, WholeEmptied
  <1>7. flexStatus' = "misled" => Size(cells') > FlexCapacity
    BY <1>0, <1>4, <1>5, <1>6, GrownOnly DEF Misled
  <1>8. ASSUME flexStatus' # "misled" PROVE Counted'
    <2>1. i \in Own(cells)
      BY <1>4, <1>5, <1>8 DEF Own, Holds, NeverWritten, Misled
    <2>2. Tidy([cells EXCEPT ![i] = FreeCell], next_index - 1, fragmented \/ i # next_index - 1)
      BY <1>0, <1>1, <2>1, TidyEmptied
    <2> QED
      BY <1>1, <1>5, <2>2 DEF Counted
  <1>9. fragmented' \in BOOLEAN
    BY <1>5
  <1> QED
    BY <1>6, <1>7, <1>8, <1>9 DEF FlexInv

LEMMA DefragmentTidy ==
  ASSUME FlexInv, FlexDefragment
  PROVE  /\ FlexInv' /\ (flexStatus' = "misled" => Size(cells') > FlexCapacity)
         /\ OwnElements(cells') = OwnElements(cells)
  <1> DEFINE Chance == \E i, j \in DOMAIN cells :
                          i < j /\ NeverWritten(cells[i]) /\ Holds(cells[j])
  <1>0. Whole(cells) /\ Counted
    BY DEF FlexInv, FlexDefragment, FlexOk
  <1>1. Tidy(cells, next_index, fragmented) /\ flexOccupied = next_index
    BY <1>0 DEF Counted
  <1>2. /\ cells' = Defragmented(cells) /\ next_index' = flexOccupied
        /\ fragmented' = FALSE /\ flexOccupied' = flexOccupied
        /\ flexStatus' = Misled(Chance)
    BY DEF FlexDefragment
  <1>3. /\ Whole(cells') /\ Size(cells') = Size(cells)
        /\ OwnElements(cells') = OwnElements(cells)
    BY <1>0, <1>2, WholeDefragmented
  <1>4. Chance => Size(cells) > FlexCapacity
    BY <1>0, GrownOnly
  <1>5. ASSUME ~Chance PROVE Front(cells)
    <2>1. PICK n : DOMAIN cells = 0 .. n - 1 /\ n \in Nat
      BY <1>1, TidyArray
    <2>2. ASSUME NEW j \in Own(cells), NEW i \in Filled(cells), i \notin Own(cells)
          PROVE  j < i
      <3>1. /\ i \in DOMAIN cells /\ j \in DOMAIN cells /\ i # j
            /\ NeverWritten(cells[i]) /\ Holds(cells[j])
        BY <2>2 DEF Own, Filled, Holds, NeverWritten
      <3>2. ~(i < j)
        BY <1>5, <3>1
      <3> QED
        BY <2>1, <3>1, <3>2
    <2> QED
      BY <2>2 DEF Front
  <1> HIDE DEF Chance
  <1>6. ASSUME flexStatus' # "misled" PROVE Counted'
    <2>1. ~Chance
      BY <1>2, <1>6 DEF Misled
    <2>2. Tidy(Defragmented(cells), next_index, FALSE)
      BY <1>1, <1>5, <2>1, TidyDefragmented
    <2> QED
      BY <1>1, <1>2, <2>2 DEF Counted
  <1>7. flexStatus' = "misled" => Size(cells') > FlexCapacity
    BY <1>2, <1>3, <1>4 DEF Misled
  <1> QED
    BY <1>2, <1>3, <1>6, <1>7 DEF FlexInv

LEMMA ShiftTidy ==
  ASSUME FlexInv, FlexShift, ~fragmented
  PROVE  /\ FlexInv' /\ flexStatus' = "ok"
         /\ flexReply' = OwnElements(cells)[1]
         /\ OwnElements(cells') = Tail(OwnElements(cells))
  <1> DEFINE c == [cells EXCEPT ![0] = FreeCell]
  <1>0. Whole(cells) /\ Counted /\ fragmented = FALSE
    BY DEF FlexInv, FlexShift, FlexOk
  <1>1. Tidy(cells, next_index, FALSE) /\ flexOccupied = next_index
    BY <1>0 DEF Counted
  <1>2. next_index \in Nat
    BY <1>1 DEF Tidy
  <1>3. /\ next_index > 0 /\ fragmented' = fragmented /\ flexReply' = cells[0].value
        /\ flexStatus' = flexStatus /\ flexStatus = "ok"
    BY DEF FlexShift, FlexOk
  <1>4. /\ 0 \in Own(cells)
        /\ cells[0].value = OwnElements(cells)[1]
        /\ OwnElements(c) = Tail(OwnElements(cells))
    BY <1>1, <1>2, <1>3, FirstGone
  <1>5. ~cells[0].empty /\ 0 \in Filled(cells)
    BY <1>4 DEF Own, Filled, Holds
  <1>6. flexOccupied' = flexOccupied - 1 /\ next_index' = flexOccupied' /\ cells' = Defragmented(c)
    BY <1>5 DEF FlexShift
  <1>7. Tidy(c, next_index - 1, FALSE \/ 0 # next_index - 1) /\ Front(c)
    BY <1>1, <1>4, TidyEmptied, GaplessFront
  <1>8. Whole(c)
    BY <1>0, <1>5, WholeEmptied
  <1> HIDE DEF c
  <1>9. Tidy(Defragmented(c), next_index - 1, FALSE)
    BY <1>7, TidyDefragmented
  <1>10. Whole(Defragmented(c)) /\ OwnElements(Defragmented(c)) = OwnElements(c)
    BY <1>8, WholeDefragmented
  <1> QED
    BY <1>0, <1>1, <1>3, <1>4, <1>6, <1>9, <1>10 DEF FlexInv, Counted

LEMMA ResetTidy ==
  ASSUME FlexInv, FlexReset PROVE FlexInv' /\ flexStatus' = "ok"
  <1>1. PICK n : DOMAIN cells = 0 .. n - 1 /\ n \in Nat /\ Size(cells) = n
    BY ArraySize DEF FlexInv, Whole
  <1>2. /\ cells' = [i \in 0 .. n - 1 |-> FreeCell] /\ flexStatus' = "ok"
        /\ next_index' = 0 /\ flexOccupied' = 0 /\ fragmented' = FALSE
    BY <1>1 DEF FlexReset
  <1>3. /\ Array(cells', n) /\ Size(cells') = n /\ Filled(cells') = {} /\ Own(cells') = {}
        /\ Tidy(cells', 0, FALSE)
    BY <1>1, <1>2, NoneFree
  <1>4. Whole(cells')
    BY <1>1, <1>3 DEF Whole, FlexInv
  <1> QED
    BY <1>2, <1>3, <1>4 DEF FlexInv, Counted

\* The array is the same, and not misled unless it was.
LEMMA SameTidy ==
  ASSUME FlexInv, UNCHANGED <<cells, flexOccupied, next_index, fragmented>>,
         flexStatus = "misled" => flexStatus' = "misled"
  PROVE  FlexInv'
  <1>1. /\ cells' = cells /\ flexOccupied' = flexOccupied
        /\ next_index' = next_index /\ fragmented' = fragmented
    OBVIOUS
  <1>2. Whole(cells') /\ fragmented' \in BOOLEAN
    BY <1>1 DEF FlexInv
  <1>3. Counted => Tidy(cells', next_index', fragmented') /\ flexOccupied' = next_index'
    BY <1>1 DEF Counted
  <1> QED
    BY <1>2, <1>3 DEF FlexInv, Counted

LEMMA FlexStep ==
  ASSUME FlexInv, FlexNext
  PROVE  FlexInv' /\ FlexStepIs
  <1>0. Size(cells) \in Nat
    BY ArraySize DEF FlexInv, Whole
  <1> DEFINE Grown == flexStatus' = "misled" => Size(cells') > FlexCapacity
  <1>1. ASSUME FlexShift, flexStatus' = "ok"
        PROVE  /\ flexReply' = OwnElements(cells)[1]
               /\ OwnElements(cells') = Tail(OwnElements(cells))
    <2>1. ~fragmented
      BY <1>1 DEF FlexShift, FlexPanics
    <2> QED
      BY <1>1, <2>1, ShiftTidy
  <1>2. ASSUME FlexPanics, FlexOk PROVE FlexInv' /\ Grown
    BY <1>2, SameTidy DEF FlexPanics, FlexOk
  <1>3. ASSUME NEW v \in FlexValue, FlexPush(v) PROVE FlexInv' /\ Grown
    <2>1. CASE fragmented
      BY <1>2, <1>3, <2>1 DEF FlexPush
    <2>2. CASE ~fragmented
      BY <1>3, <2>2, PushTidy
    <2> QED
      BY <2>1, <2>2
  <1>4. ASSUME NEW v \in FlexValue, NEW i \in 0 .. Size(cells), FlexSetAt(i, v)
        PROVE  FlexInv' /\ Grown
    <2>1. i \in Nat
      BY <1>0
    <2> QED
      BY <1>4, <2>1, SetAtTidy
  <1>5. ASSUME FlexPop PROVE FlexInv' /\ Grown
    <2>1. CASE fragmented
      BY <1>2, <1>5, <2>1 DEF FlexPop
    <2>2. CASE ~fragmented
      BY <1>5, <2>2, PopTidy
    <2> QED
      BY <2>1, <2>2
  <1>6. ASSUME FlexShift PROVE FlexInv' /\ Grown
    <2>1. CASE fragmented
      BY <1>2, <1>6, <2>1 DEF FlexShift
    <2>2. CASE ~fragmented
      BY <1>6, <2>2, ShiftTidy
    <2> QED
      BY <2>1, <2>2
  <1>7. ASSUME FlexDefragment PROVE FlexInv' /\ Grown
    BY <1>7, DefragmentTidy
  <1>8. ASSUME FlexReset PROVE FlexInv' /\ Grown
    BY <1>8, ResetTidy
  <1>9. ASSUME NEW i \in 0 .. Size(cells), FlexRemoveAt(i) PROVE FlexInv' /\ Grown
    <2>1. i \in Nat
      BY <1>0
    <2> QED
      BY <1>9, <2>1, RemoveAtTidy
  <1>10. ASSUME NEW i \in 0 .. Size(cells), FlexGetAt(i) PROVE FlexInv' /\ Grown
    <2>1. FlexOk /\ (FlexPanics \/ UNCHANGED <<cells, flexOccupied, next_index, fragmented,
                                               flexStatus>>)
      BY <1>10 DEF FlexGetAt
    <2>2. CASE FlexPanics
      BY <1>2, <2>1, <2>2
    <2>3. CASE UNCHANGED <<cells, flexOccupied, next_index, fragmented, flexStatus>>
      BY <2>1, <2>3, SameTidy DEF FlexOk
    <2> QED
      BY <2>1, <2>2, <2>3
  <1>11. ASSUME FlexHalted PROVE FlexInv' /\ Grown
    BY <1>11, SameTidy DEF FlexHalted, flexVars
  <1>12. FlexInv' /\ Grown
    <2> HIDE DEF Grown
    <2> QED
      BY <1>3, <1>4, <1>5, <1>6, <1>7, <1>8, <1>9, <1>10, <1>11 DEF FlexNext
  <1>13. FlexDefragment => OwnElements(cells') = OwnElements(cells)
    BY DefragmentTidy
  <1> QED
    BY <1>1, <1>12, <1>13 DEF FlexStepIs

\* Unless it was misled, an array that does not call itself fragmented has no
\* gap, after any mix of calls and whatever the cells it grew by held; closing
\* gaps keeps every element, in order, and a shift takes the first one only;
\* and an array that never outgrows its first capacity is never misled.
THEOREM GapsClose == FlexSpec => GapsCloseInOrder
  <1> DEFINE G == /\ flexStatus' # "misled" => /\ next_index' = Cardinality(Written')
                                               /\ ~fragmented' => Written' = 0 .. next_index' - 1
                  /\ flexStatus' = "misled" => Size(cells') > FlexCapacity
                  /\ FlexDefragment => Squeezed' = Squeezed
                  /\ FlexShift /\ flexStatus' = "ok" => /\ flexReply' = Squeezed[1]
                                                        /\ Squeezed' = Tail(Squeezed)
  <1>1. FlexInit => FlexInv
    BY InitTidy
  <1>2. FlexInv /\ [FlexNext]_flexVars => FlexInv' /\ [G]_flexVars
    <2> SUFFICES ASSUME FlexInv, [FlexNext]_flexVars PROVE FlexInv' /\ [G]_flexVars
      OBVIOUS
    <2>1. CASE UNCHANGED flexVars
      BY <2>1, SameTidy DEF flexVars
    <2>2. CASE FlexNext
      <3>1. FlexInv' /\ FlexStepIs
        BY <2>2, FlexStep
      <3>2. ASSUME flexStatus' # "misled"
            PROVE  /\ next_index' = Cardinality(Own(cells'))
                   /\ ~fragmented' => Own(cells') = 0 .. next_index' - 1
        <4>1. Counted'
          BY <3>1, <3>2 DEF FlexInv
        <4>2. Tidy(cells', next_index', fragmented')
          BY <4>1 DEF Counted
        <4> QED
          BY <4>2 DEF Tidy
      <3>3. Squeezed = OwnElements(cells) /\ Written = Own(cells)
        BY SqueezedIs
      <3>4. Squeezed' = OwnElements(cells') /\ Written' = Own(cells')
        BY NextSqueezedIs
      <3> QED
        BY <3>1, <3>2, <3>3, <3>4 DEF FlexStepIs
    <2> QED
      BY <2>1, <2>2
  <1>3. FlexSpec => [][G]_flexVars
    BY <1>1, <1>2, PTL DEF FlexSpec
  <1> QED
    BY <1>3 DEF GapsCloseInOrder

-----------------------------------------------------------------------------
(***************************************************************************)
(* The slots of a table, which go around.                                  *)
(***************************************************************************)
\* x is q times around n slots, and r slots more.
Around(x, n, q, r) ==
    n \in Nat /\ n >= 2 /\ x \in Int /\ q \in Int /\ r \in 0 .. n - 1 /\ x = n * q + r

LEMMA ModOf ==
  ASSUME NEW n \in Nat, n >= 2, NEW x \in Int
  PROVE  \E q, r : Around(x, n, q, r) /\ x % n = r
  <1>1. x \div n \in Int
    BY SMT
  <1>2. x % n \in 0 .. n - 1
    BY SMT
  <1>3. x = n * (x \div n) + (x % n)
    BY SMT
  <1> QED
    BY <1>1, <1>2, <1>3 DEF Around

LEMMA ModIs ==
  ASSUME NEW x, NEW n, NEW q, NEW r, Around(x, n, q, r) PROVE x % n = r
  <1>0. n \in Nat /\ n >= 2 /\ x \in Int /\ q \in Int /\ r \in 0 .. n - 1 /\ x = n * q + r
    BY DEF Around
  <1>1. PICK d, y : Around(x, n, d, y) /\ x % n = y
    BY <1>0, ModOf
  <1>2. d \in Int /\ y \in 0 .. n - 1 /\ x = n * d + y
    BY <1>1 DEF Around
  <1>3. PICK a \in Int, b \in Int : a = n * q /\ b = n * d /\ a - b = y - r
    BY <1>0, <1>2
  <1>4. q <= d - 1 => n * q <= n * (d - 1)
    BY <1>0, <1>2, SMT
  <1>5. d <= q - 1 => n * d <= n * (q - 1)
    BY <1>0, <1>2, SMT
  <1>6. n * (d - 1) = b - n /\ n * (q - 1) = a - n
    BY <1>0, <1>2, <1>3, SMT
  <1>7. ~(q <= d - 1) /\ ~(d <= q - 1)
    BY <1>0, <1>2, <1>3, <1>4, <1>5, <1>6
  <1>8. q = d
    BY <1>0, <1>2, <1>7
  <1> QED
    BY <1>0, <1>1, <1>2, <1>3, <1>8

\* Slot i of n slots, and the one behind it.
LEMMA NextSlot ==
  ASSUME NEW n \in Nat, n >= 2, NEW i \in 0 .. n - 1
  PROVE  /\ (i + 1) % n = IF i = n - 1 THEN 0 ELSE i + 1
         /\ (i + 1) % n \in 0 .. n - 1 /\ (i + 1) % n # i
  <1>1. CASE i = n - 1
    <2>1. Around(i + 1, n, 1, 0)
      BY <1>1 DEF Around
    <2>2. (i + 1) % n = 0
      BY <2>1, ModIs
    <2> QED
      BY <1>1, <2>2
  <1>2. CASE i # n - 1
    <2>1. Around(i + 1, n, 0, i + 1)
      BY <1>2 DEF Around
    <2>2. (i + 1) % n = i + 1
      BY <2>1, ModIs
    <2> QED
      BY <1>2, <2>1, <2>2
  <1> QED
    BY <1>1, <1>2

LEMMA OneFurther ==
  ASSUME NEW n \in Nat, n >= 2, NEW x \in Int
  PROVE  (x + 1) % n = ((x % n) + 1) % n
  <1>0. PICK q, r : Around(x, n, q, r) /\ x % n = r
    BY ModOf
  <1>1. q \in Int /\ r \in 0 .. n - 1 /\ x = n * q + r
    BY <1>0 DEF Around
  <1>2. PICK a \in Int : a = n * q
    BY <1>1
  <1>3. CASE r = n - 1
    <2>1. n * (q + 1) = a + n
      BY <1>1, <1>2, SMT
    <2>2. x + 1 = n * (q + 1) + 0
      BY <1>1, <1>2, <1>3, <2>1
    <2>3. Around(x + 1, n, q + 1, 0)
      BY <1>1, <2>2 DEF Around
    <2>4. (x + 1) % n = 0
      BY <2>3, ModIs
    <2> QED
      BY <1>0, <1>1, <1>3, <2>4, NextSlot
  <1>4. CASE r # n - 1
    <2>1. Around(x + 1, n, q, r + 1)
      BY <1>1, <1>2, <1>4 DEF Around
    <2>2. (x + 1) % n = r + 1
      BY <2>1, ModIs
    <2> QED
      BY <1>0, <1>1, <1>4, <2>2, NextSlot
  <1> QED
    BY <1>3, <1>4

LEMMA OneBack ==
  ASSUME NEW n \in Nat, n >= 2, NEW x \in Int, x % n # 0
  PROVE  (x - 1) % n = (x % n) - 1
  <1>0. PICK q, r : Around(x, n, q, r) /\ x % n = r
    BY ModOf
  <1>1. q \in Int /\ r \in 0 .. n - 1 /\ x = n * q + r /\ r # 0
    BY <1>0 DEF Around
  <1>2. PICK a \in Int : a = n * q
    BY <1>1
  <1>3. Around(x - 1, n, q, r - 1)
    BY <1>1, <1>2 DEF Around
  <1>4. (x - 1) % n = r - 1
    BY <1>3, ModIs
  <1> QED
    BY <1>0, <1>4

\* Slot i is the one d slots behind home k.
Behind(n, k, d, i) ==
    /\ n \in Nat /\ n >= 2 /\ k \in Int /\ d \in 0 .. n - 1 /\ i \in 0 .. n - 1
    /\ (k + d) % n = i

LEMMA Distance ==
  ASSUME NEW n, NEW k, NEW d, NEW i, Behind(n, k, d, i) PROVE (i - k) % n = d
  <1>0. /\ n \in Nat /\ n >= 2 /\ k \in Int /\ d \in 0 .. n - 1 /\ i \in 0 .. n - 1
        /\ k + d \in Int /\ (k + d) % n = i
    BY DEF Behind
  <1>1. PICK q, y : Around(k + d, n, q, y) /\ (k + d) % n = y
    BY <1>0, ModOf
  <1>2. q \in Int /\ k + d = n * q + i
    BY <1>0, <1>1 DEF Around
  <1>3. PICK b \in Int : b = n * q /\ n * (-q) = -b
    BY <1>0, <1>2, SMT
  <1>4. i - k = n * (-q) + d
    BY <1>0, <1>2, <1>3
  <1>5. Around(i - k, n, -q, d)
    BY <1>0, <1>2, <1>4 DEF Around
  <1> QED
    BY <1>5, ModIs

LEMMA SameSlot ==
  ASSUME NEW n, NEW k, NEW c, NEW d, NEW i, Behind(n, k, c, i), Behind(n, k, d, i) PROVE c = d
  <1>1. (i - k) % n = c
    BY Distance
  <1>2. (i - k) % n = d
    BY Distance
  <1> QED
    BY <1>1, <1>2

\* Every slot is behind every home, and so is the home, once around.
LEMMA EveryBehind ==
  ASSUME NEW n \in Nat, n >= 2, NEW k \in Int, NEW i \in 0 .. n - 1
  PROVE  \E d \in 0 .. n - 1 : Behind(n, k, d, i)
  <1>1. i - k \in Int
    OBVIOUS
  <1>2. PICK q, r : Around(i - k, n, q, r)
    BY <1>1, ModOf
  <1>3. q \in Int /\ r \in 0 .. n - 1 /\ i - k = n * q + r
    BY <1>2 DEF Around
  <1>4. PICK a \in Int : a = n * q /\ n * (-q) = -a
    BY <1>3, SMT
  <1>5. k + r = n * (-q) + i
    BY <1>3, <1>4
  <1>6. Around(k + r, n, -q, i)
    BY <1>3, <1>5 DEF Around
  <1>7. (k + r) % n = i
    BY <1>6, ModIs
  <1> QED
    BY <1>3, <1>7 DEF Behind

LEMMA OnceAround ==
  ASSUME NEW n \in Nat, n >= 2, NEW k \in Int PROVE (k + n) % n = k % n
  <1>1. PICK q, r : Around(k, n, q, r) /\ k % n = r
    BY ModOf
  <1>2. q \in Int /\ r \in 0 .. n - 1 /\ k = n * q + r
    BY <1>1 DEF Around
  <1>3. PICK a \in Int : a = n * q /\ n * (q + 1) = a + n
    BY <1>2, SMT
  <1>4. k + n = n * (q + 1) + r
    BY <1>2, <1>3
  <1>5. Around(k + n, n, q + 1, r)
    BY <1>2, <1>4 DEF Around
  <1>6. (k + n) % n = r
    BY <1>5, ModIs
  <1> QED
    BY <1>1, <1>6

-----------------------------------------------------------------------------
(***************************************************************************)
(* Tables in good order.                                                   *)
(***************************************************************************)

\* Entry e of a key of its own, in slot i of n slots, as many behind its home
\* as it says.
EntryAt(e, i, n) ==
    /\ e = [empty |-> FALSE, probes |-> e.probes, key |-> e.key, value |-> e.value]
    /\ e.probes \in 0 .. n - 1 /\ e.key \in Key /\ e.value \in MapValue
    /\ (e.key + e.probes) % n = i

Slots(T, n) ==
    /\ n \in Nat /\ n >= 2 /\ T = [i \in 0 .. n - 1 |-> T[i]]
    /\ \A i \in 0 .. n - 1 : T[i] = EmptyEntry \/ EntryAt(T[i], i, n)

\* How far behind its home an entry may be that lies behind entry e.
Reach(e) == IF e.empty THEN 0 ELSE e.probes + 1

Rising(T, i, n) == T[(i + 1) % n].probes <= Reach(T[i])

InUse(T) == {i \in DOMAIN T : ~T[i].empty}
OneEach(T) == \A i, j \in InUse(T) : T[i].key = T[j].key => i = j
Has(T, k) == \E i \in InUse(T) : T[i].key = k

Pair(e) == <<e.key, e.value>>
Pairs(T) == {Pair(T[i]) : i \in InUse(T)}

Orderly(T, n) == Slots(T, n) /\ OneEach(T) /\ \A i \in 0 .. n - 1 : Rising(T, i, n)

\* Some search ends wherever it starts.
Good(T, n) == Orderly(T, n) /\ \E i \in 0 .. n - 1 : T[i].probes = 0

LEMMA SlotFacts ==
  ASSUME NEW T, NEW n, Slots(T, n)
  PROVE  /\ n \in Nat /\ n >= 2 /\ DOMAIN T = 0 .. n - 1 /\ Capacity(T) = n
         /\ IsFiniteSet(InUse(T))
         /\ \A i \in 0 .. n - 1 :
              /\ T[i].empty \in BOOLEAN /\ T[i].probes \in 0 .. n - 1
              /\ T[i].empty => T[i] = EmptyEntry /\ T[i].probes = 0 /\ T[i].key = 0
              /\ ~T[i].empty => /\ i \in InUse(T) /\ EntryAt(T[i], i, n)
                                /\ T[i].key \in Key /\ T[i].key \in Nat /\ T[i].key # 0
                                /\ T[i].value \in MapValue
                                /\ (T[i].key + T[i].probes) % n = i
         /\ \A i : i \in InUse(T) <=> i \in 0 .. n - 1 /\ ~T[i].empty
  <1>1. n \in Nat /\ n >= 2 /\ DOMAIN T = 0 .. n - 1
    BY DEF Slots
  <1>2. IsFiniteSet(0 .. n - 1) /\ Cardinality(0 .. n - 1) = n
    BY <1>1, FS_Interval
  <1>3. InUse(T) \in SUBSET (0 .. n - 1)
    BY <1>1 DEF InUse
  <1>4. IsFiniteSet(InUse(T))
    BY <1>2, <1>3, FS_Subset
  <1>5. Capacity(T) = n
    BY <1>1, <1>2 DEF Capacity
  <1>6. \A i : i \in InUse(T) <=> i \in 0 .. n - 1 /\ ~T[i].empty
    BY <1>1 DEF InUse
  <1>7. ASSUME NEW i \in 0 .. n - 1
        PROVE  /\ T[i].empty \in BOOLEAN /\ T[i].probes \in 0 .. n - 1
               /\ T[i].empty => T[i] = EmptyEntry /\ T[i].probes = 0 /\ T[i].key = 0
               /\ ~T[i].empty => /\ i \in InUse(T) /\ EntryAt(T[i], i, n)
                                 /\ T[i].key \in Key /\ T[i].key \in Nat /\ T[i].key # 0
                                 /\ T[i].value \in MapValue
                                 /\ (T[i].key + T[i].probes) % n = i
    <2>1. CASE T[i] = EmptyEntry
      <3>1. EmptyEntry.empty = TRUE /\ EmptyEntry.probes = 0 /\ EmptyEntry.key = 0
        BY DEF EmptyEntry, Nobody
      <3>2. 0 \in 0 .. n - 1
        BY <1>1
      <3> QED
        BY <2>1, <3>1, <3>2
    <2>2. CASE EntryAt(T[i], i, n)
      <3>1. T[i].empty = FALSE
        BY <2>2 DEF EntryAt
      <3>2. /\ T[i].probes \in 0 .. n - 1 /\ T[i].key \in Key /\ T[i].value \in MapValue
            /\ (T[i].key + T[i].probes) % n = i
        BY <2>2 DEF EntryAt
      <3>3. \A k \in Key : k \in Nat /\ k # 0
        BY HashMapAssumption DEF HashMapAssumption
      <3> QED
        BY <1>6, <2>2, <3>1, <3>2, <3>3
    <2> QED
      BY <2>1, <2>2 DEF Slots
  <1> QED
    BY <1>1, <1>4, <1>5, <1>6, <1>7

\* On the way back from an entry to its home no slot is empty, and no entry is
\* at home.
LEMMA WayHome ==
  ASSUME NEW T, NEW n, Slots(T, n), \A x \in 0 .. n - 1 : Rising(T, x, n),
         NEW i \in 0 .. n - 1, ~T[i].empty, NEW j \in 0 .. T[i].probes
  PROVE  /\ (T[i].key + j) % n \in 0 .. n - 1
         /\ ~T[(T[i].key + j) % n].empty
         /\ T[(T[i].key + j) % n].probes >= j
  <1> DEFINE k == T[i].key
             d == T[i].probes
             at(x) == (k + x) % n
             Fine(x) == ~T[at(x)].empty /\ T[at(x)].probes >= x
             S == {y \in Nat : y <= d /\ ~Fine(d - y)}
  <1>1. /\ n \in Nat /\ n >= 2 /\ d \in 0 .. n - 1 /\ k \in Nat
        /\ at(d) = i
    BY SlotFacts
  <1>2. \A x \in Nat : at(x) \in 0 .. n - 1
    <2> SUFFICES ASSUME NEW x \in Nat PROVE at(x) \in 0 .. n - 1
      OBVIOUS
    <2>1. PICK y \in Int : y = k + x
      BY <1>1
    <2>2. PICK q, r : Around(y, n, q, r) /\ y % n = r
      BY <1>1, ModOf
    <2> QED
      BY <2>1, <2>2 DEF Around
  <1>3. \A x \in Nat : at(x + 1) = (at(x) + 1) % n
    <2> SUFFICES ASSUME NEW x \in Nat PROVE at(x + 1) = (at(x) + 1) % n
      OBVIOUS
    <2>1. k + x \in Int /\ (k + x) + 1 = k + (x + 1)
      BY <1>1
    <2>2. \A y \in Int : (y + 1) % n = ((y % n) + 1) % n
      BY <1>1, OneFurther
    <2> QED
      BY <2>1, <2>2
  <1> HIDE DEF at
  <1>4. S = {}
    <2> SUFFICES ASSUME S # {} PROVE FALSE
      OBVIOUS
    <2>0. S \in SUBSET Nat
      OBVIOUS
    <2>1. PICK y \in S : \A z \in S : y <= z
      BY <2>0, LeastNat
    <2>2. y \in Nat /\ y <= d /\ ~Fine(d - y)
      OBVIOUS
    <2>3. y # 0
      <3>1. Fine(d)
        BY <1>1
      <3> QED
        BY <1>1, <2>2, <3>1
    <2>4. y - 1 \in Nat /\ y - 1 \notin S /\ y - 1 <= d
      BY <1>1, <2>1, <2>2, <2>3
    <2>5. PICK x \in Nat : x = d - y
      BY <1>1, <2>2
    <2>6. d - (y - 1) = x + 1
      BY <1>1, <2>2, <2>5
    <2>7. Fine(x + 1)
      BY <2>4, <2>6
    <2>8. T[(at(x) + 1) % n].probes <= Reach(T[at(x)])
      BY <1>2 DEF Rising
    <2>9. /\ T[at(x)].empty \in BOOLEAN /\ T[at(x)].probes \in 0 .. n - 1
          /\ T[at(x + 1)].probes \in 0 .. n - 1
      <3>1. at(x) \in 0 .. n - 1 /\ at(x + 1) \in 0 .. n - 1
        BY <1>2
      <3> QED
        BY <3>1, SlotFacts
    <2>10. T[at(x + 1)].probes <= Reach(T[at(x)]) /\ T[at(x + 1)].probes >= x + 1
      BY <1>3, <2>7, <2>8
    <2>11. Fine(x)
      BY <1>1, <2>9, <2>10 DEF Reach
    <2> QED
      BY <2>2, <2>5, <2>11
  <1>5. d - j \in Nat /\ d - j <= d /\ d - (d - j) = j /\ j \in Nat
    BY <1>1
  <1>6. Fine(j)
    BY <1>4, <1>5
  <1> QED
    BY <1>2, <1>5, <1>6 DEF at

LEMMA ProbesFit ==
  ASSUME NEW T, NEW n, Slots(T, n), NEW k \in Nat
  PROVE  /\ Home(T, k) = (k + 0) % n
         /\ \A x : ProbeSlot(T, k, x) = (k + x) % n
         /\ \A x \in Nat : (k + x) % n \in 0 .. n - 1
  <1>1. n \in Nat /\ n >= 2 /\ Capacity(T) = n
    BY SlotFacts
  <1>2. k + 0 = k
    OBVIOUS
  <1>3. ASSUME NEW x \in Nat PROVE (k + x) % n \in 0 .. n - 1
    <2>1. PICK y \in Int : y = k + x
      OBVIOUS
    <2>2. PICK q, r : Around(y, n, q, r) /\ y % n = r
      BY <1>1, ModOf
    <2> QED
      BY <2>1, <2>2 DEF Around
  <1> QED
    BY <1>1, <1>2, <1>3 DEF Home, ProbeSlot

\* An entry is found, and what is not there is not.
LEMMA LocateFound ==
  ASSUME NEW T, NEW n, Good(T, n), NEW i \in InUse(T)
  PROVE  Locate(T, T[i].key) = i
  <1> DEFINE k == T[i].key
             d == T[i].probes
             at(x) == (k + x) % n
             Ends(x) == Stops(T, k, x) \/ T[ProbeSlot(T, k, x)].key = k
             last == CHOOSE x \in 1 .. Capacity(T) :
                         Ends(x) /\ \A y \in 1 .. x - 1 : ~Ends(y)
  <1>0. /\ Slots(T, n) /\ OneEach(T)
        /\ \A x \in 0 .. n - 1 : Rising(T, x, n)
    BY DEF Good, Orderly
  <1>1. /\ n \in Nat /\ n >= 2 /\ Capacity(T) = n /\ i \in 0 .. n - 1 /\ ~T[i].empty
    BY <1>0, SlotFacts
  <1>2. k \in Nat /\ k # 0 /\ d \in 0 .. n - 1 /\ at(d) = i
    BY <1>0, <1>1, SlotFacts
  <1>3. /\ Home(T, k) = at(0)
        /\ \A x : ProbeSlot(T, k, x) = at(x)
        /\ \A x \in Nat : at(x) \in 0 .. n - 1
    BY <1>0, <1>2, ProbesFit
  <1>4. \A x \in 0 .. d : T[at(x)].probes >= x
    <2> SUFFICES ASSUME NEW x \in 0 .. d PROVE T[at(x)].probes >= x
      OBVIOUS
    <2> QED
      BY <1>0, <1>1, WayHome
  <1>5. ASSUME NEW x \in 0 .. n - 1, T[at(x)].key = k PROVE x = d
    <2>1. at(x) \in 0 .. n - 1
      BY <1>3
    <2>2. at(x) \in InUse(T)
      BY <1>0, <1>2, <1>5, <2>1, SlotFacts
    <2>3. at(x) = i
      BY <1>0, <1>5, <2>2 DEF OneEach
    <2>4. Behind(n, k, x, i) /\ Behind(n, k, d, i)
      BY <1>1, <1>2, <2>3 DEF Behind
    <2> HIDE DEF k, d
    <2> QED
      BY <2>4, SameSlot
  <1> HIDE DEF at
  <1>6. \A x \in 1 .. n : Stops(T, k, x) <=> T[at(x)].probes = 0
    BY <1>3 DEF Stops
  <1>7. Locate(T, k) = IF T[Home(T, k)].key = k THEN Home(T, k)
                       ELSE IF Stops(T, k, last) THEN NotFound
                       ELSE ProbeSlot(T, k, last)
    BY DEF Locate
  <1>8. CASE d = 0
    BY <1>2, <1>3, <1>7, <1>8
  <1>9. CASE d # 0
    <2>1. d \in 1 .. n /\ d \in 1 .. Capacity(T) /\ 0 \in 0 .. n - 1
      BY <1>1, <1>2, <1>9
    <2>2. T[Home(T, k)].key # k
      BY <1>3, <1>5, <1>9, <2>1
    <2>3. Ends(d) /\ ~Stops(T, k, d)
      BY <1>2, <1>3, <1>6, <1>9, <2>1
    <2>4. ASSUME NEW x \in 1 .. d - 1 PROVE ~Ends(x)
      <3>1. x \in 0 .. d /\ x \in 1 .. n /\ x \in 0 .. n - 1 /\ x # d /\ x \in Nat
        BY <1>1, <1>2
      <3>2. T[at(x)].probes \in Nat
        <4>1. \A j \in 0 .. n - 1 : T[j].probes \in 0 .. n - 1
          BY <1>0, SlotFacts
        <4> QED
          BY <1>1, <1>3, <3>1, <4>1
      <3> QED
        BY <1>3, <1>4, <1>5, <1>6, <3>1, <3>2
    <2>5. ASSUME NEW x \in 1 .. Capacity(T), Ends(x), \A y \in 1 .. x - 1 : ~Ends(y)
          PROVE  x = d
      <3>1. ~(x < d)
        BY <1>1, <1>2, <2>4, <2>5
      <3>2. ~(d < x)
        <4> HIDE DEF Ends
        <4> QED
          BY <1>1, <1>2, <2>1, <2>3, <2>5
      <3> QED
        BY <1>1, <1>2, <3>1, <3>2
    <2>6. last = d
      <3> HIDE DEF Ends
      <3> QED
        BY <2>1, <2>3, <2>4, <2>5
    <2> HIDE DEF last
    <2> QED
      BY <1>2, <1>3, <1>7, <2>2, <2>3, <2>6
  <1> QED
    BY <1>8, <1>9

\* The search for a key ends without it, if no entry away from home has it.
Missing(T, n, k) ==
    /\ Good(T, n) /\ k \in Nat /\ T[k % n].key # k
    /\ \A j \in 0 .. n - 1 : T[j].key = k => T[j].probes = 0

LEMMA LocateEnds ==
  ASSUME NEW T, NEW n, NEW k, Missing(T, n, k)
  PROVE  Locate(T, k) = NotFound
  <1> DEFINE at(x) == (k + x) % n
             Ends(x) == Stops(T, k, x) \/ T[ProbeSlot(T, k, x)].key = k
             last == CHOOSE x \in 1 .. Capacity(T) :
                         Ends(x) /\ \A y \in 1 .. x - 1 : ~Ends(y)
             S == {x \in Nat : x \in 1 .. n /\ Ends(x)}
  <1>0. Slots(T, n)
    BY DEF Missing, Good, Orderly
  <1>1. n \in Nat /\ n >= 2 /\ Capacity(T) = n
    BY <1>0, SlotFacts
  <1>2. k \in Nat
    BY DEF Missing
  <1>3. /\ Home(T, k) = at(0)
        /\ \A x : ProbeSlot(T, k, x) = at(x)
        /\ \A x \in Nat : at(x) \in 0 .. n - 1
    BY <1>0, <1>2, ProbesFit
  <1>4. /\ T[at(0)].key # k
        /\ \A j \in 0 .. n - 1 : T[j].key = k => T[j].probes = 0
    <2>1. at(0) = k % n
      BY <1>2
    <2> QED
      BY <2>1 DEF Missing
  <1>5. PICK z \in 0 .. n - 1 : T[z].probes = 0
    BY DEF Missing, Good
  <1>6. \E x \in 1 .. n : Ends(x)
    <2>0. k \in Int
      BY <1>2
    <2>1. PICK d \in 0 .. n - 1 : Behind(n, k, d, z)
      BY <1>1, <2>0, EveryBehind
    <2>2. at(d) = z
      BY <2>1 DEF Behind
    <2>3. CASE d = 0
      <3>1. at(n) = z
        BY <1>1, <1>2, <2>2, <2>3, OnceAround
      <3>2. Ends(n)
        BY <1>3, <1>5, <3>1 DEF Stops
      <3> QED
        BY <1>1, <3>2
    <2>4. CASE d # 0
      <3>1. Ends(d) /\ d \in 1 .. n
        BY <1>1, <1>3, <1>5, <2>2, <2>4 DEF Stops
      <3> QED
        BY <3>1
    <2> QED
      BY <2>3, <2>4
  <1> HIDE DEF Ends, at
  <1>7. \E x \in 1 .. Capacity(T) : Ends(x) /\ \A y \in 1 .. x - 1 : ~Ends(y)
    <2>0. S \in SUBSET Nat /\ S # {}
      BY <1>1, <1>6
    <2>1. PICK x \in S : \A y \in S : x <= y
      BY <2>0, LeastNat
    <2>2. x \in 1 .. n /\ Ends(x)
      OBVIOUS
    <2>3. \A y \in 1 .. x - 1 : ~Ends(y)
      BY <1>1, <2>1, <2>2
    <2> QED
      BY <1>1, <2>2, <2>3
  <1>8. last \in 1 .. n /\ Ends(last)
    BY <1>1, <1>7
  <1>9. Locate(T, k) = IF T[Home(T, k)].key = k THEN Home(T, k)
                       ELSE IF Stops(T, k, last) THEN NotFound
                       ELSE ProbeSlot(T, k, last)
    BY DEF Locate, Ends
  <1> HIDE DEF last
  <1>10. last \in Nat /\ 0 \in Nat
    BY <1>1, <1>8
  <1>11. Stops(T, k, last)
    BY <1>3, <1>4, <1>8, <1>10 DEF Ends, Stops
  <1> QED
    BY <1>3, <1>4, <1>9, <1>10, <1>11

LEMMA LocateMissing ==
  ASSUME NEW T, NEW n, Good(T, n), NEW k \in Key, ~Has(T, k)
  PROVE  Locate(T, k) = NotFound
  <1>1. Slots(T, n)
    BY DEF Good, Orderly
  <1>2. n \in Nat /\ n >= 2 /\ k \in Nat /\ k # 0
    BY <1>1, SlotFacts, HashMapAssumption DEF HashMapAssumption
  <1>3. ASSUME NEW j \in 0 .. n - 1 PROVE T[j].key # k
    <2>1. T[j].empty => T[j].key = 0
      BY <1>1, SlotFacts
    <2>2. ~T[j].empty => j \in InUse(T)
      BY <1>1, SlotFacts
    <2> QED
      BY <1>2, <2>1, <2>2 DEF Has
  <1>4. k % n \in 0 .. n - 1
    BY <1>2
  <1>5. Missing(T, n, k)
    BY <1>2, <1>3, <1>4 DEF Missing
  <1> QED
    BY <1>5, LocateEnds

\* The key of no entry is found in slot 0 while that is empty.
LEMMA LocateNobody ==
  ASSUME NEW T, NEW n, Good(T, n)
  PROVE  /\ T[0].empty => Locate(T, Nobody) # NotFound /\ T[Locate(T, Nobody)].value = NoMapValue
         /\ ~T[0].empty => Locate(T, Nobody) = NotFound
  <1>1. Slots(T, n)
    BY DEF Good, Orderly
  <1>2. n \in Nat /\ n >= 2 /\ Capacity(T) = n /\ 0 \in 0 .. n - 1
    BY <1>1, SlotFacts
  <1>3. 0 % n = 0
    BY <1>2
  <1>4. Home(T, 0) = 0
    BY <1>2, <1>3 DEF Home
  <1>5. ASSUME T[0].empty PROVE Locate(T, 0) = 0 /\ T[0].value = NoMapValue
    <2>1. T[0] = EmptyEntry
      BY <1>1, <1>2, <1>5, SlotFacts
    <2>2. T[0].key = 0 /\ T[0].value = NoMapValue
      BY <2>1 DEF EmptyEntry, Nobody
    <2> QED
      BY <1>4, <2>2 DEF Locate
  <1>6. ASSUME ~T[0].empty PROVE Locate(T, 0) = NotFound
    <2>1. T[0].key # 0
      BY <1>1, <1>2, <1>6, SlotFacts
    <2>2. \A j \in 0 .. n - 1 : T[j].key = 0 => T[j].probes = 0
      BY <1>1, SlotFacts
    <2>3. Missing(T, n, 0)
      BY <1>2, <1>3, <2>1, <2>2 DEF Missing
    <2> QED
      BY <2>3, LocateEnds
  <1> QED
    BY <1>5, <1>6 DEF NotFound, Nobody

-----------------------------------------------------------------------------
(***************************************************************************)
(* set: an entry may take a slot behind one that is as far from home, or   *)
(* farther, than its own place there allows.                               *)
(***************************************************************************)
Suits(S, n, i, e) ==
    /\ Orderly(S, n) /\ i \in 0 .. n - 1 /\ EntryAt(e, i, n) /\ ~Has(S, e.key)
    /\ \A p \in 0 .. n - 1 : (p + 1) % n = i => e.probes <= Reach(S[p])
    /\ S[(i + 1) % n].probes <= Reach(e)

LEMMA EntryFacts ==
  ASSUME NEW e, NEW i, NEW n, EntryAt(e, i, n)
  PROVE  /\ e.empty = FALSE /\ e.probes \in 0 .. n - 1 /\ e.key \in Key /\ e.key \in Nat
         /\ e.key # 0 /\ e.value \in MapValue /\ (e.key + e.probes) % n = i
         /\ Reach(e) = e.probes + 1
  <1>1. /\ e.empty = FALSE /\ e.probes \in 0 .. n - 1 /\ e.key \in Key
        /\ e.value \in MapValue /\ (e.key + e.probes) % n = i
    BY DEF EntryAt
  <1>2. \A k \in Key : k \in Nat /\ k # 0
    BY HashMapAssumption DEF HashMapAssumption
  <1> QED
    BY <1>1, <1>2 DEF Reach

\* An entry with another probe count.
LEMMA EntryRecounted ==
  ASSUME NEW e, NEW b, NEW w,
         e = [empty |-> b, probes |-> e.probes, key |-> e.key, value |-> e.value]
  PROVE  [e EXCEPT !.probes = w] = [empty |-> b, probes |-> w, key |-> e.key, value |-> e.value]
  <1>1. PICK p, k, v : p = e.probes /\ k = e.key /\ v = e.value
    OBVIOUS
  <1>2. e = [empty |-> b, probes |-> p, key |-> k, value |-> v]
    BY <1>1
  <1>3. [e EXCEPT !.probes = w] = [empty |-> b, probes |-> w, key |-> k, value |-> v]
    BY <1>2
  <1> QED
    BY <1>1, <1>3

IsPut(R, S, n, i, e) ==
    /\ Orderly(R, n) /\ R[i] = e /\ \A j \in 0 .. n - 1 : j # i => R[j] = S[j]
    /\ InUse(R) = InUse(S) \cup {i}
    /\ Pairs(R) = {Pair(e)} \cup {Pair(S[j]) : j \in InUse(S) \ {i}}
    /\ \A k : Has(R, k) => k = e.key \/ \E j \in InUse(S) \ {i} : S[j].key = k

LEMMA EntryPut ==
  ASSUME NEW S, NEW n, NEW i, NEW e, Suits(S, n, i, e)
  PROVE  IsPut([S EXCEPT ![i] = e], S, n, i, e)
  <1> DEFINE R == [S EXCEPT ![i] = e]
  <1>0. /\ Slots(S, n) /\ OneEach(S) /\ \A j \in 0 .. n - 1 : Rising(S, j, n)
        /\ i \in 0 .. n - 1 /\ EntryAt(e, i, n) /\ ~Has(S, e.key)
        /\ \A p \in 0 .. n - 1 : (p + 1) % n = i => e.probes <= Reach(S[p])
        /\ S[(i + 1) % n].probes <= Reach(e)
    BY DEF Suits, Orderly
  <1>1. n \in Nat /\ n >= 2 /\ DOMAIN S = 0 .. n - 1 /\ S = [x \in 0 .. n - 1 |-> S[x]]
    BY <1>0, SlotFacts DEF Slots
  <1>2. /\ R = [x \in 0 .. n - 1 |-> R[x]] /\ R[i] = e /\ DOMAIN R = 0 .. n - 1
        /\ \A j \in 0 .. n - 1 : j # i => R[j] = S[j]
    BY <1>0, <1>1
  <1> HIDE DEF R
  <1>3. e.empty = FALSE
    BY <1>0, EntryFacts
  <1>4. Slots(R, n)
    <2>1. ASSUME NEW j \in 0 .. n - 1 PROVE R[j] = EmptyEntry \/ EntryAt(R[j], j, n)
      BY <1>0, <1>2 DEF Slots
    <2> QED
      BY <1>1, <1>2, <2>1 DEF Slots
  <1>5. InUse(R) = InUse(S) \cup {i}
    BY <1>0, <1>1, <1>2, <1>3 DEF InUse
  <1>6. InUse(S) \subseteq 0 .. n - 1
    BY <1>1 DEF InUse
  <1>7. \A j \in InUse(R) : R[j] = IF j = i THEN e ELSE S[j]
    BY <1>0, <1>2, <1>5, <1>6
  <1>8. \A j \in InUse(S) : S[j].key # e.key
    BY <1>0 DEF Has
  <1>9. OneEach(R)
    <2>1. \A j, h \in InUse(S) : S[j].key = S[h].key => j = h
      BY <1>0 DEF OneEach
    <2>2. ASSUME NEW j \in InUse(R), NEW h \in InUse(R), R[j].key = R[h].key PROVE j = h
      <3>1. R[j] = (IF j = i THEN e ELSE S[j]) /\ R[h] = (IF h = i THEN e ELSE S[h])
        BY <1>7
      <3>2. (j # i => j \in InUse(S)) /\ (h # i => h \in InUse(S))
        BY <1>5
      <3>3. CASE j = i
        BY <1>8, <2>2, <3>1, <3>2, <3>3
      <3>4. CASE j # i
        <4>1. CASE h = i
          BY <1>8, <2>2, <3>1, <3>2, <3>4, <4>1
        <4>2. CASE h # i
          BY <2>1, <2>2, <3>1, <3>2, <3>4, <4>2
        <4> QED
          BY <4>1, <4>2
      <3> QED
        BY <3>3, <3>4
    <2> QED
      BY <2>2 DEF OneEach
  <1>10. ASSUME NEW j \in 0 .. n - 1 PROVE Rising(R, j, n)
    <2>1. PICK m : m = (j + 1) % n /\ m \in 0 .. n - 1 /\ m # j
      BY <1>1, NextSlot
    <2>2. S[m].probes <= Reach(S[j])
      BY <1>0, <2>1 DEF Rising
    <2>3. R[m].probes <= Reach(R[j])
      <3>1. CASE j = i
        BY <1>0, <1>2, <2>1, <3>1
      <3>2. CASE j # i /\ m = i
        BY <1>0, <1>2, <2>1, <3>2
      <3>3. CASE j # i /\ m # i
        BY <1>2, <2>1, <2>2, <3>3
      <3> QED
        BY <3>1, <3>2, <3>3
    <2> QED
      BY <2>1, <2>3 DEF Rising
  <1>11. Pairs(R) = {Pair(e)} \cup {Pair(S[j]) : j \in InUse(S) \ {i}}
    BY <1>5, <1>7 DEF Pairs
  <1>12. ASSUME NEW k, Has(R, k) PROVE k = e.key \/ \E j \in InUse(S) \ {i} : S[j].key = k
    BY <1>5, <1>7, <1>12 DEF Has
  <1> QED
    BY <1>2, <1>4, <1>5, <1>9, <1>10, <1>11, <1>12 DEF Orderly, IsPut, R

\* The state of the loop of set, on table T with the entry x: it holds entry e
\* at slot a, whose own entry is as far from home.
CarryAt(S, a, e, p) == [table |-> S, at |-> a, entry |-> e, placed |-> p]

Carrying(S, a, e, n, T, x) ==
    /\ Orderly(S, n) /\ a \in 0 .. n - 1 /\ ~S[a].empty
    /\ EntryAt(e, a, n) /\ ~Has(S, e.key) /\ e.probes <= S[a].probes
    /\ InUse(S) = InUse(T)
    /\ Pairs(S) \cup {Pair(e)} = Pairs(T) \cup {Pair(x)}

\* What it makes of the table.
GainsOnly(R, n, T, x) ==
    /\ Good(R, n) /\ Pairs(R) = Pairs(T) \cup {Pair(x)}
    /\ \E i : i \in (0 .. n - 1) \ InUse(T) /\ InUse(R) = InUse(T) \cup {i}

\* An entry that lies as far behind its home as can be has no empty slot before
\* it.
LEMMA FarFromEmpty ==
  ASSUME NEW S, NEW n, Orderly(S, n), NEW a \in 0 .. n - 1, ~S[a].empty,
         NEW z \in 0 .. n - 1, z \notin InUse(S)
  PROVE  S[a].probes # n - 1
  <1> DEFINE k == S[a].key
  <1>0. Slots(S, n) /\ \A x \in 0 .. n - 1 : Rising(S, x, n)
    BY DEF Orderly
  <1>1. n \in Nat /\ n >= 2 /\ k \in Nat /\ k \in Int /\ S[z].empty
    BY <1>0, SlotFacts
  <1> SUFFICES ASSUME S[a].probes = n - 1 PROVE FALSE
    OBVIOUS
  <1>2. PICK d \in 0 .. n - 1 : Behind(n, k, d, z)
    <2> HIDE DEF k
    <2> QED
      BY <1>1, EveryBehind
  <1>3. d \in 0 .. S[a].probes /\ (k + d) % n = z
    BY <1>2 DEF Behind
  <1>4. ~S[(k + d) % n].empty
    BY <1>0, <1>3, WayHome
  <1> QED
    BY <1>1, <1>3, <1>4

\* What a round leaves: a table that is done, or an entry held at slot m.
CarriedBy(s, m, n, T, x) ==
    \/ \E R, b, f : s = CarryAt(R, b, f, TRUE) /\ GainsOnly(R, n, T, x)
    \/ \E R, f : s = CarryAt(R, m, f, FALSE) /\ Carrying(R, m, f, n, T, x)

LEMMA CarryRound ==
  ASSUME NEW S, NEW a, NEW e, NEW n, NEW T, NEW x, Carrying(S, a, e, n, T, x),
         NEW z \in 0 .. n - 1, z \notin InUse(T)
  PROVE  CarriedBy(Carry(CarryAt(S, a, e, FALSE)), (a + 1) % n, n, T, x)
  <1>0. /\ Orderly(S, n) /\ a \in 0 .. n - 1 /\ ~S[a].empty
        /\ EntryAt(e, a, n) /\ ~Has(S, e.key) /\ e.probes <= S[a].probes
        /\ InUse(S) = InUse(T)
        /\ Pairs(S) \cup {Pair(e)} = Pairs(T) \cup {Pair(x)}
    BY DEF Carrying
  <1>1. Slots(S, n) /\ OneEach(S) /\ \A j \in 0 .. n - 1 : Rising(S, j, n)
    BY <1>0 DEF Orderly
  <1>2. n \in Nat /\ n >= 2 /\ Capacity(S) = n
    BY <1>1, SlotFacts
  <1>3. PICK m : m = (a + 1) % n /\ m \in 0 .. n - 1 /\ m # a
    BY <1>0, <1>2, NextSlot
  <1> DEFINE s == CarryAt(S, a, e, FALSE)
             f == [e EXCEPT !.probes = @ + 1]
  <1>4. /\ e = [empty |-> FALSE, probes |-> e.probes, key |-> e.key, value |-> e.value]
        /\ e.key \in Key /\ e.key \in Nat /\ e.value \in MapValue /\ e.probes \in 0 .. n - 1
        /\ (e.key + e.probes) % n = a
    BY <1>0, EntryFacts DEF EntryAt
  <1>5. f = [empty |-> FALSE, probes |-> e.probes + 1, key |-> e.key, value |-> e.value]
    BY <1>4, EntryRecounted DEF f
  <1>6. f.empty = FALSE /\ f.probes = e.probes + 1 /\ f.key = e.key /\ f.value = e.value
        /\ f = [empty |-> FALSE, probes |-> f.probes, key |-> f.key, value |-> f.value]
    BY <1>5
  <1>7. Pair(f) = Pair(e)
    BY <1>6 DEF Pair
  <1>8. Carry(s) =
          IF S[m].empty \/ S[m].probes < f.probes
          THEN CarryAt([S EXCEPT ![m] = f], m, S[m], S[m].empty)
          ELSE CarryAt(S, m, f, FALSE)
    <2>1. /\ s.table = S /\ s.at = a /\ s.entry = e /\ s.placed = FALSE
          /\ s = [table |-> S, at |-> a, entry |-> e, placed |-> FALSE]
      BY DEF CarryAt
    <2>2. After(S, a) = m
      BY <1>2, <1>3 DEF After
    <2> HIDE DEF s
    <2> HIDE DEF f
    <2> QED
      BY <2>1, <2>2 DEF Carry, CarryAt, f
  <1> HIDE DEF s, f
  <1>9. EntryAt(f, m, n)
    <2>1. S[a].probes # n - 1
      BY <1>0, FarFromEmpty
    <2>2. S[a].probes \in 0 .. n - 1
      BY <1>0, <1>1, SlotFacts
    <2>3. f.probes \in 0 .. n - 1
      BY <1>0, <1>2, <1>4, <1>6, <2>1, <2>2
    <2>4. PICK y \in Int : y = e.key + e.probes /\ y + 1 = e.key + (e.probes + 1) /\ y % n = a
      BY <1>4
    <2>5. (y + 1) % n = ((y % n) + 1) % n
      BY <1>2, OneFurther
    <2>6. (f.key + f.probes) % n = m
      BY <1>3, <1>6, <2>4, <2>5
    <2> QED
      BY <1>4, <1>6, <2>3, <2>6 DEF EntryAt
  <1>10. S[m].probes <= S[a].probes + 1 /\ f.probes <= S[a].probes + 1
         /\ S[m].probes \in Nat /\ f.probes \in Nat /\ Reach(S[a]) = S[a].probes + 1
         /\ Reach(f) = f.probes + 1
    <2>1. S[m].probes <= Reach(S[a])
      BY <1>0, <1>1, <1>3 DEF Rising
    <2>2. Reach(S[a]) = S[a].probes + 1
      BY <1>0 DEF Reach
    <2>3. S[m].probes \in 0 .. n - 1 /\ S[a].probes \in 0 .. n - 1
      BY <1>0, <1>1, <1>3, SlotFacts
    <2> QED
      BY <1>0, <1>2, <1>4, <1>6, <2>1, <2>2, <2>3 DEF Reach
  <1>11. Suits(S, n, m, f)
            <=> S[(m + 1) % n].probes <= Reach(f)
    <2>1. ASSUME NEW q \in 0 .. n - 1, (q + 1) % n = m PROVE q = a
      <3>1. (q + 1) % n = IF q = n - 1 THEN 0 ELSE q + 1
        BY <1>2, NextSlot
      <3>2. (a + 1) % n = IF a = n - 1 THEN 0 ELSE a + 1
        BY <1>0, <1>2, NextSlot
      <3> QED
        BY <1>0, <1>2, <1>3, <2>1, <3>1, <3>2
    <2>2. \A q \in 0 .. n - 1 : (q + 1) % n = m => f.probes <= Reach(S[q])
      BY <1>10, <2>1
    <2> QED
      BY <1>0, <1>3, <1>6, <1>9, <2>2 DEF Suits
  <1>12. S[(m + 1) % n].probes <= Reach(S[m]) /\ (m + 1) % n # m /\ (m + 1) % n \in 0 .. n - 1
    BY <1>1, <1>2, <1>3, NextSlot DEF Rising
  <1>13. CASE S[m].empty
    <2>0. PICK R : R = [S EXCEPT ![m] = f]
      OBVIOUS
    <2>1. S[m].empty = TRUE /\ m \notin InUse(S) /\ Reach(S[m]) = 0
      <3>1. S[m] = EmptyEntry /\ m \notin InUse(S)
        BY <1>1, <1>3, <1>13, SlotFacts
      <3> QED
        BY <1>13, <3>1 DEF EmptyEntry, Reach
    <2>2. S[(m + 1) % n].probes = 0
      <3>1. S[(m + 1) % n].probes \in 0 .. n - 1
        BY <1>1, <1>12, SlotFacts
      <3> QED
        BY <1>12, <2>1, <3>1
    <2>3. Suits(S, n, m, f)
      BY <1>10, <1>11, <2>2
    <2>4. /\ Orderly(R, n) /\ \A j \in 0 .. n - 1 : j # m => R[j] = S[j]
          /\ InUse(R) = InUse(S) \cup {m}
          /\ Pairs(R) = {Pair(f)} \cup {Pair(S[j]) : j \in InUse(S) \ {m}}
      <3>1. IsPut(R, S, n, m, f)
        BY <2>0, <2>3, EntryPut
      <3> QED
        BY <3>1 DEF IsPut
    <2>5. R[(m + 1) % n].probes = 0
      BY <1>12, <2>2, <2>4
    <2>6. Good(R, n)
      BY <1>12, <2>4, <2>5 DEF Good
    <2>7. Pairs(R) = Pairs(S) \cup {Pair(e)}
      BY <1>7, <2>1, <2>4 DEF Pairs
    <2>8. GainsOnly(R, n, T, x)
      BY <1>0, <1>3, <2>1, <2>4, <2>6, <2>7 DEF GainsOnly
    <2>9. Carry(s) = CarryAt(R, m, S[m], TRUE)
      BY <1>8, <1>13, <2>0, <2>1
    <2> QED
      BY <1>3, <2>8, <2>9 DEF s, CarriedBy
  <1>14. CASE ~S[m].empty /\ S[m].probes < f.probes
    <2>0. PICK R : R = [S EXCEPT ![m] = f]
      OBVIOUS
    <2>1. S[m].empty = FALSE /\ m \in InUse(S) /\ EntryAt(S[m], m, n)
      <3>1. EntryAt(S[m], m, n) /\ m \in InUse(S)
        BY <1>1, <1>3, <1>14, SlotFacts
      <3> QED
        BY <3>1, EntryFacts
    <2>2. Suits(S, n, m, f)
      <3>1. Reach(S[m]) = S[m].probes + 1 /\ S[(m + 1) % n].probes \in 0 .. n - 1
        BY <1>1, <1>12, <2>1, SlotFacts, EntryFacts
      <3> QED
        BY <1>10, <1>11, <1>12, <1>14, <3>1
    <2>3. /\ Orderly(R, n) /\ R[m] = f
          /\ InUse(R) = InUse(S) \cup {m}
          /\ Pairs(R) = {Pair(f)} \cup {Pair(S[j]) : j \in InUse(S) \ {m}}
          /\ Has(R, S[m].key) => S[m].key = f.key \/ \E j \in InUse(S) \ {m} : S[j].key = S[m].key
      <3>1. IsPut(R, S, n, m, f)
        BY <2>0, <2>2, EntryPut
      <3> QED
        BY <3>1 DEF IsPut
    <2>4. ~Has(R, S[m].key)
      <3>1. S[m].key # e.key
        BY <1>0, <2>1 DEF Has
      <3>2. \A j \in InUse(S) \ {m} : S[j].key # S[m].key
        BY <1>1, <2>1 DEF OneEach
      <3> QED
        BY <1>6, <2>3, <3>1, <3>2
    <2>5. Pairs(R) \cup {Pair(S[m])} = Pairs(S) \cup {Pair(e)}
      BY <1>7, <2>1, <2>3 DEF Pairs
    <2>6. R[m].empty = FALSE /\ S[m].probes <= R[m].probes
      BY <1>6, <1>10, <1>14, <2>3
    <2>7. Carrying(R, m, S[m], n, T, x)
      BY <1>0, <1>3, <2>1, <2>3, <2>4, <2>5, <2>6 DEF Carrying
    <2>8. Carry(s) = CarryAt(R, m, S[m], FALSE)
      BY <1>8, <1>14, <2>0, <2>1
    <2> QED
      BY <1>3, <2>7, <2>8 DEF s, CarriedBy
  <1>15. CASE ~S[m].empty /\ ~(S[m].probes < f.probes)
    <2>1. f.probes <= S[m].probes
      BY <1>10, <1>15
    <2>2. Carrying(S, m, f, n, T, x)
      BY <1>0, <1>3, <1>6, <1>7, <1>9, <1>15, <2>1 DEF Carrying
    <2>3. Carry(s) = CarryAt(S, m, f, FALSE)
      BY <1>8, <1>15
    <2> QED
      BY <1>3, <2>2, <2>3 DEF s, CarriedBy
  <1> QED
    BY <1>13, <1>14, <1>15

\* Where the loop is after r rounds: done, or r slots behind slot a, all of
\* them in use.
CarriedTo(s, r, a, n, T, x) ==
    \E S, b, e :
        \/ s = CarryAt(S, b, e, TRUE) /\ GainsOnly(S, n, T, x)
        \/ /\ s = CarryAt(S, b, e, FALSE) /\ b = (a + r) % n /\ Carrying(S, b, e, n, T, x)
           /\ \A j \in 0 .. r : (a + j) % n \in InUse(T)

LEMMA CarryOn ==
  ASSUME NEW s, NEW r \in Nat, NEW a, NEW n, NEW T, NEW x, CarriedTo(s, r, a, n, T, x),
         n \in Nat, n >= 2, a \in 0 .. n - 1,
         NEW z \in 0 .. n - 1, z \notin InUse(T)
  PROVE  CarriedTo(Carry(s), r + 1, a, n, T, x)
  <1>1. PICK S, b, e :
            \/ s = CarryAt(S, b, e, TRUE) /\ GainsOnly(S, n, T, x)
            \/ /\ s = CarryAt(S, b, e, FALSE) /\ b = (a + r) % n /\ Carrying(S, b, e, n, T, x)
               /\ \A j \in 0 .. r : (a + j) % n \in InUse(T)
    BY DEF CarriedTo
  <1>2. CASE s = CarryAt(S, b, e, TRUE) /\ GainsOnly(S, n, T, x)
    <2>1. s.placed = TRUE
      BY <1>2 DEF CarryAt
    <2>2. Carry(s) = s
      BY <2>1 DEF Carry
    <2> QED
      BY <1>2, <2>2 DEF CarriedTo
  <1>3. CASE /\ s = CarryAt(S, b, e, FALSE) /\ b = (a + r) % n /\ Carrying(S, b, e, n, T, x)
             /\ \A j \in 0 .. r : (a + j) % n \in InUse(T)
    <2>1. PICK c : c = (b + 1) % n
      OBVIOUS
    <2>2. CarriedBy(Carry(s), c, n, T, x)
      BY <1>3, <2>1, CarryRound
    <2>3. ASSUME NEW R, NEW f, Carry(s) = CarryAt(R, c, f, FALSE), Carrying(R, c, f, n, T, x)
          PROVE  CarriedTo(Carry(s), r + 1, a, n, T, x)
      <3>1. PICK y \in Int : y = a + r /\ y + 1 = a + (r + 1)
        OBVIOUS
      <3>2. (y + 1) % n = ((y % n) + 1) % n
        BY OneFurther
      <3>3. c = (a + (r + 1)) % n
        BY <1>3, <2>1, <3>1, <3>2
      <3>4. c \in InUse(T)
        <4>1. Slots(R, n) /\ c \in 0 .. n - 1 /\ ~R[c].empty /\ InUse(R) = InUse(T)
          BY <2>3 DEF Carrying, Orderly
        <4>2. c \in InUse(R)
          BY <4>1, SlotFacts
        <4> QED
          BY <4>1, <4>2
      <3>5. \A j \in 0 .. r + 1 : (a + j) % n \in InUse(T)
        <4> SUFFICES ASSUME NEW j \in 0 .. r + 1 PROVE (a + j) % n \in InUse(T)
          OBVIOUS
        <4>1. j \in 0 .. r \/ j = r + 1
          OBVIOUS
        <4> QED
          BY <1>3, <3>3, <3>4, <4>1
      <3> QED
        BY <1>3, <2>3, <3>3, <3>5 DEF CarriedTo
    <2>4. ASSUME NEW R, NEW d, NEW f, Carry(s) = CarryAt(R, d, f, TRUE), GainsOnly(R, n, T, x)
          PROVE  CarriedTo(Carry(s), r + 1, a, n, T, x)
      BY <2>4 DEF CarriedTo
    <2> QED
      BY <2>2, <2>3, <2>4 DEF CarriedBy
  <1> QED
    BY <1>1, <1>2, <1>3

\* The function u gives the states of the loop.
CarryRuns(u, T, a, x, m) ==
    /\ u[0] = CarryAt(T, a, x, FALSE)
    /\ \A r \in 1 .. m : u[r] = Carry(u[r - 1])
    /\ Carried(T, a, x) = u[m].table

LEMMA CarriedRuns ==
  ASSUME NEW T, NEW a, NEW x, Capacity(T) \in Nat
  PROVE  \E u : CarryRuns(u, T, a, x, Capacity(T))
  <1> DEFINE s == [table |-> T, at |-> a, entry |-> x, placed |-> FALSE]
             m == Capacity(T)
             u == CHOOSE v : v = [n \in 0 .. m |-> IF n = 0 THEN s ELSE Carry(v[n - 1])]
  <1> HIDE DEF s, m
  <1>1. m \in Nat
    BY DEF m
  <1>2. \E v : v = [n \in 0 .. m |-> IF n = 0 THEN s ELSE Carry(v[n - 1])]
    <2>1. PICK w : Runs(w, 2, T, s, m)
      BY <1>1, LoopRuns
    <2>2. \A n, y : Round(2, T, n, y) = Carry(y)
      BY DEF Round
    <2>3. w = [n \in 0 .. m |-> IF n = 0 THEN s ELSE Carry(w[n - 1])]
      BY <2>1, <2>2 DEF Runs
    <2> QED
      BY <2>3
  <1>3. u = [n \in 0 .. m |-> IF n = 0 THEN s ELSE Carry(u[n - 1])]
    BY <1>2
  <1>4. Carried(T, a, x) = u[m].table
    BY DEF Carried, s, m
  <1> HIDE DEF u
  <1>5. u[0] = s /\ \A r \in 1 .. m : u[r] = Carry(u[r - 1])
    BY <1>1, <1>3
  <1>6. s = CarryAt(T, a, x, FALSE)
    BY DEF s, CarryAt
  <1> QED
    BY <1>4, <1>5, <1>6 DEF m, CarryRuns

\* An entry that is carried on from slot a finds its place: there is an empty
\* slot.
LEMMA CarriedIs ==
  ASSUME NEW T, NEW n, NEW a, NEW x, Carrying(T, a, x, n, T, x),
         NEW z \in 0 .. n - 1, z \notin InUse(T)
  PROVE  GainsOnly(Carried(T, a, x), n, T, x)
  <1>1. n \in Nat /\ n >= 2 /\ Capacity(T) = n /\ a \in 0 .. n - 1 /\ a \in InUse(T)
    <2>1. Slots(T, n) /\ a \in 0 .. n - 1 /\ ~T[a].empty
      BY DEF Carrying, Orderly
    <2> QED
      BY <2>1, SlotFacts
  <1> DEFINE s == CarryAt(T, a, x, FALSE)
  <1> HIDE DEF s
  <1>2. PICK u : CarryRuns(u, T, a, x, Capacity(T))
    BY <1>1, CarriedRuns
  <1>3. /\ u[0] = s
        /\ \A r \in 1 .. n : u[r] = Carry(u[r - 1])
        /\ Carried(T, a, x) = u[n].table
    BY <1>1, <1>2 DEF s, CarryRuns
  <1> DEFINE Bad == {r \in Nat : r \in 0 .. n /\ ~CarriedTo(u[r], r, a, n, T, x)}
  <1>4. Bad = {}
    <2> SUFFICES ASSUME Bad # {} PROVE FALSE
      OBVIOUS
    <2>0. Bad \in SUBSET Nat
      OBVIOUS
    <2>1. PICK r \in Bad : \A y \in Bad : r <= y
      BY <2>0, LeastNat
    <2>2. r \in Nat /\ r \in 0 .. n /\ ~CarriedTo(u[r], r, a, n, T, x)
      OBVIOUS
    <2>3. CASE r = 0
      <3>1. (a + 0) % n = a
        <4>1. Around(a + 0, n, 0, a)
          BY <1>1 DEF Around
        <4> QED
          BY <4>1, ModIs
      <3>2. \A j \in 0 .. 0 : (a + j) % n \in InUse(T)
        BY <1>1, <3>1
      <3>3. CarriedTo(s, 0, a, n, T, x)
        BY <3>1, <3>2 DEF CarriedTo, s
      <3> QED
        BY <1>3, <2>2, <2>3, <3>3
    <2>4. CASE r # 0
      <3>1. r - 1 \in Nat /\ r - 1 \in 0 .. n /\ r - 1 \notin Bad /\ r \in 1 .. n
        BY <1>1, <2>1, <2>2, <2>4
      <3>2. CarriedTo(u[r - 1], r - 1, a, n, T, x)
        BY <3>1
      <3>3. CarriedTo(Carry(u[r - 1]), (r - 1) + 1, a, n, T, x)
        BY <1>1, <3>1, <3>2, CarryOn
      <3>4. (r - 1) + 1 = r
        BY <2>2
      <3> QED
        BY <1>3, <2>2, <3>1, <3>3, <3>4
    <2> QED
      BY <2>3, <2>4
  <1>5. CarriedTo(u[n], n, a, n, T, x)
    BY <1>1, <1>4
  <1>6. PICK d \in 0 .. n - 1 : (a + d) % n = z
    <2>1. a \in Int
      BY <1>1
    <2>2. PICK d \in 0 .. n - 1 : Behind(n, a, d, z)
      BY <1>1, <2>1, EveryBehind
    <2> QED
      BY <2>2 DEF Behind
  <1>7. ~ \A j \in 0 .. n : (a + j) % n \in InUse(T)
    <2> SUFFICES ASSUME \A j \in 0 .. n : (a + j) % n \in InUse(T) PROVE FALSE
      OBVIOUS
    <2>1. d \in 0 .. n
      BY <1>1
    <2>2. (a + d) % n \in InUse(T)
      BY <2>1
    <2> QED
      BY <1>6, <2>2
  <1>8. PICK S, b, e : u[n] = CarryAt(S, b, e, TRUE) /\ GainsOnly(S, n, T, x)
    BY <1>5, <1>7 DEF CarriedTo
  <1>9. u[n].table = S
    BY <1>8 DEF CarryAt
  <1> QED
    BY <1>1, <1>3, <1>8, <1>9

NewEntry(k, v) == [empty |-> FALSE, probes |-> 0, key |-> k, value |-> v]

\* set puts a new key into a table that is not full, and leaves the others.
LEMMA PlacedIs ==
  ASSUME NEW T, NEW n, Good(T, n), NEW k \in Key, NEW v \in MapValue, ~Has(T, k),
         NEW z \in 0 .. n - 1, z \notin InUse(T)
  PROVE  GainsOnly(Placed(T, k, v), n, T, NewEntry(k, v))
  <1> DEFINE x == NewEntry(k, v)
             h == Home(T, k)
  <1>0. Orderly(T, n) /\ Slots(T, n) /\ \A j \in 0 .. n - 1 : Rising(T, j, n)
    BY DEF Good, Orderly
  <1>1. n \in Nat /\ n >= 2
    BY <1>0, SlotFacts
  <1>2. k \in Nat /\ k # 0
    BY HashMapAssumption DEF HashMapAssumption
  <1>3. h = (k + 0) % n /\ h \in 0 .. n - 1
    BY <1>0, <1>2, ProbesFit
  <1>4. /\ x = [empty |-> FALSE, probes |-> 0, key |-> k, value |-> v]
        /\ x.empty = FALSE /\ x.probes = 0 /\ x.key = k /\ x.value = v
        /\ x = [empty |-> FALSE, probes |-> x.probes, key |-> x.key, value |-> x.value]
    BY DEF NewEntry
  <1> HIDE DEF x, h
  <1>5. EntryAt(x, h, n)
    <2>1. 0 \in 0 .. n - 1
      BY <1>1
    <2> QED
      BY <1>3, <1>4, <2>1 DEF EntryAt
  <1>6. T[h].probes \in Nat
    <2>1. T[h].probes \in 0 .. n - 1
      BY <1>0, <1>3, SlotFacts
    <2> QED
      BY <1>1, <2>1
  <1>7. Placed(T, k, v) = IF T[h].empty THEN [T EXCEPT ![h] = x] ELSE Carried(T, h, x)
    BY <1>4 DEF Placed, h
  <1>8. CASE T[h].empty
    <2>1. PICK R : R = [T EXCEPT ![h] = x]
      OBVIOUS
    <2>2. \A j \in 0 .. n - 1 : Reach(T[j]) >= 0
      <3> SUFFICES ASSUME NEW j \in 0 .. n - 1 PROVE Reach(T[j]) >= 0
        OBVIOUS
      <3>1. T[j].probes \in 0 .. n - 1
        BY <1>0, SlotFacts
      <3> QED
        BY <1>1, <3>1 DEF Reach
    <2>3. T[(h + 1) % n].probes = 0 /\ Reach(T[h]) = 0 /\ h \notin InUse(T)
          /\ (h + 1) % n \in 0 .. n - 1 /\ (h + 1) % n # h
      <3>1. (h + 1) % n \in 0 .. n - 1 /\ (h + 1) % n # h
        BY <1>1, <1>3, NextSlot
      <3>2. Reach(T[h]) = 0
        BY <1>8 DEF Reach
      <3>3. T[(h + 1) % n].probes <= 0
        BY <1>0, <1>3, <3>2 DEF Rising
      <3>4. T[(h + 1) % n].probes \in 0 .. n - 1
        BY <1>0, <3>1, SlotFacts
      <3>5. h \notin InUse(T)
        BY <1>0, <1>8, SlotFacts
      <3> QED
        BY <1>1, <3>1, <3>2, <3>3, <3>4, <3>5
    <2>4. Suits(T, n, h, x)
      <3>1. Reach(x) >= 0
        BY <1>4 DEF Reach
      <3> QED
        BY <1>0, <1>3, <1>4, <1>5, <2>2, <2>3, <3>1 DEF Suits
    <2>5. IsPut(R, T, n, h, x)
      BY <2>1, <2>4, EntryPut
    <2>6. Good(R, n)
      <3>1. R[(h + 1) % n] = T[(h + 1) % n] /\ Orderly(R, n)
        BY <2>3, <2>5 DEF IsPut
      <3> QED
        BY <2>3, <3>1 DEF Good
    <2>7. Pairs(R) = Pairs(T) \cup {Pair(x)} /\ InUse(R) = InUse(T) \cup {h}
      BY <2>3, <2>5 DEF IsPut, Pairs
    <2>8. GainsOnly(R, n, T, x)
      BY <1>3, <2>3, <2>6, <2>7 DEF GainsOnly
    <2> QED
      BY <1>7, <1>8, <2>1, <2>8 DEF x
  <1>9. CASE ~T[h].empty
    <2>1. x.probes <= T[h].probes
      BY <1>4, <1>6
    <2>2. Carrying(T, h, x, n, T, x)
      BY <1>0, <1>3, <1>4, <1>5, <1>9, <2>1 DEF Carrying
    <2>3. GainsOnly(Carried(T, h, x), n, T, x)
      BY <2>2, CarriedIs
    <2> QED
      BY <1>7, <1>9, <2>3 DEF x
  <1> QED
    BY <1>8, <1>9

-----------------------------------------------------------------------------
(***************************************************************************)
(* resize: every entry is set again in a larger table.                     *)
(***************************************************************************)
LEMMA EmptyGood ==
  ASSUME NEW n \in Nat, n >= 2
  PROVE  Good(EmptyTable(n), n) /\ InUse(EmptyTable(n)) = {} /\ Pairs(EmptyTable(n)) = {}
  <1> DEFINE T == EmptyTable(n)
  <1>1. EmptyEntry.empty = TRUE /\ EmptyEntry.probes = 0
    BY DEF EmptyEntry
  <1>2. T = [i \in 0 .. n - 1 |-> T[i]] /\ \A i \in 0 .. n - 1 : T[i] = EmptyEntry
    BY DEF EmptyTable
  <1> HIDE DEF T
  <1>3. Slots(T, n)
    BY <1>2 DEF Slots
  <1>4. InUse(T) = {}
    BY <1>1, <1>2, <1>3, SlotFacts
  <1>5. Pairs(T) = {} /\ OneEach(T)
    BY <1>4 DEF Pairs, OneEach
  <1>6. ASSUME NEW i \in 0 .. n - 1 PROVE Rising(T, i, n)
    <2>1. (i + 1) % n \in 0 .. n - 1
      BY NextSlot
    <2>2. T[(i + 1) % n].probes = 0
      BY <1>1, <1>2, <2>1
    <2>3. Reach(T[i]) = 0
      BY <1>1, <1>2 DEF Reach
    <2> QED
      BY <2>2, <2>3 DEF Rising
  <1>7. 0 \in 0 .. n - 1 /\ T[0].probes = 0
    BY <1>1, <1>2
  <1>8. Good(T, n)
    BY <1>3, <1>5, <1>6, <1>7 DEF Good, Orderly
  <1> QED
    BY <1>4, <1>5, <1>8 DEF T

\* A table has a key if and only if it has a pair with it.
LEMMA HasPair ==
  ASSUME NEW T, NEW k PROVE Has(T, k) <=> \E v : <<k, v>> \in Pairs(T)
  BY DEF Has, Pairs, Pair

\* What is gained is counted.
LEMMA GainCounts ==
  ASSUME NEW R, NEW n, NEW T, NEW x, Slots(T, n), GainsOnly(R, n, T, x)
  PROVE  Cardinality(InUse(R)) = Cardinality(InUse(T)) + 1
  <1>1. IsFiniteSet(InUse(T))
    BY SlotFacts
  <1>2. PICK i : i \notin InUse(T) /\ InUse(R) = InUse(T) \cup {i}
    BY DEF GainsOnly
  <1> QED
    BY <1>1, <1>2, FS_AddElement

\* A table that uses fewer slots than it has has an empty one.
LEMMA SlotLeft ==
  ASSUME NEW T, NEW n, Slots(T, n), Cardinality(InUse(T)) < n
  PROVE  \E z \in 0 .. n - 1 : z \notin InUse(T)
  <1>1. n \in Nat /\ \A i \in InUse(T) : i \in 0 .. n - 1
    BY SlotFacts
  <1>2. Cardinality(0 .. n - 1) = n
    BY <1>1, FS_Interval
  <1> SUFFICES ASSUME \A z \in 0 .. n - 1 : z \in InUse(T) PROVE FALSE
    OBVIOUS
  <1>3. InUse(T) = 0 .. n - 1
    BY <1>1
  <1> QED
    BY <1>1, <1>2, <1>3

\* The table S after the entries of T before slot m were set again.
Before(T, m) == {j \in InUse(T) : j < m}
Again(S, m, T, n) ==
    /\ Good(S, n) /\ Pairs(S) = {Pair(T[j]) : j \in Before(T, m)}
    /\ Cardinality(InUse(S)) = Cardinality(Before(T, m))

LEMMA BeforeFacts ==
  ASSUME NEW T, NEW n, Slots(T, n), NEW m \in 0 .. n - 1
  PROVE  /\ Before(T, m + 1) = IF T[m].empty THEN Before(T, m) ELSE Before(T, m) \cup {m}
         /\ m \notin Before(T, m) /\ IsFiniteSet(Before(T, m))
         /\ Cardinality(Before(T, m)) \in Nat /\ Cardinality(Before(T, m)) <= n
  <1>1. /\ n \in Nat /\ IsFiniteSet(InUse(T))
        /\ \A i : i \in InUse(T) <=> i \in 0 .. n - 1 /\ ~T[i].empty
    BY SlotFacts
  <1>2. Before(T, m) \in SUBSET InUse(T) /\ Before(T, m) \in SUBSET (0 .. n - 1)
    BY <1>1 DEF Before
  <1>3. IsFiniteSet(Before(T, m))
    BY <1>1, <1>2, FS_Subset
  <1>4. Cardinality(Before(T, m)) \in Nat
    BY <1>3, FS_CardinalityType
  <1>5. IsFiniteSet(0 .. n - 1) /\ Cardinality(0 .. n - 1) = n
    BY <1>1, FS_Interval
  <1>6. Cardinality(Before(T, m)) <= n
    BY <1>2, <1>5, FS_Subset
  <1>7. ASSUME NEW j
        PROVE  j \in Before(T, m + 1)
                 <=> j \in (IF T[m].empty THEN Before(T, m) ELSE Before(T, m) \cup {m})
    <2>1. j \in 0 .. n - 1 => (j < m + 1 <=> j < m \/ j = m)
      BY <1>1
    <2>2. j \in Before(T, m + 1) <=> j \in 0 .. n - 1 /\ ~T[j].empty /\ j < m + 1
      BY <1>1 DEF Before
    <2>3. j \in Before(T, m) <=> j \in 0 .. n - 1 /\ ~T[j].empty /\ j < m
      BY <1>1 DEF Before
    <2> QED
      BY <2>1, <2>2, <2>3
  <1>8. m \notin Before(T, m)
    BY <1>1 DEF Before
  <1> QED
    BY <1>3, <1>4, <1>6, <1>7, <1>8

LEMMA SetOneMore ==
  ASSUME NEW S, NEW T, NEW n, NEW g, NEW m \in 0 .. n - 1, Good(T, n), Again(S, m, T, g),
         g \in Nat, g > n
  PROVE  Again(SetAgain(S, T[m]), m + 1, T, g)
  <1>0. Slots(T, n) /\ OneEach(T) /\ Slots(S, g) /\ Good(S, g)
    BY DEF Again, Good, Orderly
  <1> DEFINE B == Before(T, m)
  <1>1. /\ Before(T, m + 1) = IF T[m].empty THEN B ELSE B \cup {m}
        /\ m \notin B /\ IsFiniteSet(B) /\ Cardinality(B) \in Nat /\ Cardinality(B) <= n
    BY <1>0, BeforeFacts
  <1>2. Pairs(S) = {Pair(T[j]) : j \in B} /\ Cardinality(InUse(S)) = Cardinality(B)
    BY DEF Again
  <1>3. n \in Nat /\ B \subseteq InUse(T)
    BY <1>0, SlotFacts DEF Before
  <1> HIDE DEF B
  <1>4. CASE T[m].empty
    <2>1. SetAgain(S, T[m]) = S
      BY <1>4 DEF SetAgain
    <2> QED
      BY <1>0, <1>1, <1>2, <1>4, <2>1 DEF Again
  <1>5. CASE ~T[m].empty
    <2> DEFINE k == T[m].key
               v == T[m].value
    <2>1. k \in Key /\ v \in MapValue /\ m \in InUse(T)
      BY <1>0, <1>5, SlotFacts
    <2>2. ~Has(S, k)
      <3> SUFFICES ASSUME Has(S, k) PROVE FALSE
        OBVIOUS
      <3>1. PICK w : <<k, w>> \in Pairs(S)
        BY HasPair
      <3>2. PICK j \in B : <<k, w>> = Pair(T[j])
        BY <1>2, <3>1
      <3>3. T[j].key = k
        BY <3>2 DEF Pair
      <3>4. j = m
        BY <1>0, <1>3, <2>1, <3>3 DEF OneEach
      <3> QED
        BY <1>1, <3>4
    <2> DEFINE R == Placed(S, k, v)
               x == NewEntry(k, v)
    <2>3. SetAgain(S, T[m]) = R
      BY <1>5 DEF SetAgain
    <2>4. Pair(x) = Pair(T[m])
      BY DEF NewEntry, Pair
    <2> HIDE DEF k, v
    <2>5. PICK z \in 0 .. g - 1 : z \notin InUse(S)
      <3>1. Cardinality(InUse(S)) < g
        BY <1>1, <1>2, <1>3
      <3> QED
        BY <1>0, <3>1, SlotLeft
    <2>6. GainsOnly(R, g, S, x)
      BY <1>0, <2>1, <2>2, <2>5, PlacedIs
    <2> HIDE DEF R, x
    <2>7. Cardinality(InUse(R)) = Cardinality(InUse(S)) + 1
      BY <1>0, <2>6, GainCounts
    <2>8. Cardinality(B \cup {m}) = Cardinality(B) + 1
      BY <1>1, FS_AddElement
    <2>9. Pairs(R) = {Pair(T[j]) : j \in B \cup {m}}
      BY <1>2, <2>4, <2>6 DEF GainsOnly
    <2>10. Good(R, g)
      BY <2>6 DEF GainsOnly
    <2> QED
      BY <1>1, <1>2, <1>5, <2>3, <2>7, <2>8, <2>9, <2>10 DEF Again
  <1> QED
    BY <1>4, <1>5

\* The function u gives the tables of the loop.
RehashRuns(u, T, g, m) ==
    /\ u[0] = EmptyTable(g)
    /\ \A r \in 1 .. m : u[r] = SetAgain(u[r - 1], T[r - 1])
    /\ Rehashed(T, g) = u[m]

LEMMA RehashedRuns ==
  ASSUME NEW T, NEW g, Capacity(T) \in Nat
  PROVE  \E u : RehashRuns(u, T, g, Capacity(T))
  <1> DEFINE s == EmptyTable(g)
             m == Capacity(T)
             u == CHOOSE v : Runs(v, 4, T, s, m)
  <1> HIDE DEF s, m
  <1>1. m \in Nat
    BY DEF m
  <1>2. Runs(u, 4, T, s, m)
    BY <1>1, LoopRuns
  <1>3. \A v : Runs(v, 4, T, s, m)
                 <=> v = [n \in 0 .. m |-> IF n = 0 THEN s ELSE SetAgain(v[n - 1], T[n - 1])]
    BY DEF Runs, Round
  <1>4. Rehashed(T, g) = u[m]
    BY <1>3 DEF Rehashed, s, m
  <1> HIDE DEF u
  <1>5. u[0] = s /\ \A r \in 1 .. m : u[r] = SetAgain(u[r - 1], T[r - 1])
    BY <1>1, <1>2 DEF Runs, Round
  <1> QED
    BY <1>4, <1>5 DEF s, m, RehashRuns

LEMMA RehashedIs ==
  ASSUME NEW T, NEW n, Good(T, n), NEW g \in Nat, g > n
  PROVE  /\ Good(Rehashed(T, g), g) /\ Pairs(Rehashed(T, g)) = Pairs(T)
         /\ Cardinality(InUse(Rehashed(T, g))) = Cardinality(InUse(T))
  <1>1. /\ Slots(T, n) /\ n \in Nat /\ n >= 2 /\ Capacity(T) = n
        /\ \A i \in InUse(T) : i \in 0 .. n - 1
    <2>1. Slots(T, n)
      BY DEF Good, Orderly
    <2> QED
      BY <2>1, SlotFacts
  <1>2. PICK u : RehashRuns(u, T, g, Capacity(T))
    BY <1>1, RehashedRuns
  <1>3. /\ u[0] = EmptyTable(g)
        /\ \A r \in 1 .. n : u[r] = SetAgain(u[r - 1], T[r - 1])
        /\ Rehashed(T, g) = u[n]
    BY <1>1, <1>2 DEF RehashRuns
  <1> DEFINE Bad == {r \in Nat : r \in 0 .. n /\ ~Again(u[r], r, T, g)}
  <1>4. Bad = {}
    <2> SUFFICES ASSUME Bad # {} PROVE FALSE
      OBVIOUS
    <2>0. Bad \in SUBSET Nat
      OBVIOUS
    <2>1. PICK r \in Bad : \A y \in Bad : r <= y
      BY <2>0, LeastNat
    <2>2. r \in Nat /\ r \in 0 .. n /\ ~Again(u[r], r, T, g)
      OBVIOUS
    <2>3. CASE r = 0
      <3>1. Before(T, 0) = {}
        BY <1>1 DEF Before
      <3>2. g >= 2
        BY <1>1
      <3>3. Good(EmptyTable(g), g) /\ InUse(EmptyTable(g)) = {} /\ Pairs(EmptyTable(g)) = {}
        BY <3>2, EmptyGood
      <3>4. Again(EmptyTable(g), 0, T, g)
        BY <3>1, <3>3 DEF Again
      <3> QED
        BY <1>3, <2>2, <2>3, <3>4
    <2>4. CASE r # 0
      <3>1. PICK q \in Nat : q = r - 1
        BY <2>2, <2>4
      <3>2. q \in 0 .. n /\ q \notin Bad /\ r \in 1 .. n /\ q \in 0 .. n - 1 /\ r = q + 1
        BY <1>1, <2>1, <2>2, <2>4, <3>1
      <3>3. Again(u[q], q, T, g)
        BY <3>2
      <3>4. Again(SetAgain(u[q], T[q]), q + 1, T, g)
        BY <1>1, <3>2, <3>3, SetOneMore
      <3> QED
        BY <1>3, <2>2, <3>1, <3>2, <3>4
    <2> QED
      BY <2>3, <2>4
  <1>5. Again(u[n], n, T, g)
    BY <1>1, <1>4
  <1>6. Before(T, n) = InUse(T)
    BY <1>1 DEF Before
  <1> QED
    BY <1>3, <1>5, <1>6 DEF Again, Pairs

-----------------------------------------------------------------------------
(***************************************************************************)
(* remove: the hole that it leaves moves on, until the entry behind it is  *)
(* at home.                                                                *)
(***************************************************************************)

\* Only the entry behind slot a, which is empty, may be too far from home.
Hole(S, a, n) ==
    /\ Slots(S, n) /\ OneEach(S) /\ a \in 0 .. n - 1 /\ S[a].empty
    /\ \A j \in 0 .. n - 1 : j # a => Rising(S, j, n)
    /\ \A p \in 0 .. n - 1 : (p + 1) % n = a => S[(a + 1) % n].probes <= Reach(S[p]) + 1

\* The table S is T without the entry of slot i.
Lacks(S, T, i) ==
    /\ Pairs(S) = Pairs(T) \ {Pair(T[i])}
    /\ Cardinality(InUse(S)) = Cardinality(InUse(T)) - 1

LEMMA HoleMade ==
  ASSUME NEW T, NEW n, Good(T, n), NEW i \in InUse(T),
         NEW S, S = [T EXCEPT ![i] = EmptyEntry]
  PROVE  Hole(S, i, n) /\ Lacks(S, T, i)
  <1>0. Slots(T, n) /\ OneEach(T) /\ \A j \in 0 .. n - 1 : Rising(T, j, n)
    BY DEF Good, Orderly
  <1>1. /\ n \in Nat /\ n >= 2 /\ DOMAIN T = 0 .. n - 1 /\ T = [j \in 0 .. n - 1 |-> T[j]]
        /\ IsFiniteSet(InUse(T)) /\ i \in 0 .. n - 1 /\ ~T[i].empty
        /\ \A j \in InUse(T) : j \in 0 .. n - 1
    BY <1>0, SlotFacts DEF Slots
  <1>2. /\ S = [j \in 0 .. n - 1 |-> S[j]] /\ S[i] = EmptyEntry /\ DOMAIN S = 0 .. n - 1
        /\ \A j \in 0 .. n - 1 : j # i => S[j] = T[j]
    BY <1>1
  <1>3. EmptyEntry.empty = TRUE /\ EmptyEntry.probes = 0
    BY DEF EmptyEntry
  <1>4. Slots(S, n)
    <2>1. ASSUME NEW j \in 0 .. n - 1 PROVE S[j] = EmptyEntry \/ EntryAt(S[j], j, n)
      BY <1>0, <1>2 DEF Slots
    <2> QED
      BY <1>1, <1>2, <2>1 DEF Slots
  <1>5. InUse(S) = InUse(T) \ {i}
    BY <1>1, <1>2, <1>3 DEF InUse
  <1>6. \A j \in InUse(S) : S[j] = T[j]
    BY <1>1, <1>2, <1>5
  <1>7. OneEach(S)
    BY <1>0, <1>5, <1>6 DEF OneEach
  <1>8. /\ (i + 1) % n = IF i = n - 1 THEN 0 ELSE i + 1
        /\ (i + 1) % n \in 0 .. n - 1 /\ (i + 1) % n # i
    BY <1>1, NextSlot
  <1>9. ASSUME NEW j \in 0 .. n - 1, j # i PROVE Rising(S, j, n)
    <2>1. (j + 1) % n \in 0 .. n - 1
      BY <1>1, NextSlot
    <2>2. T[(j + 1) % n].probes <= Reach(T[j])
      BY <1>0 DEF Rising
    <2>3. T[j].probes \in 0 .. n - 1
      BY <1>0, SlotFacts
    <2>4. Reach(S[j]) >= 0 /\ Reach(S[j]) = Reach(T[j])
      <3>1. Reach(T[j]) >= 0
        BY <1>1, <2>3 DEF Reach
      <3> QED
        BY <1>2, <1>9, <3>1
    <2> QED
      BY <1>2, <1>3, <2>1, <2>2, <2>4 DEF Rising
  <1>10. ASSUME NEW p \in 0 .. n - 1, (p + 1) % n = i
         PROVE  S[(i + 1) % n].probes <= Reach(S[p]) + 1
    <2>1. p # i
      BY <1>8, <1>10
    <2>2. S[p] = T[p] /\ S[(i + 1) % n] = T[(i + 1) % n]
      BY <1>2, <1>8, <2>1
    <2>3. T[i].probes <= Reach(T[p])
      BY <1>0, <1>10 DEF Rising
    <2>4. T[(i + 1) % n].probes <= T[i].probes + 1
      BY <1>0, <1>1 DEF Rising, Reach
    <2>5. T[i].probes \in 0 .. n - 1 /\ T[(i + 1) % n].probes \in 0 .. n - 1
      BY <1>0, <1>1, <1>8, SlotFacts
    <2>6. T[p].probes \in 0 .. n - 1
      BY <1>0, SlotFacts
    <2>7. Reach(T[p]) \in Nat
      BY <1>1, <2>6 DEF Reach
    <2>8. PICK c, d, f : c = T[i].probes /\ d = T[(i + 1) % n].probes /\ f = Reach(T[p])
      OBVIOUS
    <2>9. d <= f + 1
      <3>1. c \in Nat /\ d \in Nat /\ f \in Nat
        BY <1>1, <2>5, <2>7, <2>8
      <3> QED
        BY <2>3, <2>4, <2>8, <3>1
    <2>10. Reach(S[p]) = f /\ S[(i + 1) % n].probes = d
      BY <2>2, <2>8
    <2> QED
      BY <2>9, <2>10
  <1>11. Hole(S, i, n)
    BY <1>1, <1>2, <1>3, <1>4, <1>7, <1>9, <1>10 DEF Hole
  <1>12. Pairs(S) = Pairs(T) \ {Pair(T[i])}
    <2>1. \A j \in InUse(T) : Pair(T[j]) = Pair(T[i]) => j = i
      BY <1>0 DEF OneEach, Pair
    <2>2. \A y : y \in Pairs(S) <=> \E j \in InUse(T) \ {i} : y = Pair(T[j])
      BY <1>5, <1>6 DEF Pairs
    <2>3. \A y : y \in Pairs(T) <=> \E j \in InUse(T) : y = Pair(T[j])
      BY DEF Pairs
    <2>4. \A y : y \in Pairs(S) <=> y \in Pairs(T) /\ y # Pair(T[i])
      BY <2>1, <2>2, <2>3
    <2> QED
      BY <2>4
  <1>13. Cardinality(InUse(S)) = Cardinality(InUse(T)) - 1
    BY <1>1, <1>5, FS_RemoveElement
  <1> QED
    BY <1>11, <1>12, <1>13 DEF Lacks

LEMMA HoleClosed ==
  ASSUME NEW S, NEW n, NEW a, Hole(S, a, n), S[(a + 1) % n].probes = 0
  PROVE  Good(S, n)
  <1>1. Slots(S, n) /\ OneEach(S) /\ a \in 0 .. n - 1 /\ S[a].empty
    BY DEF Hole
  <1>2. (a + 1) % n \in 0 .. n - 1
    BY <1>1, SlotFacts, NextSlot
  <1>3. Rising(S, a, n)
    BY <1>1 DEF Rising, Reach
  <1>4. \A j \in 0 .. n - 1 : Rising(S, j, n)
    BY <1>3 DEF Hole
  <1> QED
    BY <1>1, <1>2, <1>4 DEF Good, Orderly

\* The table R is S with the entry e of slot m moved back into the hole at a.
Moving(R, S, a, m, n, e) ==
    /\ Hole(S, a, n) /\ m = (a + 1) % n /\ m # 0 /\ S[m].probes # 0
    /\ e = [S[m] EXCEPT !.probes = @ - 1]
    /\ R = [S EXCEPT ![m] = EmptyEntry, ![m - 1] = e]
Moved(R, S, a, m, n) ==
    /\ m = a + 1 /\ Hole(R, m, n)
    /\ Pairs(R) = Pairs(S) /\ Cardinality(InUse(R)) = Cardinality(InUse(S))

LEMMA HoleMoved ==
  ASSUME NEW R, NEW S, NEW a, NEW m, NEW n, NEW e, Moving(R, S, a, m, n, e)
  PROVE  Moved(R, S, a, m, n)
  <1>0. /\ Slots(S, n) /\ OneEach(S) /\ a \in 0 .. n - 1 /\ S[a].empty
        /\ \A j \in 0 .. n - 1 : j # a => Rising(S, j, n)
        /\ \A p \in 0 .. n - 1 : (p + 1) % n = a => S[(a + 1) % n].probes <= Reach(S[p]) + 1
    BY DEF Hole, Moving
  <1>a. /\ m = (a + 1) % n /\ m # 0 /\ S[m].probes # 0
        /\ e = [S[m] EXCEPT !.probes = @ - 1]
        /\ R = [S EXCEPT ![m] = EmptyEntry, ![m - 1] = e]
    BY DEF Moving
  <1>1. /\ n \in Nat /\ n >= 2 /\ DOMAIN S = 0 .. n - 1 /\ S = [j \in 0 .. n - 1 |-> S[j]]
        /\ IsFiniteSet(InUse(S)) /\ a \notin InUse(S)
        /\ \A j \in InUse(S) : j \in 0 .. n - 1
    BY <1>0, SlotFacts DEF Slots
  <1>2. m = a + 1 /\ m - 1 = a /\ m \in 0 .. n - 1 /\ m # a
    <2>1. /\ (a + 1) % n = IF a = n - 1 THEN 0 ELSE a + 1
          /\ (a + 1) % n \in 0 .. n - 1
      BY <1>0, <1>1, NextSlot
    <2> QED
      BY <1>0, <1>1, <1>a, <2>1
  <1>3. S[m].probes \in 0 .. n - 1 /\ S[m].probes \in Nat \ {0}
    BY <1>0, <1>1, <1>2, <1>a, SlotFacts
  <1>4. m \in InUse(S) /\ EntryAt(S[m], m, n)
    BY <1>0, <1>2, <1>3, SlotFacts
  <1>5. /\ S[m] = [empty |-> FALSE, probes |-> S[m].probes, key |-> S[m].key, value |-> S[m].value]
        /\ S[m].key \in Key /\ S[m].key \in Nat /\ S[m].value \in MapValue
        /\ (S[m].key + S[m].probes) % n = m
    BY <1>4, EntryFacts DEF EntryAt
  <1>6. e = [empty |-> FALSE, probes |-> S[m].probes - 1, key |-> S[m].key, value |-> S[m].value]
    <2>1. PICK b : b = S[m]
      OBVIOUS
    <2>2. b = [empty |-> FALSE, probes |-> b.probes, key |-> b.key, value |-> b.value]
      BY <1>5, <2>1
    <2>3. [b EXCEPT !.probes = b.probes - 1]
             = [empty |-> FALSE, probes |-> b.probes - 1, key |-> b.key, value |-> b.value]
      BY <2>2, EntryRecounted
    <2> QED
      BY <1>a, <2>1, <2>3
  <1>7. /\ e.empty = FALSE /\ e.probes = S[m].probes - 1 /\ e.key = S[m].key
        /\ e.value = S[m].value
        /\ e = [empty |-> FALSE, probes |-> e.probes, key |-> e.key, value |-> e.value]
    <2>1. PICK p, k, v : p = S[m].probes - 1 /\ k = S[m].key /\ v = S[m].value
      OBVIOUS
    <2>2. e = [empty |-> FALSE, probes |-> p, key |-> k, value |-> v]
      BY <1>6, <2>1
    <2>3. e.empty = FALSE /\ e.probes = p /\ e.key = k /\ e.value = v
      BY <2>2
    <2> QED
      BY <2>1, <2>2, <2>3
  <1>8. EntryAt(e, a, n)
    <2>1. PICK y \in Int : /\ y = S[m].key + S[m].probes /\ y - 1 = S[m].key + (S[m].probes - 1)
                           /\ y % n = m
      BY <1>3, <1>5
    <2>2. (y - 1) % n = (y % n) - 1
      BY <1>1, <1>a, <2>1, OneBack
    <2>3. (e.key + e.probes) % n = a
      BY <1>2, <1>7, <2>1, <2>2
    <2>4. e.probes \in 0 .. n - 1
      BY <1>1, <1>3, <1>7
    <2> QED
      BY <1>5, <1>7, <2>3, <2>4 DEF EntryAt
  <1>9. /\ R = [j \in 0 .. n - 1 |-> R[j]] /\ DOMAIN R = 0 .. n - 1
        /\ R[m] = EmptyEntry /\ R[a] = e
        /\ \A j \in 0 .. n - 1 : j # m /\ j # a => R[j] = S[j]
    BY <1>0, <1>1, <1>2, <1>a
  <1>10. EmptyEntry.empty = TRUE /\ EmptyEntry.probes = 0
    BY DEF EmptyEntry
  <1>11. Slots(R, n)
    <2>1. ASSUME NEW j \in 0 .. n - 1 PROVE R[j] = EmptyEntry \/ EntryAt(R[j], j, n)
      BY <1>0, <1>8, <1>9 DEF Slots
    <2> QED
      BY <1>1, <1>9, <2>1 DEF Slots
  <1>12. InUse(R) = (InUse(S) \ {m}) \cup {a}
    BY <1>0, <1>1, <1>2, <1>7, <1>9, <1>10 DEF InUse
  <1>13. \A j \in InUse(R) : R[j] = IF j = a THEN e ELSE S[j]
    BY <1>1, <1>9, <1>12
  <1>14. Pairs(R) = Pairs(S)
    <2>1. Pair(e) = Pair(S[m])
      BY <1>7 DEF Pair
    <2>2. \A y : y \in Pairs(R) <=> \E j \in InUse(R) : y = Pair(R[j])
      BY DEF Pairs
    <2>3. \A y : y \in Pairs(S) <=> \E j \in InUse(S) : y = Pair(S[j])
      BY DEF Pairs
    <2>4. R[a] = e /\ a \in InUse(R) /\ \A j \in InUse(R) : j # a => R[j] = S[j]
      BY <1>9, <1>12, <1>13
    <2>5. ASSUME NEW y, y \in Pairs(R) PROVE y \in Pairs(S)
      <3>1. PICK j \in InUse(R) : y = Pair(R[j])
        BY <2>2, <2>5
      <3>2. CASE j = a
        BY <1>4, <2>1, <2>3, <2>4, <3>1, <3>2
      <3>3. CASE j # a
        <4>1. j \in InUse(S) /\ R[j] = S[j]
          BY <1>12, <2>4, <3>3
        <4> QED
          BY <2>3, <3>1, <4>1
      <3> QED
        BY <3>2, <3>3
    <2>6. ASSUME NEW y, y \in Pairs(S) PROVE y \in Pairs(R)
      <3>1. PICK j \in InUse(S) : y = Pair(S[j])
        BY <2>3, <2>6
      <3>2. CASE j = m
        BY <2>1, <2>2, <2>4, <3>1, <3>2
      <3>3. CASE j # m
        BY <1>1, <1>12, <2>2, <2>4, <3>1, <3>3
      <3> QED
        BY <3>2, <3>3
    <2> QED
      BY <2>5, <2>6
  <1>15. Cardinality(InUse(R)) = Cardinality(InUse(S))
    <2>0. PICK F : F = InUse(S)
      OBVIOUS
    <2>1. IsFiniteSet(F) /\ m \in F /\ a \notin F /\ InUse(R) = (F \ {m}) \cup {a}
      BY <1>1, <1>4, <1>12, <2>0
    <2>2. IsFiniteSet(F \ {m}) /\ Cardinality(F \ {m}) = Cardinality(F) - 1
      BY <2>1, FS_RemoveElement
    <2>3. a \notin F \ {m}
      BY <2>1
    <2>4. Cardinality((F \ {m}) \cup {a}) = Cardinality(F \ {m}) + 1
      BY <2>2, <2>3, FS_AddElement
    <2>5. Cardinality(F) \in Nat
      BY <2>1, FS_CardinalityType
    <2>6. PICK G, c : G = F \ {m} /\ c = Cardinality(G)
      OBVIOUS
    <2>7. Cardinality(InUse(R)) = c + 1 /\ c = Cardinality(F) - 1
      BY <2>1, <2>2, <2>4, <2>6
    <2>8. Cardinality(InUse(R)) = Cardinality(F)
      BY <2>5, <2>7
    <2> QED
      BY <2>0, <2>8
  <1>16. OneEach(R)
    <2>1. \A j, h \in InUse(S) : S[j].key = S[h].key => j = h
      BY <1>0 DEF OneEach
    <2>2. ASSUME NEW j \in InUse(R), NEW h \in InUse(R), R[j].key = R[h].key PROVE j = h
      <3>1. R[j] = (IF j = a THEN e ELSE S[j]) /\ R[h] = (IF h = a THEN e ELSE S[h])
        BY <1>13
      <3>2. /\ j # a => j \in InUse(S) /\ j # m
            /\ h # a => h \in InUse(S) /\ h # m
        BY <1>12
      <3>3. CASE j = a
        BY <1>4, <1>7, <2>1, <2>2, <3>1, <3>2, <3>3
      <3>4. CASE j # a
        <4>1. CASE h = a
          BY <1>4, <1>7, <2>1, <2>2, <3>1, <3>2, <3>4, <4>1
        <4>2. CASE h # a
          BY <2>1, <2>2, <3>1, <3>2, <3>4, <4>2
        <4> QED
          BY <4>1, <4>2
      <3> QED
        BY <3>3, <3>4
    <2> QED
      BY <2>2 DEF OneEach
  <1>17. ASSUME NEW j \in 0 .. n - 1 PROVE S[j].probes \in Nat /\ Reach(S[j]) \in Nat
    <2>1. S[j].probes \in 0 .. n - 1
      BY <1>0, SlotFacts
    <2> QED
      BY <1>1, <2>1 DEF Reach
  <1>18. Reach(R[a]) = S[m].probes /\ Reach(S[m]) = S[m].probes + 1 /\ R[m].probes = 0
    <2>1. S[m].empty = FALSE
      BY <1>4, EntryFacts
    <2> QED
      BY <1>3, <1>7, <1>9, <1>10, <2>1 DEF Reach
  <1>19. ASSUME NEW j \in 0 .. n - 1, j # m PROVE Rising(R, j, n)
    <2>1. PICK q : q = (j + 1) % n /\ q \in 0 .. n - 1 /\ q # j
      BY <1>1, NextSlot
    <2>2. R[q].probes <= Reach(R[j])
      <3>1. CASE j = a
        <4>1. q = m
          BY <1>a, <2>1, <3>1
        <4> QED
          BY <1>3, <1>18, <3>1, <4>1
      <3>2. CASE j # a /\ q = a
        <4>1. S[m].probes <= Reach(S[j]) + 1
          BY <1>0, <1>a, <2>1, <3>2
        <4>2. R[j] = S[j] /\ R[q].probes = S[m].probes - 1
          BY <1>7, <1>9, <1>19, <3>2
        <4>3. Reach(S[j]) \in Nat
          BY <1>17
        <4> QED
          BY <1>3, <4>1, <4>2, <4>3
      <3>3. CASE j # a /\ q # a
        <4>1. q # m
          <5>1. (j + 1) % n = IF j = n - 1 THEN 0 ELSE j + 1
            BY <1>1, NextSlot
          <5> QED
            BY <1>0, <1>1, <1>2, <2>1, <3>3, <5>1
        <4>2. R[j] = S[j] /\ R[q] = S[q]
          BY <1>9, <1>19, <2>1, <3>3, <4>1
        <4> QED
          BY <1>0, <2>1, <3>3, <4>2 DEF Rising
      <3> QED
        BY <3>1, <3>2, <3>3
    <2> QED
      BY <2>1, <2>2 DEF Rising
  <1>20. ASSUME NEW p \in 0 .. n - 1, (p + 1) % n = m
         PROVE  R[(m + 1) % n].probes <= Reach(R[p]) + 1
    <2>1. p = a
      <3>1. (p + 1) % n = IF p = n - 1 THEN 0 ELSE p + 1
        BY <1>1, NextSlot
      <3> QED
        BY <1>0, <1>1, <1>2, <1>20, <3>1
    <2>2. PICK q : q = (m + 1) % n /\ q \in 0 .. n - 1 /\ q # m
      BY <1>1, <1>2, NextSlot
    <2>3. CASE q = a
      BY <1>3, <1>7, <1>9, <1>18, <2>1, <2>2, <2>3
    <2>4. CASE q # a
      <3>1. S[q].probes <= S[m].probes + 1
        BY <1>0, <1>2, <1>18, <2>2 DEF Rising
      <3>2. R[q] = S[q]
        BY <1>9, <2>2, <2>4
      <3> QED
        BY <1>18, <2>1, <2>2, <3>1, <3>2
    <2> QED
      BY <2>3, <2>4
  <1>21. Hole(R, m, n)
    BY <1>2, <1>9, <1>10, <1>11, <1>16, <1>19, <1>20 DEF Hole
  <1> QED
    BY <1>2, <1>14, <1>15, <1>21 DEF Moved

MoveAt(S, a, h) == [table |-> S, at |-> a, header |-> h]

\* Where the loop is after r rounds, on a table T without the entry of slot i:
\* it has written before the table, or it stands r slots behind slot i, or the
\* entry behind its slot is at home.
MovedTo(s, r, i, n, T) ==
    \/ s.header = "overwritten"
    \/ \E S, a : /\ s = MoveAt(S, a, "intact") /\ Hole(S, a, n) /\ Lacks(S, T, i)
                 /\ (S[(a + 1) % n].probes = 0 \/ a = i + r)

LEMMA MoveOn ==
  ASSUME NEW s, NEW r \in Nat, NEW i \in Nat, NEW n, NEW T, MovedTo(s, r, i, n, T)
  PROVE  MovedTo(MoveBack(s), r + 1, i, n, T)
  <1>1. CASE s.header = "overwritten"
    <2>1. MoveBack(s).header = "overwritten"
      BY <1>1 DEF MoveBack
    <2> QED
      BY <2>1 DEF MovedTo
  <1>2. ASSUME NEW S, NEW a, s = MoveAt(S, a, "intact"), Hole(S, a, n), Lacks(S, T, i),
               S[(a + 1) % n].probes = 0 \/ a = i + r
        PROVE  MovedTo(MoveBack(s), r + 1, i, n, T)
    <2>1. PICK m : m = (a + 1) % n
      OBVIOUS
    <2>2. n \in Nat /\ n >= 2 /\ Capacity(S) = n /\ a \in 0 .. n - 1
      <3>1. Slots(S, n) /\ a \in 0 .. n - 1
        BY <1>2 DEF Hole
      <3> QED
        BY <3>1, SlotFacts
    <2>3. /\ s.table = S /\ s.at = a /\ s.header = "intact"
          /\ After(S, a) = m
      BY <1>2, <2>1, <2>2 DEF MoveAt, After
    <2>4. CASE S[m].probes = 0
      <3>1. MoveBack(s) = s
        BY <2>3, <2>4 DEF MoveBack
      <3> QED
        BY <1>2, <2>1, <2>4, <3>1 DEF MovedTo
    <2>5. CASE S[m].probes # 0 /\ m = 0
      <3>1. MoveBack(s)
              = [table |-> [S EXCEPT ![m] = EmptyEntry], at |-> m, header |-> "overwritten"]
        BY <2>3, <2>5 DEF MoveBack
      <3>2. MoveBack(s).header = "overwritten"
        BY <3>1
      <3> QED
        BY <3>2 DEF MovedTo
    <2>6. CASE S[m].probes # 0 /\ m # 0
      <3>1. PICK e : e = [S[m] EXCEPT !.probes = @ - 1]
        OBVIOUS
      <3>2. PICK R : R = [S EXCEPT ![m] = EmptyEntry, ![m - 1] = e]
        OBVIOUS
      <3>3. MoveBack(s) = MoveAt(R, m, "intact")
        BY <2>3, <2>6, <3>1, <3>2 DEF MoveBack, MoveAt
      <3>4. /\ m = a + 1 /\ Hole(R, m, n)
            /\ Pairs(R) = Pairs(S) /\ Cardinality(InUse(R)) = Cardinality(InUse(S))
        <4>1. Moving(R, S, a, m, n, e)
          BY <1>2, <2>1, <2>6, <3>1, <3>2 DEF Moving
        <4>2. Moved(R, S, a, m, n)
          BY <4>1, HoleMoved
        <4> QED
          BY <4>2 DEF Moved
      <3>5. Lacks(R, T, i)
        BY <1>2, <3>4 DEF Lacks
      <3>6. m = i + (r + 1)
        BY <1>2, <2>1, <2>6, <3>4
      <3> QED
        BY <3>3, <3>4, <3>5, <3>6 DEF MovedTo
    <2> QED
      BY <2>4, <2>5, <2>6
  <1> QED
    BY <1>1, <1>2 DEF MovedTo

LEMMA EnoughRounds ==
  ASSUME NEW T, NEW n, Slots(T, n) PROVE MoveRounds(T) \in Nat /\ MoveRounds(T) >= n
  <1> DEFINE D == DOMAIN T
             C == D \X (1 .. n)
             F == {c \in C : c[2] <= T[c[1]].probes}
  <1>1. n \in Nat /\ D = 0 .. n - 1 /\ Capacity(T) = n
    BY SlotFacts
  <1>2. IsFiniteSet(1 .. n) /\ IsFiniteSet(D)
    BY <1>1, FS_Interval
  <1> HIDE DEF D
  <1>3. IsFiniteSet(C)
    BY <1>2, FS_Product
  <1>4. F \in SUBSET C
    OBVIOUS
  <1>5. IsFiniteSet(F)
    BY <1>3, <1>4, FS_Subset
  <1>6. Cardinality(F) \in Nat
    BY <1>5, FS_CardinalityType
  <1>7. MoveRounds(T) = n + Cardinality(F)
    BY <1>1 DEF MoveRounds, D
  <1> QED
    BY <1>1, <1>6, <1>7

\* The function u gives the states of the loop.
MoveRuns(u, T, h, i, m) ==
    /\ u[0] = MoveAt([T EXCEPT ![i] = EmptyEntry], i, h)
    /\ \A r \in 1 .. m : u[r] = MoveBack(u[r - 1])
    /\ MovedBack(T, h, i) = u[m]

LEMMA MovedRuns ==
  ASSUME NEW T, NEW h, NEW i, MoveRounds(T) \in Nat
  PROVE  \E u : MoveRuns(u, T, h, i, MoveRounds(T))
  <1> DEFINE s == [table |-> [T EXCEPT ![i] = EmptyEntry], at |-> i, header |-> h]
             m == MoveRounds(T)
             u == CHOOSE v : Runs(v, 3, T, s, m)
  <1> HIDE DEF s, m
  <1>1. m \in Nat
    BY DEF m
  <1>2. Runs(u, 3, T, s, m)
    BY <1>1, LoopRuns
  <1>3. \A v : Runs(v, 3, T, s, m)
                 <=> v = [n \in 0 .. m |-> IF n = 0 THEN s ELSE MoveBack(v[n - 1])]
    BY DEF Runs, Round
  <1>4. MovedBack(T, h, i) = u[m]
    BY <1>3 DEF MovedBack, s, m
  <1> HIDE DEF u
  <1>5. u[0] = s /\ \A r \in 1 .. m : u[r] = MoveBack(u[r - 1])
    BY <1>1, <1>2 DEF Runs, Round
  <1> QED
    BY <1>4, <1>5 DEF s, m, MoveRuns, MoveAt

\* remove takes one entry out of the table and leaves the others, as long as it
\* does not write before the table.
LEMMA MovedBackIs ==
  ASSUME NEW T, NEW n, Good(T, n), NEW i \in InUse(T),
         MovedBack(T, "intact", i).header = "intact"
  PROVE  Good(MovedBack(T, "intact", i).table, n) /\ Lacks(MovedBack(T, "intact", i).table, T, i)
  <1>1. /\ Slots(T, n) /\ n \in Nat /\ n >= 2 /\ i \in 0 .. n - 1 /\ i \in Nat
        /\ MoveRounds(T) \in Nat /\ MoveRounds(T) >= n
    <2>1. Slots(T, n)
      BY DEF Good, Orderly
    <2> QED
      BY <2>1, SlotFacts, EnoughRounds
  <1>2. PICK b : b = MoveRounds(T) /\ b \in Nat /\ b >= n
    BY <1>1
  <1>3. PICK u : MoveRuns(u, T, "intact", i, b)
    BY <1>2, MovedRuns
  <1>4. PICK S0 : S0 = [T EXCEPT ![i] = EmptyEntry]
    OBVIOUS
  <1>5. /\ u[0] = MoveAt(S0, i, "intact")
        /\ \A r \in 1 .. b : u[r] = MoveBack(u[r - 1])
        /\ MovedBack(T, "intact", i) = u[b]
    BY <1>3, <1>4 DEF MoveRuns
  <1> DEFINE Bad == {r \in Nat : r \in 0 .. b /\ ~MovedTo(u[r], r, i, n, T)}
  <1>6. Bad = {}
    <2> SUFFICES ASSUME Bad # {} PROVE FALSE
      OBVIOUS
    <2>0. Bad \in SUBSET Nat
      OBVIOUS
    <2>1. PICK r \in Bad : \A y \in Bad : r <= y
      BY <2>0, LeastNat
    <2>2. r \in Nat /\ r \in 0 .. b /\ ~MovedTo(u[r], r, i, n, T)
      OBVIOUS
    <2>3. CASE r = 0
      <3>1. Hole(S0, i, n) /\ Lacks(S0, T, i)
        BY <1>4, HoleMade
      <3>2. i = i + 0
        BY <1>1
      <3>3. MovedTo(u[0], 0, i, n, T)
        BY <1>5, <3>1, <3>2 DEF MovedTo
      <3> QED
        BY <2>2, <2>3, <3>3
    <2>4. CASE r # 0
      <3>1. PICK q \in Nat : q = r - 1 /\ r = q + 1
        BY <2>2, <2>4
      <3>2. q \in 0 .. b /\ q \notin Bad /\ r \in 1 .. b
        BY <1>2, <2>1, <2>2, <2>4, <3>1
      <3>3. MovedTo(u[q], q, i, n, T)
        BY <3>2
      <3>4. MovedTo(MoveBack(u[q]), q + 1, i, n, T)
        BY <1>1, <3>3, MoveOn
      <3> QED
        BY <1>5, <2>2, <3>1, <3>2, <3>4
    <2> QED
      BY <2>3, <2>4
  <1>7. MovedTo(u[b], b, i, n, T)
    BY <1>2, <1>6
  <1>8. u[b].header # "overwritten"
    BY <1>5
  <1>9. PICK S, a : /\ u[b] = MoveAt(S, a, "intact") /\ Hole(S, a, n) /\ Lacks(S, T, i)
                    /\ (S[(a + 1) % n].probes = 0 \/ a = i + b)
    BY <1>7, <1>8 DEF MovedTo
  <1>10. a \in 0 .. n - 1
    BY <1>9 DEF Hole
  <1>11. S[(a + 1) % n].probes = 0
    BY <1>1, <1>2, <1>9, <1>10
  <1>12. Good(S, n)
    BY <1>9, <1>11, HoleClosed
  <1>13. u[b].table = S
    BY <1>9 DEF MoveAt
  <1> QED
    BY <1>5, <1>9, <1>12, <1>13

-----------------------------------------------------------------------------
(***************************************************************************)
(* The map.                                                                *)
(***************************************************************************)

\* A table with as many entries as are counted, in good order.
Sound(T, o) == Good(T, Capacity(T)) /\ o = Cardinality(InUse(T))

LEMMA SoundFacts ==
  ASSUME NEW T, NEW o, Sound(T, o)
  PROVE  \E n : /\ n = Capacity(T) /\ n \in Nat /\ n >= 2 /\ Good(T, n) /\ Slots(T, n)
                /\ OneEach(T) /\ o \in Nat /\ o <= n /\ o = Cardinality(InUse(T))
  <1>1. PICK n : n = Capacity(T)
    OBVIOUS
  <1>2. Good(T, n) /\ o = Cardinality(InUse(T))
    BY <1>1 DEF Sound
  <1>3. Slots(T, n) /\ OneEach(T)
    BY <1>2 DEF Good, Orderly
  <1>4. n \in Nat /\ n >= 2 /\ IsFiniteSet(InUse(T)) /\ InUse(T) \in SUBSET (0 .. n - 1)
    BY <1>3, SlotFacts
  <1>5. IsFiniteSet(0 .. n - 1) /\ Cardinality(0 .. n - 1) = n
    BY <1>4, FS_Interval
  <1>6. o \in Nat
    BY <1>2, <1>4, FS_CardinalityType
  <1>7. o <= n
    BY <1>2, <1>4, <1>5, FS_Subset
  <1> QED
    BY <1>1, <1>2, <1>3, <1>4, <1>6, <1>7

LEMMA SoundIs ==
  ASSUME NEW T, NEW n, NEW o, Good(T, n), o = Cardinality(InUse(T))
  PROVE  Sound(T, o) /\ Capacity(T) = n
  <1>1. Slots(T, n)
    BY DEF Good, Orderly
  <1>2. Capacity(T) = n
    BY <1>1, SlotFacts
  <1> QED
    BY <1>2 DEF Sound

\* What locate_bucket finds.
LEMMA LocateIs ==
  ASSUME NEW T, NEW n, Good(T, n), NEW k \in Key
  PROVE  /\ Locate(T, k) = NotFound <=> ~Has(T, k)
         /\ Has(T, k) => Locate(T, k) \in InUse(T) /\ T[Locate(T, k)].key = k
  <1>1. Slots(T, n)
    BY DEF Good, Orderly
  <1>2. \A i \in InUse(T) : i # NotFound
    BY <1>1, SlotFacts DEF NotFound
  <1>3. CASE Has(T, k)
    <2>1. PICK i \in InUse(T) : T[i].key = k
      BY <1>3 DEF Has
    <2>2. Locate(T, T[i].key) = i
      BY LocateFound
    <2> QED
      BY <1>2, <1>3, <2>1, <2>2
  <1>4. CASE ~Has(T, k)
    BY <1>4, LocateMissing
  <1> QED
    BY <1>3, <1>4

\* The table that set puts its entry into.
Roomy(T, o) == IF Crowded(T, o) THEN Regrown(T, Doubled(T)) ELSE T

LEMMA RoomyIs ==
  ASSUME NEW T, NEW o, Sound(T, o)
  PROVE  /\ Sound(Roomy(T, o), o) /\ Pairs(Roomy(T, o)) = Pairs(T)
         /\ o < Capacity(Roomy(T, o))
  <1>1. PICK n : /\ n = Capacity(T) /\ n \in Nat /\ n >= 2 /\ Good(T, n) /\ Slots(T, n)
                 /\ OneEach(T) /\ o \in Nat /\ o <= n /\ o = Cardinality(InUse(T))
    BY SoundFacts
  <1>2. CASE ~Crowded(T, o)
    <2>1. o < n
      BY <1>1, <1>2 DEF Crowded
    <2> QED
      BY <1>1, <1>2, <2>1 DEF Roomy
  <1>3. CASE Crowded(T, o)
    <2>1. PICK g : g = Doubled(T) /\ g \in Nat /\ g > n
      <3>1. (19 * n) \div 10 \in Nat /\ (19 * n) \div 10 > n
        BY <1>1
      <3> QED
        BY <1>1, <3>1 DEF Doubled
    <2>2. PICK R : R = Rehashed(T, g)
      OBVIOUS
    <2>3. Roomy(T, o) = R
      BY <1>1, <1>3, <2>1, <2>2 DEF Roomy, Regrown
    <2>4. Good(R, g) /\ Pairs(R) = Pairs(T) /\ Cardinality(InUse(R)) = Cardinality(InUse(T))
      BY <1>1, <2>1, <2>2, RehashedIs
    <2>5. Sound(R, o) /\ Capacity(R) = g
      BY <1>1, <2>4, SoundIs
    <2> QED
      BY <1>1, <2>1, <2>3, <2>4, <2>5
  <1> QED
    BY <1>2, <1>3

LEMMA SetIs ==
  ASSUME NEW T, NEW o, Sound(T, o), NEW k \in Key, NEW v \in MapValue, ~Has(T, k)
  PROVE  /\ Sound(Placed(Roomy(T, o), k, v), o + 1)
         /\ Pairs(Placed(Roomy(T, o), k, v)) = Pairs(T) \cup {<<k, v>>}
  <1>1. PICK R : R = Roomy(T, o)
    OBVIOUS
  <1>2. Sound(R, o) /\ Pairs(R) = Pairs(T) /\ o < Capacity(R)
    BY <1>1, RoomyIs
  <1>3. PICK n : /\ n = Capacity(R) /\ n \in Nat /\ n >= 2 /\ Good(R, n) /\ Slots(R, n)
                 /\ OneEach(R) /\ o \in Nat /\ o <= n /\ o = Cardinality(InUse(R))
    BY <1>2, SoundFacts
  <1>4. ~Has(R, k)
    BY <1>2, HasPair
  <1>5. PICK z \in 0 .. n - 1 : z \notin InUse(R)
    BY <1>2, <1>3, SlotLeft
  <1>6. PICK S, x : S = Placed(R, k, v) /\ x = NewEntry(k, v)
    OBVIOUS
  <1>7. GainsOnly(S, n, R, x)
    BY <1>3, <1>4, <1>5, <1>6, PlacedIs
  <1>8. Cardinality(InUse(S)) = Cardinality(InUse(R)) + 1
    BY <1>3, <1>7, GainCounts
  <1>9. Good(S, n) /\ Pairs(S) = Pairs(R) \cup {Pair(x)}
    BY <1>7 DEF GainsOnly
  <1>10. o + 1 = Cardinality(InUse(S))
    BY <1>3, <1>8
  <1>11. Sound(S, o + 1)
    BY <1>9, <1>10, SoundIs
  <1>12. Pair(x) = <<k, v>>
    BY <1>6 DEF Pair, NewEntry
  <1> QED
    BY <1>1, <1>2, <1>6, <1>9, <1>11, <1>12

LEMMA RemoveIs ==
  ASSUME NEW T, NEW o, Sound(T, o), NEW i \in InUse(T), MovedBack(T, "intact", i).header = "intact"
  PROVE  /\ Sound(MovedBack(T, "intact", i).table, o - 1)
         /\ Pairs(MovedBack(T, "intact", i).table) = Pairs(T) \ {Pair(T[i])}
  <1>1. PICK n : /\ n = Capacity(T) /\ n \in Nat /\ n >= 2 /\ Good(T, n) /\ Slots(T, n)
                 /\ OneEach(T) /\ o \in Nat /\ o <= n /\ o = Cardinality(InUse(T))
    BY SoundFacts
  <1>2. PICK S : S = MovedBack(T, "intact", i).table
    OBVIOUS
  <1>3. Good(S, n) /\ Lacks(S, T, i)
    BY <1>1, <1>2, MovedBackIs
  <1>4. Pairs(S) = Pairs(T) \ {Pair(T[i])} /\ o - 1 = Cardinality(InUse(S))
    BY <1>1, <1>3 DEF Lacks
  <1>5. Sound(S, o - 1)
    BY <1>3, <1>4, SoundIs
  <1> QED
    BY <1>2, <1>4, <1>5

MapInv == Sound(table, occupied) /\ walk \in Nat

LEMMA MapStarts == ASSUME MapInit PROVE MapInv
  <1>1. MapCapacity \in Nat /\ MapCapacity >= 2
    BY HashMapAssumption
  <1>2. PICK T : T = table /\ T = EmptyTable(MapCapacity)
    BY DEF MapInit
  <1>3. Good(T, MapCapacity) /\ InUse(T) = {}
    BY <1>1, <1>2, EmptyGood
  <1>4. Cardinality({}) = 0
    BY FS_EmptySet
  <1>5. Sound(T, 0)
    BY <1>3, <1>4, SoundIs
  <1> QED
    BY <1>2, <1>5 DEF MapInv, MapInit

LEMMA SetKeeps ==
  ASSUME MapInv, NEW k \in Key, NEW v \in MapValue, MapSet(k, v)
  PROVE  /\ MapInv'
         /\ \/ Has(table, k) /\ MapPanics
            \/ /\ ~Has(table, k) /\ Pairs(table') = Pairs(table) \cup {<<k, v>>}
               /\ walk' = 0 /\ UNCHANGED <<reply, outcome>>
  <1>1. PICK T, o : T = table /\ o = occupied
    OBVIOUS
  <1>2. Sound(T, o) /\ walk \in Nat
    BY <1>1 DEF MapInv
  <1>3. PICK n : /\ n = Capacity(T) /\ n \in Nat /\ n >= 2 /\ Good(T, n) /\ Slots(T, n)
                 /\ OneEach(T) /\ o \in Nat /\ o <= n /\ o = Cardinality(InUse(T))
    BY <1>2, SoundFacts
  <1>4. o < Capacity(Roomy(T, o)) /\ Capacity(Roomy(T, o)) \in Nat
    <2>1. Sound(Roomy(T, o), o) /\ o < Capacity(Roomy(T, o))
      BY <1>2, RoomyIs
    <2>2. Capacity(Roomy(T, o)) \in Nat
      BY <2>1, SoundFacts
    <2> QED
      BY <2>1, <2>2
  <1>5. ~(o >= Capacity(Roomy(T, o)))
    BY <1>3, <1>4
  <1>6. CASE Has(T, k)
    <2>1. Locate(T, k) # NotFound
      BY <1>3, <1>6, LocateIs
    <2>2. MapPanics
      BY <1>1, <2>1 DEF MapSet
    <2> QED
      BY <1>1, <1>2, <1>6, <2>2 DEF MapPanics, MapInv
  <1>7. CASE ~Has(T, k)
    <2>1. Locate(T, k) = NotFound
      BY <1>3, <1>7, LocateIs
    <2>2. /\ table' = Placed(Roomy(T, o), k, v) /\ occupied' = o + 1 /\ walk' = 0
          /\ UNCHANGED <<reply, outcome>>
      BY <1>1, <1>5, <2>1 DEF MapSet, Roomy
    <2>3. /\ Sound(Placed(Roomy(T, o), k, v), o + 1)
          /\ Pairs(Placed(Roomy(T, o), k, v)) = Pairs(T) \cup {<<k, v>>}
      BY <1>2, <1>7, SetIs
    <2> QED
      BY <1>1, <1>7, <2>2, <2>3 DEF MapInv
  <1> QED
    BY <1>6, <1>7

LEMMA RemoveKeeps ==
  ASSUME MapInv, NEW k \in Key, MapRemove(k), header = "intact", header' = "intact"
  PROVE  /\ MapInv' /\ walk' = 0 /\ UNCHANGED <<reply, outcome>>
         /\ \/ ~Has(table, k) /\ UNCHANGED table
            \/ \E v : <<k, v>> \in Pairs(table) /\ Pairs(table') = Pairs(table) \ {<<k, v>>}
  <1>1. PICK T, o : T = table /\ o = occupied
    OBVIOUS
  <1>2. Sound(T, o)
    BY <1>1 DEF MapInv
  <1>3. PICK n : /\ n = Capacity(T) /\ n \in Nat /\ n >= 2 /\ Good(T, n) /\ Slots(T, n)
                 /\ OneEach(T) /\ o \in Nat /\ o <= n /\ o = Cardinality(InUse(T))
    BY <1>2, SoundFacts
  <1>4. walk' = 0 /\ UNCHANGED <<reply, outcome>>
    BY DEF MapRemove
  <1>5. CASE ~Has(T, k)
    <2>1. Locate(T, k) = NotFound
      BY <1>3, <1>5, LocateIs
    <2>2. UNCHANGED <<table, occupied>>
      BY <1>1, <2>1 DEF MapRemove
    <2> QED
      BY <1>1, <1>2, <1>4, <1>5, <2>2 DEF MapInv
  <1>6. CASE Has(T, k)
    <2>1. PICK i : i = Locate(T, k) /\ i # NotFound /\ i \in InUse(T) /\ T[i].key = k
      BY <1>3, <1>6, LocateIs
    <2>2. PICK M : M = MovedBack(T, "intact", i)
      OBVIOUS
    <2>3. table' = M.table /\ M.header = "intact" /\ occupied' = o - 1
      BY <1>1, <2>1, <2>2 DEF MapRemove
    <2>4. Sound(M.table, o - 1) /\ Pairs(M.table) = Pairs(T) \ {Pair(T[i])}
      BY <1>2, <2>1, <2>2, <2>3, RemoveIs
    <2>5. Pair(T[i]) = <<k, T[i].value>> /\ Pair(T[i]) \in Pairs(T)
      BY <2>1 DEF Pair, Pairs
    <2> QED
      BY <1>1, <1>4, <2>3, <2>4, <2>5 DEF MapInv
  <1> QED
    BY <1>5, <1>6


\* The walk goes on at the first entry that it has not been at.
LEMMA FollowingIs ==
  ASSUME NEW n, Slots(table, n), walk \in Nat
  PROVE  \/ /\ MapHasNext /\ Following(walk) \in Nat
            /\ Following(walk) \in InUse(table) /\ Following(walk) >= walk
            /\ \A j \in InUse(table) : j >= walk => Following(walk) <= j
         \/ ~MapHasNext /\ \A j \in InUse(table) : j < walk
  <1> DEFINE U == {j \in DOMAIN table : j >= walk /\ ~table[j].empty}
  <1>1. /\ n \in Nat /\ DOMAIN table = 0 .. n - 1 /\ Capacity(table) = n
        /\ \A j \in InUse(table) : j \in 0 .. n - 1
    BY SlotFacts
  <1>2. U \in SUBSET Nat /\ U \in SUBSET (0 .. n - 1)
    BY <1>1
  <1>3. \A j : j \in U <=> j \in InUse(table) /\ j >= walk
    BY DEF InUse
  <1>4. Following(walk) = IF U = {} THEN n ELSE CHOOSE j \in U : \A h \in U : j <= h
    BY <1>1 DEF Following
  <1> HIDE DEF U
  <1>5. CASE U = {}
    <2>1. ~MapHasNext
      BY <1>1, <1>4, <1>5 DEF MapHasNext
    <2>2. ASSUME NEW j \in InUse(table) PROVE j < walk
      <3>1. j \in Nat /\ ~(j >= walk)
        BY <1>1, <1>3, <1>5
      <3> QED
        BY <3>1
    <2> QED
      BY <2>1, <2>2
  <1>6. CASE U # {}
    <2>1. \E j \in U : \A h \in U : j <= h
      BY <1>2, <1>6, LeastNat
    <2>2. Following(walk) \in U /\ \A h \in U : Following(walk) <= h
      BY <1>4, <1>6, <2>1
    <2>3. PICK f : f = Following(walk)
      OBVIOUS
    <2>a. f \in U
      BY <2>2, <2>3
    <2>4. f \in 0 .. n - 1 /\ f \in Nat /\ f # n
      <3>1. f \in 0 .. n - 1
        BY <1>2, <2>a
      <3> QED
        BY <1>1, <3>1
    <2>5. MapHasNext
      BY <1>1, <2>3, <2>4 DEF MapHasNext
    <2> QED
      BY <1>3, <2>2, <2>3, <2>4, <2>5
  <1> QED
    BY <1>5, <1>6

LEMMA MapStep ==
  ASSUME MapInv, header = "intact", header' = "intact", [MapNext]_mapVars
  PROVE  MapInv'
  <1>1. ASSUME NEW k \in Key, NEW v \in MapValue, MapSet(k, v) PROVE MapInv'
    BY <1>1, SetKeeps
  <1>2. ASSUME NEW k \in Key, MapRemove(k) PROVE MapInv'
    BY <1>2, RemoveKeeps
  <1>3. ASSUME NEW k \in Key \cup {Nobody}, MapFetch(k) \/ MapExists(k) PROVE MapInv'
    <2>1. UNCHANGED <<table, occupied, walk>>
      BY <1>3 DEF MapFetch, MapExists, MapPanics, Answers
    <2> QED
      BY <2>1 DEF MapInv
  <1>4. CASE MapIteratorNext
    <2>1. PICK n : Slots(table, n)
      BY SoundFacts DEF MapInv
    <2>2. walk \in Nat
      BY DEF MapInv
    <2>3. Following(walk) \in Nat
      BY <1>4, <2>1, <2>2, FollowingIs DEF MapIteratorNext
    <2>4. walk' = Following(walk) + 1 /\ UNCHANGED <<table, occupied>>
      BY <1>4 DEF MapIteratorNext
    <2>5. walk' \in Nat
      BY <2>3, <2>4
    <2> QED
      BY <2>4, <2>5 DEF MapInv
  <1>5. CASE MapIteratorReset
    BY <1>5 DEF MapIteratorReset, MapInv
  <1>6. CASE MapHalted \/ UNCHANGED mapVars
    BY <1>6 DEF MapHalted, mapVars, MapInv
  <1> QED
    BY <1>1, <1>2, <1>3, <1>4, <1>5, <1>6 DEF MapNext

LEMMA ProbesRight ==
  ASSUME MapInv, header = "intact" PROVE ProbesAreDistances
  <1>1. PICK n : /\ n = Capacity(table) /\ n \in Nat /\ n >= 2 /\ Good(table, n)
                 /\ Slots(table, n) /\ occupied = Cardinality(InUse(table))
    BY SoundFacts DEF MapInv
  <1>2. \A x \in 0 .. n - 1 : Rising(table, x, n)
    BY <1>1 DEF Good, Orderly
  <1>3. Used = InUse(table)
    BY DEF Used, InUse
  <1>4. ASSUME NEW i \in InUse(table)
        PROVE  /\ table[i].probes = (i - table[i].key) % n
               /\ \A j \in 1 .. table[i].probes : ~Stops(table, table[i].key, j)
    <2>1. /\ i \in 0 .. n - 1 /\ ~table[i].empty /\ table[i].probes \in 0 .. n - 1
          /\ table[i].key \in Nat /\ (table[i].key + table[i].probes) % n = i
      BY <1>1, SlotFacts
    <2>2. PICK k, d : k = table[i].key /\ d = table[i].probes
      OBVIOUS
    <2>3. Behind(n, k, d, i)
      BY <1>1, <2>1, <2>2 DEF Behind
    <2>4. (i - k) % n = d
      BY <2>3, Distance
    <2>6. k \in Nat
      BY <2>1, <2>2
    <2>5. ASSUME NEW j \in 1 .. d PROVE ~Stops(table, k, j)
      <3>1. j \in 0 .. table[i].probes /\ j \in Nat /\ j >= 1
        BY <2>1, <2>2
      <3>2. (k + j) % n \in 0 .. n - 1 /\ table[(k + j) % n].probes >= j
        BY <1>1, <1>2, <2>1, <2>2, <3>1, WayHome
      <3>3. ProbeSlot(table, k, j) = (k + j) % n
        BY <1>1, <2>6, ProbesFit
      <3> QED
        BY <3>1, <3>2, <3>3 DEF Stops
    <2> QED
      BY <2>2, <2>4, <2>5
  <1> QED
    BY <1>1, <1>3, <1>4 DEF ProbesAreDistances

\* Every key can be reached, after any calls that do not write before the
\* table: a removal may, when it moves an entry back from slot 0.
THEOREM ProbesKept == MapSpec /\ [](header = "intact") => []ProbesAreDistances
  <1>1. MapInit => MapInv
    BY MapStarts
  <1>2. MapInv /\ (header = "intact") /\ (header = "intact")' /\ [MapNext]_mapVars => MapInv'
    BY MapStep
  <1>3. MapInv /\ (header = "intact") => ProbesAreDistances
    BY ProbesRight
  <1> QED
    BY <1>1, <1>2, <1>3, PTL DEF MapSpec

-----------------------------------------------------------------------------
(***************************************************************************)
(* The map implements a dictionary.                                        *)
(***************************************************************************)
Keys(T) == {T[i].key : i \in InUse(T)}
Valued(T) == [k \in Keys(T) |-> T[CHOOSE i \in InUse(T) : T[i].key = k].value]
SeenBy(T, w) == {T[i].key : i \in {j \in InUse(T) : j < w}}

LEMMA ContentsAre == Contents = Valued(table) /\ Seen = SeenBy(table, walk)
  BY DEF Contents, Valued, Keys, InUse, Used, Seen, SeenBy
LEMMA NextContentsAre == Contents' = Valued(table') /\ Seen' = SeenBy(table', walk')
  BY DEF Contents, Valued, Keys, InUse, Used, Seen, SeenBy

LEMMA ValuedPairs ==
  ASSUME NEW T, OneEach(T)
  PROVE  /\ \A k : k \in DOMAIN Valued(T) <=> Has(T, k)
         /\ \A i \in InUse(T) : T[i].key \in DOMAIN Valued(T) /\ Valued(T)[T[i].key] = T[i].value
         /\ \A k, v : <<k, v>> \in Pairs(T) <=> k \in DOMAIN Valued(T) /\ Valued(T)[k] = v
         /\ Valued(T) = [k \in DOMAIN Valued(T) |-> Valued(T)[k]]
  <1>1. DOMAIN Valued(T) = Keys(T) /\ Valued(T) = [k \in DOMAIN Valued(T) |-> Valued(T)[k]]
    BY DEF Valued
  <1>2. \A k : k \in Keys(T) <=> Has(T, k)
    BY DEF Keys, Has
  <1>3. ASSUME NEW i \in InUse(T)
        PROVE  T[i].key \in DOMAIN Valued(T) /\ Valued(T)[T[i].key] = T[i].value
    <2>1. PICK k : k = T[i].key
      OBVIOUS
    <2>2. k \in Keys(T)
      BY <2>1 DEF Keys
    <2>3. Valued(T)[k] = T[CHOOSE j \in InUse(T) : T[j].key = k].value
      BY <2>2 DEF Valued
    <2>4. (CHOOSE j \in InUse(T) : T[j].key = k) = i
      BY <2>1 DEF OneEach
    <2> QED
      BY <1>1, <2>1, <2>2, <2>3, <2>4
  <1>4. ASSUME NEW k, NEW v
        PROVE  <<k, v>> \in Pairs(T) <=> k \in DOMAIN Valued(T) /\ Valued(T)[k] = v
    <2>1. <<k, v>> \in Pairs(T) <=> \E i \in InUse(T) : k = T[i].key /\ v = T[i].value
      BY DEF Pairs, Pair
    <2>2. k \in DOMAIN Valued(T) <=> \E i \in InUse(T) : k = T[i].key
      BY <1>1 DEF Keys
    <2> QED
      BY <1>3, <2>1, <2>2
  <1> QED
    BY <1>1, <1>2, <1>3, <1>4

\* The table R is T with the value v for the new key k.
GainsPair(R, T, k, v) ==
    OneEach(T) /\ OneEach(R) /\ ~Has(T, k) /\ Pairs(R) = Pairs(T) \cup {<<k, v>>}
IsGain(W, V, k, v) == W = [j \in DOMAIN V \cup {k} |-> IF j = k THEN v ELSE V[j]]

LEMMA ValuedGains ==
  ASSUME NEW T, NEW R, NEW k, NEW v, GainsPair(R, T, k, v)
  PROVE  IsGain(Valued(R), Valued(T), k, v)
  <1> DEFINE V == Valued(T)
             W == Valued(R)
  <1>1. /\ \A j, y : <<j, y>> \in Pairs(T) <=> j \in DOMAIN V /\ V[j] = y
        /\ \A j, y : <<j, y>> \in Pairs(R) <=> j \in DOMAIN W /\ W[j] = y
        /\ k \notin DOMAIN V /\ W = [j \in DOMAIN W |-> W[j]]
    BY ValuedPairs DEF GainsPair
  <1> HIDE DEF V, W
  <1>2. \A j, y : <<j, y>> \in Pairs(R) <=> <<j, y>> \in Pairs(T) \/ (j = k /\ y = v)
    BY DEF GainsPair
  <1>3. \A j, y : (j \in DOMAIN W /\ W[j] = y) <=> (j \in DOMAIN V /\ V[j] = y) \/ (j = k /\ y = v)
    BY <1>1, <1>2
  <1>4. \A j : j \in DOMAIN W <=> j \in DOMAIN V \cup {k}
    BY <1>3
  <1>5. \A j \in DOMAIN W : W[j] = IF j = k THEN v ELSE V[j]
    BY <1>1, <1>3
  <1>6. DOMAIN W = DOMAIN V \cup {k}
    BY <1>4
  <1>7. W = [j \in DOMAIN V \cup {k} |-> IF j = k THEN v ELSE V[j]]
    BY <1>1, <1>5, <1>6
  <1> QED
    BY <1>7 DEF V, W, IsGain

LEMMA ValuedLoses ==
  ASSUME NEW T, NEW R, OneEach(T), OneEach(R), NEW k, NEW v, <<k, v>> \in Pairs(T),
         Pairs(R) = Pairs(T) \ {<<k, v>>}
  PROVE  Valued(R) = [j \in DOMAIN Valued(T) \ {k} |-> Valued(T)[j]]
  <1> DEFINE V == Valued(T)
             W == Valued(R)
  <1>1. /\ \A j, y : <<j, y>> \in Pairs(T) <=> j \in DOMAIN V /\ V[j] = y
        /\ \A j, y : <<j, y>> \in Pairs(R) <=> j \in DOMAIN W /\ W[j] = y
        /\ W = [j \in DOMAIN W |-> W[j]]
    BY ValuedPairs
  <1> HIDE DEF V, W
  <1>2. \A j, y : <<j, y>> \in Pairs(R) <=> <<j, y>> \in Pairs(T) /\ ~(j = k /\ y = v)
    OBVIOUS
  <1>3. \A j, y : (j \in DOMAIN W /\ W[j] = y) <=> (j \in DOMAIN V /\ V[j] = y) /\ ~(j = k /\ y = v)
    BY <1>1, <1>2
  <1>4. V[k] = v
    BY <1>1
  <1>5. \A j : j \in DOMAIN W <=> j \in DOMAIN V \ {k}
    BY <1>3, <1>4
  <1>6. \A j \in DOMAIN W : W[j] = V[j]
    BY <1>3
  <1>7. DOMAIN W = DOMAIN V \ {k}
    BY <1>5
  <1>8. W = [j \in DOMAIN V \ {k} |-> V[j]]
    BY <1>1, <1>6, <1>7
  <1> QED
    BY <1>8 DEF V, W


\* What a table holds, and a walk that has not begun has seen nothing.
LEMMA SoundOne == ASSUME NEW T, NEW o, Sound(T, o) PROVE OneEach(T) /\ SeenBy(T, 0) = {}
  <1>1. PICK n : Slots(T, n) /\ OneEach(T)
    BY SoundFacts
  <1>2. \A j \in InUse(T) : j \in Nat /\ ~(j < 0)
    BY <1>1, SlotFacts
  <1> QED
    BY <1>1, <1>2 DEF SeenBy

\* What the map says of key 0.
LEMMA ClaimsAre ==
  ASSUME NEW T, NEW o, Sound(T, o)
  PROVE  T[0].empty \in BOOLEAN /\ (DOMAIN Valued(T) = {} => T[0].empty)
  <1>1. PICK n : Slots(T, n) /\ n \in Nat /\ n >= 2 /\ OneEach(T)
    BY SoundFacts
  <1>2. 0 \in 0 .. n - 1
    BY <1>1
  <1>3. T[0].empty \in BOOLEAN /\ (~T[0].empty => 0 \in InUse(T))
    BY <1>1, <1>2, SlotFacts
  <1>4. 0 \in InUse(T) => T[0].key \in DOMAIN Valued(T)
    BY <1>1, ValuedPairs
  <1> QED
    BY <1>3, <1>4

LEMMA DictStarts == ASSUME MapInit PROVE Dict!Init
  <1>1. MapInv
    BY MapStarts
  <1>2. PICK T : T = table /\ T = EmptyTable(MapCapacity) /\ Sound(T, occupied) /\ walk = 0
    BY <1>1 DEF MapInit, MapInv
  <1>3. InUse(T) = {} /\ SeenBy(T, 0) = {}
    BY <1>2, EmptyGood, SoundOne, HashMapAssumption
  <1>4. Keys(T) = {}
    BY <1>3 DEF Keys
  <1>5. Valued(T) = [k \in {} |-> {}]
    BY <1>4 DEF Valued
  <1>6. Contents = [k \in {} |-> {}] /\ Seen = {}
    BY <1>2, <1>3, <1>5, ContentsAre
  <1>7. table[0].empty = TRUE
    <2>1. 0 \in 0 .. MapCapacity - 1
      BY HashMapAssumption
    <2>2. T[0] = EmptyEntry
      BY <1>2, <2>1 DEF EmptyTable
    <2> QED
      BY <1>2, <2>2 DEF EmptyEntry
  <1> QED
    BY <1>6, <1>7 DEF Dict!Init, MapInit

LEMMA DictSet ==
  ASSUME MapInv, NEW k \in Key, NEW v \in MapValue, MapSet(k, v) PROVE Dict!Set(k, v)
  <1>1. PICK T, R : T = table /\ R = table'
    OBVIOUS
  <1>2. MapInv' /\ outcome = "ok"
    BY SetKeeps DEF MapSet, Running
  <1>3. OneEach(T) /\ OneEach(R) /\ SeenBy(R, 0) = {}
    BY <1>1, <1>2, SoundOne DEF MapInv
  <1>4. /\ Contents = Valued(T) /\ Contents' = Valued(R) /\ Seen = SeenBy(T, walk)
        /\ Seen' = SeenBy(R, walk')
    BY <1>1, ContentsAre, NextContentsAre
  <1>5. k \in DOMAIN Contents <=> Has(T, k)
    BY <1>3, <1>4, ValuedPairs
  <1>6. CASE Has(T, k) /\ MapPanics
    <2>1. UNCHANGED <<Contents, table[0].empty, Seen, reply>> /\ outcome' = "panic"
      BY <1>1, <1>4, <1>6 DEF MapPanics
    <2> QED
      BY <1>2, <1>5, <1>6, <2>1 DEF Dict!Set, Dict!Live, Dict!Panics
  <1>7. CASE /\ ~Has(T, k) /\ Pairs(R) = Pairs(T) \cup {<<k, v>>}
             /\ walk' = 0 /\ UNCHANGED <<reply, outcome>>
    <2>1. GainsPair(R, T, k, v)
      BY <1>3, <1>7 DEF GainsPair
    <2>2. IsGain(Contents', Contents, k, v)
      BY <1>4, <2>1, ValuedGains
    <2>3. Seen' = {}
      BY <1>3, <1>4, <1>7
    <2>4. table'[0].empty \in BOOLEAN
      BY <1>2, ClaimsAre DEF MapInv
    <2> QED
      BY <1>2, <1>5, <1>7, <2>2, <2>3, <2>4 DEF IsGain, Dict!Set, Dict!Live
  <1> QED
    BY <1>1, <1>6, <1>7, SetKeeps

LEMMA DictRemove ==
  ASSUME MapInv, NEW k \in Key, MapRemove(k), header = "intact", header' = "intact"
  PROVE  Dict!Remove(k)
  <1>1. PICK T, R : T = table /\ R = table'
    OBVIOUS
  <1>2. MapInv' /\ walk' = 0 /\ UNCHANGED <<reply, outcome>> /\ outcome = "ok"
    BY RemoveKeeps DEF MapRemove, Running
  <1>3. OneEach(T) /\ OneEach(R) /\ SeenBy(R, 0) = {}
    BY <1>1, <1>2, SoundOne DEF MapInv
  <1>4. Contents = Valued(T) /\ Contents' = Valued(R) /\ Seen' = SeenBy(R, walk')
    BY <1>1, ContentsAre, NextContentsAre
  <1>5. Valued(R) = [j \in DOMAIN Valued(T) \ {k} |-> Valued(T)[j]]
    <2>1. CASE ~Has(T, k) /\ R = T
      <3>1. k \notin DOMAIN Valued(T) /\ Valued(T) = [j \in DOMAIN Valued(T) |-> Valued(T)[j]]
        BY <1>3, <2>1, ValuedPairs
      <3>2. DOMAIN Valued(T) \ {k} = DOMAIN Valued(T)
        BY <3>1
      <3> QED
        BY <2>1, <3>1, <3>2
    <2>2. CASE \E v : <<k, v>> \in Pairs(T) /\ Pairs(R) = Pairs(T) \ {<<k, v>>}
      BY <1>3, <2>2, ValuedLoses
    <2> QED
      BY <1>1, <2>1, <2>2, RemoveKeeps
  <1>6. Contents' = [j \in DOMAIN Contents \ {k} |-> Contents[j]] /\ Seen' = {}
    BY <1>2, <1>3, <1>4, <1>5
  <1>7. table'[0].empty \in BOOLEAN /\ (DOMAIN Contents' = {} => table'[0].empty)
    BY <1>1, <1>2, <1>4, ClaimsAre DEF MapInv
  <1> QED
    BY <1>2, <1>6, <1>7 DEF Dict!Remove, Dict!Live

LEMMA DictAsked ==
  ASSUME MapInv, NEW k \in Key
  PROVE  (MapFetch(k) => Dict!Fetch(k)) /\ (MapExists(k) => Dict!Exists(k))
  <1>1. PICK T : T = table
    OBVIOUS
  <1>2. PICK n : Good(T, n) /\ OneEach(T)
    BY <1>1, SoundFacts DEF MapInv
  <1>3. /\ Contents = Valued(T) /\ Contents' = Valued(table') /\ Seen = SeenBy(T, walk)
        /\ Seen' = SeenBy(table', walk')
    BY <1>1, ContentsAre, NextContentsAre
  <1>4. k \in DOMAIN Contents <=> Has(T, k)
    BY <1>2, <1>3, ValuedPairs
  <1>5. /\ Locate(T, k) = NotFound <=> k \notin DOMAIN Contents
        /\ k \in DOMAIN Contents => Locate(T, k) \in InUse(T) /\ T[Locate(T, k)].key = k
    BY <1>2, <1>4, LocateIs
  <1>6. k \in DOMAIN Contents => T[Locate(T, k)].value = Contents[k]
    BY <1>2, <1>3, <1>5, ValuedPairs
  <1>7. UNCHANGED <<table, walk>> => UNCHANGED <<Contents, table[0].empty, Seen>>
    BY <1>1, <1>3
  <1>8. ASSUME MapFetch(k) PROVE Dict!Fetch(k)
    BY <1>1, <1>5, <1>6, <1>7, <1>8
       DEF MapFetch, Running, MapPanics, Answers, Dict!Fetch, Dict!Live, Dict!Panics, Dict!Replies
  <1>9. ASSUME MapExists(k) PROVE Dict!Exists(k)
    BY <1>1, <1>5, <1>7, <1>9
       DEF MapExists, Running, Answers, Dict!Exists, Dict!Live, Dict!Replies
  <1> QED
    BY <1>8, <1>9

LEMMA DictAskedNobody ==
  ASSUME MapInv
  PROVE  /\ MapFetch(Nobody) => Dict!FetchNobody
         /\ MapExists(Nobody) => Dict!ExistsNobody
  <1>1. PICK n : Good(table, n)
    BY SoundFacts DEF MapInv
  <1>2. /\ table[0].empty => /\ Locate(table, Nobody) # NotFound
                             /\ table[Locate(table, Nobody)].value = NoMapValue
        /\ ~table[0].empty => Locate(table, Nobody) = NotFound
    BY <1>1, LocateNobody
  <1>3. Contents = Valued(table) /\ Contents' = Valued(table')
        /\ Seen = SeenBy(table, walk) /\ Seen' = SeenBy(table', walk')
    BY ContentsAre, NextContentsAre
  <1>4. UNCHANGED <<table, walk>> => UNCHANGED <<Contents, table[0].empty, Seen>>
    BY <1>3
  <1>5. ASSUME MapFetch(Nobody) PROVE Dict!FetchNobody
    BY <1>2, <1>4, <1>5
       DEF MapFetch, Running, MapPanics, Answers, Dict!FetchNobody, Dict!Live, Dict!Panics,
           Dict!Replies
  <1>6. ASSUME MapExists(Nobody) PROVE Dict!ExistsNobody
    BY <1>2, <1>4, <1>6
       DEF MapExists, Running, Answers, Dict!ExistsNobody, Dict!Live, Dict!Replies
  <1> QED
    BY <1>5, <1>6

LEMMA DictVisit == ASSUME MapInv, MapIteratorNext PROVE Dict!Visit
  <1>1. PICK T : T = table
    OBVIOUS
  <1>2. PICK n : Slots(T, n) /\ OneEach(T)
    BY <1>1, SoundFacts DEF MapInv
  <1>3. PICK f : f = Following(walk)
    OBVIOUS
  <1>4. PICK w : w = walk /\ w \in Nat
    BY DEF MapInv
  <1>5. f \in Nat /\ f \in InUse(T) /\ f >= w /\ \A j \in InUse(T) : j >= w => f <= j
    BY <1>1, <1>2, <1>3, <1>4, FollowingIs DEF MapIteratorNext
  <1>6. /\ reply' = T[f].value /\ walk' = f + 1 /\ table' = T /\ outcome = "ok"
        /\ outcome' = outcome
    BY <1>1, <1>3 DEF MapIteratorNext, Running
  <1>7. /\ Contents = Valued(T) /\ Contents' = Valued(T) /\ Seen = SeenBy(T, w)
        /\ Seen' = SeenBy(T, f + 1)
    BY <1>1, <1>4, <1>6, ContentsAre, NextContentsAre
  <1>8. PICK k : k = T[f].key
    OBVIOUS
  <1>9. k \in DOMAIN Contents /\ reply' = Contents[k]
    BY <1>2, <1>5, <1>6, <1>7, <1>8, ValuedPairs
  <1>10. \A j \in InUse(T) : j \in Nat
    BY <1>2, SlotFacts
  <1>11. k \notin Seen
    <2>1. \A j \in InUse(T) : T[j].key = k => j = f
      BY <1>2, <1>5, <1>8 DEF OneEach
    <2>2. ~(f < w)
      BY <1>4, <1>5
    <2> QED
      BY <1>7, <2>1, <2>2 DEF SeenBy
  <1>12. Seen' = Seen \cup {k}
    <2>1. \A j \in InUse(T) : j < f + 1 <=> j < w \/ j = f
      BY <1>4, <1>5, <1>10
    <2>2. \A y : y \in Seen <=> \E j \in InUse(T) : j < w /\ y = T[j].key
      BY <1>7 DEF SeenBy
    <2>3. \A y : y \in Seen' <=> \E j \in InUse(T) : j < f + 1 /\ y = T[j].key
      BY <1>7 DEF SeenBy
    <2>4. \A y : y \in Seen' <=> y \in Seen \/ y = k
      BY <1>5, <1>8, <2>1, <2>2, <2>3
    <2> QED
      BY <2>4
  <1>13. UNCHANGED table[0].empty
    BY <1>1, <1>6
  <1> QED
    BY <1>6, <1>7, <1>9, <1>11, <1>12, <1>13 DEF Dict!Visit, Dict!Live

LEMMA DictWalkEnds == ASSUME MapInv, MapIteratorReset PROVE Dict!WalkEnds
  <1>1. PICK T : T = table
    OBVIOUS
  <1>2. PICK n : Slots(T, n) /\ OneEach(T) /\ SeenBy(T, 0) = {}
    BY <1>1, SoundFacts, SoundOne DEF MapInv
  <1>3. PICK w : w = walk /\ w \in Nat
    BY DEF MapInv
  <1>4. \A j \in InUse(T) : j < w
    BY <1>1, <1>2, <1>3, FollowingIs DEF MapIteratorReset
  <1>5. /\ walk' = 0 /\ table' = T /\ outcome = "ok" /\ UNCHANGED <<reply, outcome>>
    BY <1>1 DEF MapIteratorReset, Running
  <1>6. /\ Contents = Valued(T) /\ Contents' = Valued(T) /\ Seen = SeenBy(T, w)
        /\ Seen' = {}
    BY <1>1, <1>2, <1>3, <1>5, ContentsAre, NextContentsAre
  <1>7. DOMAIN Contents = Keys(T)
    BY <1>6 DEF Valued
  <1>8. Seen = Keys(T)
    BY <1>4, <1>6 DEF SeenBy, Keys
  <1>9. UNCHANGED table[0].empty
    BY <1>1, <1>5
  <1> QED
    BY <1>5, <1>6, <1>7, <1>8, <1>9 DEF Dict!WalkEnds, Dict!Live

LEMMA DictStep ==
  ASSUME MapInv, header = "intact", header' = "intact", [MapNext]_mapVars
  PROVE  Dict!Next \/ UNCHANGED Dict!vars
  <1>1. ASSUME NEW k \in Key, NEW v \in MapValue, MapSet(k, v) PROVE Dict!Next
    BY <1>1, DictSet DEF Dict!Next
  <1>2. ASSUME NEW k \in Key, MapRemove(k) PROVE Dict!Next
    BY <1>2, DictRemove DEF Dict!Next
  <1>3. ASSUME NEW k \in Key \cup {Nobody}, MapFetch(k) \/ MapExists(k) PROVE Dict!Next
    <2>1. CASE k \in Key
      BY <1>3, <2>1, DictAsked DEF Dict!Next
    <2>2. CASE k = Nobody
      BY <1>3, <2>2, DictAskedNobody DEF Dict!Next
    <2> QED
      BY <2>1, <2>2
  <1>4. CASE MapIteratorNext
    BY <1>4, DictVisit DEF Dict!Next
  <1>5. CASE MapIteratorReset
    BY <1>5, DictWalkEnds DEF Dict!Next
  <1>6. CASE MapHalted \/ UNCHANGED mapVars
    <2>1. UNCHANGED <<table, walk, reply, outcome>>
      BY <1>6 DEF MapHalted, mapVars
    <2>2. UNCHANGED <<Contents, table[0].empty, Seen>>
      BY <2>1, ContentsAre, NextContentsAre
    <2> QED
      BY <2>1, <2>2 DEF Dict!vars
  <1> QED
    BY <1>1, <1>2, <1>3, <1>4, <1>5, <1>6 DEF MapNext

\* What was set is found with its value until it is removed, and a walk returns
\* every value once, as long as no call has written before the table; and key
\* 0, which nobody sets, is claimed just while slot 0 is empty.
THEOREM MapIsDict == MapSpec /\ [](header = "intact") => ImplementsDict
  <1>1. MapInit => MapInv /\ Dict!Init
    BY MapStarts, DictStarts
  <1>2. MapInv /\ (header = "intact") /\ (header = "intact")' /\ [MapNext]_mapVars
            => MapInv' /\ [Dict!Next]_(Dict!vars)
    BY MapStep, DictStep
  <1> QED
    BY <1>1, <1>2, PTL DEF MapSpec, ImplementsDict, Dict!Spec

=============================================================================
