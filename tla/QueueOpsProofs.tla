--------------------------- MODULE QueueOpsProofs ---------------------------
(***************************************************************************)
(* What the list operators of QueueOps return: the facts about the kernel's *)
(* queues that the proofs about its components rest on.                     *)
(***************************************************************************)
EXTENDS QueueOps, FiniteSetTheorems, WellFoundedInduction, TLAPS

\* A nonempty set of numbers has a least element: the principle on which the
\* inductions below rest (as a least counterexample).
LEMMA LeastNat ==
    ASSUME NEW T \in SUBSET Nat, T # {}
    PROVE  \E x \in T : \A y \in T : x <= y
<1> DEFINE I == {0 .. x : x \in T}
<1>1. I \subseteq FiniteSubsetsOf(Nat)
  <2>1. \A x \in T : IsFiniteSet(0 .. x) /\ 0 .. x \subseteq Nat
    BY FS_Interval
  <2> QED BY <2>1 DEF FiniteSubsetsOf
<1>2. I # {}
  OBVIOUS
<1>3. \E s \in I : \A t \in I : ~ (<<t, s>> \in StrictSubsetOrdering(Nat))
  <2> HIDE DEF I
  <2> QED BY <1>1, <1>2, FS_StrictSubsetOrderingWellFounded, WFMin
<1>4. PICK x \in T :
        \A y \in T : ~ (<<0 .. y, 0 .. x>> \in StrictSubsetOrdering(Nat))
  BY <1>3
<1>5. ASSUME NEW y \in T, y < x PROVE FALSE
  <2> DEFINE a == 0 .. y
             b == 0 .. x
  <2>1. x \in b /\ x \notin a /\ a \subseteq b
    BY <1>5
  <2>2. a \in SUBSET Nat /\ b \in SUBSET Nat /\ a # b
    BY <2>1
  <2>3. <<a, b>> \in StrictSubsetOrdering(Nat)
    <3> HIDE DEF a, b
    <3> QED BY <2>1, <2>2, Zenon DEF StrictSubsetOrdering
  <2> QED BY <2>3, <1>4
<1> QED BY <1>4, <1>5

\* A nonempty bounded set of numbers has a greatest element.
LEMMA GreatestNat ==
    ASSUME NEW n \in Nat, NEW T \in SUBSET (0 .. n), T # {}
    PROVE  \E x \in T : \A y \in T : y <= x
<1> DEFINE M == {n - x : x \in T}
<1>1. M \in SUBSET Nat /\ M # {}
  <2>1. \A x \in T : x \in 0 .. n
    OBVIOUS
  <2>2. \A x \in T : n - x \in Nat
    BY <2>1
  <2> QED BY <2>2
<1>2. PICK m \in M : \A k \in M : m <= k
  <2> HIDE DEF M
  <2> QED BY <1>1, LeastNat
<1>3. PICK x \in T : m = n - x
  OBVIOUS
<1>4. \A y \in T : n - x <= n - y
  BY <1>2, <1>3
<1> QED BY <1>3, <1>4

\* The ranks of the positions K lie between 1 and their number, grow with
\* the positions, and leave no number out.
LEMMA RankFacts ==
    ASSUME NEW n \in Nat, NEW K \in SUBSET (1 .. n)
    PROVE  /\ Cardinality(K) \in Nat
           /\ \A i \in K : Rank(K, i) \in 1 .. Cardinality(K)
           /\ \A i, j \in K : i < j => Rank(K, i) < Rank(K, j)
           /\ \A r \in 1 .. Cardinality(K) : \E i \in K : Rank(K, i) = r
<1> DEFINE Upto(i) == {k \in K : k <= i}
<1>0. \A i \in K : i \in Int /\ 1 <= i /\ i <= n
  OBVIOUS
<1>1. IsFiniteSet(K) /\ Cardinality(K) \in Nat
  <2>1. IsFiniteSet(1 .. n)
    BY FS_Interval
  <2> QED BY <2>1, FS_Subset, FS_CardinalityType
<1>2. \A i \in K : /\ IsFiniteSet(Upto(i))
                   /\ Cardinality(Upto(i)) \in Nat
                   /\ Cardinality(Upto(i)) <= Cardinality(K)
  <2> TAKE i \in K
  <2>1. Upto(i) \in SUBSET K
    OBVIOUS
  <2> QED BY <2>1, <1>1, FS_Subset, FS_CardinalityType
<1>3. \A i \in K : Cardinality(Upto(i)) # 0
  BY <1>2, FS_EmptySet
<1>4. \A i, j \in K : i < j => Cardinality(Upto(i)) < Cardinality(Upto(j))
  <2> SUFFICES ASSUME NEW i \in K, NEW j \in K, i < j
               PROVE  Cardinality(Upto(i)) < Cardinality(Upto(j))
    OBVIOUS
  <2>1. \A k \in Upto(i) : k \in Upto(j) \ {j}
    BY <1>0
  <2>2. /\ IsFiniteSet(Upto(j) \ {j})
        /\ Cardinality(Upto(j) \ {j}) = Cardinality(Upto(j)) - 1
    <3>1. j \in Upto(j) /\ IsFiniteSet(Upto(j))
      BY <1>0, <1>2
    <3> HIDE DEF Upto
    <3> QED BY <3>1, FS_RemoveElement
  <2>3. Cardinality(Upto(i)) <= Cardinality(Upto(j) \ {j})
    <3>1. Upto(i) \subseteq Upto(j) \ {j}
      BY <2>1
    <3> HIDE DEF Upto
    <3> QED BY <3>1, <2>2, FS_Subset
  <2> QED BY <2>2, <2>3, <1>2
<1>5. ASSUME NEW r \in 1 .. Cardinality(K)
      PROVE  \E i \in K : Cardinality(Upto(i)) = r
  <2> DEFINE T == {i \in K : Cardinality(Upto(i)) >= r}
  <2>1. T # {}
    <3>1. K # {}
      BY <1>5, FS_EmptySet
    <3>2. PICK m \in K : \A k \in K : k <= m
      <4>1. K \in SUBSET (0 .. n)
        OBVIOUS
      <4> QED BY <3>1, <4>1, GreatestNat
    <3>3. Upto(m) = K
      BY <3>2
    <3>4. Cardinality(Upto(m)) >= r
      BY <3>3, <1>5, <1>1
    <3> QED BY <3>2, <3>4
  <2>2. PICK m \in T : \A k \in T : m <= k
    <3>1. \A i \in T : i \in K
      OBVIOUS
    <3>2. \A i \in T : i \in Nat
      BY <3>1, <1>0
    <3> HIDE DEF T
    <3>3. T \in SUBSET Nat
      BY <3>2
    <3> QED BY <2>1, <3>3, LeastNat
  <2>3. ASSUME Cardinality(Upto(m)) > r PROVE FALSE
    <3> DEFINE U == Upto(m) \ {m}
    <3>1. IsFiniteSet(U) /\ Cardinality(U) = Cardinality(Upto(m)) - 1
      BY <1>2, FS_RemoveElement
    <3>2. Cardinality(U) >= r /\ Cardinality(U) # 0
      BY <3>1, <2>3, <1>2
    <3>3. U # {}
      BY <3>1, <3>2, FS_EmptySet
    <3>4. PICK p \in U : \A k \in U : k <= p
      <4>1. \A k \in U : k \in 0 .. n
        BY <1>0
      <4>2. U \in SUBSET (0 .. n)
        BY <4>1
      <4> HIDE DEF U
      <4> QED BY <3>3, <4>2, GreatestNat
    <3>5. p \in K /\ p < m /\ Upto(p) = U
      <4>1. m \in K
        OBVIOUS
      <4>2. p \in K /\ p <= m /\ p # m
        OBVIOUS
      <4>3. \A k \in Upto(p) : k \in U
        BY <4>1, <4>2, <1>0
      <4>4. \A k \in U : k \in Upto(p)
        BY <3>4
      <4>5. Upto(p) = U
        BY <4>3, <4>4
      <4> QED BY <4>1, <4>2, <4>5, <1>0
    <3>6. p \in T
      BY <3>5, <3>2
    <3> QED BY <3>5, <3>6, <2>2
  <2>4. Cardinality(Upto(m)) = r
    BY <2>2, <2>3, <1>2
  <2> QED BY <2>4
<1>6. \A i : Rank(K, i) = Cardinality(Upto(i))
  BY DEF Rank
<1> HIDE DEF Upto
<1>7. \A i \in K : Rank(K, i) \in 1 .. Cardinality(K)
  BY <1>1, <1>2, <1>3, <1>6
<1>8. \A i, j \in K : i < j => Rank(K, i) < Rank(K, j)
  BY <1>4, <1>6
<1> QED BY <1>1, <1>5, <1>6, <1>7, <1>8

\* The queue r reads q through the increasing enumeration f of the positions K.
ReadsInOrder(r, q, K, f) ==
    /\ \A j \in DOMAIN r : r[j] = q[f[j]]
    /\ \A i, j \in DOMAIN r : i < j => f[i] < f[j]
    /\ \A i \in K : \E j \in DOMAIN r : f[j] = i

\* Keep takes the entries at the positions K, each once and in order.
LEMMA KeepFacts ==
    ASSUME NEW S, NEW q \in Seq(S), NEW K \in SUBSET DOMAIN q
    PROVE  /\ Keep(q, K) \in Seq(S)
           /\ \E f \in [DOMAIN Keep(q, K) -> K] : ReadsInOrder(Keep(q, K), q, K, f)
<1> DEFINE c == Cardinality(K)
           f == [j \in 1 .. c |-> CHOOSE i \in K : Rank(K, i) = j]
<1>1. /\ c \in Nat
      /\ \A i \in K : Rank(K, i) \in 1 .. c
      /\ \A i, j \in K : i < j => Rank(K, i) < Rank(K, j)
      /\ \A r \in 1 .. c : \E i \in K : Rank(K, i) = r
  <2>1. Len(q) \in Nat /\ K \in SUBSET (1 .. Len(q))
    OBVIOUS
  <2> QED BY <2>1, RankFacts
<1>2. \A j \in 1 .. c : f[j] \in K /\ Rank(K, f[j]) = j
  BY <1>1
<1>3. Keep(q, K) = [j \in 1 .. c |-> q[f[j]]]
  BY DEF Keep
<1> HIDE DEF c, f
<1>4. \A i \in K : i \in Int
  OBVIOUS
<1>5. \A j \in 1 .. c : q[f[j]] \in S
  BY <1>2
<1>6. Keep(q, K) \in Seq(S) /\ DOMAIN Keep(q, K) = 1 .. c
  BY <1>1, <1>3, <1>5
<1>7. ASSUME NEW i \in K, NEW j \in K, Rank(K, i) = Rank(K, j)
      PROVE  i = j
  BY <1>1, <1>4, <1>7
<1>8. f \in [1 .. c -> K]
  BY <1>2 DEF f
<1>9. \A i, j \in 1 .. c : i < j => f[i] < f[j]
  <2> SUFFICES ASSUME NEW i \in 1 .. c, NEW j \in 1 .. c, i < j,
                      ~ (f[i] < f[j])
               PROVE  FALSE
    OBVIOUS
  <2>1. f[i] = f[j] \/ f[j] < f[i]
    BY <1>2, <1>4
  <2> QED BY <2>1, <1>1, <1>2
<1>10. \A i \in K : \E j \in 1 .. c : f[j] = i
  BY <1>1, <1>2, <1>7
<1>11. f \in [DOMAIN Keep(q, K) -> K]
  BY <1>6, <1>8
<1>12. \A j \in DOMAIN Keep(q, K) : Keep(q, K)[j] = q[f[j]]
  BY <1>3, <1>6
<1>13. ReadsInOrder(Keep(q, K), q, K, f)
  BY <1>6, <1>9, <1>10, <1>12 DEF ReadsInOrder
<1> QED BY <1>6, <1>11, <1>13

LEMMA KeepType ==
    ASSUME NEW S, NEW q \in Seq(S), NEW K \in SUBSET DOMAIN q
    PROVE  Keep(q, K) \in Seq(S)
BY KeepFacts

\* The function f names each element of D once.
Enumerates(f, n, D) ==
    /\ f \in [1 .. n -> D]
    /\ \A i, j \in 1 .. n : f[i] = f[j] => i = j
    /\ \A d \in D : \E i \in 1 .. n : f[i] = d

\* The queue r consists of the entries of q at the positions D, each read
\* once: entry j of r is entry f[j] of q.
Reads(r, q, D, f) ==
    /\ DOMAIN r = 1 .. Len(r)
    /\ Enumerates(f, Len(r), D)
    /\ \A j \in 1 .. Len(r) : r[j] = q[f[j]]

\* Such a queue has the entries of q at D, and repeats none if q does not.
LEMMA ReadsEntries ==
    ASSUME NEW S, NEW q \in Seq(S), NEW r, NEW f,
           NEW D \in SUBSET DOMAIN q, Reads(r, q, D, f)
    PROVE  /\ Entries(r) = {q[i] : i \in D}
           /\ Distinct(q) => Distinct(r)
<1>1. {r[j] : j \in DOMAIN r} = {q[i] : i \in D}
  BY DEF Reads, Enumerates
<1>2. ASSUME Distinct(q), NEW i \in DOMAIN r, NEW j \in DOMAIN r, r[i] = r[j]
      PROVE  i = j
  BY <1>2 DEF Distinct, Reads, Enumerates
<1>3. Distinct(q) => Distinct(r)
  BY <1>2 DEF Distinct
<1> QED BY <1>1, <1>3 DEF Entries

\* The entries of Keep(q, K) are those of q at K, and Keep repeats none.
LEMMA KeepEntries ==
    ASSUME NEW S, NEW q \in Seq(S), NEW K \in SUBSET DOMAIN q
    PROVE  /\ Entries(Keep(q, K)) = {q[i] : i \in K}
           /\ Distinct(q) => Distinct(Keep(q, K))
<1> DEFINE r == Keep(q, K)
<1>0. r \in Seq(S) /\ \E f \in [DOMAIN r -> K] : ReadsInOrder(r, q, K, f)
  BY KeepFacts
<1> HIDE DEF r
<1>1. PICK f \in [DOMAIN r -> K] : ReadsInOrder(r, q, K, f)
  BY <1>0
<1>2. r \in Seq(S)
  BY <1>0
<1>3. ASSUME NEW i \in DOMAIN r, NEW j \in DOMAIN r, f[i] = f[j]
      PROVE  i = j
  <2>1. f[i] \in Int /\ f[j] \in Int /\ i \in Int /\ j \in Int
    BY <1>2
  <2> QED BY <1>1, <1>3, <2>1 DEF ReadsInOrder
<1>4. DOMAIN r = 1 .. Len(r)
  BY <1>2
<1>5. Reads(r, q, K, f)
  BY <1>1, <1>3, <1>4 DEF Reads, Enumerates, ReadsInOrder
<1> QED BY <1>5, ReadsEntries DEF r

\* Without unlinks exactly the entries it is told to.
LEMMA WithoutFacts ==
    ASSUME NEW S, NEW q \in Seq(S), NEW gone
    PROVE  /\ Without(q, gone) \in Seq(S)
           /\ Entries(Without(q, gone)) = Entries(q) \ gone
           /\ Distinct(q) => Distinct(Without(q, gone))
<1> DEFINE K == {i \in DOMAIN q : q[i] \notin gone}
<1>1. K \in SUBSET DOMAIN q
  OBVIOUS
<1>2. {q[i] : i \in K} = Entries(q) \ gone
  BY DEF Entries
<1> HIDE DEF K
<1>3. /\ Keep(q, K) \in Seq(S)
      /\ Entries(Keep(q, K)) = {q[i] : i \in K}
      /\ Distinct(q) => Distinct(Keep(q, K))
  BY <1>1, KeepType, KeepEntries
<1> QED BY <1>2, <1>3 DEF Without, K

\* Pushing an entry.
LEMMA AppendFacts ==
    ASSUME NEW S, NEW q \in Seq(S), NEW x \in S
    PROVE  /\ Append(q, x) \in Seq(S)
           /\ Entries(Append(q, x)) = Entries(q) \cup {x}
           /\ Distinct(q) /\ x \notin Entries(q) => Distinct(Append(q, x))
<1>1. /\ Append(q, x) \in Seq(S)
      /\ Len(q) \in Nat
      /\ DOMAIN q = 1 .. Len(q)
      /\ DOMAIN Append(q, x) = 1 .. Len(q) + 1
      /\ \A i \in 1 .. Len(q) : Append(q, x)[i] = q[i]
      /\ Append(q, x)[Len(q) + 1] = x
  OBVIOUS
<1> DEFINE r == Append(q, x)
           n == Len(q)
<1>2. {r[i] : i \in 1 .. n + 1} = {q[i] : i \in 1 .. n} \cup {x}
  <2> HIDE DEF r, n
  <2>1. n \in Nat /\ (\A i \in 1 .. n : r[i] = q[i]) /\ r[n + 1] = x
    BY <1>1 DEF r, n
  <2>2. \A i \in 1 .. n + 1 : i \in 1 .. n \/ i = n + 1
    BY <2>1
  <2>3. \A i \in 1 .. n : i \in 1 .. n + 1
    BY <2>1
  <2>4. n + 1 \in 1 .. n + 1
    BY <2>1
  <2> QED BY <2>1, <2>2, <2>3, <2>4
<1>3. ASSUME Distinct(q), x \notin Entries(q)
      PROVE  \A i, j \in 1 .. n + 1 : r[i] = r[j] => i = j
  BY <1>1, <1>3 DEF Distinct, Entries
<1> QED BY <1>1, <1>2, <1>3 DEF Entries, Distinct

\* Appending a sequence.
LEMMA ConcatFacts ==
    ASSUME NEW S, NEW a \in Seq(S), NEW b \in Seq(S)
    PROVE  /\ a \o b \in Seq(S)
           /\ Len(a \o b) = Len(a) + Len(b)
           /\ \A i \in 1 .. Len(a) + Len(b) :
                (a \o b)[i] = IF i <= Len(a) THEN a[i] ELSE b[i - Len(a)]
OBVIOUS

\* Where each entry comes from when the first k - 1 of n entries go to the
\* end and the next one is taken off.
RotatedFrom(n, k) ==
    [i \in 1 .. n - 1 |-> IF i <= n - k THEN k + i ELSE i - (n - k)]

\* The rotation reads every position but k, once.
LEMMA RotatedPositions ==
    ASSUME NEW n \in Nat, NEW k \in 1 .. n
    PROVE  Enumerates(RotatedFrom(n, k), n - 1, (1 .. n) \ {k})
<1> USE DEF RotatedFrom
<1>1. RotatedFrom(n, k) \in [1 .. n - 1 -> (1 .. n) \ {k}]
  OBVIOUS
<1>2. \A i, j \in 1 .. n - 1 :
        RotatedFrom(n, k)[i] = RotatedFrom(n, k)[j] => i = j
  OBVIOUS
<1>3. ASSUME NEW m \in (1 .. n) \ {k}
      PROVE  \E i \in 1 .. n - 1 : RotatedFrom(n, k)[i] = m
  <2>1. CASE m > k
    <3>1. m - k \in 1 .. n - 1 /\ RotatedFrom(n, k)[m - k] = m
      BY <2>1
    <3> QED BY <3>1
  <2>2. CASE m < k
    <3>1. m + (n - k) \in 1 .. n - 1 /\ RotatedFrom(n, k)[m + (n - k)] = m
      BY <2>2
    <3> QED BY <3>1
  <2> QED BY <2>1, <2>2
<1> QED BY <1>1, <1>2, <1>3 DEF Enumerates

\* A part of a sequence.
LEMMA SubSeqFacts ==
    ASSUME NEW S, NEW q \in Seq(S), NEW i \in Nat \ {0}, NEW j \in 0 .. Len(q),
           i <= j + 1
    PROVE  /\ SubSeq(q, i, j) \in Seq(S)
           /\ Len(SubSeq(q, i, j)) = j - i + 1
           /\ \A x \in 1 .. j - i + 1 : SubSeq(q, i, j)[x] = q[i + x - 1]
OBVIOUS

\* The queue a \o b, where a and b hold the entries of q after and before k.
LEMMA RotatedReads ==
    ASSUME NEW S, NEW q \in Seq(S), NEW n \in Nat, Len(q) = n, NEW k \in 1 .. n,
           NEW a \in Seq(S), NEW b \in Seq(S), Len(a) = n - k, Len(b) = k - 1,
           \A i \in 1 .. n - k : a[i] = q[k + i],
           \A i \in 1 .. k - 1 : b[i] = q[i]
    PROVE  Reads(a \o b, q, (1 .. n) \ {k}, RotatedFrom(n, k))
<1>1. PICK g : g = RotatedFrom(n, k)
  OBVIOUS
<1> DEFINE r == a \o b
<1>2. /\ r \in Seq(S)
      /\ Len(r) = n - 1
      /\ \A i \in 1 .. n - 1 : r[i] = IF i <= n - k THEN a[i]
                                                    ELSE b[i - (n - k)]
  <2>1. Len(a) + Len(b) = n - 1
    OBVIOUS
  <2>2. /\ r \in Seq(S)
        /\ Len(r) = Len(a) + Len(b)
        /\ \A i \in 1 .. Len(a) + Len(b) :
              r[i] = IF i <= Len(a) THEN a[i] ELSE b[i - Len(a)]
    BY ConcatFacts
  <2> HIDE DEF r
  <2> QED BY <2>1, <2>2
<1> HIDE DEF r
<1>3. DOMAIN r = 1 .. n - 1
  BY <1>2
<1>4. \A i \in 1 .. n - 1 : g[i] = IF i <= n - k THEN k + i ELSE i - (n - k)
  BY <1>1 DEF RotatedFrom
<1>5. ASSUME NEW i \in 1 .. n - 1
      PROVE  r[i] = q[g[i]]
  <2>1. CASE i <= n - k
    BY <1>2, <1>4, <2>1
  <2>2. CASE ~ (i <= n - k)
    <3>1. i - (n - k) \in 1 .. k - 1
      BY <2>2
    <3> QED BY <1>2, <1>4, <2>2, <3>1
  <2> QED BY <2>1, <2>2
<1>6. Enumerates(g, n - 1, (1 .. n) \ {k})
  BY <1>1, RotatedPositions
<1>7. Reads(r, q, (1 .. n) \ {k}, g)
  BY <1>2, <1>3, <1>5, <1>6 DEF Reads
<1> QED BY <1>1, <1>7 DEF r

\* TakenAt drops the entry at position k and no other.
LEMMA TakenAtFacts ==
    ASSUME NEW S, NEW q \in Seq(S), NEW k \in 1 .. Len(q)
    PROVE  /\ TakenAt(q, k) \in Seq(S)
           /\ Distinct(q) => /\ Distinct(TakenAt(q, k))
                             /\ Entries(TakenAt(q, k)) = Entries(q) \ {q[k]}
<1> DEFINE r == TakenAt(q, k)
<1>1. PICK n \in Nat : n = Len(q)
  OBVIOUS
<1>2. k \in 1 .. n /\ DOMAIN q = 1 .. n
  BY <1>1
<1>3. PICK a : a = SubSeq(q, k + 1, n)
  OBVIOUS
<1>4. PICK b : b = SubSeq(q, 1, k - 1)
  OBVIOUS
<1>5. a \in Seq(S) /\ Len(a) = n - k /\ \A i \in 1 .. n - k : a[i] = q[k + i]
  <2>1. k + 1 \in Nat \ {0} /\ n \in 0 .. Len(q) /\ k + 1 <= n + 1
    BY <1>1, <1>2
  <2>2. n - (k + 1) + 1 = n - k /\ \A i \in 1 .. n - k : k + 1 + i - 1 = k + i
    BY <1>2
  <2> QED BY <1>3, <2>1, <2>2, SubSeqFacts
<1>6. b \in Seq(S) /\ Len(b) = k - 1 /\ \A i \in 1 .. k - 1 : b[i] = q[i]
  <2>1. 1 \in Nat \ {0} /\ k - 1 \in 0 .. Len(q) /\ 1 <= k - 1 + 1
    BY <1>1, <1>2
  <2>2. k - 1 - 1 + 1 = k - 1 /\ \A i \in 1 .. k - 1 : 1 + i - 1 = i
    BY <1>2
  <2> QED BY <1>4, <2>1, <2>2, SubSeqFacts
<1>7. r = a \o b
  BY <1>1, <1>3, <1>4 DEF TakenAt
<1> HIDE DEF r
<1>8. r \in Seq(S)
  BY <1>5, <1>6, <1>7
<1>9. Reads(r, q, (1 .. n) \ {k}, RotatedFrom(n, k))
  <2>1. Len(q) = n /\ k \in 1 .. n
    BY <1>1, <1>2
  <2>2. a \in Seq(S) /\ b \in Seq(S) /\ Len(a) = n - k /\ Len(b) = k - 1
    BY <1>5, <1>6
  <2>3. \A i \in 1 .. n - k : a[i] = q[k + i]
    BY <1>5
  <2>4. \A i \in 1 .. k - 1 : b[i] = q[i]
    BY <1>6
  <2>5. Reads(a \o b, q, (1 .. n) \ {k}, RotatedFrom(n, k))
    BY <2>1, <2>2, <2>3, <2>4, RotatedReads, Zenon
  <2> QED BY <2>5, <1>7
<1>10. (1 .. n) \ {k} \in SUBSET DOMAIN q
  BY <1>2
<1>11. /\ Entries(r) = {q[i] : i \in (1 .. n) \ {k}}
       /\ Distinct(q) => Distinct(r)
  <2>1. PICK D : D = (1 .. n) \ {k}
    OBVIOUS
  <2>2. D \in SUBSET DOMAIN q /\ Reads(r, q, D, RotatedFrom(n, k))
    BY <1>9, <1>10, <2>1
  <2>3. Entries(r) = {q[i] : i \in D} /\ (Distinct(q) => Distinct(r))
    BY <2>2, ReadsEntries
  <2> QED BY <2>1, <2>3
<1>12. Distinct(q) =>
         {q[i] : i \in (1 .. n) \ {k}} = {q[i] : i \in 1 .. n} \ {q[k]}
  BY <1>2 DEF Distinct
<1> QED BY <1>2, <1>8, <1>11, <1>12 DEF Entries, r

\* Two lists of one length with the same entries are the same.
LEMMA SameElements ==
    ASSUME NEW S, NEW T, NEW q \in Seq(S), NEW r \in Seq(T), Len(q) = Len(r),
           \A j \in 1 .. Len(q) : q[j] = r[j]
    PROVE  q = r
<1>1. DOMAIN q = DOMAIN r
  OBVIOUS
<1> QED BY <1>1

\* f enumerates the positions K from the first to the last, the m-th.
ListsInOrder(f, m, K) ==
    /\ f \in [1 .. m -> K]
    /\ \A i, j \in 1 .. m : i < j => f[i] < f[j]
    /\ \A k \in K : \E j \in 1 .. m : f[j] = k

\* Any increasing enumeration of the positions K is the one that Keep reads.
LEMMA KeepEnumerated ==
    ASSUME NEW S, NEW q \in Seq(S), NEW K \in SUBSET DOMAIN q,
           NEW m \in Nat, NEW f, ListsInOrder(f, m, K)
    PROVE  /\ Len(Keep(q, K)) = m
           /\ \A j \in 1 .. m : Keep(q, K)[j] = q[f[j]]
<1> USE DEF ListsInOrder
<1>1. \A k \in K : k \in Int
  OBVIOUS
<1>2. ASSUME NEW i \in 1 .. m, NEW j \in 1 .. m
      PROVE  (f[i] <= f[j] <=> i <= j) /\ (f[i] = f[j] => i = j)
  <2>1. f[i] \in Int /\ f[j] \in Int
    BY <1>1
  <2> QED BY <2>1
<1>3. ASSUME NEW j \in 0 .. m PROVE /\ IsFiniteSet({f[x] : x \in 1 .. j})
                                    /\ Cardinality({f[x] : x \in 1 .. j}) = j
  <2> DEFINE T == {f[x] : x \in 1 .. j}
             h == [x \in 1 .. j |-> f[x]]
  <2>1. /\ h \in [1 .. j -> T]
        /\ \A x \in 1 .. j : h[x] = f[x]
        /\ DOMAIN h = 1 .. j
    OBVIOUS
  <2>2. \A y \in T : \E x \in 1 .. j : h[x] = y
    BY <2>1
  <2> HIDE DEF h
  <2>3. IsInjective(h)
    BY <1>2, <2>1 DEF IsInjective
  <2> HIDE DEF T
  <2>4. h \in Bijection(1 .. j, T)
    BY <2>1, <2>2, <2>3 DEF Bijection, Injection, Surjection
  <2>5. IsFiniteSet(1 .. j) /\ Cardinality(1 .. j) = j
    BY FS_Interval
  <2> QED BY <2>4, <2>5, FS_Bijection DEF ExistsBijection, T
<1>4. {f[x] : x \in 1 .. m} = K
  OBVIOUS
<1>5. Cardinality(K) = m
  <2>1. m \in 0 .. m
    OBVIOUS
  <2> QED BY <1>3, <1>4, <2>1
<1>6. ASSUME NEW j \in 1 .. m PROVE Rank(K, f[j]) = j
  <2>1. {k \in K : k <= f[j]} = {f[x] : x \in 1 .. j}
    BY <1>2, <1>4
  <2>2. j \in 0 .. m
    OBVIOUS
  <2> QED BY <1>3, <2>1, <2>2 DEF Rank
<1>7. ASSUME NEW j \in 1 .. m PROVE (CHOOSE i \in K : Rank(K, i) = j) = f[j]
  <2>1. \A i \in K : Rank(K, i) = j => i = f[j]
    <3> SUFFICES ASSUME NEW i \in K, Rank(K, i) = j PROVE i = f[j]
      OBVIOUS
    <3>1. PICK x \in 1 .. m : f[x] = i
      OBVIOUS
    <3> QED BY <1>6, <3>1
  <2> QED BY <1>6, <2>1
<1>8. Keep(q, K) = [j \in 1 .. m |-> q[CHOOSE i \in K : Rank(K, i) = j]]
  BY <1>5 DEF Keep
<1>9. DOMAIN Keep(q, K) = 1 .. m /\ \A j \in 1 .. m : Keep(q, K)[j] = q[f[j]]
  BY <1>7, <1>8
<1>10. Keep(q, K) \in Seq(S)
  BY KeepType
<1> QED BY <1>9, <1>10

\* The positions of q whose entries are in P.
Where(q, P) == {i \in DOMAIN q : q[i] \in P}

\* To pick from what was kept is to pick at once.
LEMMA KeepKept ==
    ASSUME NEW S, NEW q \in Seq(S), NEW K \in SUBSET DOMAIN q, NEW P
    PROVE  Keep(Keep(q, K), Where(Keep(q, K), P)) = Keep(q, K \cap Where(q, P))
<1> DEFINE r == Keep(q, K)
           B == {j \in DOMAIN r : r[j] \in P}
           C == {i \in K : q[i] \in P}
<1>1. r \in Seq(S) /\ \E f \in [DOMAIN r -> K] : ReadsInOrder(r, q, K, f)
  BY KeepFacts
<1> HIDE DEF r
<1>2. PICK f \in [DOMAIN r -> K] : ReadsInOrder(r, q, K, f)
  BY <1>1
<1>3. B \in SUBSET DOMAIN r /\ C \in SUBSET DOMAIN q
  OBVIOUS
<1> DEFINE t == Keep(r, B)
<1>4. t \in Seq(S) /\ \E g \in [DOMAIN t -> B] : ReadsInOrder(t, r, B, g)
  <2> HIDE DEF B
  <2> QED BY <1>1, <1>3, KeepFacts
<1> HIDE DEF t
<1>5. PICK g \in [DOMAIN t -> B] : ReadsInOrder(t, r, B, g)
  BY <1>4
<1>6. PICK m \in Nat : m = Len(t) /\ DOMAIN t = 1 .. m
  BY <1>4
<1> DEFINE fg == [j \in 1 .. m |-> f[g[j]]]
<1>7. \A j \in 1 .. m : g[j] \in B /\ f[g[j]] \in C
  BY <1>2, <1>5, <1>6 DEF ReadsInOrder
<1>8. fg \in [1 .. m -> C] /\ \A j \in 1 .. m : fg[j] = f[g[j]]
  BY <1>7
<1>9. \A i, j \in 1 .. m : i < j => fg[i] < fg[j]
  BY <1>2, <1>5, <1>6, <1>7 DEF ReadsInOrder
<1>10. \A k \in C : \E j \in 1 .. m : fg[j] = k
  <2> SUFFICES ASSUME NEW k \in C PROVE \E j \in 1 .. m : fg[j] = k
    OBVIOUS
  <2>1. PICK x \in DOMAIN r : f[x] = k
    BY <1>2 DEF ReadsInOrder
  <2>2. x \in B
    BY <1>2, <2>1 DEF ReadsInOrder
  <2>3. PICK j \in DOMAIN t : g[j] = x
    BY <1>5, <2>2 DEF ReadsInOrder
  <2> QED BY <1>6, <2>1, <2>3
<1> HIDE DEF fg, C
<1>11. Len(Keep(q, C)) = m /\ \A j \in 1 .. m : Keep(q, C)[j] = q[fg[j]]
  <2>1. ListsInOrder(fg, m, C)
    BY <1>8, <1>9, <1>10 DEF ListsInOrder
  <2> QED BY <1>3, <2>1, KeepEnumerated
<1>12. \A j \in 1 .. m : t[j] = q[fg[j]]
  <2> SUFFICES ASSUME NEW j \in 1 .. m PROVE t[j] = q[fg[j]]
    OBVIOUS
  <2>1. t[j] = r[g[j]]
    BY <1>5, <1>6 DEF ReadsInOrder
  <2>2. g[j] \in DOMAIN r
    BY <1>7
  <2>3. r[g[j]] = q[f[g[j]]]
    BY <1>2, <2>2 DEF ReadsInOrder
  <2> QED BY <1>8, <2>1, <2>3
<1>13. Keep(q, C) \in Seq(S)
  BY <1>3, KeepType
<1>14. t = Keep(q, C)
  BY <1>4, <1>6, <1>11, <1>12, <1>13, SameElements
<1>15. B = Where(r, P) /\ K \cap Where(q, P) = C
  BY DEF Where, C
<1> QED BY <1>14, <1>15 DEF t, r

\* Without its least position, what is kept loses its first entry.
LEMMA KeepTail ==
    ASSUME NEW S, NEW q \in Seq(S), NEW A \in SUBSET DOMAIN q,
           NEW i \in A, \A j \in A : i <= j
    PROVE  /\ Keep(q, A) # <<>> /\ Keep(q, A)[1] = q[i]
           /\ Keep(q, A \ {i}) = Tail(Keep(q, A))
<1> DEFINE r == Keep(q, A)
           C == A \ {i}
<1>1. r \in Seq(S) /\ \E f \in [DOMAIN r -> A] : ReadsInOrder(r, q, A, f)
  BY KeepFacts
<1> HIDE DEF r
<1>2. PICK f \in [DOMAIN r -> A] : ReadsInOrder(r, q, A, f)
  BY <1>1
<1>3. PICK n \in Nat : n = Len(r) /\ DOMAIN r = 1 .. n
  BY <1>1
<1>4. \A j \in 1 .. n : f[j] \in A /\ f[j] \in Int /\ i <= f[j] /\ i \in Int
  BY <1>2, <1>3
<1>5. PICK x \in 1 .. n : f[x] = i
  BY <1>2, <1>3 DEF ReadsInOrder
<1>6. 1 \in 1 .. n /\ x = 1
  <2>1. 1 \in 1 .. n
    OBVIOUS
  <2>2. ASSUME x > 1 PROVE FALSE
    <3>1. f[1] < f[x]
      BY <1>2, <1>3, <2>1, <2>2 DEF ReadsInOrder
    <3> QED BY <1>4, <1>5, <2>1, <3>1
  <2> QED BY <2>1, <2>2
<1>7. r # <<>> /\ r[1] = q[i]
  BY <1>2, <1>3, <1>5, <1>6 DEF ReadsInOrder
<1>8. n - 1 \in Nat
  BY <1>6
<1> DEFINE g == [j \in 1 .. n - 1 |-> f[j + 1]]
<1>9. \A j \in 1 .. n - 1 : j + 1 \in 1 .. n /\ g[j] = f[j + 1] /\ f[j + 1] # i
  <2> SUFFICES ASSUME NEW j \in 1 .. n - 1
               PROVE  j + 1 \in 1 .. n /\ f[j + 1] # i
    OBVIOUS
  <2>1. j + 1 \in 1 .. n /\ 1 < j + 1
    OBVIOUS
  <2>2. f[1] < f[j + 1]
    BY <1>2, <1>3, <1>6, <2>1 DEF ReadsInOrder
  <2> QED BY <1>4, <1>5, <1>6, <2>1, <2>2
<1>10. g \in [1 .. n - 1 -> C]
  BY <1>4, <1>9
<1>11. \A j, k \in 1 .. n - 1 : j < k => g[j] < g[k]
  BY <1>2, <1>3, <1>9 DEF ReadsInOrder
<1>12. \A k \in C : \E j \in 1 .. n - 1 : g[j] = k
  <2> SUFFICES ASSUME NEW k \in C PROVE \E j \in 1 .. n - 1 : g[j] = k
    OBVIOUS
  <2>1. PICK y \in 1 .. n : f[y] = k
    BY <1>2, <1>3 DEF ReadsInOrder
  <2>2. y # 1
    BY <1>5, <1>6, <2>1
  <2>3. y - 1 \in 1 .. n - 1 /\ (y - 1) + 1 = y
    BY <2>2
  <2>4. g[y - 1] = k
    BY <1>9, <2>1, <2>3
  <2> QED BY <2>3, <2>4
<1>13. C \in SUBSET DOMAIN q
  OBVIOUS
<1> HIDE DEF g, C
<1>14. Len(Keep(q, C)) = n - 1 /\ \A j \in 1 .. n - 1 : Keep(q, C)[j] = q[g[j]]
  <2>1. ListsInOrder(g, n - 1, C)
    BY <1>10, <1>11, <1>12 DEF ListsInOrder
  <2> QED BY <1>8, <1>13, <2>1, KeepEnumerated
<1>15. Keep(q, C) \in Seq(S)
  BY <1>13, KeepType
<1>16. /\ Tail(r) \in Seq(S) /\ Len(Tail(r)) = n - 1
       /\ \A j \in 1 .. n - 1 : Tail(r)[j] = r[j + 1]
  BY <1>1, <1>3, <1>7
<1>17. \A j \in 1 .. n - 1 : Keep(q, C)[j] = Tail(r)[j]
  <2> SUFFICES ASSUME NEW j \in 1 .. n - 1 PROVE Keep(q, C)[j] = Tail(r)[j]
    OBVIOUS
  <2>1. r[j + 1] = q[f[j + 1]]
    BY <1>2, <1>3, <1>9 DEF ReadsInOrder
  <2>2. g[j] = f[j + 1]
    BY <1>9
  <2>3. Keep(q, C)[j] = q[g[j]] /\ Tail(r)[j] = r[j + 1]
    BY <1>14, <1>16
  <2> QED BY <2>1, <2>2, <2>3
<1>18. Keep(q, C) = Tail(r)
  BY <1>14, <1>15, <1>16, <1>17, SameElements
<1> QED BY <1>7, <1>18 DEF r, C

\* What is kept of the first part of a list comes first.
LEMMA KeepConcat ==
    ASSUME NEW S, NEW q \in Seq(S), NEW r \in Seq(S), NEW P
    PROVE  /\ Len(Keep(q, Where(q, P))) <= Len(Keep(q \o r, Where(q \o r, P)))
           /\ \A j \in 1 .. Len(Keep(q, Where(q, P))) :
                    Keep(q, Where(q, P))[j] = Keep(q \o r, Where(q \o r, P))[j]
<1> DEFINE s == q \o r
           A == Where(q, P)
           B == Where(s, P)
<1>0. A = {i \in DOMAIN q : q[i] \in P} /\ B = {i \in DOMAIN s : s[i] \in P}
  BY DEF Where
<1> HIDE DEF A, B
<1>1. PICK n \in Nat, m \in Nat :
        /\ n = Len(q) /\ m = Len(r) /\ DOMAIN q = 1 .. n /\ s \in Seq(S)
        /\ DOMAIN s = 1 .. n + m /\ \A i \in 1 .. n : s[i] = q[i]
  <2>1. Len(q) \in Nat /\ Len(r) \in Nat
    OBVIOUS
  <2>2. s \in Seq(S) /\ Len(s) = Len(q) + Len(r)
    OBVIOUS
  <2>3. \A i \in 1 .. Len(q) : s[i] = q[i]
    OBVIOUS
  <2> HIDE DEF s
  <2> QED BY <2>1, <2>2, <2>3
<1> HIDE DEF s
<1>2. A \in SUBSET (1 .. n) /\ B \in SUBSET (1 .. n + m) /\ n + m \in Nat
  BY <1>0, <1>1
<1>3. A \in SUBSET B /\ \A i \in A, j \in B : j <= i => j \in A
  BY <1>0, <1>1
<1>4. A \in SUBSET DOMAIN q /\ B \in SUBSET DOMAIN s
  BY <1>0
<1>5. \A i \in A : s[i] = q[i]
  BY <1>0, <1>1
<1>6. \A i \in A : Rank(B, i) = Rank(A, i)
  <2> SUFFICES ASSUME NEW i \in A PROVE {k \in B : k <= i} = {k \in A : k <= i}
    BY DEF Rank
  <2> QED BY <1>3
<1>7. /\ Cardinality(A) \in Nat
      /\ \A k \in 1 .. Cardinality(A) : \E i \in A : Rank(A, i) = k
  BY <1>2, RankFacts
<1>8. /\ Cardinality(B) \in Nat
      /\ \A i \in B : Rank(B, i) \in 1 .. Cardinality(B)
      /\ \A i, j \in B : i < j => Rank(B, i) < Rank(B, j)
  BY <1>2, RankFacts
<1>9. \A i, j \in B : Rank(B, i) = Rank(B, j) => i = j
  <2> SUFFICES ASSUME NEW i \in B, NEW j \in B, Rank(B, i) = Rank(B, j)
               PROVE  i = j
    OBVIOUS
  <2>1. i \in Int /\ j \in Int
    BY <1>2
  <2>2. Rank(B, i) \in Int
    BY <1>8
  <2> QED BY <1>8, <2>1, <2>2
<1>10. ASSUME NEW k \in 1 .. Cardinality(A)
       PROVE  /\ k \in 1 .. Cardinality(B)
              /\ q[CHOOSE i \in A : Rank(A, i) = k]
                    = s[CHOOSE i \in B : Rank(B, i) = k]
  <2>1. PICK i \in A : Rank(A, i) = k
    BY <1>7
  <2>2. i \in B /\ Rank(B, i) = k
    BY <1>3, <1>6, <2>1
  <2>3. \A j \in B : Rank(B, j) = k <=> j = i
    BY <1>9, <2>2
  <2>4. \A j \in A : Rank(A, j) = k <=> j = i
    BY <1>3, <1>6, <2>1, <2>3
  <2>5. /\ (CHOOSE j \in B : Rank(B, j) = k) = i
        /\ (CHOOSE j \in A : Rank(A, j) = k) = i
    BY <2>1, <2>2, <2>3, <2>4
  <2>6. k \in 1 .. Cardinality(B)
    BY <1>8, <2>2
  <2> QED BY <1>5, <2>5, <2>6
<1>11. /\ DOMAIN Keep(q, A) = 1 .. Cardinality(A)
       /\ DOMAIN Keep(s, B) = 1 .. Cardinality(B)
  BY DEF Keep
<1>12. Keep(q, A) \in Seq(S) /\ Keep(s, B) \in Seq(S)
  BY <1>1, <1>4, KeepType
<1>13. Len(Keep(q, A)) = Cardinality(A) /\ Len(Keep(s, B)) = Cardinality(B)
  BY <1>7, <1>8, <1>11, <1>12
<1>14. Cardinality(A) <= Cardinality(B)
  <2>1. CASE Cardinality(A) = 0
    BY <1>8, <2>1
  <2>2. CASE Cardinality(A) # 0
    <3>1. Cardinality(A) \in 1 .. Cardinality(A)
      BY <1>7, <2>2
    <3>2. Cardinality(A) \in 1 .. Cardinality(B)
      BY <1>10, <3>1
    <3> QED BY <1>7, <1>8, <3>2
  <2> QED BY <2>1, <2>2
<1>15. \A k \in 1 .. Cardinality(A) : Keep(q, A)[k] = Keep(s, B)[k]
  <2> SUFFICES ASSUME NEW k \in 1 .. Cardinality(A)
               PROVE  Keep(q, A)[k] = Keep(s, B)[k]
    OBVIOUS
  <2>1. Keep(q, A)[k] = q[CHOOSE i \in A : Rank(A, i) = k]
    BY DEF Keep
  <2>2. Keep(s, B)[k] = s[CHOOSE i \in B : Rank(B, i) = k]
    BY <1>10 DEF Keep
  <2> QED BY <1>10, <2>1, <2>2
<1> QED BY <1>13, <1>14, <1>15 DEF s, A, B
=============================================================================
