------------------------------ MODULE QueueOps ------------------------------
(***************************************************************************)
(* The kernel's queues and lists (structures::linked_array) seen by their  *)
(* users: finite sequences.  Every loop of the scheduler that walks a list *)
(* with an iterator and unlinks some of the entries keeps the others in    *)
(* their order; Keep is that result.                                       *)
(***************************************************************************)
EXTENDS Integers, Sequences, FiniteSets

\* The rank of position i among the positions K: how many of them are at or
\* before i.
Rank(K, i) == Cardinality({k \in K : k <= i})

\* The subsequence of q at the positions K, in the order of q: its j-th entry
\* is the entry of q at the position of K whose rank is j.
Keep(q, K) ==
    [j \in 1 .. Cardinality(K) |-> q[CHOOSE i \in K : Rank(K, i) = j]]

\* The entries of q that are not in the set gone (a loop that unlinks every
\* entry it finds in the set).
Without(q, gone) == Keep(q, {i \in DOMAIN q : q[i] \notin gone})

\* The queue when its first k - 1 entries have been moved to the end and the
\* next one has been taken off.
TakenAt(q, k) == SubSeq(q, k + 1, Len(q)) \o SubSeq(q, 1, k - 1)

\* The set of the entries of q.
Entries(q) == {q[i] : i \in DOMAIN q}

\* No entry of q occurs twice.
Distinct(q) == \A i, j \in DOMAIN q : q[i] = q[j] => i = j
=============================================================================
