------------------------------ MODULE ListSpec ------------------------------
(***************************************************************************)
(* What structures::linked_array promises its users: a sequence, with      *)
(* operations at both ends and at an index, and an iterator that may       *)
(* remove the element it has just returned.                                *)
(***************************************************************************)
EXTENDS Integers, Sequences

CONSTANTS Value, NoValue

VARIABLES
    q,          \* the elements
    at,         \* how many the iterator has passed, -1 outside a walk
    fetched,    \* next() has returned the element at this place
    result,     \* what the last operation returned
    status      \* "ok", or the panic that stopped the program

vars == <<q, at, fetched, result, status>>

\* The sequence s without its k-th element.
Skipping(s, k) ==
    [i \in 1 .. Len(s) - 1 |-> IF i < k THEN s[i] ELSE s[i + 1]]

Init ==
    /\ q = <<>>
    /\ at = -1
    /\ fetched = FALSE
    /\ result = NoValue
    /\ status = "ok"

\* Between two walks the list may be changed and read at will.
Idle == status = "ok" /\ at = -1

Becomes(s) == q' = s /\ UNCHANGED <<at, fetched, result, status>>
Returns(v) == result' = v /\ UNCHANGED <<q, at, fetched, status>>
Panics(why) == status' = why /\ UNCHANGED <<q, at, fetched, result>>

Push(v) == Idle /\ Becomes(Append(q, v))
Unshift(v) == Idle /\ Becomes(<<v>> \o q)

\* Takes the k-th element and returns it.
Take(k) ==
    /\ q' = Skipping(q, k)
    /\ result' = q[k]
    /\ UNCHANGED <<at, fetched, status>>

Pop == Idle /\ q # <<>> /\ Take(Len(q))
Shift == Idle /\ q # <<>> /\ Take(1)
Peek == Idle /\ q # <<>> /\ Returns(q[Len(q)])
PeekFront == Idle /\ q # <<>> /\ Returns(q[1])

\* An index counts from 0, and one that is too large panics.
GetAt(i) ==
    /\ Idle
    /\ IF i < Len(q) THEN Returns(q[i + 1]) ELSE Panics("out of bounds")

RemoveAt(i) ==
    /\ Idle
    /\ IF i < Len(q) THEN Becomes(Skipping(q, i + 1))
       ELSE Panics("out of bounds")

\* There is no room for one more element.
Full == Idle /\ Panics("full")

CreateIterator ==
    /\ Idle
    /\ at' = 0
    /\ UNCHANGED <<q, fetched, result, status>>

Walking == status = "ok" /\ at >= 0

IteratorNext ==
    /\ Walking
    /\ at < Len(q)
    /\ at' = at + 1
    /\ fetched' = TRUE
    /\ result' = q[at + 1]
    /\ UNCHANGED <<q, status>>

IteratorRemove ==
    /\ Walking
    /\ fetched
    /\ q' = Skipping(q, at)
    /\ at' = at - 1
    /\ fetched' = FALSE
    /\ UNCHANGED <<result, status>>

\* hasNext() is false only at the end.
IteratorEnd ==
    /\ Walking
    /\ at = Len(q)
    /\ at' = -1
    /\ fetched' = FALSE
    /\ UNCHANGED <<q, result, status>>

Next ==
    \/ \E v \in Value : Push(v) \/ Unshift(v)
    \/ Pop \/ Shift \/ Peek \/ PeekFront
    \/ \E i \in 0 .. Len(q) : GetAt(i) \/ RemoveAt(i)
    \/ Full
    \/ CreateIterator \/ IteratorNext \/ IteratorRemove \/ IteratorEnd

Spec == Init /\ [][Next]_vars
=============================================================================
