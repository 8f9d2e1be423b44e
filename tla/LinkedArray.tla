---------------------------- MODULE LinkedArray -----------------------------
(***************************************************************************)
(* structures::linked_array (shared/linked_array.h), the list behind the   *)
(* kernel's execution queue, event queue, thread lists, listeners and data *)
(* sinks and the userland mutex.  The entries lie in one block of storage  *)
(* and are linked both ways between a head and a tail entry; the two slots *)
(* freed first are remembered, others are found by a scan of the occupied  *)
(* flags; a list about to be full moves to a larger block.                 *)
(*                                                                         *)
(* An entry is named by its slot, 1 .. capacity.  Callers walk a list from *)
(* end to end and change it only through the iterator meanwhile, as every  *)
(* loop of the kernel does, and do not shift or pop an empty list.         *)
(***************************************************************************)
EXTENDS Integers, Sequences

CONSTANTS
    Value,          \* the elements
    NoValue,        \* the contents of an entry that was never written
    InitialSize,    \* the capacity a list is made with
    StaleFlags,     \* what the occupied flag of a new entry may hold
    MaxCapacity     \* bound on the capacity

\* The addresses of the two ends, and nullptr.
head_entry == 0
tail_entry == -1
NullPtr == -2

\* Every list of the kernel and its programs is made with at least five.
ASSUME LinkedArrayAssumption ==
    /\ NoValue \notin Value
    /\ InitialSize \in Nat /\ InitialSize >= 2
    /\ StaleFlags \subseteq BOOLEAN
    /\ MaxCapacity \in Nat

VARIABLES
    list,       \* the linked_array object and its storage
    cursor,     \* current_entry of the iterator, NullPtr outside a walk
    fetched,    \* next() has returned the entry at the cursor
    result,     \* what the last operation returned
    status      \* "ok", or the panic that stopped the program

vars == <<list, cursor, fetched, result, status>>

Slot(n) == 1 .. n
Entry(n) == Slot(n) \cup {head_entry, tail_entry}

\* The constructor.  Memory is not cleared, so an entry's flag may say
\* occupied although it is not linked.
NewList(n, flags) ==
    [size |-> 0, capacity |-> n, occupied |-> flags,
     value |-> [s \in Slot(n) |-> NoValue],
     next |-> [e \in Entry(n) |-> IF e = head_entry THEN tail_entry ELSE NullPtr],
     prev |-> [e \in Entry(n) |-> IF e = tail_entry THEN head_entry ELSE NullPtr],
     next_index |-> NullPtr, next_index_2 |-> NullPtr]

Init ==
    /\ \E flags \in [Slot(InitialSize) -> StaleFlags] :
            list = NewList(InitialSize, flags)
    /\ cursor = NullPtr
    /\ fetched = FALSE
    /\ result = NoValue
    /\ status = "ok"
-----------------------------------------------------------------------------
(***************************************************************************)
(* The private functions.                                                  *)
(***************************************************************************)

\* The slots in the order of the links that start at the head.
Order(L) ==
    LET walk[k \in 1 .. L.size] ==
            IF k = 1 THEN L.next[head_entry] ELSE L.next[walk[k - 1]]
    IN  walk

\* Faulty variant: elements are copied in the order of the storage.
ResizedInPlace(L, n, flags) ==
    [size |-> L.size, capacity |-> n,
     occupied |-> [s \in Slot(n) |-> s <= L.size \/ flags[s]],
     value |-> [s \in Slot(n) |->
                    IF s <= L.size THEN L.value[s] ELSE NoValue],
     next |-> [e \in Entry(n) |-> IF e \in 0 .. L.size - 1 THEN e + 1
                                  ELSE IF e = L.size THEN tail_entry
                                  ELSE NullPtr],
     prev |-> [e \in Entry(n) |-> IF e \in 1 .. L.size THEN e - 1
                                  ELSE IF e = tail_entry THEN L.size
                                  ELSE NullPtr],
     next_index |-> NullPtr, next_index_2 |-> NullPtr]

\* resize: the k-th element moves to the k-th entry of the new storage (the
\* list is not empty), and no freed slot is remembered.
Resized(L, n, flags) ==
    [size |-> L.size, capacity |-> n,
     occupied |-> [s \in Slot(n) |-> s <= L.size \/ flags[s]],
     value |-> [s \in Slot(n) |->
                    IF s <= L.size THEN L.value[Order(L)[s]] ELSE NoValue],
     next |-> [e \in Entry(n) |-> IF e \in 0 .. L.size - 1 THEN e + 1
                                  ELSE IF e = L.size THEN tail_entry ELSE NullPtr],
     prev |-> [e \in Entry(n) |-> IF e \in 1 .. L.size THEN e - 1
                                  ELSE IF e = tail_entry THEN L.size ELSE NullPtr],
     next_index |-> NullPtr, next_index_2 |-> NullPtr]

\* The list an element is added to: itself, or moved to n entries when its
\* storage is about to be full.
Grown(L, n) ==
    IF L.size + 2 > L.capacity
    THEN {Resized(L, n, flags) : flags \in [Slot(n) -> StaleFlags]}
    ELSE {L}

\* cache_index: a freed entry is remembered if there is a place for it.
Cached(L, e) ==
    IF L.next_index = NullPtr THEN [L EXCEPT !.next_index = e]
    ELSE IF L.next_index_2 = NullPtr THEN [L EXCEPT !.next_index_2 = e]
    ELSE L

\* probe_index: the entry for a new element, NullPtr if there is none, and
\* the list when it is no longer remembered.
Unoccupied(L) == {s \in Slot(L.capacity) : ~L.occupied[s]}

ProbeIndex(L) ==
    IF L.next_index # NullPtr THEN L.next_index
    ELSE IF L.next_index_2 # NullPtr THEN L.next_index_2
    ELSE IF Unoccupied(L) = {} THEN NullPtr
    ELSE CHOOSE s \in Unoccupied(L) : \A t \in Unoccupied(L) : s <= t

\* Faulty variant: a remembered entry is never forgotten.
ProbedKept(L) == L

Probed(L) ==
    IF L.next_index # NullPtr THEN [L EXCEPT !.next_index = NullPtr]
    ELSE [L EXCEPT !.next_index_2 = NullPtr]

\* Entry e holds v and is linked between the entries a and b.
Linked(L, e, v, a, b) ==
    [L EXCEPT !.value[e] = v, !.occupied[e] = TRUE, !.size = @ + 1,
              !.next = [@ EXCEPT ![e] = b, ![a] = e],
              !.prev = [@ EXCEPT ![e] = a, ![b] = e]]

\* Entry e is free: the entry a before it and the entry b after it are
\* linked to each other.
Unlinked(L, e, a, b) ==
    Cached([L EXCEPT !.next[a] = b, !.prev[b] = a, !.occupied[e] = FALSE,
                     !.size = @ - 1], e)
-----------------------------------------------------------------------------
(***************************************************************************)
(* The operations.                                                         *)
(***************************************************************************)

Idle == status = "ok" /\ cursor = NullPtr

Panics(why) ==
    status' = why /\ UNCHANGED <<list, cursor, fetched, result>>

Returns(v) ==
    result' = v /\ UNCHANGED <<list, cursor, fetched, status>>

\* An element is added to the list L, between the entries a and b.
Adds(L, v, a, b) ==
    /\ IF ProbeIndex(L) = NullPtr
       THEN list' = L /\ status' = "full"
       ELSE /\ list' = Linked(Probed(L), ProbeIndex(L), v, a, b)
            /\ UNCHANGED status
    /\ UNCHANGED <<cursor, fetched, result>>

Push(v) ==
    /\ Idle
    /\ 2 * list.capacity <= MaxCapacity \/ list.size + 2 <= list.capacity
    /\ \E L \in Grown(list, 2 * list.capacity) : Adds(L, v, L.prev[tail_entry], tail_entry)

\* The capacity grows by 1.9, rounded down.
Unshift(v) ==
    LET n == (19 * list.capacity) \div 10
    IN  /\ Idle
        /\ n <= MaxCapacity \/ list.size + 2 <= list.capacity
        /\ \E L \in Grown(list, n) : Adds(L, v, head_entry, L.next[head_entry])

Pop ==
    LET e == list.prev[tail_entry]
    IN  /\ Idle
        /\ list.size > 0
        /\ list' = Unlinked(list, e, list.prev[e], tail_entry)
        /\ result' = list.value[e]
        /\ UNCHANGED <<cursor, fetched, status>>

Shift ==
    LET e == list.next[head_entry]
    IN  /\ Idle
        /\ list.size > 0
        /\ list' = Unlinked(list, e, head_entry, list.next[e])
        /\ result' = list.value[e]
        /\ UNCHANGED <<cursor, fetched, status>>

Peek == Idle /\ list.size > 0 /\ Returns(list.value[list.prev[tail_entry]])

PeekFront == Idle /\ list.size > 0 /\ Returns(list.value[list.next[head_entry]])

GetAt(i) ==
    /\ Idle
    /\ IF i >= list.size THEN Panics("out of bounds")
       ELSE Returns(list.value[Order(list)[i + 1]])

\* Removes entry e from the middle of the list.
Removed(e) == Unlinked(list, e, list.prev[e], list.next[e])

RemoveAt(i) ==
    /\ Idle
    /\ IF i >= list.size THEN Panics("out of bounds")
       ELSE /\ list' = Removed(Order(list)[i + 1])
            /\ UNCHANGED <<cursor, fetched, result, status>>

CreateIterator ==
    /\ Idle
    /\ cursor' = head_entry
    /\ UNCHANGED <<list, fetched, result, status>>

Walking == status = "ok" /\ cursor # NullPtr
HasNext == list.next[cursor] # tail_entry

IteratorNext ==
    /\ Walking
    /\ HasNext
    /\ cursor' = list.next[cursor]
    /\ fetched' = TRUE
    /\ result' = list.value[list.next[cursor]]
    /\ UNCHANGED <<list, status>>

\* Faulty variant: the iterator moves on to the entry after the removed one.
IteratorRemoveForward ==
    /\ Walking
    /\ fetched
    /\ list' = Removed(cursor)
    /\ cursor' = list.next[cursor]
    /\ fetched' = FALSE
    /\ UNCHANGED <<result, status>>

IteratorRemove ==
    /\ Walking
    /\ fetched
    /\ list' = Removed(cursor)
    /\ cursor' = list.prev[cursor]
    /\ fetched' = FALSE
    /\ UNCHANGED <<result, status>>

\* The loop is over.
IteratorEnd ==
    /\ Walking
    /\ ~HasNext
    /\ cursor' = NullPtr
    /\ fetched' = FALSE
    /\ UNCHANGED <<list, result, status>>

\* A panic stops the program.
Halted == status # "ok" /\ UNCHANGED vars

Next ==
    \/ \E v \in Value : Push(v) \/ Unshift(v)
    \/ Pop \/ Shift \/ Peek \/ PeekFront
    \/ \E i \in 0 .. list.size : GetAt(i) \/ RemoveAt(i)
    \/ CreateIterator \/ IteratorNext \/ IteratorRemove \/ IteratorEnd
    \/ Halted

Spec == Init /\ [][Next]_vars
-----------------------------------------------------------------------------
(***************************************************************************)
(* Properties.                                                             *)
(***************************************************************************)

\* The lists with storage for n entries.
ListType(n) ==
    [size : Nat, capacity : {n}, occupied : [Slot(n) -> BOOLEAN],
     value : [Slot(n) -> Value \cup {NoValue}],
     next : [Entry(n) -> Entry(n) \cup {NullPtr}],
     prev : [Entry(n) -> Entry(n) \cup {NullPtr}],
     next_index : Slot(n) \cup {NullPtr},
     next_index_2 : Slot(n) \cup {NullPtr}]

\* Every variable has a value of its C type, and the iterator stays within
\* the list.
TypeOK ==
    /\ list.capacity \in Nat
    /\ list \in ListType(list.capacity)
    /\ cursor \in Slot(list.capacity) \cup {head_entry, NullPtr}
    /\ fetched \in BOOLEAN
    /\ result \in Value \cup {NoValue}
    /\ status \in {"ok", "full", "out of bounds"}

\* Place i of the walk c through a list: the head, its slots, the tail.
Place(c, i) ==
    IF i = 0 THEN head_entry ELSE IF i = Len(c) + 1 THEN tail_entry ELSE c[i]

\* The slots c are those of the list in order: the links lead through them in
\* both directions, each is flagged as occupied and holds an element, and
\* none is remembered as free.
WalkOf(L, c) ==
    /\ c \in Seq(Slot(L.capacity))
    /\ Len(c) = L.size
    /\ \A i, j \in 1 .. L.size : c[i] = c[j] => i = j
    /\ \A i \in 0 .. L.size : /\ L.next[Place(c, i)] = Place(c, i + 1)
                              /\ L.prev[Place(c, i + 1)] = Place(c, i)
    /\ \A i \in 1 .. L.size : /\ L.occupied[c[i]]
                              /\ L.value[c[i]] \in Value
                              /\ c[i] \notin {L.next_index, L.next_index_2}

\* The structure never breaks: whatever was added, removed, iterated over and
\* moved, the two directions of links agree, an entry in use is neither
\* flagged nor remembered as free, and none is remembered twice, so that no
\* entry is ever handed out while in use.
WellLinked ==
    /\ WalkOf(list, Order(list))
    /\ \A e \in {list.next_index, list.next_index_2} \ {NullPtr} :
            ~list.occupied[e]
    /\ list.next_index = list.next_index_2 => list.next_index = NullPtr

\* The abstract list: its elements in order, and the iterator as an index.
Elements == [k \in 1 .. list.size |-> list.value[Order(list)[k]]]

Position ==
    IF cursor = NullPtr THEN -1
    ELSE IF cursor = head_entry THEN 0
    ELSE CHOOSE k \in 1 .. list.size : Order(list)[k] = cursor

List == INSTANCE ListSpec WITH q <- Elements, at <- Position

\* The linked array implements the sequence its users believe in: elements
\* come out in the order they went in, across freed and reused entries, moves
\* to new storage, and removals in the middle of a walk.
ImplementsList == List!Spec

\* "A linked array was full." (linked_array.h:324): the panic comes only when
\* every entry is in use.
PanicMeansFull == status = "full" => list.size = list.capacity
=============================================================================
