----------------------------- MODULE FlexArray ------------------------------
(***************************************************************************)
(* structures::flexible_array (shared/flex_array.h): an array whose user   *)
(* may leave gaps.  As long as there is none it is a sequence with push,   *)
(* pop and shift; a gap is noted in fragmented and closed by defragment.   *)
(*                                                                         *)
(* An array that grows does not initialise the entries it gains: one of    *)
(* them may say that it holds something although nobody wrote it.  The     *)
(* calls that come upon such an entry take it for an element; the array is *)
(* "misled" then, its counters no longer those of its elements, and        *)
(* nothing more is said of it until it is reset.                           *)
(*                                                                         *)
(* Elements are popped and shifted one at a time, as every caller does,    *)
(* never from an empty array, and the array is resized by set_at and push. *)
(* What an emptied entry still holds is never read and is left out.        *)
(***************************************************************************)
EXTENDS QueueOps

CONSTANTS
    FlexValue,          \* the elements
    NoFlexValue,        \* the contents of an entry nobody wrote
    FlexCapacity,       \* the capacity an array is made with
    MaxFlexCapacity,    \* bound on the capacity
    StaleEmpty          \* what the empty flag of a gained entry may hold

ASSUME FlexArrayAssumption ==
    /\ NoFlexValue \notin FlexValue
    /\ FlexCapacity \in Nat \ {0}
    /\ MaxFlexCapacity \in Nat
    /\ StaleEmpty \subseteq BOOLEAN

VARIABLES
    cells,          \* storage_ptr, by index
    flexOccupied,   \* occupied; -1 stands for 2^32 - 1
    next_index,     \* likewise
    fragmented,
    flexReply,      \* what the last operation returned
    flexStatus      \* "ok", "misled" or "panic"

flexVars == <<cells, flexOccupied, next_index, fragmented, flexReply, flexStatus>>

FreeCell == [empty |-> TRUE, value |-> NoFlexValue]
FullCell(v) == [empty |-> FALSE, value |-> v]
Holds(e) == ~e.empty /\ e.value \in FlexValue
NeverWritten(e) == ~e.empty /\ e.value \notin FlexValue
Size(c) == Cardinality(DOMAIN c)

FlexInit ==
    /\ cells = [i \in 0 .. FlexCapacity - 1 |-> FreeCell]
    /\ flexOccupied = 0
    /\ next_index = 0
    /\ fragmented = FALSE
    /\ flexReply = NoFlexValue
    /\ flexStatus = "ok"
-----------------------------------------------------------------------------
FlexOk == flexStatus = "ok"

\* The array grown to hold index i; the new entries are not initialised.
\* Bounded: arrays grow up to MaxFlexCapacity.
GrownFor(c, i) ==
    LET n == i + 1 + (19 * Size(c)) \div 10
    IN  IF i < Size(c) THEN {c}
        ELSE IF n > MaxFlexCapacity THEN {}
        ELSE {[j \in 0 .. n - 1 |->
                    IF j < Size(c) THEN c[j]
                    ELSE [empty |-> flags[j], value |-> NoFlexValue]] :
                flags \in [Size(c) .. n - 1 -> StaleEmpty]}

\* The status after a call that takes an entry nobody wrote for an element.
Misled(chance) == IF chance THEN "misled" ELSE "ok"

\* Faulty variant: a gap is filled with the last element.
FillFromEnd(s) ==
    LET c == s.cells
        behind == {j \in DOMAIN c : j > s.at /\ ~c[j].empty}
        last == CHOOSE j \in behind : \A h \in behind : h <= j
    IN  IF s.at >= Size(c) THEN s
        ELSE IF c[s.at].empty /\ behind # {}
        THEN [s EXCEPT !.cells = [c EXCEPT ![s.at] = c[last], ![last] = FreeCell],
                       !.at = @ + 1]
        ELSE [s EXCEPT !.at = @ + 1]

\* A round of the loop of defragment at index s.at, with the first gap before
\* it, if any: an element takes the gap, and the loop goes on behind that gap.
FillGap(s) ==
    LET c == s.cells
    IN  IF s.at >= Size(c) THEN s
        ELSE IF c[s.at].empty
        THEN [s EXCEPT !.at = @ + 1, !.gap = IF @ = -1 THEN s.at ELSE @]
        ELSE IF s.gap = -1 THEN [s EXCEPT !.at = @ + 1]
        ELSE [cells |-> [c EXCEPT ![s.gap] = c[s.at], ![s.at] = FreeCell],
              at |-> s.gap + 1, gap |-> -1]

\* The loop goes over the array once for each element at most.
FillRounds(c) == (Size(c) + 1) * (Size(c) + 1)
Defragmented(c) ==
    LET after[n \in 0 .. FillRounds(c)] ==
            IF n = 0 THEN [cells |-> c, at |-> 0, gap |-> -1] ELSE FillGap(after[n - 1])
    IN  after[FillRounds(c)].cells

FlexPanics ==
    /\ flexStatus' = "panic"
    /\ UNCHANGED <<cells, flexOccupied, next_index, fragmented, flexReply>>

FlexPush(v) ==
    /\ FlexOk
    /\ IF fragmented THEN FlexPanics
       ELSE /\ \E c \in GrownFor(cells, next_index) :
                    cells' = [c EXCEPT ![next_index] = FullCell(v)]
            /\ flexOccupied' = flexOccupied + 1
            /\ next_index' = next_index + 1
            /\ UNCHANGED <<fragmented, flexReply, flexStatus>>

FlexPop ==
    /\ FlexOk
    /\ IF fragmented THEN FlexPanics
       ELSE /\ next_index > 0
            /\ flexReply' = cells[next_index - 1].value
            /\ IF cells[next_index - 1].empty
               THEN UNCHANGED <<cells, flexOccupied, next_index>>
               ELSE /\ cells' = [cells EXCEPT ![next_index - 1] = FreeCell]
                    /\ flexOccupied' = flexOccupied - 1
                    /\ next_index' = next_index - 1
            /\ UNCHANGED <<fragmented, flexStatus>>

FlexDefragment ==
    /\ FlexOk
    /\ fragmented
    /\ cells' = Defragmented(cells)
    /\ next_index' = flexOccupied
    /\ fragmented' = FALSE
    /\ flexStatus' = Misled(\E i, j \in DOMAIN cells :
                              i < j /\ NeverWritten(cells[i]) /\ Holds(cells[j]))
    /\ UNCHANGED <<flexOccupied, flexReply>>

FlexShift ==
    /\ FlexOk
    /\ IF fragmented THEN FlexPanics
       ELSE /\ next_index > 0
            /\ flexReply' = cells[0].value
            /\ flexOccupied' = IF cells[0].empty THEN flexOccupied ELSE flexOccupied - 1
            /\ next_index' = flexOccupied'
            /\ cells' = Defragmented([cells EXCEPT ![0] = FreeCell])
            /\ UNCHANGED <<fragmented, flexStatus>>

FlexSetAt(i, v) ==
    /\ FlexOk
    /\ \E c \in GrownFor(cells, i) :
        /\ cells' = [c EXCEPT ![i] = FullCell(v)]
        /\ IF c[i].empty
           THEN /\ fragmented' = (fragmented \/ i # next_index)
                /\ flexOccupied' = flexOccupied + 1
                /\ next_index' = next_index + 1
           ELSE UNCHANGED <<fragmented, flexOccupied, next_index>>
        /\ flexStatus' = Misled(NeverWritten(c[i]))
    /\ UNCHANGED flexReply

LeavesGap(i) == i # next_index - 1

FlexRemoveAt(i) ==
    /\ FlexOk
    /\ i < Size(cells) /\ ~cells[i].empty
    /\ cells' = [cells EXCEPT ![i] = FreeCell]
    /\ fragmented' = (fragmented \/ LeavesGap(i))
    /\ next_index' = next_index - 1
    /\ flexOccupied' = flexOccupied - 1
    /\ flexStatus' = Misled(NeverWritten(cells[i]))
    /\ UNCHANGED flexReply

FlexGetAt(i) ==
    /\ FlexOk
    /\ IF i >= Size(cells) \/ cells[i].empty THEN FlexPanics
       ELSE /\ flexReply' = cells[i].value
            /\ UNCHANGED <<cells, flexOccupied, next_index, fragmented, flexStatus>>

FlexReset ==
    /\ flexStatus # "panic"
    /\ cells' = [i \in DOMAIN cells |-> FreeCell]
    /\ flexOccupied' = 0
    /\ next_index' = 0
    /\ fragmented' = FALSE
    /\ flexStatus' = "ok"
    /\ UNCHANGED flexReply

FlexHalted == flexStatus = "panic" /\ UNCHANGED flexVars

FlexNext ==
    \/ \E v \in FlexValue : FlexPush(v)
    \/ \E v \in FlexValue, i \in 0 .. Size(cells) : FlexSetAt(i, v)
    \/ FlexPop \/ FlexShift \/ FlexDefragment \/ FlexReset
    \/ \E i \in 0 .. Size(cells) : FlexRemoveAt(i) \/ FlexGetAt(i)
    \/ FlexHalted

FlexSpec == FlexInit /\ [][FlexNext]_flexVars
-----------------------------------------------------------------------------
FlexCells == [empty : BOOLEAN, value : FlexValue \cup {NoFlexValue}]

\* Every field has a value of its type.
FlexTypeOK ==
    /\ DOMAIN cells = 0 .. Size(cells) - 1
    /\ \A i \in DOMAIN cells : cells[i] \in FlexCells
    /\ flexOccupied \in Int /\ next_index \in Int
    /\ fragmented \in BOOLEAN
    /\ flexReply \in FlexValue \cup {NoFlexValue}
    /\ flexStatus \in {"ok", "misled", "panic"}

Written == {i \in DOMAIN cells : Holds(cells[i])}

\* The elements in the order of their indexes.
Squeezed ==
    LET row == [k \in 1 .. Size(cells) |-> cells[k - 1].value]
    IN  Keep(row, {k \in DOMAIN row : k - 1 \in Written})

\* Unless it was misled, the array's counter is the number of its elements and
\* an array that does not call itself fragmented has no gap, after any mix of
\* writes, removals and defragmentations, and whatever the entries it gained
\* by growing held: its elements lie at 0 up to next_index, where push, pop and
\* shift expect them.  Closing gaps moves elements but keeps every one of them,
\* in order: after a defragmentation they are those before it, after a shift
\* all but the first.  And only an array that outgrew the capacity it was made
\* with can be misled.
GapsCloseInOrder ==
    [][/\ flexStatus' # "misled" => /\ next_index' = Cardinality(Written')
                                    /\ ~fragmented' => Written' = 0 .. next_index' - 1
       /\ flexStatus' = "misled" => Size(cells') > FlexCapacity
       /\ FlexDefragment => Squeezed' = Squeezed
       /\ FlexShift /\ flexStatus' = "ok" => /\ flexReply' = Squeezed[1]
                                             /\ Squeezed' = Tail(Squeezed)]_flexVars
=============================================================================
