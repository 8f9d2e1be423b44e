------------------------------ MODULE HashMap -------------------------------
(***************************************************************************)
(* structures::map (shared/map.h), the table behind the kernel's processes,*)
(* process names, threads and data sinks: open addressing in which an entry*)
(* far from its home slot displaces one nearer to its own (Robin Hood),    *)
(* and a removal moves the entries behind it back by one.                  *)
(*                                                                         *)
(* A name is its 32-bit hash, so a key is any number.  The key of an empty *)
(* entry is 0, which is no id, but programs may ask for it.  Callers keep  *)
(* the map unchanged while they iterate over it.                           *)
(***************************************************************************)
EXTENDS Integers, FiniteSets

CONSTANTS
    Key,            \* the keys that are set: ids, counted from 1, and hashes
    MapValue,       \* the values
    NoMapValue,     \* the value of an empty entry
    MapCapacity,    \* the capacity a map is made with
    MaxMapCapacity  \* bound on the capacity

ASSUME HashMapAssumption ==
    /\ Key \subseteq Nat \ {0}
    /\ NoMapValue \notin MapValue
    /\ MapCapacity \in Nat /\ MapCapacity >= 2
    /\ MaxMapCapacity \in Nat

VARIABLES
    table,          \* storage_ptr, by index; its size is the capacity
    occupied,       \* occupiedBuckets
    header,         \* "intact", or "overwritten": the word before the storage
    walk,           \* current_entry of the iterator
    reply,          \* what the last operation returned
    outcome         \* "ok", or "panic"

mapVars == <<table, occupied, header, walk, reply, outcome>>

Nobody == 0
EmptyEntry == [empty |-> TRUE, probes |-> 0, key |-> Nobody, value |-> NoMapValue]
EmptyTable(n) == [i \in 0 .. n - 1 |-> EmptyEntry]

MapInit ==
    /\ table = EmptyTable(MapCapacity)
    /\ occupied = 0
    /\ header = "intact"
    /\ walk = 0
    /\ reply = "none"
    /\ outcome = "ok"
-----------------------------------------------------------------------------
(***************************************************************************)
(* The private functions, on a table T.                                    *)
(***************************************************************************)

Capacity(T) == Cardinality(DOMAIN T)
Home(T, k) == k % Capacity(T)
After(T, i) == (i + 1) % Capacity(T)

\* The probe sequence of a key ends at the first entry in its own home slot,
\* empty ones included.
ProbeSlot(T, k, j) == (k + j) % Capacity(T)
Stops(T, k, j) == T[ProbeSlot(T, k, j)].probes = 0
NotFound == -1

\* locate_bucket.  It does not ask whether the home slot is empty.
Locate(T, k) ==
    LET Ends(j) == Stops(T, k, j) \/ T[ProbeSlot(T, k, j)].key = k
        last == CHOOSE j \in 1 .. Capacity(T) :
                    Ends(j) /\ \A i \in 1 .. j - 1 : ~Ends(i)
    IN  IF T[Home(T, k)].key = k THEN Home(T, k)
        ELSE IF Stops(T, k, last) THEN NotFound
        ELSE ProbeSlot(T, k, last)

\* Faulty variant: an entry displaces one that is as far from its home.
CarryLazily(s) ==
    LET n == After(s.table, s.at)
        e == [s.entry EXCEPT !.probes = @ + 1]
        b == s.table[n]
    IN  IF s.placed THEN s
        ELSE [table |-> [s.table EXCEPT ![n] = e], at |-> n,
              entry |-> [b EXCEPT !.probes = 0], placed |-> b.empty]

\* A round of the loop of set, which carries an entry on from slot s.at: it
\* displaces one that is nearer to its home, or takes an empty slot.
Carry(s) ==
    LET n == After(s.table, s.at)
        e == [s.entry EXCEPT !.probes = @ + 1]
        b == s.table[n]
    IN  IF s.placed THEN s
        ELSE IF b.empty \/ b.probes < e.probes
        THEN [table |-> [s.table EXCEPT ![n] = e], at |-> n, entry |-> b, placed |-> b.empty]
        ELSE [table |-> s.table, at |-> n, entry |-> e, placed |-> FALSE]

\* There is an empty slot, so that one way around the table is enough.
Carried(T, i, e) ==
    LET after[n \in 0 .. Capacity(T)] ==
            IF n = 0 THEN [table |-> T, at |-> i, entry |-> e, placed |-> FALSE]
            ELSE Carry(after[n - 1])
    IN  after[Capacity(T)].table

Placed(T, k, v) ==
    LET e == [empty |-> FALSE, probes |-> 0, key |-> k, value |-> v]
    IN  IF T[Home(T, k)].empty THEN [T EXCEPT ![Home(T, k)] = e]
        ELSE Carried(T, Home(T, k), e)

\* resize: every entry is set again, in the order of the old table.  The new
\* table is nearly twice as large, so that none of these grows it again.
SetAgain(T, e) == IF e.empty THEN T ELSE Placed(T, e.key, e.value)
Rehashed(T, n) ==
    LET after[m \in 0 .. Capacity(T)] ==
            IF m = 0 THEN EmptyTable(n) ELSE SetAgain(after[m - 1], T[m - 1])
    IN  after[Capacity(T)]

\* Faulty variant: the table is moved without placing its entries anew.
CopiedWhole(T, n) ==
    [i \in 0 .. n - 1 |-> IF i < Capacity(T) THEN T[i] ELSE EmptyEntry]

Regrown(T, n) == IF n <= Capacity(T) THEN T ELSE Rehashed(T, n)

\* At 92 per cent the capacity grows by 1.9, rounded down.
Crowded(T, n) == 100 * n >= 92 * Capacity(T)
Doubled(T) == (19 * Capacity(T)) \div 10

\* A round of the loop of remove: the entry behind slot s.at, if it is not at
\* home, moves back.  An entry in slot 0 is written before the storage.
MoveBack(s) ==
    LET n == After(s.table, s.at)
        e == [s.table[n] EXCEPT !.probes = @ - 1]
    IN  IF s.table[n].probes = 0 THEN s
        ELSE IF n = 0
        THEN [table |-> [s.table EXCEPT ![n] = EmptyEntry], at |-> n, header |-> "overwritten"]
        ELSE [table |-> [s.table EXCEPT ![n] = EmptyEntry, ![n - 1] = e], at |-> n,
              header |-> s.header]

\* Each round takes one from the probe counts.
MoveRounds(T) ==
    LET counts == (DOMAIN T) \X (1 .. Capacity(T))
    IN  Capacity(T) + Cardinality({c \in counts : c[2] <= T[c[1]].probes})
MovedBack(T, h, i) ==
    LET after[n \in 0 .. MoveRounds(T)] ==
            IF n = 0 THEN [table |-> [T EXCEPT ![i] = EmptyEntry], at |-> i, header |-> h]
            ELSE MoveBack(after[n - 1])
    IN  after[MoveRounds(T)]
-----------------------------------------------------------------------------
(***************************************************************************)
(* The operations.  A change ends the walk of the iterator.                *)
(***************************************************************************)

Running == outcome = "ok"
MapPanics == outcome' = "panic" /\ UNCHANGED <<table, occupied, header, walk, reply>>
Answers(r) == reply' = r /\ UNCHANGED <<table, occupied, header, walk, outcome>>

\* Bounded: maps grow up to MaxMapCapacity.
MapSet(k, v) ==
    LET T == IF Crowded(table, occupied) THEN Regrown(table, Doubled(table)) ELSE table
    IN  /\ Running
        /\ Crowded(table, occupied) => Doubled(table) <= MaxMapCapacity
        /\ IF Locate(table, k) # NotFound \/ occupied >= Capacity(T)
           THEN MapPanics
           ELSE /\ table' = Placed(T, k, v)
                /\ occupied' = occupied + 1
                /\ walk' = 0
                /\ UNCHANGED <<header, reply, outcome>>

MapFetch(k) ==
    /\ Running
    /\ IF Locate(table, k) = NotFound THEN MapPanics
       ELSE Answers(table[Locate(table, k)].value)

MapExists(k) ==
    Running /\ Answers(IF Locate(table, k) = NotFound THEN "missing" ELSE "found")

MapRemove(k) ==
    LET i == Locate(table, k)
        M == MovedBack(table, header, i)
    IN  /\ Running
        /\ IF i = NotFound THEN UNCHANGED <<table, occupied, header>>
           ELSE /\ table' = M.table
                /\ header' = M.header
                /\ occupied' = occupied - 1
        /\ walk' = 0
        /\ UNCHANGED <<reply, outcome>>

\* The first entry in use from index i on; the capacity if there is none.
Following(i) ==
    LET used == {j \in DOMAIN table : j >= i /\ ~table[j].empty}
    IN  IF used = {} THEN Capacity(table)
        ELSE CHOOSE j \in used : \A h \in used : j <= h

MapHasNext == Following(walk) # Capacity(table)

\* hasNext() and next().
MapIteratorNext ==
    /\ Running
    /\ MapHasNext
    /\ reply' = table[Following(walk)].value
    /\ walk' = Following(walk) + 1
    /\ UNCHANGED <<table, occupied, header, outcome>>

\* The end of a walk, and the start of another.
MapIteratorReset ==
    /\ Running
    /\ ~MapHasNext
    /\ walk' = 0
    /\ UNCHANGED <<table, occupied, header, reply, outcome>>

MapHalted == ~Running /\ UNCHANGED mapVars

MapNext ==
    \/ \E k \in Key, v \in MapValue : MapSet(k, v)
    \/ \E k \in Key : MapRemove(k)
    \/ \E k \in Key \cup {Nobody} : MapFetch(k) \/ MapExists(k)
    \/ MapIteratorNext \/ MapIteratorReset
    \/ MapHalted

MapSpec == MapInit /\ [][MapNext]_mapVars
-----------------------------------------------------------------------------
(***************************************************************************)
(* Properties.                                                             *)
(***************************************************************************)

MapEntries == [empty : BOOLEAN, probes : Nat, key : Key \cup {Nobody},
               value : MapValue \cup {NoMapValue}]

\* Every field has a value of its type.
MapTypeOK ==
    /\ DOMAIN table = 0 .. Capacity(table) - 1
    /\ \A i \in DOMAIN table : table[i] \in MapEntries
    /\ occupied \in Nat
    /\ header \in {"intact", "overwritten"}
    /\ walk \in 0 .. Capacity(table)
    /\ outcome \in {"ok", "panic"}

Used == {i \in DOMAIN table : ~table[i].empty}

\* Every key can be reached: an entry lies as many slots behind its home as
\* its probe count says, no entry between the two is at home, and so none of
\* them ends the search for it; the count of entries is exact and nothing
\* but the table was written.  Displacements by set, the rehash and the
\* moves of remove must all keep this, and one wrong count hides a process or
\* thread that still exists.
ProbesAreDistances ==
    /\ header = "intact"
    /\ occupied = Cardinality(Used)
    /\ \A i \in Used :
        /\ table[i].probes = (i - table[i].key) % Capacity(table)
        /\ \A j \in 1 .. table[i].probes :
                ~Stops(table, table[i].key, j)

\* The contents, and the keys the iterator has been at.
Contents ==
    LET keys == {table[i].key : i \in Used}
    IN  [k \in keys |-> table[CHOOSE i \in Used : table[i].key = k].value]

Seen == {table[i].key : i \in {j \in Used : j < walk}}

Dict == INSTANCE DictSpec WITH dict <- Contents, claims <- table[0].empty, seen <- Seen

\* The table implements a partial function on the keys that are set: what was
\* set is found with its value until it is removed, whatever was displaced,
\* rehashed or moved back meanwhile, and a walk returns every value once.  Key
\* 0, which nobody sets, is claimed with no value while slot 0 is empty.
ImplementsDict == Dict!Spec

\* "Needs to be moved back." (map.h:109): what a removal moves back stays in
\* the table, so that the entries in it are always as many as it counts.
RemovalKeepsEntries == occupied = Cardinality(Used)
=============================================================================
