------------------------------ MODULE DictSpec ------------------------------
(***************************************************************************)
(* What structures::map promises its users: a partial function from keys   *)
(* to values.  Overwriting and fetching what is not there panic, removing  *)
(* it is silent, and an iterator returns the value of each key once.       *)
(*                                                                         *)
(* It promises nothing to whoever asks for key 0, which is never set: the  *)
(* map may claim to have it, then with no value, and an empty map does.    *)
(***************************************************************************)
EXTENDS Integers, FiniteSets

CONSTANTS Key, MapValue, NoMapValue

VARIABLES
    dict,       \* the contents
    claims,     \* whether it claims to have key 0
    seen,       \* the keys whose values the iterator has returned
    reply,      \* what the last operation returned
    outcome     \* "ok", or the panic that stopped the program

vars == <<dict, claims, seen, reply, outcome>>

Init ==
    /\ dict = [k \in {} |-> {}]
    /\ claims = TRUE
    /\ seen = {}
    /\ reply = "none"
    /\ outcome = "ok"

Live == outcome = "ok"
Replies(r) == reply' = r /\ UNCHANGED <<dict, claims, seen, outcome>>
Panics == outcome' = "panic" /\ UNCHANGED <<dict, claims, seen, reply>>

Set(k, v) ==
    /\ Live
    /\ IF k \in DOMAIN dict THEN Panics
       ELSE /\ dict' = [j \in DOMAIN dict \cup {k} |-> IF j = k THEN v ELSE dict[j]]
            /\ claims' \in BOOLEAN
            /\ seen' = {}
            /\ UNCHANGED <<reply, outcome>>

Remove(k) ==
    /\ Live
    /\ dict' = [j \in DOMAIN dict \ {k} |-> dict[j]]
    /\ claims' \in BOOLEAN
    /\ DOMAIN dict' = {} => claims'
    /\ seen' = {}
    /\ UNCHANGED <<reply, outcome>>

Exists(k) ==
    Live /\ Replies(IF k \in DOMAIN dict THEN "found" ELSE "missing")

Fetch(k) ==
    /\ Live
    /\ IF k \in DOMAIN dict THEN Replies(dict[k]) ELSE Panics

\* Key 0.
ExistsNobody == Live /\ Replies(IF claims THEN "found" ELSE "missing")
FetchNobody == Live /\ IF claims THEN Replies(NoMapValue) ELSE Panics

\* The iterator returns the value of a key it has not been at.
Visit ==
    /\ Live
    /\ \E k \in DOMAIN dict \ seen :
            /\ seen' = seen \cup {k}
            /\ reply' = dict[k]
    /\ UNCHANGED <<dict, claims, outcome>>

\* hasNext() is false only when no key is left, and the walk can start again.
WalkEnds ==
    /\ Live
    /\ seen = DOMAIN dict
    /\ seen' = {}
    /\ UNCHANGED <<dict, claims, reply, outcome>>

Next ==
    \/ \E k \in Key, v \in MapValue : Set(k, v)
    \/ \E k \in Key : Remove(k) \/ Exists(k) \/ Fetch(k)
    \/ ExistsNobody \/ FetchNobody \/ Visit \/ WalkEnds

Spec == Init /\ [][Next]_vars
=============================================================================
