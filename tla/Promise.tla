------------------------------ MODULE Promise --------------------------------
(***************************************************************************)
(* Promises of userland (software/include/async.h): a parent thread starts *)
(* a function on a thread of its own, awaits it, takes its value, and      *)
(* destroys the promise.  async<T> and async_void are the same but for the *)
(* value.  Threads may be preempted anywhere: each access to a field that  *)
(* both threads use is a step.                                             *)
(*                                                                         *)
(* The parent executes a promise once, and destroys it after its last use. *)
(* The overloads of exec differ in the number of arguments; all but the    *)
(* one without any copy theirs into an allocated capture.                  *)
(***************************************************************************)
EXTENDS Naturals

CONSTANTS Promise   \* the promises of one parent

VARIABLES
    promise,        \* the fields of each promise, and whether it is alive
    capture,        \* the capture of each: "none", "held", or "freed"
    freed,          \* how often free was called for each capture
    child,          \* where the thread of each promise is
    parent,         \* where the parent is, and in which promise
    parent_parked,  \* is it parked?
    awaited,        \* the promises whose await has returned
    got             \* what value() last returned

promiseVars == <<promise, capture, freed, child, parent, parent_parked, awaited, got>>

NewPromise == [alive |-> TRUE, complete |-> FALSE, waiting |-> FALSE, started |-> FALSE,
               param |-> FALSE, value |-> "uninitialised"]
Free == [place |-> "free", at |-> "none"]
Parent(place, a) == [place |-> place, at |-> a]

PromiseInit ==
    /\ promise = [a \in Promise |-> NewPromise]
    /\ capture = [a \in Promise |-> "none"]
    /\ freed = [a \in Promise |-> 0]
    /\ child = [a \in Promise |-> "none"]
    /\ parent = Free
    /\ parent_parked = FALSE
    /\ awaited = {}
    /\ got = "nothing"

Is(place, a) == parent = Parent(place, a)
-----------------------------------------------------------------------------
(***************************************************************************)
(* The parent.                                                             *)
(***************************************************************************)

\* exec: the capture, then the thread, which may run before its id is stored.
Exec(a, arguments) ==
    /\ parent = Free
    /\ promise[a].alive /\ child[a] = "none"
    /\ parent' = Parent("starting", a)
    /\ capture' = [capture EXCEPT ![a] = IF arguments THEN "held" ELSE "none"]
    /\ promise' = [promise EXCEPT ![a].param = arguments]
    /\ child' = [child EXCEPT ![a] = "call"]
    /\ UNCHANGED <<freed, parent_parked, awaited, got>>

ExecStoresId(a) ==
    /\ Is("starting", a)
    /\ parent' = Free
    /\ promise' = [promise EXCEPT ![a].started = TRUE]
    /\ UNCHANGED <<capture, freed, child, parent_parked, awaited, got>>

\* Faulty variant: the parent does not say that it waits.
AwaitUnannounced(a) ==
    /\ parent = Free
    /\ promise[a].alive /\ promise[a].started
    /\ parent' = Parent("testing", a)
    /\ UNCHANGED <<promise, capture, freed, child, parent_parked, awaited, got>>

\* await: the flag, the loop's test, the park, and the test again.
Await(a) ==
    /\ parent = Free
    /\ promise[a].alive /\ promise[a].started
    /\ parent' = Parent("testing", a)
    /\ promise' = [promise EXCEPT ![a].waiting = TRUE]
    /\ UNCHANGED <<capture, freed, child, parent_parked, awaited, got>>

AwaitTest(a) ==
    /\ Is("testing", a)
    /\ IF promise[a].complete
       THEN parent' = Free /\ awaited' = awaited \cup {a}
       ELSE parent' = Parent("parking", a) /\ UNCHANGED awaited
    /\ UNCHANGED <<promise, capture, freed, child, parent_parked, got>>

AwaitParks(a) ==
    /\ Is("parking", a)
    /\ parent' = Parent("parked", a)
    /\ parent_parked' = TRUE
    /\ UNCHANGED <<promise, capture, freed, child, awaited, got>>

AwaitResumes(a) ==
    /\ Is("parked", a) /\ ~parent_parked
    /\ parent' = Parent("testing", a)
    /\ UNCHANGED <<promise, capture, freed, child, parent_parked, awaited, got>>

\* value and value_ref end the process unless the promise is complete.
TakesValue(a) ==
    /\ parent = Free
    /\ promise[a].alive
    /\ IF promise[a].complete
       THEN got' = promise[a].value /\ UNCHANGED parent
       ELSE parent' = Parent("fatal", a) /\ UNCHANGED got
    /\ UNCHANGED <<promise, capture, freed, child, parent_parked, awaited>>

\* The destructor: a test and a kill, another test and a free.
Destroy(a) ==
    /\ parent = Free
    /\ promise[a].alive
    /\ parent' = Parent(IF promise[a].started /\ ~promise[a].complete
                        THEN "killing" ELSE "retesting", a)
    /\ UNCHANGED <<promise, capture, freed, child, parent_parked, awaited, got>>

\* A thread that is gone already is killed again: call 16 finds its id, which
\* is never taken from the kernel's list, see the stale entries of Scheduler.
DestroyKills(a) ==
    /\ Is("killing", a)
    /\ parent' = Parent("retesting", a)
    /\ child' = [child EXCEPT ![a] = "gone"]
    /\ UNCHANGED <<promise, capture, freed, parent_parked, awaited, got>>

Destroyed(a) == promise' = [promise EXCEPT ![a].alive = FALSE]

\* Faulty variant: what the first test has found is used again.
DestroyTestsOnce(a) ==
    /\ Is("retesting", a)
    /\ IF promise[a].param /\ child[a] = "gone"
       THEN parent' = Parent("freeing", a) /\ UNCHANGED promise
       ELSE parent' = Free /\ Destroyed(a)
    /\ UNCHANGED <<capture, freed, child, parent_parked, awaited, got>>

DestroyTests(a) ==
    /\ Is("retesting", a)
    /\ IF promise[a].param /\ ~promise[a].complete
       THEN parent' = Parent("freeing", a) /\ UNCHANGED promise
       ELSE parent' = Free /\ Destroyed(a)
    /\ UNCHANGED <<capture, freed, child, parent_parked, awaited, got>>

Frees(a) ==
    /\ capture' = [capture EXCEPT ![a] = "freed"]
    /\ freed' = [freed EXCEPT ![a] = @ + 1]

DestroyFrees(a) ==
    /\ Is("freeing", a)
    /\ parent' = Free
    /\ Frees(a) /\ Destroyed(a)
    /\ UNCHANGED <<child, parent_parked, awaited, got>>
-----------------------------------------------------------------------------
(***************************************************************************)
(* The thread.                                                             *)
(***************************************************************************)

ChildGoes(a, from, to) ==
    /\ child[a] = from
    /\ parent.place # "fatal"
    /\ child' = [child EXCEPT ![a] = to]

\* The function runs on the arguments of the capture.
ChildCalls(a) ==
    /\ ChildGoes(a, "call", "stored")
    /\ promise' = [promise EXCEPT ![a].value = "result"]
    /\ UNCHANGED <<capture, freed, parent, parent_parked, awaited, got>>

ChildCompletes(a) ==
    /\ ChildGoes(a, "stored", "complete")
    /\ promise' = [promise EXCEPT ![a].complete = TRUE]
    /\ UNCHANGED <<capture, freed, parent, parent_parked, awaited, got>>

\* It looks whether its parent waits, in a promise that may be gone by now: the
\* memory holds anything then.
ChildLooks(a) ==
    /\ \E waiting \in IF promise[a].alive THEN {promise[a].waiting} ELSE BOOLEAN :
            ChildGoes(a, "complete", IF waiting THEN "awake" ELSE "free")
    /\ UNCHANGED <<promise, capture, freed, parent, parent_parked, awaited, got>>

ChildAwakes(a) ==
    /\ ChildGoes(a, "awake", "free")
    /\ parent_parked' = FALSE
    /\ UNCHANGED <<promise, capture, freed, parent, awaited, got>>

ChildFrees(a) ==
    /\ ChildGoes(a, "free", "last")
    /\ IF capture[a] = "none" THEN UNCHANGED <<capture, freed>> ELSE Frees(a)
    /\ UNCHANGED <<promise, parent, parent_parked, awaited, got>>

ChildEnds(a) ==
    /\ ChildGoes(a, "last", "gone")
    /\ UNCHANGED <<promise, capture, freed, parent, parent_parked, awaited, got>>

\* What the parent's program decides to do, what happens once it has, and the
\* thread of a promise.
ParentDecides(a) ==
    \/ \E arguments \in BOOLEAN : Exec(a, arguments)
    \/ Await(a) \/ TakesValue(a) \/ Destroy(a)

ParentProceeds(a) ==
    \/ ExecStoresId(a)
    \/ AwaitTest(a) \/ AwaitParks(a) \/ AwaitResumes(a)
    \/ DestroyKills(a) \/ DestroyTests(a) \/ DestroyFrees(a)

ChildRuns(a) ==
    \/ ChildCalls(a) \/ ChildCompletes(a) \/ ChildLooks(a) \/ ChildAwakes(a)
    \/ ChildFrees(a) \/ ChildEnds(a)

PromiseNext == \E a \in Promise : ParentDecides(a) \/ ParentProceeds(a) \/ ChildRuns(a)

PromiseSpec == PromiseInit /\ [][PromiseNext]_promiseVars
-----------------------------------------------------------------------------
ParentPlaces == {"free", "starting", "testing", "parking", "parked", "fatal",
                 "killing", "retesting", "freeing"}
ChildPlaces == {"none", "call", "stored", "complete", "awake", "free", "last", "gone"}

\* Every variable has a value of its type.
PromiseTypeOK ==
    /\ promise \in [Promise ->
            [alive : BOOLEAN, complete : BOOLEAN, waiting : BOOLEAN, started : BOOLEAN,
             param : BOOLEAN, value : {"uninitialised", "result"}]]
    /\ capture \in [Promise -> {"none", "held", "freed"}]
    /\ freed \in [Promise -> Nat]
    /\ child \in [Promise -> ChildPlaces]
    /\ parent \in {Free} \cup [place : ParentPlaces, at : Promise]
    /\ parent_parked \in BOOLEAN
    /\ awaited \subseteq Promise
    /\ got \in {"nothing", "uninitialised", "result"}

\* A capture is freed once, by the thread at its end or by the destructor that
\* has killed it, and no thread that still has to run uses it afterwards.
CapturesAreFreedOnce ==
    \A a \in Promise :
        /\ freed[a] <= 1
        /\ capture[a] = "freed" => child[a] \in {"last", "gone"}

\* A value that is taken is the one the function returned, and an await of one
\* promise does not return because another one, or a late one, awoke the thread.
ValuesAreResults ==
    /\ got # "uninitialised"
    /\ \A a \in awaited : promise[a].complete

\* However parent, threads and destructors interleave, the memory of a call is
\* freed once, behind the last use of it (the destructor asks again whether the
\* promise is complete after the kill), and what is taken is what was returned.
PromisesAreKept == CapturesAreFreedOnce /\ ValuesAreResults

\* "Parks and blocks the thread until the value is resolved" (async.h:177): a
\* parent that is parked before the child looks whether it waits is woken, sees
\* the value, and leaves the await, if no other child can still awake it.  (One
\* that parks later, or again after another child awoke it, may stay parked.)
AwaitEnds ==
    \A a \in Promise :
        (/\ Is("parked", a) /\ parent_parked
         /\ child[a] \in {"call", "stored", "complete"}
         /\ \A b \in Promise \ {a} : child[b] \in {"none", "free", "last", "gone"})
            ~> (a \in awaited /\ ~Is("parked", a))
=============================================================================
