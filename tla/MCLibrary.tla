------------------------------ MODULE MCLibrary ------------------------------
(***************************************************************************)
(* Small instances of what programs and the kernel are linked with, for    *)
(* TLC: the structures and helpers of shared/ and the userland library.    *)
(* Their modules share no variable, so one run looks at one of them at a   *)
(* time, and the others stay as they began.                                *)
(***************************************************************************)
EXTENDS LinkedArray, HashMap, FlexArray, Conversions, Strings, ThreadSync, Promise,
        SystemCalls, UserHeap, Display
LOCAL INSTANCE Bitwise

VARIABLE unit   \* the part this behaviour is about

libraryVars == <<vars, mapVars, flexVars, convVars, strVars, syncVars, promiseVars,
                 callVars, userHeapVars, displayVars, unit>>

AnyFlag == BOOLEAN
XorBits(a, b) == a ^^ b
GlyphWidths(c) == <<2, 0, 3, 1, 4>>[c + 1]

Units == {"list", "map", "flex", "text", "string", "sync", "promise", "calls", "heap",
          "printing", "shapes"}

MCInit ==
    /\ unit \in Units
    /\ Init /\ MapInit /\ FlexInit /\ ConvInit /\ StrInit /\ SyncInit /\ PromiseInit
    /\ CallInit /\ UserHeapInit /\ DisplayInit
    /\ unit # "list" => list.occupied = [s \in Slot(InitialSize) |-> FALSE]
    /\ unit # "sync" => counter = 0

Others(mine) ==
    /\ unit' = unit
    /\ mine # "list" => UNCHANGED vars
    /\ mine # "map" => UNCHANGED mapVars
    /\ mine # "flex" => UNCHANGED flexVars
    /\ mine # "text" => UNCHANGED convVars
    /\ mine # "string" => UNCHANGED strVars
    /\ mine # "sync" => UNCHANGED syncVars
    /\ mine # "promise" => UNCHANGED promiseVars
    /\ mine # "calls" => UNCHANGED callVars
    /\ mine # "heap" => UNCHANGED userHeapVars
    /\ mine \notin {"printing", "shapes"} => UNCHANGED displayVars

MCNext ==
    \/ unit = "list" /\ Next /\ Others("list")
    \/ unit = "map" /\ MapNext /\ Others("map")
    \/ unit = "flex" /\ FlexNext /\ Others("flex")
    \/ unit = "text" /\ ConvNext /\ Others("text")
    \/ unit = "string" /\ StrNext /\ Others("string")
    \/ unit = "sync" /\ SyncNext /\ Others("sync")
    \/ unit = "promise" /\ PromiseNext /\ Others("promise")
    \/ unit = "calls" /\ CallNext /\ Others("calls")
    \/ unit = "heap" /\ UserHeapNext /\ Others("heap")
    \/ unit = "printing" /\ TextNext /\ Others("printing")
    \/ unit = "shapes" /\ ShapeNext /\ Others("shapes")

\* No thread that can run is starved (RunnableThreadRuns of Scheduler) and the
\* functions of promises return; nobody has to call.
PromiseFairness ==
    \A a \in Promise :
        /\ WF_libraryVars(unit = "promise" /\ ParentProceeds(a) /\ Others("promise"))
        /\ WF_libraryVars(unit = "promise" /\ ChildRuns(a) /\ Others("promise"))

MCSpec == MCInit /\ [][MCNext]_libraryVars /\ PromiseFairness

\* Every variable of every part has a value of its type.
TypesOK ==
    /\ TypeOK /\ MapTypeOK /\ FlexTypeOK /\ SyncTypeOK /\ PromiseTypeOK /\ CallTypeOK
    /\ UserHeapTypeOK /\ DisplayTypeOK
=============================================================================
