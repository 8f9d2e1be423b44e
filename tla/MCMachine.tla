------------------------------ MODULE MCMachine ------------------------------
(***************************************************************************)
(* Small instances of the parts of the kernel around the scheduler, for    *)
(* TLC.  Their modules share no variable, so one run looks at one of them  *)
(* at a time, and the others stay as they began.                           *)
(***************************************************************************)
EXTENDS KernelHeap, ProcessMemory, DataSink, MemoryCopy, Traps, InputDevices, Boot, Acpi,
        TLC

VARIABLE unit   \* the part this behaviour is about

machineVars == <<heapVars, memVars, sinkVars, copyVars, trapVars, inputVars, bootVars, acpiVars,
                 unit>>

\* Two threads of one process and one of another, which uses the same slot.
ThreadsOfTwo == [t \in {1, 2, 3} |-> IF t = 3 THEN "q" ELSE "p"]
SlotsOfTwo == [t \in {1, 2, 3} |-> IF t = 2 THEN 2 ELSE 1]

\* A letter, return next to the extended return of the number pad, which the
\* driver does not know, and an arrow.
SomeKeys == {<<30, FALSE>>, <<28, FALSE>>, <<28, TRUE>>, <<72, TRUE>>}
EdgeMoves == {-128, -1, 0, 127}

\* Sleep types that share bits and differ, and registers that hold one already.
SomeSleepCodes ==
    [s \in {0, 1, 5} |-> [r \in {"PM1a", "PM1b"} |->
        CASE s = 0 -> {} [] s = 1 -> {0} [] OTHER -> IF r = "PM1a" THEN {0, 2} ELSE {1, 2}]]
NoSleepType == [r \in {"PM1a", "PM1b"} |-> {0}]

\* Exchanging two processes, or two sinks, changes nothing.
Symmetries == Permutations(Proc) \cup Permutations(Sink)

Units == {"heap", "memory", "sink", "copy", "trap", "keyboard", "mouse", "boot", "acpi"}

MCInit ==
    /\ unit \in Units
    /\ HeapInit /\ MemInit /\ SinkInit /\ InputInit
    /\ CopyInit
    /\ unit # "copy" => DOMAIN pages = {v \in DOMAIN pages : pages[v] = NoTable}
    /\ TrapInit
    /\ unit # "trap" => slot = 1
    /\ BootInit
    /\ unit # "boot" => masked = {}
    /\ AcpiInit
    /\ unit # "acpi" =>
            /\ firmware.descriptors = {} /\ firmware.states = {} /\ firmware.methods = {}
            /\ firmware.bits = NoSleepType /\ ~firmware.fadt /\ ~firmware.pm1b

Others(mine) ==
    /\ unit' = unit
    /\ mine # "heap" => UNCHANGED heapVars
    /\ mine # "memory" => UNCHANGED memVars
    /\ mine # "sink" => UNCHANGED sinkVars
    /\ mine # "copy" => UNCHANGED copyVars
    /\ mine # "trap" => UNCHANGED trapVars
    /\ mine \notin {"keyboard", "mouse"} => UNCHANGED inputVars
    /\ mine # "boot" => UNCHANGED bootVars
    /\ mine # "acpi" => UNCHANGED acpiVars

MCNext ==
    \/ unit = "heap" /\ HeapNext /\ Others("heap")
    \/ unit = "memory" /\ MemNext /\ Others("memory")
    \/ unit = "sink" /\ SinkNext /\ Others("sink")
    \/ unit = "copy" /\ CopyNext /\ Others("copy")
    \/ unit = "trap" /\ TrapNext /\ Others("trap")
    \/ unit = "keyboard" /\ KeyboardNext /\ Others("keyboard")
    \/ unit = "mouse" /\ MouseNext /\ Others("mouse")
    \/ unit = "boot" /\ BootNext /\ Others("boot")
    \/ unit = "acpi" /\ AcpiNext /\ Others("acpi")

MCSpec == MCInit /\ [][MCNext]_machineVars

\* States from which nothing more is modelled are one state.
MCView == <<unit, sound, IF sound THEN machineVars ELSE <<>>>>

\* Every variable of every part has a value of its type.
TypesOK ==
    /\ HeapTypeOK /\ MemTypeOK /\ SinkTypeOK /\ CopyTypeOK /\ TrapTypeOK /\ InputTypeOK
    /\ BootTypeOK /\ AcpiTypeOK
=============================================================================
