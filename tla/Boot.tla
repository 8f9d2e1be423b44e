--------------------------------- MODULE Boot ---------------------------------
(***************************************************************************)
(* The start of the kernel (kernel.cpp and the files of tables/, chips/    *)
(* and interrupts/ it calls): one step of the main program at a time, with *)
(* the interrupts that devices raise meanwhile.                            *)
(*                                                                         *)
(* The loader hands over with interrupts off, the interrupt controllers at *)
(* the vectors of the firmware and some of their lines masked.  LoadIDT    *)
(* turns interrupts on, long before the scheduler can take a tick, so what *)
(* keeps the start in order is the mask of line 0 and the order itself.    *)
(***************************************************************************)
EXTENDS Integers, Sequences

CONSTANTS
    Lines,          \* lines on which devices interrupt
    FirmwareMasks   \* sets of lines that the firmware may have masked

ASSUME BootAssumption ==
    /\ Lines \subseteq 0 .. 15
    /\ \A set \in FirmwareMasks : set \subseteq Lines

VARIABLES
    stage,          \* steps of the main program done
    ready,          \* what they have set up
    offsets,        \* the vectors of line 0 and of line 8
    masked,         \* lines masked
    raised,         \* lines on which a device waits
    enabled,        \* are interrupts on?
    core,           \* "boot", "idle", "halted" or "undefined"
    used_early      \* ghost: what was used before it was set up

bootVars == <<stage, ready, offsets, masked, raised, enabled, core, used_early>>

\* Faulty variant: the task state segment is loaded before the table that
\* describes it.
ProgramTaskStateFirst ==
    <<"screen", "pages", "heap", "tss", "gdt", "exceptions", "irqs", "software", "fpu",
      "remap", "mask_timer", "idt", "scheduler", "paging", "pit", "key_table",
      "key_process", "program", "unmask_timer">>

\* kernelControlHandOver, as the order of what it calls.
Program ==
    <<"screen", "pages", "heap", "gdt", "tss", "exceptions", "irqs", "software", "fpu",
      "remap", "mask_timer", "idt", "scheduler", "paging", "pit", "key_table",
      "key_process", "program", "unmask_timer">>

\* What each step uses of earlier ones; nearly all of them print.
Needs(step) ==
    CASE step \in {"screen", "pages"} -> {}
      [] step = "heap" -> {"pages"}
      [] step = "tss" -> {"screen", "gdt"}
      [] step = "idt" -> {"screen", "gdt", "exceptions", "irqs", "software"}
      [] step = "scheduler" -> {"screen", "heap", "pages"}
      [] step = "paging" -> {"screen", "scheduler"}
      [] step \in {"key_process", "program"} -> {"screen", "heap", "pages", "scheduler"}
      [] OTHER -> {"screen"}

BootInit ==
    /\ stage = 0 /\ ready = {}
    /\ offsets = [master |-> 8, slave |-> 112]
    /\ masked \in FirmwareMasks
    /\ raised = {} /\ enabled = FALSE
    /\ core = "boot" /\ used_early = {}

Missing(user, parts) == {<<user, part>> : part \in parts \ ready}
-----------------------------------------------------------------------------
\* pic::remap: both controllers get new vectors and keep their masks.
Remap(master, slave) ==
    /\ offsets' = [master |-> master, slave |-> slave]
    /\ UNCHANGED masked

MaskLine(line) == masked' = masked \cup {line} /\ UNCHANGED offsets
UnmaskLine(line) == masked' = masked \ {line} /\ UNCHANGED offsets

BootStep ==
    LET step == Program[stage + 1]
    IN  /\ core = "boot" /\ stage < Len(Program)
        /\ stage' = stage + 1
        /\ ready' = ready \cup {step}
        /\ used_early' = used_early \cup Missing(step, Needs(step))
        /\ CASE step = "remap" -> Remap(32, 40)
             [] step = "mask_timer" -> MaskLine(0)
             [] step = "unmask_timer" -> UnmaskLine(0)
             [] OTHER -> UNCHANGED <<offsets, masked>>
        /\ enabled' = (enabled \/ step = "idt")
        /\ core' = IF stage' = Len(Program) THEN "idle" ELSE core
        /\ UNCHANGED raised
-----------------------------------------------------------------------------
(***************************************************************************)
(* Interrupts.                                                             *)
(***************************************************************************)

ExceptionVectors == ((0 .. 20) \ {2, 9, 15}) \cup {30}

\* The gates that the three load_all functions define, by their handlers.
Gate(vector) ==
    CASE vector \in ExceptionVectors /\ "exceptions" \in ready -> "exception"
      [] vector \in 32 .. 47 /\ "irqs" \in ready -> "irq"
      [] vector = 128 /\ "software" \in ready -> "call"
      [] OTHER -> "none"

Raise(line) ==
    /\ line \notin raised
    /\ raised' = raised \cup {line}
    /\ UNCHANGED <<stage, ready, offsets, masked, enabled, core, used_early>>

\* The lines of the second controller come through line 2 of the first.
Open(line) == line \notin masked /\ (line >= 8 => 2 \notin masked)

VectorOf(line) == IF line < 8 THEN offsets.master + line ELSE offsets.slave + line - 8

\* HandleGeneralCPUException returns for a debug exception only.
Exception(vector) ==
    /\ core' = IF vector = 1 THEN core ELSE "halted"
    /\ UNCHANGED used_early

\* The tick of the timer enters the scheduler, which runs a program on its own
\* page directory and comes back through the task state segment.
Tick ==
    /\ used_early' = used_early \cup Missing("tick", {"scheduler", "paging", "tss"})
    /\ UNCHANGED core

\* A key is looked up in tables that are empty until they are filled; from then
\* on it is an event of the driver's process, of which there is none yet while
\* the driver is loading.
KeyPressed(known) ==
    LET event == known /\ "key_table" \in ready
    IN  /\ core' = IF event /\ "key_process" \notin ready THEN "undefined" ELSE core
        /\ used_early' = IF event /\ "key_process" \in ready
                      THEN used_early \cup Missing("key", {"heap", "scheduler"}) ELSE used_early

DeviceInterrupt(line) ==
    LET vector == VectorOf(line)
    IN  /\ enabled /\ core \in {"boot", "idle"}
        /\ line \in raised /\ Open(line)
        /\ raised' = raised \ {line}
        /\ \/ Gate(vector) = "irq" /\ vector = 32 /\ Tick
           \/ Gate(vector) = "irq" /\ vector = 33 /\ \E known \in BOOLEAN : KeyPressed(known)
           \/ Gate(vector) = "irq" /\ vector \notin {32, 33} /\ UNCHANGED <<core, used_early>>
           \/ Gate(vector) = "exception" /\ Exception(vector)
           \/ Gate(vector) \in {"none", "call"} /\ core' = "halted" /\ UNCHANGED used_early
        /\ UNCHANGED <<stage, ready, offsets, masked, enabled>>

BootNext ==
    \/ BootStep
    \/ \E line \in Lines : Raise(line) \/ DeviceInterrupt(line)

BootSpec == BootInit /\ [][BootNext]_bootVars
-----------------------------------------------------------------------------
\* Every variable has a value of its type.
BootTypeOK ==
    /\ stage \in 0 .. Len(Program)
    /\ offsets \in [{"master", "slave"} -> 0 .. 255]
    /\ masked \subseteq Lines \cup {0}
    /\ raised \subseteq Lines
    /\ enabled \in BOOLEAN
    /\ core \in {"boot", "idle", "halted", "undefined"}

\* Whenever devices interrupt, the start takes none of them for an exception of
\* the processor, and nothing is used before it is set up: no tick finds a
\* scheduler or page tables that are not there, though interrupts are on while
\* they are made.  A key that is struck while its driver loads, between its
\* tables and its process, is the one exception (undefined).
StartsInOrder ==
    core # "undefined" => core # "halted" /\ used_early = {}
=============================================================================
