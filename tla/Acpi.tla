--------------------------------- MODULE Acpi ---------------------------------
(***************************************************************************)
(* The kernel's own part of power management (acpi/acpi.cpp): finding the  *)
(* firmware's tables and putting the machine to sleep.  Nothing calls it   *)
(* yet; the call in kernel.cpp is commented out.  The interpreter of the   *)
(* firmware's methods (acpi/lai) is external.                              *)
(*                                                                         *)
(* A control register is the set of its bits that are set.  The processor  *)
(* goes on behind the write of the register when it wakes up again.        *)
(***************************************************************************)
EXTENDS Integers, Sequences

CONSTANTS
    SleepCodes,     \* for each state and register, the bits of its sleep type
    FirmwareBits,   \* what a control register may hold at first
    MaxSleeps       \* bound on the times the machine sleeps

SleepType == {0, 1, 5}              \* S0_NONE, S1_REDUCED, S5_MECHANICALOFF
Register == {"PM1a", "PM1b"}
TypeBits == {10, 11, 12}            \* what data &= 0xE3FF clears
SleepBit == 13                      \* ACPI_SLEEP

ASSUME AcpiAssumption ==
    /\ SleepCodes \in [SleepType -> [Register -> SUBSET {0, 1, 2}]]
    /\ FirmwareBits \subseteq SUBSET (0 .. 15 \ {SleepBit})
    /\ MaxSleeps \in Nat

VARIABLES
    firmware,       \* what the firmware provides, and what its registers held
    place,          \* where the procedure is
    asked,          \* the sleep type that is entered, or entered last
    evaluated,      \* the methods evaluated for it
    pm1,            \* the control registers
    commanded,      \* the registers that were told to sleep
    sleeps          \* how often the machine was put to sleep

acpiVars == <<firmware, place, asked, evaluated, pm1, commanded, sleeps>>

\* Descriptors may be in two areas; not every machine has every sleep state,
\* every method, or the second control register.
AcpiInit ==
    /\ firmware \in [descriptors : SUBSET {"EBDA", "BIOS"}, fadt : BOOLEAN,
                     states : SUBSET SleepType, methods : SUBSET {"_PTS", "_GTS"},
                     pm1b : BOOLEAN, bits : [Register -> FirmwareBits]]
    /\ place = "off"
    /\ asked = 0
    /\ evaluated = <<>>
    /\ pm1 = firmware.bits
    /\ commanded = {}
    /\ sleeps = 0
-----------------------------------------------------------------------------
\* locate_rsdp: the extended area first.  Without a descriptor the system halts.
LocateRsdp ==
    /\ place = "off"
    /\ place' = IF firmware.descriptors = {} THEN "halted" ELSE "located"
    /\ UNCHANGED <<firmware, asked, evaluated, pm1, commanded, sleeps>>

\* The rest of initialise: find_table may leave a null pointer in fadt, which
\* nobody looks at.
Initialise ==
    /\ place = "located"
    /\ place' = "ready"
    /\ UNCHANGED <<firmware, asked, evaluated, pm1, commanded, sleeps>>

\* enter_sleep_state, up to the package of the state.  The interpreter panics
\* if there is no such state.
EnterSleepState(type) ==
    /\ place = "ready" /\ sleeps < MaxSleeps
    /\ place' = IF type \in firmware.states THEN "entered" ELSE "halted"
    /\ asked' = type
    /\ evaluated' = <<>> /\ commanded' = {}
    /\ sleeps' = sleeps + 1
    /\ UNCHANGED <<firmware, pm1>>

\* The evaluation of a method, if the firmware has it.
Call(method) == IF method \in firmware.methods THEN <<<<method, asked>>>> ELSE <<>>

\* _PTS, then _GTS, if the firmware has them.
PrepareToSleep ==
    /\ place = "entered"
    /\ place' = "prepared"
    /\ evaluated' = evaluated \o Call("_PTS")
    /\ UNCHANGED <<firmware, asked, pm1, commanded, sleeps>>

GoToSleep ==
    /\ place = "prepared"
    /\ place' = "going"
    /\ evaluated' = evaluated \o Call("_GTS")
    /\ UNCHANGED <<firmware, asked, pm1, commanded, sleeps>>

\* Faulty variant: the type of an earlier sleep is not cleared.
ControlKept(bits, register) ==
    bits \cup {10 + b : b \in SleepCodes[asked][register]} \cup {SleepBit}

\* What is written to a register that was read as bits.
Control(bits, register) ==
    (bits \ TypeBits) \cup {10 + b : b \in SleepCodes[asked][register]} \cup {SleepBit}

\* The sleep bit is carried out and not kept.
Writes(register, bits) ==
    /\ pm1' = [pm1 EXCEPT ![register] = bits \ {SleepBit}]
    /\ commanded' = IF SleepBit \in bits THEN commanded \cup {register} ELSE commanded

\* Without a table the number of the port is read through a null pointer.
WritePM1a ==
    /\ place = "going"
    /\ IF firmware.fadt
       THEN place' = "half" /\ Writes("PM1a", Control(pm1["PM1a"], "PM1a"))
       ELSE place' = "undefined" /\ UNCHANGED <<pm1, commanded>>
    /\ UNCHANGED <<firmware, asked, evaluated, sleeps>>

WritePM1b ==
    /\ place = "half"
    /\ place' = "ready"
    /\ IF firmware.pm1b THEN Writes("PM1b", Control(pm1["PM1b"], "PM1b"))
       ELSE UNCHANGED <<pm1, commanded>>
    /\ UNCHANGED <<firmware, asked, evaluated, sleeps>>

AcpiNext ==
    \/ LocateRsdp \/ Initialise
    \/ \E type \in SleepType : EnterSleepState(type)
    \/ PrepareToSleep \/ GoToSleep \/ WritePM1a \/ WritePM1b

AcpiSpec == AcpiInit /\ [][AcpiNext]_acpiVars
-----------------------------------------------------------------------------
\* Every variable has a value of its type.
AcpiTypeOK ==
    /\ firmware.bits \in [Register -> SUBSET (0 .. 15 \ {SleepBit})]
    /\ place \in {"off", "located", "ready", "entered", "prepared", "going", "half",
                  "halted", "undefined"}
    /\ asked \in SleepType
    /\ pm1 \in [Register -> SUBSET (0 .. 15 \ {SleepBit})]
    /\ commanded \subseteq Register
    /\ sleeps \in Nat

\* No register is told to sleep before every method that the firmware has was
\* evaluated for that state, in the order the specification wants, and then each
\* with the type of its own, whatever an earlier sleep has left in it; the second
\* one after the first, and only where there is one.  Bits that are not the
\* sleep type stay what the firmware made them.
SleepIsPrepared ==
    /\ commanded # {} => /\ evaluated = Call("_PTS") \o Call("_GTS")
                    /\ "PM1a" \in commanded
                    /\ asked \in firmware.states
    /\ \A register \in commanded :
            pm1[register] \cap TypeBits = {10 + b : b \in SleepCodes[asked][register]}
    /\ \A register \in Register :
            pm1[register] \ TypeBits = firmware.bits[register] \ TypeBits
    /\ "PM1b" \in commanded => firmware.pm1b
    /\ place = "ready" /\ sleeps > 0 =>
            commanded = IF firmware.pm1b THEN Register ELSE {"PM1a"}
=============================================================================
