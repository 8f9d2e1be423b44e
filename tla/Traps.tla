-------------------------------- MODULE Traps --------------------------------
(***************************************************************************)
(* How the processor enters and leaves the kernel: the stubs of the timer, *)
(* the devices, system calls, page faults and exceptions (asm/interrupts,  *)
(* asm/scheduling), the gates (interrupts/*.cpp), the two interrupt        *)
(* controllers, and the page directory in use at each point.               *)
(*                                                                         *)
(* Registers are saved at a virtual address, the slot of the thread in the *)
(* page its process shares with the kernel, through whatever directory is  *)
(* loaded.  Which thread runs next is Scheduler's matter and free here.    *)
(***************************************************************************)
EXTENDS Naturals, FiniteSets

CONSTANTS
    TrapThread,     \* threads
    SpaceOf,        \* the process of each thread, as its page directory
    SlotOf,         \* the register slot of each thread
    Contexts,       \* register contents, numbers
    DeviceLines,    \* the lines of devices, 1 .. 15
    NoThread

Kernel == "kernel"                  \* paging::kernel_page_directory
Spaces == {SpaceOf[t] : t \in TrapThread}
Slots == {SlotOf[t] : t \in TrapThread}

\* Threads of one process have slots of their own.
ASSUME TrapsAssumption ==
    /\ Contexts \subseteq Nat /\ 0 \in Contexts
    /\ DeviceLines \subseteq 1 .. 15
    /\ NoThread \notin TrapThread /\ Kernel \notin Spaces
    /\ \A t, u \in TrapThread :
            t # u => <<SpaceOf[t], SlotOf[t]>> # <<SpaceOf[u], SlotOf[u]>>

VARIABLES
    mode,           \* "user", "kernel", "sleep" or "halt"
    cr3,            \* the page directory loaded
    regs,           \* the registers of the running thread
    running,        \* current_thread
    slot,           \* virtual_temporary_registers
    areas,          \* what each slot holds, in each directory
    service,        \* lines in service, master and slave
    alive,          \* the threads that live
    expected        \* ghost: the registers each thread must find

trapVars == <<mode, cr3, regs, running, slot, areas, service, alive, expected>>

NothingInService == [master |-> {}, slave |-> {}]

TrapInit ==
    /\ mode = "sleep" /\ cr3 = Kernel
    /\ regs = 0
    /\ running = NoThread
    /\ slot \in Slots
    /\ areas = [s \in Spaces \cup {Kernel} |-> [k \in Slots |-> 0]]
    /\ service = NothingInService
    /\ alive = TrapThread
    /\ expected = [t \in TrapThread |-> 0]
-----------------------------------------------------------------------------
(***************************************************************************)
(* The interrupt controllers.                                              *)
(***************************************************************************)

Slave(line) == line >= 8
MasterLine(line) == IF Slave(line) THEN 2 ELSE line

\* A line in service holds back itself and those behind it, in each chip.
Delivered(line) ==
    /\ \A m \in service.master : MasterLine(line) < m
    /\ Slave(line) => \A m \in service.slave : line < m

InService(line) ==
    [master |-> service.master \cup {MasterLine(line)},
     slave |-> service.slave \cup IF Slave(line) THEN {line} ELSE {}]

\* An end of interrupt ends the foremost line of the chip.
Ended(lines) == {m \in lines : \E n \in lines : n < m}
EndMaster(s) == [s EXCEPT !.master = Ended(@)]
EndBoth(s) == [master |-> Ended(s.master), slave |-> Ended(s.slave)]

\* Faulty variant: the macro argument is taken for the lines of the slave only.
IRQBodyEndsSlave(line) ==
    IF Slave(line) THEN EndBoth(InService(line)) ELSE InService(line)

\* IRQBody sends both chips the end of a line of the master, and only the master
\* that of a line of the slave.
IRQBody(line) ==
    IF Slave(line) THEN EndMaster(InService(line)) ELSE EndBoth(InService(line))
-----------------------------------------------------------------------------
(***************************************************************************)
(* Entering and leaving.  M stands for the processor between two steps.    *)
(***************************************************************************)

Here == [cr3 |-> cr3, regs |-> regs, running |-> running, slot |-> slot, areas |-> areas,
         service |-> service, alive |-> alive, mode |-> mode]

Becomes(M) ==
    /\ mode' = M.mode /\ cr3' = M.cr3 /\ regs' = M.regs /\ running' = M.running
    /\ slot' = M.slot /\ areas' = M.areas /\ service' = M.service /\ alive' = M.alive

Saved(M) == [M EXCEPT !.areas[M.cr3][M.slot] = M.regs]
Restored(M) == [M EXCEPT !.regs = M.areas[M.cr3][M.slot], !.mode = "user"]
InKernel(M) == [M EXCEPT !.cr3 = Kernel, !.mode = "kernel"]

\* Faulty variant: the slot is set after the switch of directories is done for
\* the thread that ran before.
DispatchedLate(M, t) ==
    [Restored([M EXCEPT !.running = t, !.cr3 = SpaceOf[t], !.service = EndMaster(@)])
        EXCEPT !.slot = SlotOf[t]]

\* handle_context_switch has chosen a thread: its slot, its directory, and
\* scheduler_execute.
Dispatched(M, t) ==
    Restored([M EXCEPT !.running = t, !.slot = SlotOf[t], !.cr3 = SpaceOf[t],
                       !.service = EndMaster(@)])

\* scheduler_sleep.
Asleep(M) == [M EXCEPT !.service = EndMaster(@), !.mode = "sleep"]

\* Faulty variant: the directory of the thread stays while the kernel sleeps.
PutBackInPlace(M) == [M EXCEPT !.running = NoThread]

\* The start of handle_context_switch: a thread that ran is put back, and the
\* kernel's directory loaded; otherwise it is left as it is.
PutBack(M) ==
    IF M.running = NoThread THEN M ELSE [InKernel(M) EXCEPT !.running = NoThread]

\* What handle_context_switch may end with.
SwitchesTo(M) ==
    LET N == PutBack(M)
    IN  Becomes(Asleep(N)) \/ \E t \in N.alive : Becomes(Dispatched(N, t))

\* kill_thread or kill_process: the running thread is gone.
Died(M, dead) == [M EXCEPT !.alive = @ \ dead, !.running = NoThread]
ThreadsOf(p) == {t \in alive : SpaceOf[t] = p}
-----------------------------------------------------------------------------
\* The thread computes.
Computes ==
    /\ mode = "user"
    /\ \E c \in Contexts :
        /\ Becomes([Here EXCEPT !.regs = c])
        /\ expected' = [expected EXCEPT ![running] = c]

\* INTERRUPT_33: the timer.  The end of the interrupt is sent later.
TimerTick ==
    /\ mode \in {"user", "sleep"} /\ Delivered(0)
    /\ SwitchesTo([(IF running # NoThread THEN Saved(Here) ELSE Here)
                        EXCEPT !.service = InService(0)])
    /\ UNCHANGED expected

\* INTERRUPT_34 to 48: the handler runs in whatever directory is loaded.
Device(line) ==
    /\ mode \in {"user", "sleep"} /\ Delivered(line)
    /\ Becomes([Here EXCEPT !.service = IRQBody(line)])
    /\ UNCHANGED expected

\* INTERRUPT_128, when the call returns to the thread: it may have set eax in
\* the saved registers, by their physical address.
CallReturns ==
    /\ mode = "user"
    /\ \E c \in Contexts :
        LET M == InKernel(Saved(Here))
            N == [M EXCEPT !.areas[SpaceOf[running]][SlotOf[running]] = c]
        IN  /\ Becomes(Restored([N EXCEPT !.cr3 = SpaceOf[running]]))
            /\ expected' = [expected EXCEPT ![running] = c]

\* INTERRUPT_128, when the thread gives way, or ends, or its process does.
CallGivesWay ==
    /\ mode = "user"
    /\ \E dead \in {{}, {running}, ThreadsOf(SpaceOf[running])} :
            LET M == InKernel(Saved(Here))
            IN  SwitchesTo(IF dead = {} THEN [M EXCEPT !.running = NoThread]
                           ELSE Died(M, dead))
    /\ UNCHANGED expected

\* INTERRUPT_14: the page is provided and the thread goes on, or the process
\* is killed.
FaultReturns ==
    /\ mode = "user"
    /\ Becomes(Restored([InKernel(Saved(Here)) EXCEPT !.cr3 = SpaceOf[running]]))
    /\ UNCHANGED expected

FaultKills ==
    /\ mode = "user"
    /\ SwitchesTo(Died(InKernel(Saved(Here)), ThreadsOf(SpaceOf[running])))
    /\ UNCHANGED expected

\* ISRBody: every exception but number 1 halts the system.  After that one the
\* stub returns to the scheduler without its code segment: the processor stays
\* unprivileged, faults on the page of the scheduler, and the process is killed.
ExceptionHalts ==
    /\ mode = "user"
    /\ Becomes([Here EXCEPT !.mode = "halt"])
    /\ UNCHANGED expected

DebugException ==
    /\ mode = "user"
    /\ SwitchesTo(Died(InKernel(Saved(Here)), ThreadsOf(SpaceOf[running])))
    /\ UNCHANGED expected

TrapNext ==
    \/ Computes \/ TimerTick \/ CallReturns \/ CallGivesWay \/ FaultReturns
    \/ FaultKills \/ ExceptionHalts \/ DebugException
    \/ \E line \in DeviceLines : Device(line)

TrapSpec == TrapInit /\ [][TrapNext]_trapVars
-----------------------------------------------------------------------------
\* Every variable has a value of its type.
TrapTypeOK ==
    /\ mode \in {"user", "kernel", "sleep", "halt"}
    /\ cr3 \in Spaces \cup {Kernel}
    /\ regs \in Contexts
    /\ running \in TrapThread \cup {NoThread}
    /\ slot \in Slots
    /\ areas \in [Spaces \cup {Kernel} -> [Slots -> Contexts]]
    /\ service \in [master : SUBSET (0 .. 7), slave : SUBSET (8 .. 15)]
    /\ alive \subseteq TrapThread
    /\ expected \in [TrapThread -> Contexts]

\* A thread that runs has the registers it left with, and what a call returned:
\* neither a thread of its own process nor one that uses the same address in
\* another process ever overwrites them, and none runs with another's.
RegistersComeBack == mode = "user" => regs = expected[running]

\* A thread runs in the directory of its own process, with the slot of its own
\* as the place its next trap saves to; and while the kernel sleeps, the kernel's
\* directory is loaded, not one that was freed with its process.
DirectoryFitsThread ==
    /\ mode = "user" =>
        /\ running \in alive
        /\ cr3 = SpaceOf[running] /\ slot = SlotOf[running]
    /\ mode = "sleep" => cr3 = Kernel

\* No line of the master chip is left in service when the kernel is left, so
\* that the timer always comes again.  (A line of the slave chip is left.)
MasterIsAcknowledged == mode \in {"user", "sleep"} => service.master = {}
=============================================================================
