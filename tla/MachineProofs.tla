----------------------------- MODULE MachineProofs ----------------------------
(***************************************************************************)
(* Proofs about the parts of the kernel that deal with the machine: the    *)
(* stubs that enter and leave it, the start, the devices, ACPI, the screen.*)
(*                                                                         *)
(* That a thread finds its registers is not inductive: what counts is that *)
(* the slots of all threads that live and do not run hold theirs, at every *)
(* moment a thread may be chosen.  Of the keyboard it counts what the      *)
(* bytes that wait say about each key, and of the start what each step     *)
(* leaves for the next ones.  Characters keep apart on the screen because  *)
(* each lies above the pen's row or left of the pen.                       *)
(***************************************************************************)
EXTENDS Traps, Boot, InputDevices, Acpi, Display, QueueOpsProofs, SequenceTheorems

(***************************************************************************)
(* Entering and leaving the kernel, for any threads, spaces, slots and     *)
(* device lines.                                                           *)
(***************************************************************************)

\* The slots of the threads that wait.
SlotsHold ==
    mode # "halt" =>
        \A t \in alive : ~(mode = "user" /\ t = running) =>
            areas[SpaceOf[t]][SlotOf[t]] = expected[t]

AsleepWithout == mode \in {"user", "sleep", "halt"} /\ (mode = "sleep" => running = NoThread)

TInv ==
    /\ TrapTypeOK /\ RegistersComeBack /\ DirectoryFitsThread /\ MasterIsAcknowledged
    /\ SlotsHold /\ AsleepWithout

\* The processor between two steps, as a record.
Machines ==
    [cr3 : Spaces \cup {Kernel}, regs : Contexts, running : TrapThread \cup {NoThread},
     slot : Slots, areas : [Spaces \cup {Kernel} -> [Slots -> Contexts]],
     service : [master : SUBSET (0 .. 7), slave : SUBSET (8 .. 15)],
     alive : SUBSET TrapThread, mode : {"user", "kernel", "sleep", "halt"}]

\* Any of the threads that live may be chosen.
MayChoose(M) ==
    /\ M \in Machines
    /\ M.running = NoThread => M.cr3 = Kernel
    /\ Ended(M.service.master) = {}
    /\ \A t \in M.alive : M.areas[SpaceOf[t]][SlotOf[t]] = expected[t]

LEMMA HereIsMachine == TrapTypeOK => Here \in Machines
  BY DEF TrapTypeOK, Here, Machines

\* A line alone in service is ended, and so is none.
LEMMA EndedAlone == ASSUME NEW m \in Nat PROVE Ended({m}) = {}
  BY DEF Ended

LEMMA EndedNone == Ended({}) = {}
  BY DEF Ended

\* What each end of a context switch leaves, from any machine.
LEMMA AsleepIs ==
  ASSUME NEW M \in Machines, Becomes(Asleep(M))
  PROVE  /\ mode' = "sleep" /\ cr3' = M.cr3 /\ regs' = M.regs /\ running' = M.running
         /\ slot' = M.slot /\ areas' = M.areas /\ alive' = M.alive
         /\ service' = [master |-> Ended(M.service.master), slave |-> M.service.slave]
  BY DEF Machines, Becomes, Asleep, EndMaster

LEMMA DispatchedIs ==
  ASSUME NEW M \in Machines, NEW t \in TrapThread, Becomes(Dispatched(M, t))
  PROVE  /\ mode' = "user" /\ cr3' = SpaceOf[t] /\ running' = t /\ slot' = SlotOf[t]
         /\ regs' = M.areas[SpaceOf[t]][SlotOf[t]] /\ areas' = M.areas /\ alive' = M.alive
         /\ service' = [master |-> Ended(M.service.master), slave |-> M.service.slave]
  <1> DEFINE D == [M EXCEPT !.running = t, !.slot = SlotOf[t], !.cr3 = SpaceOf[t],
                            !.service = EndMaster(@)]
  <1>0. EndMaster(M.service) \in [master : SUBSET (0 .. 7), slave : SUBSET (8 .. 15)]
    BY DEF Machines, EndMaster, Ended
  <1>1. /\ D.cr3 = SpaceOf[t] /\ D.running = t /\ D.slot = SlotOf[t] /\ D.areas = M.areas
        /\ D.alive = M.alive /\ D.service = EndMaster(M.service) /\ D \in Machines
    BY <1>0 DEF Machines, Spaces, Slots
  <1>2. /\ mode' = "user" /\ cr3' = D.cr3 /\ running' = D.running /\ slot' = D.slot
        /\ regs' = D.areas[D.cr3][D.slot] /\ areas' = D.areas /\ alive' = D.alive
        /\ service' = D.service
    <2>1. Becomes(Restored(D))
      BY DEF Dispatched
    <2> HIDE DEF D
    <2> QED
      BY <1>1, <2>1 DEF Becomes, Restored, Machines
  <1>3. EndMaster(M.service) =
            [master |-> Ended(M.service.master), slave |-> M.service.slave]
    BY DEF Machines, EndMaster
  <1> QED
    BY <1>1, <1>2, <1>3

LEMMA PutBackIs ==
  ASSUME NEW M \in Machines
  PROVE  /\ PutBack(M) \in Machines
         /\ PutBack(M).running = NoThread
         /\ PutBack(M).cr3 = IF M.running = NoThread THEN M.cr3 ELSE Kernel
         /\ PutBack(M).areas = M.areas /\ PutBack(M).alive = M.alive
         /\ PutBack(M).service = M.service
  BY DEF Machines, PutBack, InKernel

LEMMA EndedSubset == ASSUME NEW s, NEW S, s \subseteq S PROVE Ended(s) \subseteq S
  BY DEF Ended

\* A context switch from a machine in which anyone may be chosen.
LEMMA SwitchKeeps ==
  ASSUME TrapTypeOK, NEW M, MayChoose(M), SwitchesTo(M), UNCHANGED expected
  PROVE  TInv'
  <1> DEFINE N == PutBack(M)
  <1> USE TrapsAssumption
  <1>1. /\ N \in Machines /\ N.running = NoThread /\ N.cr3 = Kernel
        /\ N.areas = M.areas /\ N.alive = M.alive /\ N.service = M.service
    BY PutBackIs DEF MayChoose
  <1>2. /\ N.alive \subseteq TrapThread /\ N.regs \in Contexts /\ N.slot \in Slots
        /\ N.areas \in [Spaces \cup {Kernel} -> [Slots -> Contexts]]
        /\ N.service.slave \subseteq 8 .. 15 /\ Ended(N.service.master) = {}
        /\ \A t \in N.alive : N.areas[SpaceOf[t]][SlotOf[t]] = expected[t]
    BY <1>1 DEF Machines, MayChoose
  <1>3. Becomes(Asleep(N)) \/ \E t \in N.alive : Becomes(Dispatched(N, t))
    BY DEF SwitchesTo
  <1> HIDE DEF N
  <1>4. CASE Becomes(Asleep(N))
    <2>1. /\ mode' = "sleep" /\ cr3' = N.cr3 /\ regs' = N.regs /\ running' = N.running
          /\ slot' = N.slot /\ areas' = N.areas /\ alive' = N.alive
          /\ service' = [master |-> Ended(N.service.master), slave |-> N.service.slave]
      BY <1>1, <1>4, AsleepIs
    <2>2. TrapTypeOK'
      BY <1>1, <1>2, <2>1 DEF TrapTypeOK
    <2> QED
      BY <1>1, <1>2, <2>1, <2>2
      DEF TInv, RegistersComeBack, DirectoryFitsThread, MasterIsAcknowledged, SlotsHold,
          AsleepWithout
  <1>5. ASSUME NEW t \in N.alive, Becomes(Dispatched(N, t)) PROVE TInv'
    <2>1. t \in TrapThread /\ SpaceOf[t] \in Spaces /\ SlotOf[t] \in Slots
      BY <1>2 DEF Spaces, Slots
    <2>2. /\ mode' = "user" /\ cr3' = SpaceOf[t] /\ running' = t /\ slot' = SlotOf[t]
          /\ regs' = N.areas[SpaceOf[t]][SlotOf[t]] /\ areas' = N.areas /\ alive' = N.alive
          /\ service' = [master |-> Ended(N.service.master), slave |-> N.service.slave]
      BY <1>1, <1>5, <2>1, DispatchedIs
    <2>3. regs' \in Contexts
      BY <1>2, <2>1, <2>2
    <2>4. TrapTypeOK'
      BY <1>1, <1>2, <2>1, <2>2, <2>3 DEF TrapTypeOK
    <2> QED
      BY <1>1, <1>2, <2>1, <2>2, <2>4
      DEF TInv, RegistersComeBack, DirectoryFitsThread, MasterIsAcknowledged, SlotsHold,
          AsleepWithout
  <1> QED
    BY <1>3, <1>4, <1>5

\* Once its registers are saved, the slot of the thread that ran holds them, and
\* the slots of the others still hold theirs: no two threads share one.
LEMMA SavedHolds ==
  ASSUME TInv, mode = "user", NEW S, S = Saved(Here)
  PROVE  /\ S \in Machines /\ S.running = running /\ running \in TrapThread
         /\ S.cr3 = SpaceOf[running] /\ S.slot = SlotOf[running] /\ S.regs = regs
         /\ S.alive = alive /\ S.service = service /\ S.mode = "user"
         /\ \A t \in alive : S.areas[SpaceOf[t]][SlotOf[t]] = expected[t]
  <1> USE TrapsAssumption
  <1>1. /\ Here \in Machines /\ Here.running = running /\ Here.cr3 = cr3
        /\ Here.slot = slot /\ Here.areas = areas /\ Here.alive = alive
        /\ Here.service = service /\ Here.mode = mode /\ Here.regs = regs
    BY HereIsMachine DEF TInv, Here
  <1>2. /\ running \in alive /\ running \in TrapThread /\ alive \subseteq TrapThread
        /\ cr3 = SpaceOf[running] /\ slot = SlotOf[running]
    BY DEF TInv, DirectoryFitsThread, TrapTypeOK
  <1>3. /\ areas \in [Spaces \cup {Kernel} -> [Slots -> Contexts]]
        /\ cr3 \in Spaces \cup {Kernel} /\ slot \in Slots /\ regs \in Contexts
    BY DEF TInv, TrapTypeOK
  <1>4. /\ S.areas = [areas EXCEPT ![cr3][slot] = regs]
        /\ S.running = running /\ S.cr3 = cr3 /\ S.slot = slot /\ S.regs = regs
        /\ S.alive = alive /\ S.service = service /\ S.mode = mode
        /\ S \in Machines
    <2> HIDE TrapsAssumption
    <2>1. [areas EXCEPT ![cr3][slot] = regs] \in [Spaces \cup {Kernel} -> [Slots -> Contexts]]
      BY <1>3
    <2> QED
      BY <1>1, <2>1 DEF Saved, Machines
  <1>5. ASSUME NEW t \in alive PROVE S.areas[SpaceOf[t]][SlotOf[t]] = expected[t]
    <2>1. SpaceOf[t] \in Spaces /\ SlotOf[t] \in Slots
      BY <1>2 DEF Spaces, Slots
    <2>2. CASE t = running
      BY <1>2, <1>3, <1>4, <2>1, <2>2 DEF TInv, RegistersComeBack
    <2>3. CASE t # running
      <3>1. SpaceOf[t] # cr3 \/ SlotOf[t] # slot
        BY <1>2, <2>3
      <3>2. areas[SpaceOf[t]][SlotOf[t]] = expected[t]
        BY <2>3 DEF TInv, SlotsHold
      <3> QED
        BY <1>3, <1>4, <2>1, <3>1, <3>2
    <2> QED
      BY <2>2, <2>3
  <1> QED
    BY <1>2, <1>4, <1>5

\* In the kernel, with or without the thread that ran and others that died.
LEMMA KernelMayChoose ==
  ASSUME TInv, mode = "user", NEW dead, NEW M,
         M = [InKernel(Saved(Here)) EXCEPT !.running = NoThread, !.alive = @ \ dead]
  PROVE  MayChoose(M)
  <1> DEFINE S == Saved(Here)
  <1>1. /\ S \in Machines /\ S.alive = alive /\ S.service = service
        /\ \A t \in alive : S.areas[SpaceOf[t]][SlotOf[t]] = expected[t]
    BY SavedHolds
  <1>2. M = [InKernel(S) EXCEPT !.running = NoThread, !.alive = @ \ dead]
    OBVIOUS
  <1> HIDE DEF S
  <1>3. /\ M \in Machines /\ M.cr3 = Kernel /\ M.areas = S.areas /\ M.service = service
        /\ M.alive = alive \ dead
    <2> DEFINE K == InKernel(S)
    <2>1. /\ K \in Machines /\ K.cr3 = Kernel /\ K.areas = S.areas
          /\ K.service = service /\ K.alive = alive
      BY <1>1 DEF InKernel, Machines
    <2>2. M = [K EXCEPT !.running = NoThread, !.alive = @ \ dead]
      BY <1>2
    <2> HIDE DEF K
    <2> QED
      BY <2>1, <2>2 DEF Machines
  <1>4. Ended(service.master) = {}
    BY EndedNone DEF TInv, MasterIsAcknowledged
  <1> QED
    BY <1>1, <1>3, <1>4 DEF MayChoose

LEMMA DiedIs ==
  ASSUME NEW dead, NEW M \in Machines
  PROVE  Died(M, dead) = [M EXCEPT !.running = NoThread, !.alive = @ \ dead]
  BY DEF Died, Machines

LEMMA InKernelIs ==
  ASSUME NEW M \in Machines
  PROVE  /\ InKernel(M) \in Machines /\ InKernel(M).cr3 = Kernel
         /\ InKernel(M).areas = M.areas /\ InKernel(M).alive = M.alive
         /\ InKernel(M).service = M.service /\ InKernel(M).running = M.running
  BY DEF InKernel, Machines

\* The deaths in system calls, faults and the debug exception.
LEMMA DeathKeeps ==
  ASSUME TInv, mode = "user", NEW dead, SwitchesTo(Died(InKernel(Saved(Here)), dead)),
         UNCHANGED expected
  PROVE  TInv'
  <1>1. InKernel(Saved(Here)) \in Machines
    BY SavedHolds, InKernelIs
  <1>2. Died(InKernel(Saved(Here)), dead) =
            [InKernel(Saved(Here)) EXCEPT !.running = NoThread, !.alive = @ \ dead]
    BY <1>1, DiedIs
  <1>3. MayChoose(Died(InKernel(Saved(Here)), dead))
    BY <1>2, KernelMayChoose
  <1> QED
    BY <1>3, SwitchKeeps DEF TInv

LEMMA GivesWayKeeps == ASSUME TInv, CallGivesWay PROVE TInv'
  <1>1. mode = "user" /\ UNCHANGED expected
    BY DEF CallGivesWay
  <1> DEFINE M == InKernel(Saved(Here))
  <1>2. PICK dead \in {{}, {running}, ThreadsOf(SpaceOf[running])} :
            SwitchesTo(IF dead = {} THEN [M EXCEPT !.running = NoThread] ELSE Died(M, dead))
    BY DEF CallGivesWay
  <1>3. CASE dead = {}
    <2>1. M \in Machines
      BY <1>1, SavedHolds, InKernelIs
    <2>2. [M EXCEPT !.running = NoThread] = Died(M, {})
      <3> HIDE DEF M
      <3>1. M.alive \ {} = M.alive
        OBVIOUS
      <3> QED
        BY <2>1, <3>1 DEF Died, Machines
    <2>3. SwitchesTo(Died(M, {}))
      BY <1>2, <1>3, <2>2
    <2> QED
      BY <1>1, <2>3, DeathKeeps
  <1>4. CASE dead # {}
    BY <1>1, <1>2, <1>4, DeathKeeps
  <1> QED
    BY <1>3, <1>4

LEMMA ServiceAlone ==
  ASSUME TInv, mode \in {"user", "sleep"}, NEW line \in 0 .. 15
  PROVE  /\ InService(line).master = {MasterLine(line)} /\ MasterLine(line) \in 0 .. 7
         /\ InService(line) \in [master : SUBSET (0 .. 7), slave : SUBSET (8 .. 15)]
  BY DEF TInv, MasterIsAcknowledged, TrapTypeOK, InService, MasterLine, Slave

LEMMA TickKeeps == ASSUME TInv, TimerTick PROVE TInv'
  <1>1. mode \in {"user", "sleep"} /\ UNCHANGED expected
    BY DEF TimerTick
  <1> DEFINE H == IF running # NoThread THEN Saved(Here) ELSE Here
             M == [H EXCEPT !.service = InService(0)]
  <1>2. SwitchesTo(M)
    BY DEF TimerTick
  <1>3. /\ InService(0) \in [master : SUBSET (0 .. 7), slave : SUBSET (8 .. 15)]
        /\ Ended(InService(0).master) = {}
    BY <1>1, ServiceAlone, EndedAlone
  <1>4. /\ H \in Machines /\ H.alive = alive /\ (H.running = NoThread => H.cr3 = Kernel)
        /\ \A t \in alive : H.areas[SpaceOf[t]][SlotOf[t]] = expected[t]
    <2>1. CASE mode = "user"
      <3>1. running # NoThread
        BY <2>1, SavedHolds, TrapsAssumption
      <3> QED
        BY <2>1, <3>1, SavedHolds, TrapsAssumption
    <2>2. CASE mode = "sleep"
      <3>1. /\ running = NoThread /\ cr3 = Kernel
            /\ \A t \in alive : areas[SpaceOf[t]][SlotOf[t]] = expected[t]
        BY <2>2 DEF TInv, AsleepWithout, DirectoryFitsThread, SlotsHold
      <3>2. H = Here
        BY <3>1
      <3> QED
        BY <3>1, <3>2, HereIsMachine DEF Here, TInv
    <2> QED
      BY <1>1, <2>1, <2>2
  <1> HIDE DEF H
  <1>5. MayChoose(M)
    BY <1>3, <1>4 DEF MayChoose, Machines
  <1> QED
    BY <1>1, <1>2, <1>5, SwitchKeeps DEF TInv

LEMMA ComputesKeeps == ASSUME TInv, Computes PROVE TInv'
  <1>1. mode = "user" /\ running \in alive /\ running \in TrapThread
    BY DEF Computes, TInv, DirectoryFitsThread, TrapTypeOK
  <1>2. PICK c \in Contexts : /\ Becomes([Here EXCEPT !.regs = c])
                              /\ expected' = [expected EXCEPT ![running] = c]
    BY DEF Computes
  <1>3. /\ regs' = c
        /\ UNCHANGED <<mode, cr3, running, slot, areas, service, alive>>
    BY <1>2 DEF Becomes, Here
  <1>4. TrapTypeOK'
    BY <1>1, <1>2, <1>3 DEF TInv, TrapTypeOK
  <1> QED
    BY <1>1, <1>2, <1>3, <1>4
    DEF TInv, RegistersComeBack, DirectoryFitsThread, MasterIsAcknowledged, SlotsHold,
        AsleepWithout, TrapTypeOK

LEMMA DeviceKeeps == ASSUME TInv, NEW line \in DeviceLines, Device(line) PROVE TInv'
  <1>1. line \in 0 .. 15 /\ mode \in {"user", "sleep"}
    BY TrapsAssumption DEF Device
  <1>2. /\ service' = IRQBody(line)
        /\ UNCHANGED <<mode, cr3, regs, running, slot, areas, alive, expected>>
    BY DEF Device, Becomes, Here
  <1>3. /\ InService(line) \in [master : SUBSET (0 .. 7), slave : SUBSET (8 .. 15)]
        /\ Ended(InService(line).master) = {}
    BY <1>1, ServiceAlone, EndedAlone
  <1>4. /\ IRQBody(line).master = {}
        /\ IRQBody(line) \in [master : SUBSET (0 .. 7), slave : SUBSET (8 .. 15)]
    BY <1>3, EndedSubset DEF IRQBody, EndMaster, EndBoth
  <1> QED
    BY <1>1, <1>2, <1>4
    DEF TInv, TrapTypeOK, RegistersComeBack, DirectoryFitsThread, MasterIsAcknowledged,
        SlotsHold, AsleepWithout

\* Back to the thread that ran, from its slot.
LEMMA ReturnKeeps ==
  ASSUME TInv, mode = "user", NEW c \in Contexts, NEW N \in Machines,
         N.running = running, N.slot = slot, N.alive = alive, N.service = service,
         N.areas[SpaceOf[running]][SlotOf[running]] = c,
         expected' = [expected EXCEPT ![running] = c],
         \A t \in alive \ {running} : N.areas[SpaceOf[t]][SlotOf[t]] = expected[t],
         Becomes(Restored([N EXCEPT !.cr3 = SpaceOf[running]]))
  PROVE  TInv'
  <1>1. /\ running \in alive /\ running \in TrapThread /\ alive \subseteq TrapThread
        /\ SpaceOf[running] = cr3 /\ slot = SlotOf[running] /\ cr3 \in Spaces \cup {Kernel}
    BY DEF TInv, DirectoryFitsThread, TrapTypeOK
  <1>2. /\ mode' = "user" /\ cr3' = cr3 /\ regs' = c /\ running' = running /\ slot' = slot
        /\ areas' = N.areas /\ service' = service /\ alive' = alive
    BY <1>1 DEF Becomes, Restored, Machines
  <1>3. N.areas \in [Spaces \cup {Kernel} -> [Slots -> Contexts]]
    BY DEF Machines
  <1>4. TrapTypeOK'
    BY <1>1, <1>2, <1>3 DEF TInv, TrapTypeOK
  <1> QED
    BY <1>1, <1>2, <1>4
    DEF TInv, RegistersComeBack, DirectoryFitsThread, MasterIsAcknowledged, SlotsHold,
        AsleepWithout, TrapTypeOK

LEMMA FaultReturnKeeps == ASSUME TInv, FaultReturns PROVE TInv'
  <1>1. mode = "user" /\ UNCHANGED expected
    BY DEF FaultReturns
  <1> DEFINE S == Saved(Here)
             N == InKernel(S)
  <1>2. /\ S \in Machines /\ S.running = running /\ S.slot = slot /\ S.alive = alive
        /\ S.service = service /\ running \in alive /\ regs = expected[running]
        /\ regs \in Contexts /\ running \in TrapThread
        /\ \A t \in alive : S.areas[SpaceOf[t]][SlotOf[t]] = expected[t]
    BY <1>1, SavedHolds DEF TInv, DirectoryFitsThread, RegistersComeBack, TrapTypeOK
  <1>3. Becomes(Restored([N EXCEPT !.cr3 = SpaceOf[running]]))
    BY DEF FaultReturns
  <1> HIDE DEF S
  <1>4. /\ N \in Machines /\ N.running = running /\ N.slot = slot /\ N.alive = alive
        /\ N.service = service /\ N.areas = S.areas
    BY <1>2 DEF InKernel, Machines
  <1> HIDE DEF N
  <1>5. expected' = [expected EXCEPT ![running] = regs]
    BY <1>1, <1>2 DEF TInv, TrapTypeOK
  <1>6. /\ N.areas[SpaceOf[running]][SlotOf[running]] = regs
        /\ \A t \in alive \ {running} : N.areas[SpaceOf[t]][SlotOf[t]] = expected[t]
    BY <1>2, <1>4
  <1>7. regs \in Contexts
    BY <1>2
  <1> QED
    BY <1>1, <1>3, <1>4, <1>5, <1>6, <1>7, ReturnKeeps, ZenonT(40)

LEMMA CallReturnKeeps == ASSUME TInv, CallReturns PROVE TInv'
  <1>1. mode = "user"
    BY DEF CallReturns
  <1> DEFINE S == Saved(Here)
             M == InKernel(S)
             sp == SpaceOf[running]
             sl == SlotOf[running]
             N(c) == [M EXCEPT !.areas[sp][sl] = c]
  <1>2. PICK c \in Contexts : /\ Becomes(Restored([N(c) EXCEPT !.cr3 = sp]))
                              /\ expected' = [expected EXCEPT ![running] = c]
    BY DEF CallReturns
  <1>3. /\ S \in Machines /\ S.running = running /\ S.slot = slot /\ S.alive = alive
        /\ S.service = service /\ running \in alive /\ running \in TrapThread
        /\ alive \subseteq TrapThread
        /\ \A t \in alive : S.areas[SpaceOf[t]][SlotOf[t]] = expected[t]
    BY <1>1, SavedHolds DEF TInv, DirectoryFitsThread, TrapTypeOK
  <1>4. sp \in Spaces /\ sl \in Slots
    BY <1>3 DEF Spaces, Slots
  <1>5. \A t \in alive \ {running} :
            /\ SpaceOf[t] \in Spaces /\ SlotOf[t] \in Slots
            /\ SpaceOf[t] # sp \/ SlotOf[t] # sl
    BY <1>3, TrapsAssumption DEF Spaces, Slots
  <1> HIDE DEF S, sp, sl
  <1>6. /\ M \in Machines /\ M.running = running /\ M.slot = slot /\ M.alive = alive
        /\ M.service = service /\ M.areas = S.areas
    BY <1>3 DEF InKernel, Machines
  <1> HIDE DEF M
  <1>7. M.areas \in [Spaces \cup {Kernel} -> [Slots -> Contexts]]
    BY <1>6 DEF Machines
  <1>8. /\ N(c).running = running /\ N(c).slot = slot /\ N(c).alive = alive
        /\ N(c).service = service
        /\ N(c).areas = [M.areas EXCEPT ![sp][sl] = c]
    BY <1>6 DEF Machines
  <1>9. [M.areas EXCEPT ![sp][sl] = c] \in [Spaces \cup {Kernel} -> [Slots -> Contexts]]
    BY <1>4, <1>7
  <1>10. N(c) \in Machines
    BY <1>6, <1>9 DEF Machines
  <1>11. /\ N(c).areas[sp][sl] = c
         /\ \A t \in alive \ {running} : N(c).areas[SpaceOf[t]][SlotOf[t]] = expected[t]
    <2> HIDE DEF N
    <2>1. N(c).areas[sp][sl] = c
      BY <1>4, <1>7, <1>8
    <2>2. ASSUME NEW t \in alive \ {running}
          PROVE  N(c).areas[SpaceOf[t]][SlotOf[t]] = expected[t]
      <3>1. N(c).areas[SpaceOf[t]][SlotOf[t]] = M.areas[SpaceOf[t]][SlotOf[t]]
        BY <1>4, <1>5, <1>7, <1>8
      <3> QED
        BY <3>1, <1>3, <1>6
    <2> QED
      BY <2>1, <2>2
  <1> HIDE DEF N
  <1> QED
    BY <1>1, <1>2, <1>8, <1>10, <1>11, ReturnKeeps, ZenonT(40) DEF sp, sl
-----------------------------------------------------------------------------
LEMMA InitHolds == TrapInit => TInv
  <1> SUFFICES ASSUME TrapInit PROVE TInv
    OBVIOUS
  <1>1. service \in [master : SUBSET (0 .. 7), slave : SUBSET (8 .. 15)]
        /\ service.master = {}
    BY DEF TrapInit, NothingInService
  <1>2. TrapTypeOK
    BY <1>1, TrapsAssumption DEF TrapInit, TrapTypeOK
  <1>3. \A t \in alive : areas[SpaceOf[t]][SlotOf[t]] = expected[t]
    BY DEF TrapInit, Spaces, Slots
  <1> QED
    BY <1>1, <1>2, <1>3
    DEF TrapInit, TInv, RegistersComeBack, DirectoryFitsThread, MasterIsAcknowledged,
        SlotsHold, AsleepWithout

LEMMA StepHolds == TInv /\ [TrapNext]_trapVars => TInv'
  <1> SUFFICES ASSUME TInv, [TrapNext]_trapVars PROVE TInv'
    OBVIOUS
  <1>1. CASE UNCHANGED trapVars
    BY <1>1 DEF trapVars, TInv, TrapTypeOK, RegistersComeBack, DirectoryFitsThread,
                MasterIsAcknowledged, SlotsHold, AsleepWithout
  <1>2. CASE Computes
    BY <1>2, ComputesKeeps
  <1>3. CASE TimerTick
    BY <1>3, TickKeeps
  <1>4. CASE CallReturns
    BY <1>4, CallReturnKeeps
  <1>5. CASE CallGivesWay
    BY <1>5, GivesWayKeeps
  <1>6. CASE FaultReturns
    BY <1>6, FaultReturnKeeps
  <1>7. CASE FaultKills
    BY <1>7, DeathKeeps DEF FaultKills
  <1>8. CASE ExceptionHalts
    <2>1. /\ mode' = "halt"
          /\ UNCHANGED <<cr3, regs, running, slot, areas, service, alive, expected>>
      BY <1>8 DEF ExceptionHalts, Becomes, Here
    <2> QED
      BY <2>1 DEF TInv, TrapTypeOK, RegistersComeBack, DirectoryFitsThread,
                  MasterIsAcknowledged, SlotsHold, AsleepWithout
  <1>9. CASE DebugException
    BY <1>9, DeathKeeps DEF DebugException
  <1>10. ASSUME NEW line \in DeviceLines, Device(line) PROVE TInv'
    BY <1>10, DeviceKeeps
  <1> QED
    BY <1>1, <1>2, <1>3, <1>4, <1>5, <1>6, <1>7, <1>8, <1>9, <1>10 DEF TrapNext

\* The strengthening holds in every reachable state.
LEMMA InvHolds == TrapSpec => []TInv
  BY InitHolds, StepHolds, PTL DEF TrapSpec

\* Every reachable state is well typed.
THEOREM TrapTypesKept == TrapSpec => []TrapTypeOK
  <1>1. TInv => TrapTypeOK
    BY DEF TInv
  <1> QED
    BY <1>1, InvHolds, PTL

\* A thread runs with the registers it left with, whoever ran, called, faulted
\* or died meanwhile, and whatever interrupted it.
THEOREM RegistersKept == TrapSpec => []RegistersComeBack
  <1>1. TInv => RegistersComeBack
    BY DEF TInv
  <1> QED
    BY <1>1, InvHolds, PTL

\* A thread runs in its own directory with its own slot, and the kernel sleeps in
\* its own directory.
THEOREM DirectoriesFit == TrapSpec => []DirectoryFitsThread
  <1>1. TInv => DirectoryFitsThread
    BY DEF TInv
  <1> QED
    BY <1>1, InvHolds, PTL

\* No line of the master chip stays in service, so that none holds back the timer.
THEOREM MasterAcknowledged == TrapSpec => []MasterIsAcknowledged
  <1>1. TInv => MasterIsAcknowledged
    BY DEF TInv
  <1> QED
    BY <1>1, InvHolds, PTL
-----------------------------------------------------------------------------
(***************************************************************************)
(* The start.                                                              *)
(***************************************************************************)

\* The steps that are done when stage of them are.
Done(n) == {Program[i] : i \in 1 .. n}

\* What is set up, where the interrupts lead and which are open, by the stage.
BootFits ==
    /\ ready = Done(stage)
    /\ offsets = IF stage < 10 THEN [master |-> 8, slave |-> 112]
                 ELSE [master |-> 32, slave |-> 40]
    /\ enabled <=> stage >= 12
    /\ stage \in 11 .. 18 => 0 \in masked
    /\ core = "boot" => stage < 19
    /\ core = "idle" => stage = 19

BootInv == BootTypeOK /\ BootFits /\ StartsInOrder

LEMMA ProgramSteps ==
    /\ Len(Program) = 19 /\ DOMAIN Program = 1 .. 19
    /\ Program[1] = "screen" /\ Program[2] = "pages" /\ Program[3] = "heap"
    /\ Program[4] = "gdt" /\ Program[5] = "tss" /\ Program[6] = "exceptions"
    /\ Program[7] = "irqs" /\ Program[8] = "software" /\ Program[9] = "fpu"
    /\ Program[10] = "remap" /\ Program[11] = "mask_timer" /\ Program[12] = "idt"
    /\ Program[13] = "scheduler" /\ Program[14] = "paging" /\ Program[15] = "pit"
    /\ Program[16] = "key_table" /\ Program[17] = "key_process" /\ Program[18] = "program"
    /\ Program[19] = "unmask_timer"
  BY DEF Program

\* Every step finds what it needs.
LEMMA NeedsAreMet == \A n \in 0 .. 18 : Needs(Program[n + 1]) \subseteq Done(n)
  <1> SUFFICES ASSUME NEW n \in 0 .. 18 PROVE Needs(Program[n + 1]) \subseteq Done(n)
    OBVIOUS
  <1>1. n >= 1 => "screen" \in Done(n)
    BY ProgramSteps DEF Done
  <1>2. n >= 2 => "pages" \in Done(n)
    BY ProgramSteps DEF Done
  <1>3. n >= 3 => "heap" \in Done(n)
    BY ProgramSteps DEF Done
  <1>4. n >= 4 => "gdt" \in Done(n)
    BY ProgramSteps DEF Done
  <1>5. n >= 8 => "exceptions" \in Done(n) /\ "irqs" \in Done(n) /\ "software" \in Done(n)
    BY ProgramSteps DEF Done
  <1>6. n >= 13 => "scheduler" \in Done(n)
    BY ProgramSteps DEF Done
  <1>7. CASE n \in {0, 1}
    BY <1>7, <1>1, ProgramSteps DEF Needs
  <1>8. CASE n = 2
    BY <1>8, <1>2, ProgramSteps DEF Needs
  <1>9. CASE n \in {3, 5, 6, 7, 8, 9, 10, 14, 15, 18}
    BY <1>9, <1>1, ProgramSteps DEF Needs
  <1>10. CASE n \in {4, 11}
    BY <1>10, <1>1, <1>4, <1>5, ProgramSteps DEF Needs
  <1>11. CASE n \in {12, 13, 16, 17}
    BY <1>11, <1>1, <1>2, <1>3, <1>6, ProgramSteps DEF Needs
  <1> QED
    BY <1>7, <1>8, <1>9, <1>10, <1>11

LEMMA BootStepKeeps == BootAssumption /\ BootInv /\ BootStep => BootInv'
  <1> SUFFICES ASSUME BootAssumption, BootInv, BootStep PROVE BootInv'
    OBVIOUS
  <1> DEFINE step == Program[stage + 1]
  <1>1. stage \in 0 .. 18 /\ stage' = stage + 1 /\ core = "boot" /\ ready = Done(stage)
    BY ProgramSteps DEF BootStep, BootInv, BootTypeOK, BootFits
  <1>2. Missing(step, Needs(step)) = {}
    BY <1>1, NeedsAreMet DEF Missing
  <1>3. used_early' = {} /\ used_early = {}
    BY <1>1, <1>2 DEF BootStep, BootInv, StartsInOrder
  <1>4. ready' = Done(stage')
    <2>1. ready' = Done(stage) \cup {Program[stage + 1]}
      BY <1>1 DEF BootStep
    <2>2. \A i : i \in 1 .. stage + 1 <=> i \in 1 .. stage \/ i = stage + 1
      BY <1>1
    <2> QED
      BY <2>1, <2>2, <1>1 DEF Done
  <1>5. step = "remap" <=> stage = 9
    BY <1>1, ProgramSteps
  <1>6. step = "mask_timer" <=> stage = 10
    BY <1>1, ProgramSteps
  <1>7. step = "idt" <=> stage = 11
    BY <1>1, ProgramSteps
  <1>8. step = "unmask_timer" <=> stage = 18
    BY <1>1, ProgramSteps
  <1>9. core' = IF stage' = 19 THEN "idle" ELSE "boot"
    BY <1>1, ProgramSteps DEF BootStep
  <1>10. enabled' <=> stage' >= 12
    <2>1. stage' >= 12 <=> (stage >= 12 \/ stage = 11)
      BY <1>1
    <2>2. enabled' = (enabled \/ step = "idt") /\ (enabled <=> stage >= 12)
      BY DEF BootStep, BootInv, BootFits
    <2> QED
      BY <2>1, <2>2, <1>7, Zenon
  <1>11. offsets' = IF stage' < 10 THEN [master |-> 8, slave |-> 112]
                   ELSE [master |-> 32, slave |-> 40]
    <2>1. offsets' = IF step = "remap" THEN [master |-> 32, slave |-> 40] ELSE offsets
      BY DEF BootStep, Remap, MaskLine, UnmaskLine
    <2> QED
      BY <2>1, <1>1, <1>5 DEF BootInv, BootFits
  <1>12. (stage' \in 11 .. 18 => 0 \in masked') /\ masked' \subseteq Lines \cup {0}
    <2>1. masked' = IF step = "mask_timer" THEN masked \cup {0}
                    ELSE IF step = "unmask_timer" THEN masked \ {0} ELSE masked
      BY DEF BootStep, Remap, MaskLine, UnmaskLine
    <2> QED
      BY <2>1, <1>1, <1>6, <1>8 DEF BootInv, BootFits, BootTypeOK
  <1>13. raised' = raised /\ enabled' \in BOOLEAN
    BY DEF BootStep, BootInv, BootTypeOK
  <1>14. BootTypeOK'
    BY <1>1, <1>9, <1>11, <1>12, <1>13, ProgramSteps DEF BootInv, BootTypeOK
  <1>15. BootFits'
    BY <1>1, <1>4, <1>9, <1>10, <1>11, <1>12 DEF BootFits
  <1> QED
    BY <1>3, <1>9, <1>14, <1>15 DEF BootInv, StartsInOrder

\* An interrupt leads to its own handler, and that one finds what it uses.
LEMMA InterruptKeeps ==
    ASSUME BootAssumption, BootInv, NEW line \in Lines, DeviceInterrupt(line)
    PROVE  BootInv'
  <1>1. /\ line \in 0 .. 15 /\ stage \in 12 .. 19 /\ ready = Done(stage)
        /\ offsets = [master |-> 32, slave |-> 40]
        /\ core \in {"boot", "idle"} /\ used_early = {}
    BY ProgramSteps DEF DeviceInterrupt, BootInv, BootTypeOK, BootFits, BootAssumption, StartsInOrder
  <1>2. VectorOf(line) = 32 + line
    BY <1>1 DEF VectorOf
  <1>3. Gate(VectorOf(line)) = "irq"
    <2>1. "irqs" \in ready
      BY <1>1, ProgramSteps DEF Done
    <2> QED
      BY <1>1, <1>2, <2>1 DEF Gate, ExceptionVectors
  <1>4. UNCHANGED <<stage, ready, offsets, masked, enabled>> /\ raised' \subseteq raised
    BY DEF DeviceInterrupt
  <1>5. core' \in {core, "undefined"} /\ used_early' = {}
    <2>1. CASE VectorOf(line) = 32 /\ Tick
      <3>1. stage = 19
        BY <1>1, <1>2, <2>1 DEF DeviceInterrupt, Open, BootInv, BootFits
      <3>2. "scheduler" \in ready /\ "paging" \in ready /\ "tss" \in ready
        BY <1>1, <3>1, ProgramSteps DEF Done
      <3> QED
        BY <1>1, <2>1, <3>2 DEF Tick, Missing
    <2>2. ASSUME NEW known \in BOOLEAN, KeyPressed(known) PROVE core' \in {core, "undefined"} /\ used_early' = {}
      <3>1. "heap" \in ready /\ ("key_process" \in ready => "scheduler" \in ready)
        BY <1>1, ProgramSteps DEF Done
      <3> QED
        BY <1>1, <2>2, <3>1 DEF KeyPressed, Missing
    <2>3. CASE UNCHANGED <<core, used_early>>
      BY <1>1, <2>3
    <2> QED
      BY <1>3, <2>1, <2>2, <2>3 DEF DeviceInterrupt
  <1>6. BootTypeOK'
    BY <1>4, <1>5 DEF BootInv, BootTypeOK
  <1>7. BootFits'
    BY <1>4, <1>5 DEF BootInv, BootFits
  <1> QED
    BY <1>1, <1>5, <1>6, <1>7 DEF BootInv, StartsInOrder

LEMMA BootNextKeeps == BootAssumption /\ BootInv /\ [BootNext]_bootVars => BootInv'
  <1> SUFFICES ASSUME BootAssumption, BootInv, [BootNext]_bootVars PROVE BootInv'
    OBVIOUS
  <1>1. CASE BootStep
    BY <1>1, BootStepKeeps
  <1>2. ASSUME NEW line \in Lines, DeviceInterrupt(line) PROVE BootInv'
    BY <1>2, InterruptKeeps
  <1>3. ASSUME NEW line \in Lines, Raise(line) PROVE BootInv'
    BY <1>3 DEF Raise, BootInv, BootTypeOK, BootFits, StartsInOrder
  <1>4. CASE UNCHANGED bootVars
    BY <1>4 DEF bootVars, BootInv, BootTypeOK, BootFits, StartsInOrder
  <1> QED
    BY <1>1, <1>2, <1>3, <1>4 DEF BootNext

\* Devices may interrupt at any time on any lines, whatever the firmware has
\* masked: none is taken for an exception, and nothing is used before it is set
\* up, unless a key is struck while its driver loads.
THEOREM StartInOrder == BootSpec => []StartsInOrder
  <1>1. BootInit => BootInv
    <2> SUFFICES ASSUME BootInit PROVE BootInv
      OBVIOUS
    <2>1. stage = 0 /\ ready = {} /\ Done(0) = {}
      BY DEF BootInit, Done
    <2>2. BootTypeOK
      <3>1. masked \subseteq Lines
        BY BootAssumption DEF BootInit, BootAssumption
      <3>2. offsets \in [{"master", "slave"} -> 0 .. 255]
        BY DEF BootInit
      <3>3. raised = {} /\ enabled = FALSE /\ core = "boot"
        BY DEF BootInit
      <3>4. stage \in 0 .. Len(Program)
        BY <2>1, ProgramSteps
      <3> QED
        BY <3>1, <3>2, <3>3, <3>4 DEF BootTypeOK
    <2> QED
      BY <2>1, <2>2 DEF BootInit, BootInv, BootFits, StartsInOrder
  <1>2. BootInv /\ [BootNext]_bootVars => BootInv'
    BY BootAssumption, BootNextKeeps
  <1>3. BootInv => StartsInOrder
    BY DEF BootInv
  <1> QED
    BY <1>1, <1>2, <1>3, PTL DEF BootSpec
-----------------------------------------------------------------------------
(***************************************************************************)
(* The keyboard and the mouse.                                             *)
(***************************************************************************)

\* The code at place i of the bytes s, and whether one starts there or the
\* prefix of one does.  No other byte looks like the prefix.
CodeAt(s, i) == IF i > 1 /\ s[i - 1] = Prefix THEN 255 + s[i] ELSE s[i]

\* The bytes s are those of keys going down and up; none is torn.
WholeCodes(s) ==
    /\ s \in Seq(1 .. 255)
    /\ \A i \in 1 .. Len(s) : s[i] = Prefix => i < Len(s) /\ s[i + 1] # Prefix
    /\ \A i \in 1 .. Len(s) : s[i] # Prefix =>
          \E key \in Keys : CodeAt(s, i) \in {Reported(key), Reported(key) + ReleaseBit}

\* The places of s where a code of this key is.
PlacesOf(s, key) ==
    {i \in 1 .. Len(s) : s[i] # Prefix /\ CodeAt(s, i) \in {Reported(key), Reported(key) + ReleaseBit}}

\* The last pending code of a key tells whether it is down; if there is none,
\* the listener knows.
KeyFits(s, h, d, key) ==
    /\ PlacesOf(s, key) = {} => (Reported(key) \in h <=> key \in d)
    /\ \A i \in PlacesOf(s, key) :
          (\A j \in PlacesOf(s, key) : j <= i) => (CodeAt(s, i) = Reported(key) <=> key \in d)

PlainKeys == {key \in Keys : Known(key) /\ ~key[2]}

\* A code that was heard or will be, which for the codes of arrows is for good.
Got(s, h, code) == code \in h \/ \E i \in 1 .. Len(s) : s[i] # Prefix /\ CodeAt(s, i) = code

\* An arrow that is down came with its code, one that went up also with the
\* code of that.
ArrowFits(s, h, d, key) ==
    /\ key \in d => Got(s, h, Reported(key))
    /\ Got(s, h, Reported(key)) /\ key \notin d => Got(s, h, Reported(key) + ReleaseBit)

Arrows == {key \in Keys : Known(key) /\ key[2]}

HeardCodes ==
    {Reported(key) : key \in {k \in Keys : Known(k)}}
        \cup {Reported(key) + ReleaseBit : key \in {k \in Keys : Known(k) /\ k[2]}}

KeysFit ==
    /\ heard \subseteq HeardCodes
    /\ down \subseteq Keys
    /\ WholeCodes(scancodes)
    /\ \A key \in PlainKeys : KeyFits(scancodes, heard, down, key)
    /\ \A key \in Arrows : ArrowFits(scancodes, heard, down, key)

KeyInv == missed \in BOOLEAN /\ (~missed => KeysFit)
-----------------------------------------------------------------------------
(***************************************************************************)
(* Codes and events.                                                       *)
(***************************************************************************)

LEMMA KeyShape ==
    ASSUME InputDevicesAssumption, NEW key \in Keys
    PROVE  key[1] \in 1 .. 127 \ {96} /\ key[2] \in BOOLEAN /\ key = <<key[1], key[2]>>
  BY DEF InputDevicesAssumption

\* Codes tell keys, and presses from releases.
LEMMA CodesDiffer ==
    ASSUME InputDevicesAssumption, NEW key \in Keys, NEW other \in Keys
    PROVE  /\ Reported(key) \in 1 .. 382
           /\ Reported(key) # Reported(other) + ReleaseBit
           /\ Reported(key) = Reported(other) => key = other
           /\ Reported(key) + ReleaseBit = Reported(other) + ReleaseBit => key = other
  <1>1. /\ key[1] \in 1 .. 127 /\ key[2] \in BOOLEAN /\ key = <<key[1], key[2]>>
        /\ other[1] \in 1 .. 127 /\ other[2] \in BOOLEAN /\ other = <<other[1], other[2]>>
    BY KeyShape
  <1>2. Reported(key) = IF key[2] THEN 255 + key[1] ELSE key[1]
    BY DEF Reported
  <1>3. Reported(other) = IF other[2] THEN 255 + other[1] ELSE other[1]
    BY DEF Reported
  <1>4. ASSUME Reported(key) = Reported(other) PROVE key[1] = other[1] /\ key[2] = other[2]
    <2>1. CASE key[2] = TRUE /\ other[2] = TRUE
      BY <1>1, <1>2, <1>3, <1>4, <2>1
    <2>2. CASE key[2] = FALSE /\ other[2] = FALSE
      BY <1>1, <1>2, <1>3, <1>4, <2>2
    <2>3. CASE key[2] = TRUE /\ other[2] = FALSE
      BY <1>1, <1>2, <1>3, <1>4, <2>3
    <2>4. CASE key[2] = FALSE /\ other[2] = TRUE
      BY <1>1, <1>2, <1>3, <1>4, <2>4
    <2> QED
      BY <1>1, <2>1, <2>2, <2>3, <2>4
  <1>5. Reported(key) = Reported(other) => key = other
    BY <1>1, <1>4
  <1>6. /\ Reported(key) \in 1 .. 382 /\ Reported(key) # Reported(other) + ReleaseBit
        /\ Reported(key) + ReleaseBit = Reported(other) + ReleaseBit => Reported(key) = Reported(other)
    <2>1. Reported(key) \in 1 .. 127 \/ Reported(key) \in 256 .. 382
      BY <1>1, <1>2
    <2>2. Reported(other) \in 1 .. 127 \/ Reported(other) \in 256 .. 382
      BY <1>1, <1>3
    <2> QED
      <3>1. PICK a \in (1 .. 127) \cup (256 .. 382) : a = Reported(key)
        BY <2>1
      <3>2. PICK b \in (1 .. 127) \cup (256 .. 382) : b = Reported(other)
        BY <2>2
      <3>3. a # b + ReleaseBit /\ a \in 1 .. 382 /\ (a + ReleaseBit = b + ReleaseBit => a = b)
        BY DEF ReleaseBit
      <3> QED
        BY <3>1, <3>2, <3>3
  <1> QED
    BY <1>5, <1>6

\* What a listener makes of a code, of a known key or another one.
LEMMA HearsKey ==
    ASSUME InputDevicesAssumption, NEW key \in Keys
    PROVE  /\ Known(key) => /\ Hears(EventOf(Reported(key))) = heard \cup {Reported(key)}
                            /\ Hears(EventOf(Reported(key) + ReleaseBit)) =
                                    IF key[2] THEN heard \cup {Reported(key) + ReleaseBit}
                                    ELSE heard \ {Reported(key)}
           /\ ~Known(key) => /\ Hears(EventOf(Reported(key))) = heard
                             /\ Hears(EventOf(Reported(key) + ReleaseBit)) = heard
  <1> DEFINE r == Reported(key)
             c == key[1]
  <1>1. c \in 1 .. 127 /\ key[2] \in BOOLEAN
    BY KeyShape
  <1>2. CASE ~key[2]
    <2>1. r = c
      BY <1>2 DEF Reported
    <2>2. Known(key) <=> CharPressed(r) \/ r \in ModifierCodes
      BY <1>2, <2>1 DEF Known, CharPressed
    <2>3. ~CharReleased(r) /\ ~ModifierReleased(r) /\ (ModifierPressed(r) <=> r \in ModifierCodes)
      BY <1>1, <2>1 DEF CharReleased, ModifierReleased, ModifierPressed, CharCodes, ModifierCodes, ArrowCodes, ReleaseBit
    <2>4. ~CharPressed(r + 128) /\ ~ModifierPressed(r + 128)
      BY <1>1, <2>1 DEF CharPressed, ModifierPressed, CharCodes, ModifierCodes, ArrowCodes, ReleaseBit
    <2>5. (CharReleased(r + 128) <=> CharPressed(r)) /\ (ModifierReleased(r + 128) <=> r \in ModifierCodes)
      BY <1>1, <2>1 DEF CharReleased, ModifierReleased, CharPressed, ReleaseBit
    <2>6. Hears(EventOf(r)) = IF Known(key) THEN heard \cup {r} ELSE heard
      <3>1. CASE CharPressed(r)
        BY <2>2, <3>1 DEF EventOf, Hears
      <3>2. CASE ~CharPressed(r) /\ r \in ModifierCodes
        BY <1>1, <2>1, <2>2, <2>3, <3>2 DEF EventOf, Hears
      <3>3. CASE ~CharPressed(r) /\ r \notin ModifierCodes
        BY <2>2, <2>3, <3>3 DEF EventOf, Hears
      <3> QED
        BY <3>1, <3>2, <3>3
    <2>7. Hears(EventOf(r + 128)) = IF Known(key) THEN heard \ {r} ELSE heard
      <3>1. CASE CharPressed(r)
        BY <1>1, <2>1, <2>2, <2>4, <2>5, <3>1 DEF EventOf, Hears, ReleaseBit
      <3>2. CASE ~CharPressed(r) /\ r \in ModifierCodes
        <4>1. EventOf(r + 128) = <<8, r + 128>>
          BY <2>2, <2>4, <2>5, <3>2 DEF EventOf
        <4>2. (r + 128) - ReleaseBit = r
          BY <1>1, <2>1 DEF ReleaseBit
        <4> QED
          <5>1. Hears(<<8, r + 128>>) = heard \ {(r + 128) - ReleaseBit}
            BY DEF Hears
          <5> QED
            BY <5>1, <4>1, <4>2, <2>2, <3>2
      <3>3. CASE ~CharPressed(r) /\ r \notin ModifierCodes
        BY <2>2, <2>4, <2>5, <3>3 DEF EventOf, Hears
      <3> QED
        BY <3>1, <3>2, <3>3
    <2> QED
      BY <1>2, <2>6, <2>7 DEF ReleaseBit
  <1>3. CASE key[2]
    <2>1. r = 255 + c
      BY <1>3 DEF Reported
    <2>2. Known(key) <=> c \in ArrowCodes
      BY <1>3 DEF Known
    <2>3. /\ ~CharPressed(r) /\ ~CharReleased(r) /\ ~ModifierReleased(r)
          /\ ModifierPressed(r) <=> c \in ArrowCodes
      BY <1>1, <2>1 DEF CharPressed, CharReleased, ModifierReleased, ModifierPressed, CharCodes, ModifierCodes, ArrowCodes, ReleaseBit
    <2>4. /\ ~CharPressed(r + 128) /\ ~CharReleased(r + 128) /\ ~ModifierReleased(r + 128)
          /\ ModifierPressed(r + 128) <=> c \in ArrowCodes
      <3>1. r + 128 \in 384 .. 510 /\ (r + 128) - 128 \in 256 .. 382 /\ (r + 128) - 255 \in 129 .. 255
            /\ (r + 128) - 255 - 128 = c
        BY <1>1, <2>1
      <3>2. ~CharPressed(r + 128) /\ ~CharReleased(r + 128) /\ ~ModifierReleased(r + 128)
        BY <3>1 DEF CharPressed, CharReleased, ModifierReleased, CharCodes, ModifierCodes, ReleaseBit
      <3>3. ModifierPressed(r + 128) <=> c \in ArrowCodes
        BY <3>1 DEF ModifierPressed, ModifierCodes, ArrowCodes, ReleaseBit
      <3> QED
        BY <3>2, <3>3
    <2>5. Hears(EventOf(r)) = IF Known(key) THEN heard \cup {r} ELSE heard
      BY <1>1, <2>1, <2>2, <2>3 DEF EventOf, Hears
    <2>6. Hears(EventOf(r + 128)) = IF Known(key) THEN heard \cup {r + 128} ELSE heard
      <3>1. CASE Known(key)
        <4>1. EventOf(r + 128) = <<4, r + 128>>
          BY <2>2, <2>4, <3>1 DEF EventOf
        <4> QED
          BY <4>1, <3>1 DEF Hears
      <3>2. CASE ~Known(key)
        <4>1. EventOf(r + 128) = <<0, r + 128>>
          BY <2>2, <2>4, <3>2 DEF EventOf
        <4> QED
          BY <4>1, <3>2 DEF Hears
      <3> QED
        BY <3>1, <3>2
    <2> QED
      BY <1>3, <2>5, <2>6 DEF ReleaseBit
  <1> QED
    BY <1>1, <1>2, <1>3

-----------------------------------------------------------------------------
(***************************************************************************)
(* Pending bytes.                                                          *)
(***************************************************************************)

\* The first code of s has o bytes, and t is what is behind it.
Behind(s, o, t) ==
    /\ o \in {1, 2} /\ o <= Len(s)
    /\ s[o] # Prefix
    /\ o = 2 => s[1] = Prefix
    /\ t \in Seq(1 .. 255) /\ Len(t) = Len(s) - o
    /\ \A i \in 1 .. Len(t) : t[i] = s[i + o]

\* A code is read, of one byte or of two.
LEMMA CodeRead ==
    ASSUME NEW s, WholeCodes(s), NEW o, NEW t, Behind(s, o, t)
    PROVE  /\ WholeCodes(t)
           /\ \A i \in 1 .. Len(t) : CodeAt(t, i) = CodeAt(s, i + o)
           /\ \A key \in Keys : \A i \in Nat :
                  i \in PlacesOf(t, key) <=> i >= 1 /\ i + o \in PlacesOf(s, key)
           /\ \A key \in Keys : \A i \in PlacesOf(s, key) : i < o => FALSE
  <1>1. /\ s \in Seq(1 .. 255) /\ Len(s) \in Nat /\ Len(t) \in Nat /\ t \in Seq(1 .. 255)
        /\ o \in {1, 2} /\ o <= Len(s) /\ s[o] # Prefix /\ (o = 2 => s[1] = Prefix)
        /\ Len(t) = Len(s) - o
        /\ \A i \in 1 .. Len(t) : t[i] = s[i + o]
    BY DEF WholeCodes, Behind
  <1>2. ASSUME NEW i \in 1 .. Len(t) PROVE CodeAt(t, i) = CodeAt(s, i + o)
    <2>1. t[i] = s[i + o] /\ i + o > 1 /\ i + o \in 1 .. Len(s)
      BY <1>1
    <2>2. CASE i = 1
      <3>1. (i + o) - 1 = o
        BY <1>1, <2>2
      <3> QED
        BY <1>1, <2>1, <2>2, <3>1 DEF CodeAt
    <2>3. CASE i > 1
      <3>1. i - 1 \in 1 .. Len(t) /\ (i + o) - 1 = (i - 1) + o
        BY <1>1, <2>3
      <3>2. t[i - 1] = s[(i + o) - 1]
        BY <1>1, <3>1
      <3> QED
        BY <2>1, <2>3, <3>2 DEF CodeAt
    <2> QED
      BY <2>2, <2>3
  <1>3. WholeCodes(t)
    <2>1. ASSUME NEW i \in 1 .. Len(t), t[i] = Prefix PROVE i < Len(t) /\ t[i + 1] # Prefix
      <3>1. i + o \in 1 .. Len(s) /\ s[i + o] = Prefix
        BY <1>1, <2>1
      <3>2. i + o < Len(s) /\ s[(i + o) + 1] # Prefix
        BY <3>1 DEF WholeCodes
      <3>3. i + 1 \in 1 .. Len(t) /\ (i + 1) + o = (i + o) + 1
        BY <1>1, <3>2
      <3> QED
        <4>1. t[i + 1] = s[(i + o) + 1]
          BY <1>1, <3>3
        <4> QED
          BY <3>2, <3>3, <4>1, <1>1
    <2>2. ASSUME NEW i \in 1 .. Len(t), t[i] # Prefix
          PROVE  \E key \in Keys : CodeAt(t, i) \in {Reported(key), Reported(key) + ReleaseBit}
      <3>1. i + o \in 1 .. Len(s) /\ s[i + o] # Prefix
        BY <1>1, <2>2
      <3> QED
        BY <1>2, <3>1 DEF WholeCodes
    <2> QED
      BY <1>1, <2>1, <2>2 DEF WholeCodes
  <1>4. ASSUME NEW key \in Keys, NEW i \in Nat
        PROVE  i \in PlacesOf(t, key) <=> i >= 1 /\ i + o \in PlacesOf(s, key)
    <2>1. i \in 1 .. Len(t) <=> i >= 1 /\ i + o \in 1 .. Len(s)
      BY <1>1
    <2> QED
      BY <1>1, <1>2, <2>1 DEF PlacesOf
  <1>5. ASSUME NEW key \in Keys, NEW i \in PlacesOf(s, key) PROVE ~(i < o)
    BY <1>1, <1>5 DEF PlacesOf
  <1> QED
    BY <1>2, <1>3, <1>4, <1>5

\* What a listener takes to be down when it hears a code of the key struck.
Learnt(h, struck, code) ==
    IF ~Known(struck) THEN h
    ELSE IF code = Reported(struck) THEN h \cup {Reported(struck)}
    ELSE IF struck[2] THEN h \cup {Reported(struck) + ReleaseBit}
    ELSE h \ {Reported(struck)}

\* The listener that hears of the code knows as much as before.
LEMMA CodeHeard ==
    ASSUME InputDevicesAssumption, NEW s, WholeCodes(s), NEW o, NEW t, Behind(s, o, t),
           NEW struck \in Keys, CodeAt(s, o) \in {Reported(struck), Reported(struck) + ReleaseBit},
           NEW h, NEW g, NEW d, NEW key \in PlainKeys, KeyFits(s, h, d, key),
           g = Learnt(h, struck, CodeAt(s, o))
    PROVE  KeyFits(t, g, d, key)
  <1>1. /\ \A i \in 1 .. Len(t) : CodeAt(t, i) = CodeAt(s, i + o)
        /\ \A i \in Nat : i \in PlacesOf(t, key) <=> i >= 1 /\ i + o \in PlacesOf(s, key)
        /\ \A i \in PlacesOf(s, key) : ~(i < o)
    <2>1. key \in Keys
      BY DEF PlainKeys
    <2> QED
      BY <2>1, CodeRead
  <1>2. /\ key \in Keys /\ Known(key) /\ ~key[2] /\ Len(s) \in Nat /\ Len(t) \in Nat
        /\ o \in 1 .. Len(s) /\ s[o] # Prefix
    BY DEF PlainKeys, WholeCodes, Behind
  <1>3. o \in PlacesOf(s, key) <=> struck = key
    <2>1. o \in PlacesOf(s, key) <=> CodeAt(s, o) \in {Reported(key), Reported(key) + ReleaseBit}
      BY <1>2 DEF PlacesOf
    <2>2. CASE struck = key
      BY <2>1, <2>2
    <2>3. CASE struck # key
      <3>1. Reported(key) # Reported(struck) /\ Reported(key) # Reported(struck) + ReleaseBit
            /\ Reported(struck) # Reported(key) + ReleaseBit
            /\ Reported(key) + ReleaseBit # Reported(struck) + ReleaseBit
        BY <1>2, <2>3, CodesDiffer
      <3> QED
        BY <2>1, <2>3, <3>1
    <2> QED
      BY <2>2, <2>3
  <1>4. ASSUME PlacesOf(t, key) = {} PROVE Reported(key) \in g <=> key \in d
    <2>1. ASSUME NEW i \in PlacesOf(s, key) PROVE i = o
      <3>1. i \in Nat /\ i >= o
        BY <1>1, <1>2, <2>1 DEF PlacesOf
      <3>2. CASE i > o
        <4>1. i - o \in Nat /\ i - o >= 1 /\ (i - o) + o = i
          BY <1>2, <3>1, <3>2
        <4>2. i - o \in PlacesOf(t, key)
          BY <4>1, <1>1, <2>1
        <4> QED
          BY <4>2, <1>4
      <3> QED
        BY <1>2, <3>1, <3>2
    <2>2. CASE struck = key
      <3>1. o \in PlacesOf(s, key) /\ \A j \in PlacesOf(s, key) : j <= o
        BY <1>2, <1>3, <2>1, <2>2
      <3>2. CodeAt(s, o) = Reported(key) <=> key \in d
        BY <3>1 DEF KeyFits
      <3>3. Reported(key) \in g <=> CodeAt(s, o) = Reported(key)
        BY <1>2, <2>2 DEF Learnt
      <3> QED
        BY <3>2, <3>3
    <2>3. CASE struck # key
      <3>1. PlacesOf(s, key) = {}
        BY <1>3, <2>1, <2>3
      <3>2. Reported(key) \in h <=> key \in d
        BY <3>1 DEF KeyFits
      <3>3. Reported(key) # Reported(struck)
        BY <1>2, <2>3, CodesDiffer
      <3>3a. Reported(key) # Reported(struck) + ReleaseBit
        BY <1>2, CodesDiffer
      <3>4. Reported(key) \in g <=> Reported(key) \in h
        BY <3>3, <3>3a DEF Learnt
      <3> QED
        BY <3>2, <3>4
    <2> QED
      BY <2>2, <2>3
  <1>5. ASSUME NEW i \in PlacesOf(t, key), \A j \in PlacesOf(t, key) : j <= i
        PROVE  CodeAt(t, i) = Reported(key) <=> key \in d
    <2>1. i \in 1 .. Len(t) /\ i + o \in PlacesOf(s, key)
      BY <1>1, <1>2, <1>5 DEF PlacesOf
    <2>2. ASSUME NEW j \in PlacesOf(s, key) PROVE j <= i + o
      <3>1. j \in Nat
        BY <1>2, <2>2 DEF PlacesOf
      <3>2. CASE j <= o
        BY <1>2, <2>1, <3>1, <3>2
      <3>3. CASE j > o
        <4>1. j - o \in Nat /\ j - o >= 1 /\ (j - o) + o = j
          BY <1>2, <3>1, <3>3
        <4>2. j - o \in PlacesOf(t, key)
          BY <4>1, <1>1, <2>2
        <4>3. j - o <= i
          BY <4>2, <1>5
        <4> QED
          BY <4>3, <3>1, <2>1, <1>2
      <3> QED
        BY <1>2, <3>1, <3>2, <3>3
    <2>3. CodeAt(s, i + o) = Reported(key) <=> key \in d
      BY <2>1, <2>2 DEF KeyFits
    <2> QED
      BY <1>1, <2>1, <2>3
  <1> QED
    BY <1>4, <1>5 DEF KeyFits

\* The codes of an arrow stay for good: one that is heard is not forgotten.
LEMMA CodeKept ==
    ASSUME InputDevicesAssumption, NEW s, WholeCodes(s), NEW o, NEW t, Behind(s, o, t),
           NEW struck \in Keys, CodeAt(s, o) \in {Reported(struck), Reported(struck) + ReleaseBit},
           NEW h, NEW g, NEW key \in Arrows, g = Learnt(h, struck, CodeAt(s, o)),
           NEW code \in {Reported(key), Reported(key) + ReleaseBit}
    PROVE  Got(t, g, code) <=> Got(s, h, code)
  <1>1. /\ \A i \in 1 .. Len(t) : CodeAt(t, i) = CodeAt(s, i + o)
        /\ Len(s) \in Nat /\ o \in {1, 2} /\ o <= Len(s) /\ s[o] # Prefix
        /\ (o = 2 => s[1] = Prefix) /\ Len(t) = Len(s) - o
        /\ \A i \in 1 .. Len(t) : t[i] = s[i + o]
    <2>1. \A i \in 1 .. Len(t) : CodeAt(t, i) = CodeAt(s, i + o)
      BY CodeRead
    <2> QED
      BY <2>1 DEF Behind, WholeCodes
  <1>2. key \in Keys /\ Known(key) /\ key[2]
    BY DEF Arrows
  <1>3. (\E i \in 1 .. Len(s) : s[i] # Prefix /\ CodeAt(s, i) = code) <=>
            \/ CodeAt(s, o) = code
            \/ \E i \in 1 .. Len(t) : t[i] # Prefix /\ CodeAt(t, i) = code
    <2>1. ASSUME NEW i \in 1 .. Len(s), s[i] # Prefix, CodeAt(s, i) = code, i # o
          PROVE  \E j \in 1 .. Len(t) : t[j] # Prefix /\ CodeAt(t, j) = code
      <3>1. i - o \in 1 .. Len(t) /\ (i - o) + o = i
        BY <1>1, <2>1
      <3> QED
        BY <1>1, <2>1, <3>1
    <2>2. ASSUME NEW i \in 1 .. Len(t), t[i] # Prefix, CodeAt(t, i) = code
          PROVE  \E j \in 1 .. Len(s) : s[j] # Prefix /\ CodeAt(s, j) = code
      <3>1. i + o \in 1 .. Len(s)
        BY <1>1
      <3> QED
        BY <1>1, <2>2, <3>1
    <2>3. o \in 1 .. Len(s)
      BY <1>1
    <2> QED
      BY <1>1, <2>1, <2>2, <2>3
  <1>4. code \in g <=> code \in h \/ CodeAt(s, o) = code
    <2>1. CASE struck = key
      <3>1. Reported(key) # Reported(key) + ReleaseBit
        BY <1>2, CodesDiffer
      <3> QED
        BY <1>2, <2>1, <3>1 DEF Learnt
    <2>2. CASE struck # key
      <3>1. /\ Reported(key) # Reported(struck) /\ Reported(key) # Reported(struck) + ReleaseBit
            /\ Reported(struck) # Reported(key) + ReleaseBit
            /\ Reported(key) + ReleaseBit # Reported(struck) + ReleaseBit
        BY <1>2, <2>2, CodesDiffer
      <3> QED
        BY <3>1 DEF Learnt
    <2> QED
      BY <2>1, <2>2
  <1> QED
    BY <1>3, <1>4 DEF Got

\* The bytes of a key that goes down or up, appended to s.
StruckCode(key, up) == key[1] + (IF up THEN ReleaseBit ELSE 0)
Struck(s, t, key, up) ==
    t = s \o IF key[2] THEN <<Prefix, StruckCode(key, up)>> ELSE <<StruckCode(key, up)>>

LEMMA CodeStruck ==
    ASSUME InputDevicesAssumption, NEW s, WholeCodes(s), NEW key \in Keys, NEW up \in BOOLEAN,
           NEW t, Struck(s, t, key, up)
    PROVE  /\ WholeCodes(t) /\ Len(t) > Len(s) /\ Len(t) \in Nat /\ t[Len(t)] # Prefix
           /\ CodeAt(t, Len(t)) = IF up THEN Reported(key) + ReleaseBit ELSE Reported(key)
           /\ \A i \in 1 .. Len(s) : t[i] = s[i] /\ CodeAt(t, i) = CodeAt(s, i)
           /\ \A i \in Len(s) + 1 .. Len(t) - 1 : t[i] = Prefix
  <1> DEFINE code == StruckCode(key, up)
  <1>1. s \in Seq(1 .. 255) /\ Len(s) \in Nat
    BY DEF WholeCodes
  <1>2. key[1] \in 1 .. 127 /\ key[1] # 96 /\ key[2] \in BOOLEAN
    BY KeyShape
  <1>2a. code = IF up THEN key[1] + 128 ELSE key[1]
    <2>1. PICK c \in 1 .. 127 : c = key[1]
      BY <1>2
    <2>2. CASE up = TRUE
      BY <2>2 DEF StruckCode, ReleaseBit
    <2>3. CASE up = FALSE
      BY <2>1, <2>3 DEF StruckCode
    <2> QED
      BY <2>2, <2>3
  <1>3. code \in 1 .. 255 /\ code # Prefix /\ Prefix \in 1 .. 255
    <2> HIDE DEF code
    <2>1. PICK c \in 1 .. 127 : c = key[1]
      BY <1>2
    <2>2. c + 128 \in 1 .. 255 /\ c \in 1 .. 255 /\ c + 128 # 224 /\ c # 224
      BY <1>2, <2>1
    <2>3. CASE up = TRUE
      BY <1>2a, <2>1, <2>2, <2>3 DEF Prefix
    <2>4. CASE up = FALSE
      BY <1>2a, <2>1, <2>2, <2>4 DEF Prefix
    <2> QED
      BY <2>3, <2>4
  <1>3a. /\ key[2] = TRUE => t = s \o <<Prefix, code>>
         /\ key[2] = FALSE => t = s \o <<code>>
    BY DEF Struck
  <1> HIDE DEF code
  <1>4. \A i \in 1 .. Len(s) : s[i] = Prefix => i < Len(s) /\ s[i + 1] # Prefix
    BY DEF WholeCodes
  <1>5. /\ t \in Seq(1 .. 255) /\ Len(t) \in Nat /\ Len(t) = Len(s) + (IF key[2] THEN 2 ELSE 1)
        /\ \A i \in 1 .. Len(s) : t[i] = s[i]
        /\ t[Len(t)] = code /\ (key[2] => t[Len(s) + 1] = Prefix)
    <2>1. CASE key[2] = TRUE
      <3>1. t = s \o <<Prefix, code>>
        BY <1>3a, <2>1
      <3>2. <<Prefix, code>> \in Seq(1 .. 255) /\ Len(<<Prefix, code>>) = 2
        BY <1>3
      <3>3. t \in Seq(1 .. 255) /\ Len(t) = Len(s) + 2
        BY <1>1, <3>1, <3>2
      <3>4. \A i \in 1 .. Len(s) : t[i] = s[i]
        BY <1>1, <3>1, <3>2
      <3>5. t[Len(s) + 1] = Prefix /\ t[Len(s) + 2] = code
        BY <1>1, <3>1, <3>2
      <3> QED
        BY <1>1, <2>1, <3>3, <3>4, <3>5
    <2>2. CASE key[2] = FALSE
      <3>1. t = s \o <<code>>
        BY <1>3a, <2>2
      <3>2. <<code>> \in Seq(1 .. 255) /\ Len(<<code>>) = 1
        BY <1>3
      <3>3. t \in Seq(1 .. 255) /\ Len(t) = Len(s) + 1
        BY <1>1, <3>1, <3>2
      <3>4. \A i \in 1 .. Len(s) : t[i] = s[i]
        BY <1>1, <3>1, <3>2
      <3>5. t[Len(s) + 1] = code
        BY <1>1, <3>1, <3>2
      <3> QED
        BY <1>1, <2>2, <3>3, <3>4, <3>5
    <2> QED
      BY <1>2, <2>1, <2>2
  <1>6. ASSUME NEW i \in Len(s) + 1 .. Len(t) - 1 PROVE key[2] /\ i = Len(s) + 1 /\ t[i] = Prefix
    BY <1>1, <1>2, <1>5
  <1>7. ASSUME NEW i \in 1 .. Len(s) PROVE CodeAt(t, i) = CodeAt(s, i)
    BY <1>1, <1>5 DEF CodeAt
  <1>8. CodeAt(t, Len(t)) = IF up THEN Reported(key) + ReleaseBit ELSE Reported(key)
    <2>1. PICK c \in 1 .. 127 : c = key[1]
      BY <1>2
    <2>2. CodeAt(t, Len(t)) = (IF key[2] THEN 255 + code ELSE code)
      <3>1. CASE key[2] = TRUE
        <4>1. Len(t) - 1 = Len(s) + 1 /\ Len(t) > 1
          BY <1>1, <1>5, <3>1
        <4> QED
          BY <1>5, <3>1, <4>1 DEF CodeAt
      <3>2. CASE key[2] = FALSE
        <4>1. Len(t) = Len(s) + 1 /\ Len(t) - 1 = Len(s)
          BY <1>1, <1>5, <3>2
        <4>2. Len(t) > 1 => t[Len(t) - 1] # Prefix
          <5> SUFFICES ASSUME Len(t) > 1 PROVE t[Len(s)] # Prefix
            BY <4>1
          <5>1. Len(s) \in 1 .. Len(s)
            BY <1>1, <4>1
          <5> QED
            BY <1>1, <1>4, <1>5, <5>1
        <4> QED
          BY <1>5, <3>2, <4>2 DEF CodeAt
      <3> QED
        BY <1>2, <3>1, <3>2
    <2>3. code = IF up THEN c + 128 ELSE c
      BY <1>2a, <2>1
    <2>4. Reported(key) = IF key[2] THEN 255 + c ELSE c
      BY <2>1 DEF Reported
    <2>5. CASE key[2] = TRUE /\ up = TRUE
      <3>1. 255 + (c + 128) = (255 + c) + 128
        OBVIOUS
      <3> QED
        BY <2>2, <2>3, <2>4, <2>5, <3>1 DEF ReleaseBit
    <2>6. CASE key[2] = TRUE /\ up = FALSE
      BY <2>2, <2>3, <2>4, <2>6
    <2>7. CASE key[2] = FALSE /\ up = TRUE
      BY <2>2, <2>3, <2>4, <2>7 DEF ReleaseBit
    <2>8. CASE key[2] = FALSE /\ up = FALSE
      BY <2>2, <2>3, <2>4, <2>8
    <2> QED
      BY <1>2, <2>5, <2>6, <2>7, <2>8
  <1>9. ASSUME NEW i \in 1 .. Len(t) PROVE i \in 1 .. Len(s) \/ i \in Len(s) + 1 .. Len(t) - 1 \/ i = Len(t)
    BY <1>1, <1>5
  <1>10. ASSUME NEW i \in 1 .. Len(t), t[i] = Prefix PROVE i < Len(t) /\ t[i + 1] # Prefix
    <2>1. CASE i \in 1 .. Len(s)
      <3>1. i < Len(s) /\ s[i + 1] # Prefix /\ i + 1 \in 1 .. Len(s)
        BY <1>1, <1>4, <1>5, <1>10, <2>1
      <3> QED
        BY <1>1, <1>5, <3>1
    <2>2. CASE i \in Len(s) + 1 .. Len(t) - 1
      <3>1. i + 1 = Len(t)
        BY <1>1, <1>5, <1>6, <2>2
      <3> QED
        BY <1>3, <1>5, <3>1
    <2>3. CASE i = Len(t)
      BY <1>3, <1>5, <1>10, <2>3
    <2> QED
      BY <1>9, <2>1, <2>2, <2>3
  <1>11. ASSUME NEW i \in 1 .. Len(t), t[i] # Prefix
         PROVE  \E k \in Keys : CodeAt(t, i) \in {Reported(k), Reported(k) + ReleaseBit}
    <2>1. CASE i \in 1 .. Len(s)
      <3>1. s[i] # Prefix
        BY <1>5, <1>11, <2>1
      <3> QED
        BY <1>7, <2>1, <3>1 DEF WholeCodes
    <2>2. CASE i \in Len(s) + 1 .. Len(t) - 1
      BY <1>6, <1>11, <2>2
    <2>3. CASE i = Len(t)
      BY <1>8, <2>3
    <2> QED
      BY <1>9, <2>1, <2>2, <2>3
  <1>12. WholeCodes(t)
    BY <1>5, <1>10, <1>11 DEF WholeCodes
  <1>13. Len(t) > Len(s) /\ t[Len(t)] # Prefix
    BY <1>1, <1>3, <1>5
  <1> QED
    BY <1>5, <1>6, <1>7, <1>8, <1>12, <1>13

LEMMA StrikesKeeps ==
    ASSUME InputDevicesAssumption, KeyInv, NEW key \in Keys, Strikes(key)
    PROVE  KeyInv'
  <1> SUFFICES ASSUME ~missed PROVE KeysFit'
    BY DEF KeyInv, Strikes
  <1> DEFINE up == key \in down
             s == scancodes
             t == scancodes'
  <1>1. KeysFit /\ UNCHANGED <<missed, heard>>
    BY DEF KeyInv, Strikes
  <1>2. down' = IF up THEN down \ {key} ELSE down \cup {key}
    BY DEF Strikes
  <1>3. WholeCodes(s) /\ down \subseteq Keys /\ up \in BOOLEAN /\ Len(s) \in Nat
    BY <1>1 DEF KeysFit, WholeCodes
  <1>4. /\ WholeCodes(t) /\ Len(t) > Len(s) /\ Len(t) \in Nat /\ t[Len(t)] # Prefix
        /\ CodeAt(t, Len(t)) = IF up THEN Reported(key) + ReleaseBit ELSE Reported(key)
        /\ \A i \in 1 .. Len(s) : t[i] = s[i] /\ CodeAt(t, i) = CodeAt(s, i)
        /\ \A i \in Len(s) + 1 .. Len(t) - 1 : t[i] = Prefix
    <2>1. Struck(s, t, key, up)
      BY DEF Strikes, Struck, StruckCode
    <2> HIDE DEF up, t, s
    <2> QED
      BY <1>3, <2>1, CodeStruck
  <1> HIDE DEF t, s
  <1>5. ASSUME NEW k \in PlainKeys PROVE KeyFits(t, heard, down', k)
    <2>1. k \in Keys /\ KeyFits(s, heard, down, k)
      BY <1>1 DEF KeysFit, PlainKeys, s
    <2>2. ASSUME NEW i \in PlacesOf(t, k) PROVE i \in PlacesOf(s, k) \/ i = Len(t)
      <3>1. i \in 1 .. Len(t) /\ t[i] # Prefix
            /\ CodeAt(t, i) \in {Reported(k), Reported(k) + ReleaseBit}
        BY <2>2 DEF PlacesOf
      <3>2. i \in 1 .. Len(s) \/ i = Len(t)
        BY <1>3, <1>4, <3>1
      <3> QED
        BY <1>4, <3>1, <3>2 DEF PlacesOf
    <2>3. PlacesOf(s, k) \subseteq PlacesOf(t, k)
      BY <1>3, <1>4 DEF PlacesOf
    <2>4. CASE k = key
      <3>1. Len(t) \in PlacesOf(t, k) /\ \A j \in PlacesOf(t, k) : j \in Nat /\ j <= Len(t)
        BY <1>3, <1>4, <2>4 DEF PlacesOf
      <3>2. CodeAt(t, Len(t)) = Reported(k) <=> k \in down'
        <4>1. Reported(k) # Reported(k) + ReleaseBit
          BY <2>1, CodesDiffer
        <4> QED
          BY <1>2, <1>4, <2>4, <4>1
      <3>3. ASSUME NEW i \in PlacesOf(t, k), \A j \in PlacesOf(t, k) : j <= i PROVE i = Len(t)
        <4>1. i <= Len(t) /\ Len(t) <= i /\ i \in Nat
          BY <3>1, <3>3
        <4> QED
          BY <1>4, <4>1
      <3> QED
        BY <3>1, <3>2, <3>3 DEF KeyFits
    <2>5. CASE k # key
      <3>1. Len(t) \notin PlacesOf(t, k)
        <4>1. /\ Reported(key) # Reported(k) /\ Reported(key) # Reported(k) + ReleaseBit
              /\ Reported(k) # Reported(key) + ReleaseBit
              /\ Reported(key) + ReleaseBit # Reported(k) + ReleaseBit
          BY <2>1, <2>5, CodesDiffer
        <4> QED
          BY <1>4, <4>1 DEF PlacesOf
      <3>2. PlacesOf(t, k) = PlacesOf(s, k)
        BY <2>2, <2>3, <3>1
      <3>3. \A i \in PlacesOf(s, k) : CodeAt(t, i) = CodeAt(s, i)
        BY <1>4 DEF PlacesOf
      <3>4. k \in down' <=> k \in down
        BY <1>2, <2>5
      <3> QED
        BY <2>1, <3>2, <3>3, <3>4 DEF KeyFits
    <2> QED
      BY <2>4, <2>5
  <1>6. down' \subseteq Keys /\ heard' \subseteq HeardCodes
    BY <1>1, <1>2, <1>3 DEF KeysFit
  <1>7. ASSUME NEW k \in Arrows PROVE ArrowFits(t, heard, down', k)
    <2>1. k \in Keys /\ ArrowFits(s, heard, down, k)
      BY <1>1 DEF KeysFit, Arrows, s
    <2>2. \A c : Got(t, heard, c) <=> Got(s, heard, c) \/ CodeAt(t, Len(t)) = c
      <3>1. \A i \in 1 .. Len(t) : t[i] # Prefix => i \in 1 .. Len(s) \/ i = Len(t)
        BY <1>3, <1>4
      <3>2. Len(t) \in 1 .. Len(t) /\ \A i \in 1 .. Len(s) : i \in 1 .. Len(t)
        BY <1>3, <1>4
      <3> QED
        BY <1>4, <3>1, <3>2 DEF Got
    <2>3. CASE k = key
      BY <1>2, <1>4, <2>1, <2>2, <2>3 DEF ArrowFits
    <2>4. CASE k # key
      <3>1. /\ CodeAt(t, Len(t)) # Reported(k) /\ CodeAt(t, Len(t)) # Reported(k) + ReleaseBit
        <4>1. /\ Reported(key) # Reported(k) /\ Reported(key) # Reported(k) + ReleaseBit
              /\ Reported(k) # Reported(key) + ReleaseBit
              /\ Reported(key) + ReleaseBit # Reported(k) + ReleaseBit
          BY <2>1, <2>4, CodesDiffer
        <4> QED
          BY <1>4, <4>1
      <3>2. k \in down' <=> k \in down
        BY <1>2, <2>4
      <3> QED
        BY <2>1, <2>2, <3>1, <3>2 DEF ArrowFits
    <2> QED
      BY <2>3, <2>4
  <1> QED
    BY <1>1, <1>4, <1>5, <1>6, <1>7 DEF KeysFit, t

LEMMA KeyboardInterruptKeeps ==
    ASSUME InputDevicesAssumption, KeyInv, KeyboardInterrupt
    PROVE  KeyInv'
  <1> DEFINE s == scancodes
             long == Head(s) = Prefix
  <1>1. PICK early \in BOOLEAN :
            /\ scancodes # <<>> /\ (early => long)
            /\ heard' = Hears(EventOf(IF long THEN KeyRaw(Prefix, IF early THEN Prefix ELSE s[2])
                                      ELSE KeyRaw(Head(s), 0)))
            /\ scancodes' = IF long /\ ~early THEN Tail(Tail(s)) ELSE Tail(s)
            /\ missed' = (missed \/ early)
            /\ down' = down
    BY DEF KeyboardInterrupt
  <1>2. missed' \in BOOLEAN
    BY <1>1 DEF KeyInv
  <1> SUFFICES ASSUME ~missed, ~early PROVE KeysFit'
    BY <1>1, <1>2 DEF KeyInv
  <1>3. KeysFit /\ WholeCodes(s) /\ s \in Seq(1 .. 255) /\ Len(s) \in Nat /\ Len(s) >= 1 /\ Head(s) = s[1]
    BY <1>1 DEF KeyInv, KeysFit, WholeCodes
  <1> DEFINE o == IF long THEN 2 ELSE 1
             t == scancodes'
  <1>4. Behind(s, o, t)
    <2>1. CASE long
      <3>1. 1 < Len(s) /\ s[1] = Prefix /\ s[2] # Prefix
        BY <1>3, <2>1 DEF WholeCodes
      <3>2. t = Tail(Tail(s)) /\ o = 2
        BY <1>1, <2>1
      <3>3. Tail(s) \in Seq(1 .. 255) /\ Len(Tail(s)) = Len(s) - 1
            /\ \A i \in 1 .. Len(s) - 1 : Tail(s)[i] = s[i + 1]
        BY <1>3, <3>1
      <3>4. Tail(Tail(s)) \in Seq(1 .. 255) /\ Len(Tail(Tail(s))) = Len(s) - 2
            /\ \A i \in 1 .. Len(s) - 2 : Tail(Tail(s))[i] = Tail(s)[i + 1]
        <4> DEFINE u == Tail(s)
        <4>1. u \in Seq(1 .. 255) /\ u # <<>> /\ Len(u) = Len(s) - 1
          <5>1. Len(s) - 1 # 0
            BY <1>3, <3>1
          <5>2. Len(u) # 0 /\ u \in Seq(1 .. 255)
            BY <3>3, <5>1
          <5> HIDE DEF u
          <5>3. u # <<>>
            BY <5>2
          <5> QED
            BY <3>3, <5>2, <5>3 DEF u
        <4> HIDE DEF u
        <4>2. Tail(u) \in Seq(1 .. 255) /\ Len(Tail(u)) = Len(u) - 1
              /\ \A i \in 1 .. Len(u) - 1 : Tail(u)[i] = u[i + 1]
          BY <4>1
        <4>3. Len(u) - 1 = Len(s) - 2
          BY <1>3, <4>1
        <4> QED
          BY <4>1, <4>2, <4>3 DEF u
      <3>5. \A i \in 1 .. Len(s) - 2 : Tail(Tail(s))[i] = s[i + 2]
        <4> SUFFICES ASSUME NEW i \in 1 .. Len(s) - 2 PROVE Tail(s)[i + 1] = s[i + 2]
          BY <3>4
        <4>1. i + 1 \in 1 .. Len(s) - 1 /\ (i + 1) + 1 = i + 2
          BY <1>3
        <4> QED
          BY <3>3, <4>1
      <3> HIDE DEF s, t, o
      <3> QED
        BY <1>3, <3>1, <3>2, <3>4, <3>5 DEF Behind
    <2>2. CASE ~long
      <3>1. t = Tail(s) /\ o = 1 /\ s[1] # Prefix
        BY <1>1, <1>3, <2>2
      <3>2. Tail(s) \in Seq(1 .. 255) /\ Len(Tail(s)) = Len(s) - 1
            /\ \A i \in 1 .. Len(s) - 1 : Tail(s)[i] = s[i + 1]
        BY <1>3
      <3> HIDE DEF s, t, o
      <3> QED
        BY <1>3, <3>1, <3>2 DEF Behind
    <2> QED
      BY <2>1, <2>2
  <1>5. heard' = Hears(EventOf(CodeAt(s, o)))
    <2>1. CASE long
      BY <1>1, <1>3, <2>1 DEF CodeAt, KeyRaw
    <2>2. CASE ~long
      BY <1>1, <1>3, <2>2 DEF CodeAt, KeyRaw
    <2> QED
      BY <2>1, <2>2
  <1> HIDE DEF s, t, o
  <1>6. PICK struck \in Keys : CodeAt(s, o) \in {Reported(struck), Reported(struck) + ReleaseBit}
    <2>1. o \in 1 .. Len(s) /\ s[o] # Prefix
      BY <1>3, <1>4 DEF Behind
    <2> QED
      BY <1>3, <2>1 DEF WholeCodes
  <1>7. Reported(struck) # Reported(struck) + ReleaseBit
    BY CodesDiffer
  <1>8. heard' = Learnt(heard, struck, CodeAt(s, o))
    BY <1>5, <1>6, <1>7, HearsKey DEF Learnt
  <1>9. ASSUME NEW key \in PlainKeys PROVE KeyFits(t, heard', down, key)
    <2>1. KeyFits(s, heard, down, key)
      BY <1>3 DEF KeysFit, s
    <2> QED
      BY <1>3, <1>4, <1>6, <1>8, <2>1, CodeHeard
  <1>10. WholeCodes(t)
    BY <1>3, <1>4, CodeRead
  <1>11. heard' \subseteq HeardCodes
    BY <1>3, <1>8 DEF KeysFit, HeardCodes, Learnt
  <1>12. ASSUME NEW key \in Arrows PROVE ArrowFits(t, heard', down, key)
    <2>1. ArrowFits(s, heard, down, key)
      BY <1>3 DEF KeysFit, s
    <2>2. /\ Got(t, heard', Reported(key)) <=> Got(s, heard, Reported(key))
          /\ Got(t, heard', Reported(key) + ReleaseBit) <=> Got(s, heard, Reported(key) + ReleaseBit)
      BY <1>3, <1>4, <1>6, <1>8, CodeKept
    <2> QED
      BY <2>1, <2>2 DEF ArrowFits
  <1> QED
    BY <1>1, <1>3, <1>9, <1>10, <1>11, <1>12 DEF KeysFit, t
-----------------------------------------------------------------------------
(***************************************************************************)
(* The mouse.                                                              *)
(***************************************************************************)

\* What packs a movement loses nothing.
LEMMA WordUnpacks ==
    \A x, y \in -128 .. 127 : Unpacked(Word(x, y)) = [x |-> x, y |-> y]
  <1> SUFFICES ASSUME NEW x \in -128 .. 127, NEW y \in -128 .. 127
               PROVE  Unpacked(Word(x, y)) = [x |-> x, y |-> y]
    OBVIOUS
  <1>1. PICK a \in 0 .. 128 : a = Size(x)
    BY DEF Size
  <1>2. PICK b \in 0 .. 128 : b = Size(y)
    BY DEF Size
  <1>3. PICK p \in {0, 1} : p = IF x > 0 THEN 1 ELSE 0
    OBVIOUS
  <1>4. PICK q \in {0, 1} : q = IF y > 0 THEN 1 ELSE 0
    OBVIOUS
  <1>5. PICK w \in Nat : w = 256 * a + b + 131072 * p + 65536 * q
    OBVIOUS
  <1>6. Word(x, y) = w
    BY <1>1, <1>2, <1>3, <1>4, <1>5 DEF Word
  <1>7. w % 256 = b /\ (w \div 256) % 256 = a /\ (w \div 131072) % 2 = p /\ (w \div 65536) % 2 = q
    BY <1>5
  <1>8. AxisOf(a, p = 1) = x /\ AxisOf(b, q = 1) = y
    BY <1>1, <1>2, <1>3, <1>4 DEF Size, AxisOf
  <1> QED
    BY <1>6, <1>7, <1>8 DEF Unpacked

\* The driver knows the buttons, and the listener what the driver knows.
MouseInv ==
    /\ hand = [pressed |-> hand.pressed, move |-> hand.move]
    /\ hand.pressed = buttons
    /\ told = hand

LEMMA MouseKeeps ==
    ASSUME InputDevicesAssumption, MouseInv, MouseNext
    PROVE  MouseInv'
  <1>1. PICK now \in SUBSET Button, x \in Moves, y \in Moves, count \in 1 .. 3 :
            MouseInterrupt(now, x, y, count)
    BY DEF MouseNext
  <1>2. x \in -128 .. 127 /\ y \in -128 .. 127
    BY DEF InputDevicesAssumption
  <1>3. Toggled(told.pressed, Edges(now)) = now
    BY DEF MouseInv, Toggled, Edges
  <1>4. Unpacked(Word(x, y)) = [x |-> x, y |-> y]
    BY <1>2, WordUnpacks
  <1>5. /\ buttons' = now
        /\ hand' = [pressed |-> now, move |-> IF count = 3 /\ (x # 0 \/ y # 0) THEN [x |-> x, y |-> y] ELSE hand.move]
        /\ told' = [pressed |-> Toggled(told.pressed, Edges(now)),
                    move |-> IF count = 3 /\ (x # 0 \/ y # 0) THEN Unpacked(Word(x, y)) ELSE told.move]
    BY <1>1 DEF MouseInterrupt
  <1>6. told' = hand'
    BY <1>3, <1>4, <1>5 DEF MouseInv
  <1> QED
    BY <1>5, <1>6 DEF MouseInv

\* Listeners to all events know which characters and modifiers are down, which
\* arrows were pressed but not that they are released, and what the hand on the
\* mouse does, whatever is struck and moved, as long as no second byte came late.
THEOREM InputReported == InputSpec => []InputIsReported
  <1> DEFINE Inv == KeyInv /\ MouseInv
  <1>1. InputInit => Inv
    <2> SUFFICES ASSUME InputInit PROVE Inv
      OBVIOUS
    <2>1. WholeCodes(scancodes) /\ \A key \in PlainKeys : PlacesOf(scancodes, key) = {}
      BY DEF InputInit, WholeCodes, PlacesOf
    <2>1a. \A key \in Arrows : ArrowFits(scancodes, heard, down, key)
      BY DEF InputInit, ArrowFits, Got
    <2>2. KeysFit
      BY <2>1, <2>1a DEF InputInit, KeysFit, KeyFits
    <2> QED
      BY <2>2 DEF InputInit, KeyInv, MouseInv
  <1>2. Inv /\ [KeyboardNext \/ MouseNext]_inputVars => Inv'
    <2> SUFFICES ASSUME Inv, [KeyboardNext \/ MouseNext]_inputVars PROVE Inv'
      OBVIOUS
    <2>1. ASSUME NEW key \in Keys, Strikes(key) PROVE Inv'
      <3>1. UNCHANGED <<buttons, hand, told>>
        BY <2>1 DEF Strikes
      <3> QED
        BY <2>1, <3>1, StrikesKeeps, InputDevicesAssumption DEF MouseInv
    <2>2. CASE KeyboardInterrupt
      <3>1. UNCHANGED <<buttons, hand, told>>
        BY <2>2 DEF KeyboardInterrupt
      <3> QED
        BY <2>2, <3>1, KeyboardInterruptKeeps, InputDevicesAssumption DEF MouseInv
    <2>3. CASE MouseNext
      <3>1. UNCHANGED <<down, scancodes, missed, heard>>
        BY <2>3 DEF MouseNext, MouseInterrupt
      <3> QED
        BY <2>3, <3>1, MouseKeeps, InputDevicesAssumption DEF KeyInv, KeysFit
    <2>4. CASE UNCHANGED inputVars
      BY <2>4 DEF inputVars, KeyInv, KeysFit, MouseInv
    <2> QED
      BY <2>1, <2>2, <2>3, <2>4 DEF KeyboardNext
  <1>3. Inv => InputIsReported
    <2> SUFFICES ASSUME Inv PROVE InputIsReported
      OBVIOUS
    <2>1. MouseIsReported
      BY DEF MouseInv, MouseIsReported
    <2>2. KeysAreReported
      <3> SUFFICES ASSUME scancodes = <<>>, ~missed
                   PROVE  /\ \A key \in PlainKeys : Reported(key) \in heard <=> key \in down
                          /\ heard \subseteq HeardCodes
        BY DEF KeysAreReported, AllHeard, PlainKeys, HeardCodes
      <3>1. \A key \in PlainKeys : PlacesOf(scancodes, key) = {}
        BY DEF PlacesOf
      <3> QED
        BY <3>1 DEF KeyInv, KeysFit, KeyFits
    <2>3. ArrowsAreNeverReleased
      <3> SUFFICES ASSUME scancodes = <<>>, ~missed, NEW key \in Arrows
                   PROVE  /\ key \in down => Reported(key) \in heard
                          /\ Reported(key) \in heard /\ key \notin down =>
                                  Reported(key) + ReleaseBit \in heard
        BY DEF ArrowsAreNeverReleased, AllHeard, Arrows
      <3>1. \A code : Got(scancodes, heard, code) <=> code \in heard
        BY DEF Got
      <3>2. ArrowFits(scancodes, heard, down, key)
        BY DEF KeyInv, KeysFit
      <3> QED
        BY <3>1, <3>2 DEF ArrowFits
    <2> QED
      BY <2>1, <2>2, <2>3 DEF InputIsReported
  <1> QED
    BY <1>1, <1>2, <1>3, PTL DEF InputSpec
-----------------------------------------------------------------------------
(***************************************************************************)
(* Going to sleep.                                                         *)
(***************************************************************************)

\* What was evaluated and written so far, by the place of the procedure.
SleepFits ==
    /\ place \in {"off", "located", "entered", "prepared", "going"} => commanded = {}
    /\ place \in {"off", "located"} => sleeps = 0
    /\ place \in {"entered", "prepared", "going", "half"} => asked \in firmware.states
    /\ place = "entered" => evaluated = <<>>
    /\ place = "prepared" => evaluated = Call("_PTS")
    /\ place \in {"going", "half"} => evaluated = Call("_PTS") \o Call("_GTS")
    /\ place = "half" => commanded = {"PM1a"}

AcpiInv == AcpiTypeOK /\ SleepFits /\ SleepIsPrepared

LEMMA EmptyFirst == \A method : <<>> \o Call(method) = Call(method)
  BY DEF Call

LEMMA ControlFacts ==
    ASSUME AcpiAssumption, asked \in SleepType, NEW register \in Register,
           NEW bits \in SUBSET (0 .. 15 \ {SleepBit})
    PROVE  /\ Control(bits, register) \ {SleepBit} \in SUBSET (0 .. 15 \ {SleepBit})
           /\ SleepBit \in Control(bits, register)
           /\ (Control(bits, register) \ {SleepBit}) \cap TypeBits =
                  {10 + b : b \in SleepCodes[asked][register]}
           /\ (Control(bits, register) \ {SleepBit}) \ TypeBits = bits \ TypeBits
  <1> DEFINE Type == {10 + b : b \in SleepCodes[asked][register]}
  <1>1. SleepCodes[asked][register] \subseteq {0, 1, 2}
    BY DEF AcpiAssumption
  <1>2. Type \subseteq {10, 11, 12}
    BY <1>1
  <1>3. Control(bits, register) = (bits \ TypeBits) \cup Type \cup {SleepBit}
    BY DEF Control
  <1> DEFINE Bits == 0 .. 15 \ {SleepBit}
  <1>5. Type \subseteq TypeBits /\ TypeBits \subseteq Bits /\ SleepBit \notin Bits
    BY <1>2 DEF TypeBits, SleepBit
  <1>6. bits \subseteq Bits
    OBVIOUS
  <1> HIDE DEF Type, Bits
  <1>4. /\ Control(bits, register) \ {SleepBit} \in SUBSET Bits
        /\ SleepBit \in Control(bits, register)
        /\ (Control(bits, register) \ {SleepBit}) \cap TypeBits = Type
        /\ (Control(bits, register) \ {SleepBit}) \ TypeBits = bits \ TypeBits
    <2>1. \A x : x \in Control(bits, register) <=>
                   (x \in bits /\ x \notin TypeBits) \/ x \in Type \/ x = SleepBit
      BY <1>3
    <2>2. Control(bits, register) \ {SleepBit} \in SUBSET Bits /\ SleepBit \in Control(bits, register)
      BY <2>1, <1>5, <1>6
    <2>3. (Control(bits, register) \ {SleepBit}) \cap TypeBits = Type
      BY <2>1, <1>5
    <2>4. (Control(bits, register) \ {SleepBit}) \ TypeBits = bits \ TypeBits
      BY <2>1, <1>5, <1>6
    <2> QED
      BY <2>2, <2>3, <2>4
  <1> QED
    BY <1>4 DEF Type, Bits

LEMMA WriteKeeps ==
    ASSUME AcpiAssumption, AcpiTypeOK, SleepIsPrepared, NEW r \in Register,
           Writes(r, Control(pm1[r], r)), UNCHANGED <<firmware, asked>>
    PROVE  /\ pm1' \in [Register -> SUBSET (0 .. 15 \ {SleepBit})]
           /\ commanded' = commanded \cup {r}
           /\ \A register \in commanded' :
                 pm1'[register] \cap TypeBits = {10 + b : b \in SleepCodes[asked][register]}
           /\ \A register \in Register :
                 pm1'[register] \ TypeBits = firmware.bits[register] \ TypeBits
  <1> DEFINE new == Control(pm1[r], r) \ {SleepBit}
  <1>1. pm1[r] \in SUBSET (0 .. 15 \ {SleepBit}) /\ asked \in SleepType
    BY DEF AcpiTypeOK
  <1>2. /\ new \in SUBSET (0 .. 15 \ {SleepBit})
        /\ SleepBit \in Control(pm1[r], r)
        /\ new \cap TypeBits = {10 + b : b \in SleepCodes[asked][r]}
        /\ new \ TypeBits = pm1[r] \ TypeBits
    BY <1>1, ControlFacts
  <1>3. pm1' = [pm1 EXCEPT ![r] = new] /\ commanded' = commanded \cup {r}
    BY <1>2 DEF Writes
  <1> HIDE DEF new
  <1>4. pm1 \in [Register -> SUBSET (0 .. 15 \ {SleepBit})]
    BY DEF AcpiTypeOK
  <1>5. /\ pm1' \in [Register -> SUBSET (0 .. 15 \ {SleepBit})]
        /\ \A register \in Register :
              pm1'[register] = IF register = r THEN new ELSE pm1[register]
    BY <1>2, <1>3, <1>4
  <1>6. \A register \in commanded' :
            pm1'[register] \cap TypeBits = {10 + b : b \in SleepCodes[asked][register]}
    <2> TAKE register \in commanded'
    <2>1. register \in Register
      BY <1>3 DEF AcpiTypeOK
    <2>2. CASE register = r
      BY <1>2, <1>5, <2>1, <2>2
    <2>3. CASE register # r
      BY <1>3, <1>5, <2>1, <2>3 DEF SleepIsPrepared
    <2> QED
      BY <2>2, <2>3
  <1>7. \A register \in Register : pm1'[register] \ TypeBits = firmware.bits[register] \ TypeBits
    BY <1>2, <1>5 DEF SleepIsPrepared
  <1> QED
    BY <1>3, <1>5, <1>6, <1>7

LEMMA AcpiStep == AcpiAssumption /\ AcpiInv /\ [AcpiNext]_acpiVars => AcpiInv'
  <1> SUFFICES ASSUME AcpiAssumption, AcpiInv, [AcpiNext]_acpiVars PROVE AcpiInv'
    OBVIOUS
  <1> USE DEF AcpiInv
  <1>1. CASE LocateRsdp
    BY <1>1 DEF LocateRsdp, AcpiTypeOK, SleepFits, SleepIsPrepared, Call
  <1>2. CASE Initialise
    BY <1>2 DEF Initialise, AcpiTypeOK, SleepFits, SleepIsPrepared, Call
  <1>3. ASSUME NEW type \in SleepType, EnterSleepState(type) PROVE AcpiInv'
    BY <1>3 DEF EnterSleepState, AcpiTypeOK, SleepFits, SleepIsPrepared, Call
  <1>4. CASE PrepareToSleep
    BY <1>4, EmptyFirst DEF PrepareToSleep, AcpiTypeOK, SleepFits, SleepIsPrepared, Call
  <1>5. CASE GoToSleep
    BY <1>5 DEF GoToSleep, AcpiTypeOK, SleepFits, SleepIsPrepared, Call
  <1>6. CASE WritePM1a
    <2>1. CASE firmware.fadt
      <3>1. Writes("PM1a", Control(pm1["PM1a"], "PM1a")) /\ place' = "half" /\ place = "going"
            /\ UNCHANGED <<firmware, asked, evaluated, sleeps>>
        BY <1>6, <2>1 DEF WritePM1a
      <3>2. "PM1a" \in Register
        BY DEF Register
      <3>3. /\ pm1' \in [Register -> SUBSET (0 .. 15 \ {SleepBit})]
            /\ commanded' = commanded \cup {"PM1a"}
            /\ \A register \in commanded' :
                  pm1'[register] \cap TypeBits = {10 + b : b \in SleepCodes[asked][register]}
            /\ \A register \in Register :
                  pm1'[register] \ TypeBits = firmware.bits[register] \ TypeBits
        BY <3>1, <3>2, WriteKeeps
      <3>4. commanded' = {"PM1a"} /\ asked \in firmware.states
            /\ evaluated = Call("_PTS") \o Call("_GTS")
        BY <3>1, <3>3 DEF SleepFits
      <3> QED
        BY <3>1, <3>2, <3>3, <3>4 DEF AcpiTypeOK, SleepFits, SleepIsPrepared, Call
    <2>2. CASE ~firmware.fadt
      BY <1>6, <2>2 DEF WritePM1a, AcpiTypeOK, SleepFits, SleepIsPrepared, Call
    <2> QED
      BY <2>1, <2>2
  <1>7. CASE WritePM1b
    <2>1. CASE firmware.pm1b
      <3>1. Writes("PM1b", Control(pm1["PM1b"], "PM1b")) /\ place' = "ready" /\ place = "half"
            /\ UNCHANGED <<firmware, asked, evaluated, sleeps>>
        BY <1>7, <2>1 DEF WritePM1b
      <3>2. "PM1b" \in Register
        BY DEF Register
      <3> QED
        BY <2>1, <3>1, <3>2, WriteKeeps DEF AcpiTypeOK, SleepFits, SleepIsPrepared, Call, Register
    <2>2. CASE ~firmware.pm1b
      BY <1>7, <2>2 DEF WritePM1b, AcpiTypeOK, SleepFits, SleepIsPrepared, Call
    <2> QED
      BY <2>1, <2>2
  <1>8. CASE UNCHANGED acpiVars
    BY <1>8 DEF acpiVars, AcpiTypeOK, SleepFits, SleepIsPrepared, Call
  <1> QED
    BY <1>1, <1>2, <1>3, <1>4, <1>5, <1>6, <1>7, <1>8 DEF AcpiNext

\* No register is told to sleep before the firmware's methods were evaluated for
\* that state in their order, each gets the type of its own and nothing else
\* changes, for all sleep types and all that registers may hold.
THEOREM SleepPrepared == AcpiSpec => []SleepIsPrepared
  <1>1. AcpiInit => AcpiInv
    <2> SUFFICES ASSUME AcpiInit PROVE AcpiInv
      OBVIOUS
    <2>1. firmware.bits \in [Register -> FirmwareBits]
      BY DEF AcpiInit
    <2>2. FirmwareBits \subseteq SUBSET (0 .. 15 \ {SleepBit})
      BY AcpiAssumption DEF AcpiAssumption
    <2>3. pm1 = firmware.bits /\ pm1 \in [Register -> SUBSET (0 .. 15 \ {SleepBit})]
      <3>1. pm1 = firmware.bits
        BY DEF AcpiInit
      <3>2. firmware.bits \in [Register -> SUBSET (0 .. 15 \ {SleepBit})]
        BY <2>1, <2>2
      <3> QED
        BY <3>1, <3>2
    <2>4. place = "off" /\ asked = 0 /\ commanded = {} /\ sleeps = 0
      BY DEF AcpiInit
    <2> QED
      BY <2>3, <2>4 DEF AcpiInv, AcpiTypeOK, SleepFits, SleepIsPrepared, SleepType
  <1>2. AcpiInv /\ [AcpiNext]_acpiVars => AcpiInv'
    BY AcpiAssumption, AcpiStep
  <1>3. AcpiInv => SleepIsPrepared
    BY DEF AcpiInv
  <1> QED
    BY <1>1, <1>2, <1>3, PTL DEF AcpiSpec
-----------------------------------------------------------------------------
(***************************************************************************)
(* Text on the screen: rows of characters, from the left.                  *)
(***************************************************************************)
LEMMA GlyphFits ==
  ASSUME NEW c \in Chars
  PROVE  LoadChar(c) \in Nat /\ LoadChar(c) > 0 /\ LoadChar(c) <= ScreenWidth
  <1>1. /\ ScreenWidth \in Nat /\ FontSize \in Nat \ {0} /\ GlyphWidth(0) > 0
        /\ \A i \in 0 .. FontSize - 1 : GlyphWidth(i) \in 0 .. ScreenWidth
        /\ c \in Nat /\ c # FontSize
    BY DisplayAssumption
  <1>2. PICK i : i = IF c > FontSize THEN 0 ELSE c
    OBVIOUS
  <1>3. i \in 0 .. FontSize - 1 /\ 0 \in 0 .. FontSize - 1
    BY <1>1, <1>2
  <1>4. GlyphWidth(i) \in 0 .. ScreenWidth /\ GlyphWidth(0) \in 0 .. ScreenWidth
    BY <1>1, <1>3
  <1>5. LoadChar(c) = IF GlyphWidth(i) = 0 THEN GlyphWidth(0) ELSE GlyphWidth(i)
    BY <1>2 DEF LoadChar
  <1>6. CASE GlyphWidth(i) = 0
    BY <1>1, <1>4, <1>5, <1>6
  <1>7. CASE GlyphWidth(i) # 0
    BY <1>1, <1>4, <1>5, <1>7
  <1> QED
    BY <1>6, <1>7

\* A character lies in a row above the pen, or left of it in its row.
BehindPen(g, x, y) == g.y + 15 <= y \/ (g.y = y /\ g.x + g.w + 2 <= x)
Fits(g) == g.x \in Nat /\ g.y \in Nat /\ g.w \in Nat /\ g.x + g.w <= ScreenWidth
Apart(g, k) ==
    \/ g.y + 14 <= k.y \/ k.y + 14 <= g.y
    \/ g.x + g.w <= k.x \/ k.x + k.w <= g.x

TextInv ==
    /\ x_offset \in Nat /\ y_offset \in Nat
    /\ \A g \in glyphs : Fits(g) /\ BehindPen(g, x_offset, y_offset)
    /\ \A g, k \in glyphs : g # k => Apart(g, k)

LEMMA ApartPixels ==
  ASSUME NEW g, NEW k, Fits(g), Fits(k), Apart(g, k)
  PROVE  Box(g.x, g.y, g.w, GlyphHeight) \cap Box(k.x, k.y, k.w, GlyphHeight) = {}
  <1>1. GlyphHeight = 14
    BY DisplayAssumption
  <1>2. PICK a, b, c, d, e, f :
          /\ a = g.x /\ b = g.y /\ c = g.w /\ d = k.x /\ e = k.y /\ f = k.w
    OBVIOUS
  <1>3. /\ a \in Nat /\ b \in Nat /\ c \in Nat /\ d \in Nat /\ e \in Nat /\ f \in Nat
        /\ b + 14 <= e \/ e + 14 <= b \/ a + c <= d \/ d + f <= a
    BY <1>2 DEF Fits, Apart
  <1>4. \A p : ~(p \in a .. a + c - 1 /\ p \in d .. d + f - 1)
               \/ \A q : ~(q \in b .. b + 14 - 1 /\ q \in e .. e + 14 - 1)
    BY <1>3
  <1>5. Box(a, b, c, 14) \cap Box(d, e, f, 14) = {}
    BY <1>4 DEF Box
  <1> QED
    BY <1>1, <1>2, <1>5

LEMMA TextApart == ASSUME TextInv PROVE GlyphsKeepApart
  <1>1. ASSUME NEW g \in glyphs, NEW k \in glyphs \ {g}
        PROVE  Box(g.x, g.y, g.w, GlyphHeight) \cap Box(k.x, k.y, k.w, GlyphHeight) = {}
    <2>1. Fits(g) /\ Fits(k) /\ Apart(g, k)
      BY <1>1 DEF TextInv
    <2> QED
      BY <2>1, ApartPixels
  <1>2. \A g \in glyphs : g.x + g.w <= ScreenWidth
    BY DEF TextInv, Fits
  <1> QED
    BY <1>1, <1>2 DEF GlyphsKeepApart

\* The pen moves on to the right or down.
LEMMA PenMoves ==
  ASSUME NEW g, Fits(g), NEW a \in Nat, NEW b \in Nat, BehindPen(g, a, b),
         NEW c \in Nat, NEW d \in Nat, d >= b + 15 \/ (d = b /\ c >= a)
  PROVE  BehindPen(g, c, d)
  <1>1. PICK x, y, w : x = g.x /\ y = g.y /\ w = g.w /\ x \in Nat /\ y \in Nat /\ w \in Nat
    BY DEF Fits
  <1>2. y + 15 <= b \/ (y = b /\ x + w + 2 <= a)
    BY <1>1 DEF BehindPen
  <1>3. y + 15 <= d \/ (y = d /\ x + w + 2 <= c)
    BY <1>1, <1>2
  <1> QED
    BY <1>1, <1>3 DEF BehindPen

LEMMA TextStep == ASSUME TextInv, [TextNext \/ ShapeNext]_displayVars PROVE TextInv'
  <1>0. x_offset \in Nat /\ y_offset \in Nat /\ ScreenWidth \in Nat /\ GlyphHeight = 14
    BY DisplayAssumption DEF TextInv
  <1>1. CASE UNCHANGED <<x_offset, y_offset, glyphs>>
    BY <1>1 DEF TextInv
  <1>2. CASE Clearscr
    <2>1. x_offset' = 0 /\ y_offset' = 0 /\ glyphs' = {}
      BY <1>2 DEF Clearscr
    <2> QED
      BY <2>1 DEF TextInv
  <1>3. CASE Printnl
    <2>1. /\ x_offset' = 0 /\ y_offset' = y_offset + 15 /\ glyphs' = glyphs
          /\ x_offset' \in Nat /\ y_offset' \in Nat
      BY <1>0, <1>3 DEF Printnl
    <2>2. ASSUME NEW g \in glyphs PROVE Fits(g) /\ BehindPen(g, x_offset', y_offset')
      <3>1. Fits(g) /\ BehindPen(g, x_offset, y_offset)
        BY DEF TextInv
      <3>2. y_offset' >= y_offset + 15
        BY <1>0, <2>1
      <3> QED
        BY <1>0, <2>1, <3>1, <3>2, PenMoves
    <2>3. \A g, k \in glyphs : g # k => Apart(g, k)
      BY DEF TextInv
    <2> QED
      BY <2>1, <2>2, <2>3 DEF TextInv
  <1>4. ASSUME NEW c \in Chars, Printf(c) PROVE TextInv'
    <2>1. PICK w : w = LoadChar(c) /\ w \in Nat /\ w > 0 /\ w <= ScreenWidth
      BY GlyphFits
    <2>2. PICK x, y : /\ x = (IF Wraps(w) THEN 0 ELSE x_offset)
                      /\ y = (IF Wraps(w) THEN y_offset + GlyphHeight + 1 ELSE y_offset)
      OBVIOUS
    <2>3. PICK h : h = [x |-> x, y |-> y, w |-> w]
      OBVIOUS
    <2>4. glyphs' = glyphs \cup {h} /\ x_offset' = x + w + 2 /\ y_offset' = y
      BY <1>4, <2>1, <2>2, <2>3 DEF Printf
    <2>5. /\ x \in Nat /\ y \in Nat /\ x + w <= ScreenWidth
          /\ (y = y_offset + 15 /\ x = 0) \/ (y = y_offset /\ x = x_offset)
      BY <1>0, <2>1, <2>2 DEF Wraps
    <2>6. h.x = x /\ h.y = y /\ h.w = w
      BY <2>3
    <2>7. x_offset' \in Nat /\ y_offset' \in Nat
      BY <2>1, <2>4, <2>5
    <2>8. Fits(h) /\ BehindPen(h, x_offset', y_offset')
      <3>1. h.x + h.w + 2 <= x_offset' /\ h.y = y_offset'
        BY <2>1, <2>4, <2>5, <2>6
      <3> QED
        BY <2>1, <2>5, <2>6, <3>1 DEF Fits, BehindPen
    <2>9. ASSUME NEW g \in glyphs
          PROVE  Fits(g) /\ BehindPen(g, x_offset', y_offset') /\ Apart(g, h) /\ Apart(h, g)
      <3>1. Fits(g) /\ BehindPen(g, x_offset, y_offset)
        BY DEF TextInv
      <3>2. y_offset' >= y_offset + 15 \/ (y_offset' = y_offset /\ x_offset' >= x_offset)
        BY <1>0, <2>1, <2>4, <2>5
      <3>3. BehindPen(g, x_offset', y_offset')
        BY <1>0, <2>7, <3>1, <3>2, PenMoves
      <3>4. Apart(g, h) /\ Apart(h, g)
        <4>1. PICK p, q, r : p = g.x /\ q = g.y /\ r = g.w /\ p \in Nat /\ q \in Nat /\ r \in Nat
          BY <3>1 DEF Fits
        <4>2. q + 15 <= y_offset \/ (q = y_offset /\ p + r + 2 <= x_offset)
          BY <3>1, <4>1 DEF BehindPen
        <4>3. q + 14 <= y \/ p + r <= x
          BY <1>0, <2>5, <4>1, <4>2
        <4> QED
          BY <2>6, <4>1, <4>3 DEF Apart
      <3> QED
        BY <3>1, <3>3, <3>4
    <2>10. \A g, k \in glyphs : g # k => Apart(g, k)
      BY DEF TextInv
    <2> QED
      BY <2>4, <2>7, <2>8, <2>9, <2>10 DEF TextInv
  <1>5. CASE TextNext
    BY <1>2, <1>3, <1>4, <1>5 DEF TextNext, PrintChar
  <1>6. CASE ShapeNext
    <2>1. UNCHANGED <<x_offset, y_offset, glyphs>>
      BY <1>6 DEF ShapeNext, DrawRectangle, DrawRectangleNoBorder, DrawLine, DrawLineBresenham,
                  DrawText, ResizeChar
    <2> QED
      BY <1>1, <2>1
  <1>7. CASE UNCHANGED displayVars
    BY <1>1, <1>7 DEF displayVars
  <1> QED
    BY <1>5, <1>6, <1>7

-----------------------------------------------------------------------------
(***************************************************************************)
(* Shapes.                                                                 *)
(***************************************************************************)

\* A shape covers what it should.
Covers(s) ==
    LET area == Box(s.x, s.y, s.w, s.h)
    IN  /\ s.kind = "area" => s.pixels = area
        /\ s.kind = "border" => s.pixels = area \ Inside(s.x, s.y, s.w, s.h)
        /\ s.kind = "sample" => s.pixels \subseteq area
        /\ s.kind = "line" =>
              /\ Cardinality(s.pixels) = Distance(s.x, s.w) + 1
              /\ \A p \in s.pixels : Distance(p[2], s.y) <= Distance(p[1], s.x)
        /\ s.kind = "text" =>
              /\ s.pixels \subseteq area
              /\ s.h \in {c * GlyphHeight : c \in Scales} =>
                    <<s.x + s.w - 1, s.y>> \in s.pixels
        /\ s.kind \notin {"area", "border", "sample", "line", "text"} => s.pixels = {}

LEMMA CoversAll == ASSUME Covers(shape) PROVE ShapesCoverTheirAreas
  BY DEF Covers, ShapesCoverTheirAreas

LEMMA BoxIs ==
  ASSUME NEW x \in Nat, NEW y \in Nat, NEW w \in Nat, NEW h \in Nat
  PROVE  \A p : p \in Box(x, y, w, h)
                  <=> \E a, b \in Int : /\ p = <<a, b>> /\ x <= a /\ a < x + w
                                        /\ y <= b /\ b < y + h
  <1>1. \A a : a \in x .. x + w - 1 <=> a \in Int /\ x <= a /\ a < x + w
    OBVIOUS
  <1>2. \A b : b \in y .. y + h - 1 <=> b \in Int /\ y <= b /\ b < y + h
    OBVIOUS
  <1>3. \A p : p \in Box(x, y, w, h)
                 <=> \E a \in x .. x + w - 1, b \in y .. y + h - 1 : p = <<a, b>>
    BY DEF Box
  <1> QED
    BY <1>1, <1>2, <1>3

LEMMA InsideIs ==
  ASSUME NEW x \in Nat, NEW y \in Nat, NEW w \in Nat, NEW h \in Nat
  PROVE  \A p : p \in Inside(x, y, w, h)
                  <=> \E a, b \in Int : /\ p = <<a, b>> /\ x + 1 <= a /\ a < x + w - 1
                                        /\ y + 1 <= b /\ b < y + h - 1
  <1>1. ASSUME NEW p, p \in Inside(x, y, w, h)
        PROVE  \E a, b \in Int : /\ p = <<a, b>> /\ x + 1 <= a /\ a < x + w - 1
                                 /\ y + 1 <= b /\ b < y + h - 1
    <2>1. PICK j \in 1 .. w - 2, i \in 1 .. h - 2 : p = <<x + j, y + i>>
      BY <1>1 DEF Inside
    <2>2. /\ x + j \in Int /\ y + i \in Int /\ x + 1 <= x + j /\ x + j < x + w - 1
          /\ y + 1 <= y + i /\ y + i < y + h - 1
      OBVIOUS
    <2> QED
      BY <2>1, <2>2
  <1>2. ASSUME NEW a \in Int, NEW b \in Int, x + 1 <= a, a < x + w - 1, y + 1 <= b, b < y + h - 1
        PROVE  <<a, b>> \in Inside(x, y, w, h)
    <2>1. PICK j, i : j = a - x /\ i = b - y
      OBVIOUS
    <2>2. j \in 1 .. w - 2 /\ i \in 1 .. h - 2 /\ a = x + j /\ b = y + i
      BY <1>2, <2>1
    <2> QED
      BY <2>2 DEF Inside
  <1> QED
    BY <1>1, <1>2

LEMMA BorderIs ==
  ASSUME NEW x \in Nat, NEW y \in Nat, NEW w \in Nat, NEW h \in Nat, w > 0, h > 0
  PROVE  \A p : p \in Border(x, y, w, h)
                  <=> \E a, b \in Int : /\ p = <<a, b>> /\ x <= a /\ a < x + w
                                        /\ y <= b /\ b < y + h
                                        /\ a = x \/ a = x + w - 1 \/ b = y \/ b = y + h - 1
  <1>1. \A p : p \in Border(x, y, w, h)
                 <=> \/ \E i \in 0 .. w - 1 : p = <<x + i, y>> \/ p = <<x + i, y + h - 1>>
                     \/ \E i \in 0 .. h - 1 : p = <<x, y + i>> \/ p = <<x + w - 1, y + i>>
    BY DEF Border
  <1>2. ASSUME NEW p, p \in Border(x, y, w, h)
        PROVE  \E a, b \in Int : /\ p = <<a, b>> /\ x <= a /\ a < x + w
                                 /\ y <= b /\ b < y + h
                                 /\ a = x \/ a = x + w - 1 \/ b = y \/ b = y + h - 1
    <2>1. ASSUME NEW i \in 0 .. w - 1, p = <<x + i, y>> \/ p = <<x + i, y + h - 1>>
          PROVE  \E a, b \in Int : /\ p = <<a, b>> /\ x <= a /\ a < x + w
                                   /\ y <= b /\ b < y + h
                                   /\ a = x \/ a = x + w - 1 \/ b = y \/ b = y + h - 1
      <3>1. /\ x + i \in Int /\ x <= x + i /\ x + i < x + w
            /\ y + h - 1 \in Int /\ y <= y + h - 1 /\ y + h - 1 < y + h /\ y < y + h
        OBVIOUS
      <3> QED
        BY <2>1, <3>1
    <2>2. ASSUME NEW i \in 0 .. h - 1, p = <<x, y + i>> \/ p = <<x + w - 1, y + i>>
          PROVE  \E a, b \in Int : /\ p = <<a, b>> /\ x <= a /\ a < x + w
                                   /\ y <= b /\ b < y + h
                                   /\ a = x \/ a = x + w - 1 \/ b = y \/ b = y + h - 1
      <3>1. /\ y + i \in Int /\ y <= y + i /\ y + i < y + h
            /\ x + w - 1 \in Int /\ x <= x + w - 1 /\ x + w - 1 < x + w /\ x < x + w
        OBVIOUS
      <3> QED
        BY <2>2, <3>1
    <2> QED
      BY <1>1, <1>2, <2>1, <2>2
  <1>3. ASSUME NEW a \in Int, NEW b \in Int, x <= a, a < x + w, y <= b, b < y + h,
               a = x \/ a = x + w - 1 \/ b = y \/ b = y + h - 1
        PROVE  <<a, b>> \in Border(x, y, w, h)
    <2>1. PICK i, j : i = a - x /\ j = b - y
      OBVIOUS
    <2>2. i \in 0 .. w - 1 /\ j \in 0 .. h - 1 /\ a = x + i /\ b = y + j
      BY <1>3, <2>1
    <2>3. CASE b = y \/ b = y + h - 1
      BY <1>1, <2>2, <2>3
    <2>4. CASE a = x \/ a = x + w - 1
      BY <1>1, <2>2, <2>4
    <2> QED
      BY <1>3, <2>3, <2>4
  <1> QED
    BY <1>2, <1>3

LEMMA RectangleIs ==
  ASSUME NEW x \in Nat, NEW y \in Nat, NEW w \in Nat, NEW h \in Nat, w > 0, h > 0
  PROVE  /\ Border(x, y, w, h) \cup Inside(x, y, w, h) = Box(x, y, w, h)
         /\ Border(x, y, w, h) = Box(x, y, w, h) \ Inside(x, y, w, h)
  <1> DEFINE B == Box(x, y, w, h)
             E == Border(x, y, w, h)
             I == Inside(x, y, w, h)
  <1>1. \A p : p \in B <=> \E a, b \in Int : /\ p = <<a, b>> /\ x <= a /\ a < x + w
                                             /\ y <= b /\ b < y + h
    BY BoxIs
  <1>2. \A p : p \in I <=> \E a, b \in Int : /\ p = <<a, b>> /\ x + 1 <= a /\ a < x + w - 1
                                             /\ y + 1 <= b /\ b < y + h - 1
    BY InsideIs
  <1>3. \A p : p \in E <=> \E a, b \in Int :
                              /\ p = <<a, b>> /\ x <= a /\ a < x + w /\ y <= b /\ b < y + h
                              /\ a = x \/ a = x + w - 1 \/ b = y \/ b = y + h - 1
    BY BorderIs
  <1> HIDE DEF B, E, I
  <1>4. ASSUME NEW a \in Int, NEW b \in Int
        PROVE  /\ <<a, b>> \in B <=> x <= a /\ a < x + w /\ y <= b /\ b < y + h
               /\ <<a, b>> \in I
                    <=> x + 1 <= a /\ a < x + w - 1 /\ y + 1 <= b /\ b < y + h - 1
               /\ <<a, b>> \in E
                    <=> /\ x <= a /\ a < x + w /\ y <= b /\ b < y + h
                        /\ a = x \/ a = x + w - 1 \/ b = y \/ b = y + h - 1
    BY <1>1, <1>2, <1>3
  <1>5. ASSUME NEW a \in Int, NEW b \in Int
        PROVE  /\ <<a, b>> \in B <=> <<a, b>> \in E \/ <<a, b>> \in I
               /\ ~(<<a, b>> \in E /\ <<a, b>> \in I)
    BY <1>4
  <1>6. \A p : p \in B \/ p \in I \/ p \in E => \E a, b \in Int : p = <<a, b>>
    BY <1>1, <1>2, <1>3
  <1>7. \A p : (p \in B <=> p \in E \/ p \in I) /\ ~(p \in E /\ p \in I)
    BY <1>5, <1>6
  <1> QED
    BY <1>7 DEF B, E, I

LEMMA RectangleCovers ==
  ASSUME NEW x \in ShapeSizes, NEW y \in ShapeSizes, NEW w \in ShapeSizes, NEW h \in ShapeSizes,
         NEW fill \in BOOLEAN, DrawRectangle(x, y, w, h, fill)
  PROVE  Covers(shape')
  <1>1. x \in Nat /\ y \in Nat /\ w \in Nat /\ h \in Nat
    BY DisplayAssumption
  <1>2. w > 0 /\ h > 0
    BY DEF DrawRectangle
  <1>3. /\ Border(x, y, w, h) \cup Inside(x, y, w, h) = Box(x, y, w, h)
        /\ Border(x, y, w, h) = Box(x, y, w, h) \ Inside(x, y, w, h)
    BY <1>1, <1>2, RectangleIs
  <1>4. CASE fill
    <2>1. /\ shape'.kind = "area" /\ shape'.x = x /\ shape'.y = y /\ shape'.w = w /\ shape'.h = h
          /\ shape'.pixels = Border(x, y, w, h) \cup Inside(x, y, w, h)
      BY <1>4 DEF DrawRectangle
    <2> QED
      BY <1>3, <2>1 DEF Covers
  <1>5. CASE ~fill
    <2>1. /\ shape'.kind = "border" /\ shape'.x = x /\ shape'.y = y /\ shape'.w = w /\ shape'.h = h
          /\ shape'.pixels = Border(x, y, w, h)
      BY <1>5 DEF DrawRectangle
    <2> QED
      BY <1>3, <2>1 DEF Covers
  <1> QED
    BY <1>4, <1>5

LEMMA NoBorderCovers ==
  ASSUME NEW x \in ShapeSizes, NEW y \in ShapeSizes, NEW w \in ShapeSizes, NEW h \in ShapeSizes,
         DrawRectangleNoBorder(x, y, w, h)
  PROVE  Covers(shape')
  <1>1. x \in Nat /\ y \in Nat /\ w \in Nat /\ h \in Nat
    BY DisplayAssumption
  <1> DEFINE P == {<<x + j, y + i>> : j \in 0 .. w - 1, i \in 0 .. h - 1}
  <1>2. \A p : p \in P <=> \E j \in 0 .. w - 1, i \in 0 .. h - 1 : p = <<x + j, y + i>>
    OBVIOUS
  <1>7. /\ shape'.kind = "area" /\ shape'.x = x /\ shape'.y = y /\ shape'.w = w /\ shape'.h = h
        /\ shape'.pixels = P
    BY DEF DrawRectangleNoBorder
  <1> HIDE DEF P
  <1>3. \A p : p \in Box(x, y, w, h)
                  <=> \E a, b \in Int : /\ p = <<a, b>> /\ x <= a /\ a < x + w
                                        /\ y <= b /\ b < y + h
    BY <1>1, BoxIs
  <1>4. ASSUME NEW p, p \in P PROVE p \in Box(x, y, w, h)
    <2>1. PICK j \in 0 .. w - 1, i \in 0 .. h - 1 : p = <<x + j, y + i>>
      BY <1>2, <1>4
    <2>2. /\ x + j \in Int /\ y + i \in Int /\ x <= x + j /\ x + j < x + w
          /\ y <= y + i /\ y + i < y + h
      BY <1>1
    <2> QED
      BY <1>3, <2>1, <2>2
  <1>5. ASSUME NEW a \in Int, NEW b \in Int, x <= a, a < x + w, y <= b, b < y + h
        PROVE  <<a, b>> \in P
    <2>1. PICK j, i : j = a - x /\ i = b - y
      OBVIOUS
    <2>2. j \in 0 .. w - 1 /\ i \in 0 .. h - 1 /\ a = x + j /\ b = y + i
      BY <1>1, <1>5, <2>1
    <2> QED
      BY <1>2, <2>2
  <1>6. P = Box(x, y, w, h)
    BY <1>3, <1>4, <1>5
  <1> QED
    BY <1>6, <1>7 DEF Covers

LEMMA LineCovers ==
  ASSUME NEW x \in ShapeSizes, NEW y \in ShapeSizes, NEW length \in ShapeSizes,
         NEW vertical \in BOOLEAN, DrawLine(x, y, length, vertical)
  PROVE  Covers(shape')
  <1>1. x \in Nat /\ y \in Nat /\ length \in Nat
    BY DisplayAssumption
  <1>2. PICK w, h : /\ w = IF vertical THEN length ELSE 1
                    /\ h = IF vertical THEN 1 ELSE length
    OBVIOUS
  <1>3. PICK P : P = {IF vertical THEN <<x + i, y>> ELSE <<x, y + i>> : i \in 0 .. length - 1}
    BY Zenon
  <1>4. w \in Nat /\ h \in Nat
    BY <1>1, <1>2
  <1>5. \A p : p \in Box(x, y, w, h)
                  <=> \E a, b \in Int : /\ p = <<a, b>> /\ x <= a /\ a < x + w
                                        /\ y <= b /\ b < y + h
    BY <1>1, <1>4, BoxIs
  <1>6. \A p : p \in P
               <=> \E i \in 0 .. length - 1 : p = IF vertical THEN <<x + i, y>> ELSE <<x, y + i>>
    BY <1>3
  <1>9. /\ shape'.kind = "area" /\ shape'.x = x /\ shape'.y = y /\ shape'.w = w /\ shape'.h = h
        /\ shape'.pixels = P
    BY <1>2, <1>3 DEF DrawLine
  <1>a. P = Box(x, y, w, h) => Covers(shape')
    BY <1>9 DEF Covers
  <1>7. CASE vertical
    <2>1. w = length /\ h = 1 /\ \A p : p \in P <=> \E i \in 0 .. length - 1 : p = <<x + i, y>>
      BY <1>2, <1>6, <1>7
    <2>2. ASSUME NEW i \in 0 .. length - 1 PROVE <<x + i, y>> \in Box(x, y, w, h)
      <3>1. x + i \in Int /\ x <= x + i /\ x + i < x + w /\ y <= y /\ y < y + h
        BY <1>1, <2>1
      <3> QED
        BY <1>1, <1>5, <3>1
    <2>3. ASSUME NEW a \in Int, NEW b \in Int, x <= a, a < x + w, y <= b, b < y + h
          PROVE  <<a, b>> \in P
      <3>1. PICK i : i = a - x
        OBVIOUS
      <3>2. i \in 0 .. length - 1 /\ a = x + i /\ b = y
        BY <1>1, <2>1, <2>3, <3>1
      <3> QED
        BY <2>1, <3>2
    <2> QED
      BY <1>5, <1>a, <2>1, <2>2, <2>3
  <1>8. CASE ~vertical
    <2>1. w = 1 /\ h = length /\ \A p : p \in P <=> \E i \in 0 .. length - 1 : p = <<x, y + i>>
      BY <1>2, <1>6, <1>8
    <2>2. ASSUME NEW i \in 0 .. length - 1 PROVE <<x, y + i>> \in Box(x, y, w, h)
      <3>1. y + i \in Int /\ y <= y + i /\ y + i < y + h /\ x <= x /\ x < x + w
        BY <1>1, <2>1
      <3> QED
        BY <1>1, <1>5, <3>1
    <2>3. ASSUME NEW a \in Int, NEW b \in Int, x <= a, a < x + w, y <= b, b < y + h
          PROVE  <<a, b>> \in P
      <3>1. PICK i : i = b - y
        OBVIOUS
      <3>2. i \in 0 .. length - 1 /\ b = y + i /\ a = x
        BY <1>1, <2>1, <2>3, <3>1
      <3> QED
        BY <2>1, <3>2
    <2> QED
      BY <1>5, <1>a, <2>1, <2>2, <2>3
  <1> QED
    BY <1>7, <1>8


\* A pixel of a resized glyph is one of the glyph's.
LEMMA Sampled ==
  ASSUME NEW n \in Nat, NEW w \in Nat, w > 0, NEW j \in 0 .. n - 1
  PROVE  (j * w) \div n \in 0 .. w - 1
  <1>1. j \in Nat /\ n > 0 /\ j <= n - 1
    OBVIOUS
  <1>2. PICK a : a = j * w /\ a \in Nat
    BY <1>1, SMT
  <1>3. PICK b : b = n * w /\ b \in Nat
    BY SMT
  <1>4. a <= b - w
    <2>1. j * w <= (n - 1) * w
      BY <1>1, SMT
    <2>2. (n - 1) * w = n * w - w
      BY SMT
    <2> QED
      BY <1>2, <1>3, <2>1, <2>2
  <1>5. PICK q, r : q = a \div n /\ q \in Int /\ r \in 0 .. n - 1 /\ a = n * q + r
    <2>1. a = n * (a \div n) + (a % n) /\ a \div n \in Int /\ a % n \in 0 .. n - 1
      BY <1>1, <1>2, SMT
    <2> QED
      BY <2>1
  <1>6. q >= 0
    <2>1. SUFFICES ASSUME q <= -1 PROVE FALSE
      BY <1>5
    <2>2. n * q <= n * (-1)
      BY <1>1, <1>5, <2>1, SMT
    <2>3. n * q <= -n
      BY <2>2
    <2>4. PICK d \in Int : d = n * q
      BY <1>5
    <2> QED
      BY <1>2, <1>5, <2>3, <2>4
  <1>7. q < w
    <2>1. SUFFICES ASSUME q >= w PROVE FALSE
      BY <1>5
    <2>2. n * q >= n * w
      BY <1>1, <1>5, <2>1, SMT
    <2>3. PICK d \in Int : d = n * q
      BY <1>5
    <2> QED
      BY <1>2, <1>3, <1>4, <1>5, <2>2, <2>3
  <1> QED
    BY <1>2, <1>5, <1>6, <1>7

LEMMA ResizeCovers ==
  ASSUME NEW c \in Chars, NEW width \in ShapeSizes, NEW height \in ShapeSizes,
         ResizeChar(c, width, height)
  PROVE  Covers(shape')
  <1>1. width \in Nat /\ height \in Nat /\ GlyphHeight = 14
    BY DisplayAssumption
  <1>2. PICK w : w = LoadChar(c) /\ w \in Nat /\ w > 0
    BY GlyphFits
  <1>3. PICK P : P = shape'.pixels
    OBVIOUS
  <1>4. /\ shape'.kind = "sample" /\ shape'.x = 0 /\ shape'.y = 0 /\ shape'.w = w /\ shape'.h = 14
        /\ P = {<<(j * w) \div width, (i * 14) \div height>> :
                    j \in 0 .. width - 1, i \in 0 .. height - 1}
    BY <1>1, <1>2, <1>3 DEF ResizeChar
  <1>5. ASSUME NEW p, p \in P PROVE p \in Box(0, 0, w, 14)
    <2>1. PICK j \in 0 .. width - 1, i \in 0 .. height - 1 :
            p = <<(j * w) \div width, (i * 14) \div height>>
      BY <1>4, <1>5
    <2>2. (j * w) \div width \in 0 .. w - 1
      BY <1>1, <1>2, Sampled
    <2>3. (i * 14) \div height \in 0 .. 14 - 1
      BY <1>1, Sampled
    <2>4. Box(0, 0, w, 14) = (0 .. w - 1) \X (0 .. 14 - 1)
      <3>1. 0 + w - 1 = w - 1 /\ 0 + 14 - 1 = 14 - 1
        BY <1>2
      <3> QED
        BY <3>1 DEF Box
    <2> QED
      BY <2>1, <2>2, <2>3, <2>4
  <1> QED
    BY <1>3, <1>4, <1>5 DEF Covers

-----------------------------------------------------------------------------
(***************************************************************************)
(* A line goes column by column.                                           *)
(***************************************************************************)

\* The function u gives the points of a line that moves by s.
LineRuns(u, b, dx, dy, y1, s) ==
    u = [i \in 0 .. b |->
            IF i = 0 THEN [error |-> 0, y |-> y1] ELSE NextColumn(u[i - 1], dx, dy, s)]

LEMMA LineExists ==
  ASSUME NEW b \in Nat, NEW dx, NEW dy, NEW y1, NEW s PROVE \E u : LineRuns(u, b, dx, dy, y1, s)
  <1> DEFINE J(w, i) == IF i = 0 THEN [error |-> 0, y |-> y1] ELSE NextColumn(w[i - 1], dx, dy, s)
             S == {m \in Nat : ~ \E u : LineRuns(u, m, dx, dy, y1, s)}
  <1>a. \A u, m : LineRuns(u, m, dx, dy, y1, s) <=> u = [i \in 0 .. m |-> J(u, i)]
    BY DEF LineRuns
  <1>b. \A u, w, i : (i # 0 => u[i - 1] = w[i - 1]) => J(u, i) = J(w, i)
    OBVIOUS
  <1> HIDE DEF J
  <1> SUFFICES ASSUME S # {} PROVE FALSE
    OBVIOUS
  <1>0. S \in SUBSET Nat
    OBVIOUS
  <1>1. PICK m \in S : \A y \in S : m <= y
    BY <1>0, LeastNat
  <1>2. m \in Nat /\ ~ \E u : LineRuns(u, m, dx, dy, y1, s)
    OBVIOUS
  <1>3. CASE m = 0
    <2> DEFINE u == [i \in 0 .. 0 |-> J(0, 0)]
    <2>1. \A i \in 0 .. 0 : i = 0 /\ J(u, i) = J(0, 0)
      BY <1>b
    <2>2. u = [i \in 0 .. 0 |-> J(u, i)]
      BY <2>1
    <2> QED
      BY <1>2, <1>3, <1>a, <2>2
  <1>4. CASE m # 0
    <2>1. m - 1 \in Nat /\ m - 1 \notin S
      BY <1>1, <1>2, <1>4
    <2>2. PICK u : LineRuns(u, m - 1, dx, dy, y1, s)
      BY <2>1
    <2> DEFINE v == [i \in 0 .. m |-> IF i = m THEN J(u, m) ELSE u[i]]
    <2>3. \A i \in 0 .. m - 1 : u[i] = J(u, i)
      BY <1>a, <2>2
    <2>4. ASSUME NEW i \in 0 .. m PROVE v[i] = J(v, i)
      <3>1. i # 0 => i - 1 \in 0 .. m /\ i - 1 # m
        BY <1>2
      <3>2. i # 0 => v[i - 1] = u[i - 1]
        BY <3>1
      <3>3. v[i] = IF i = m THEN J(u, m) ELSE u[i]
        OBVIOUS
      <3> HIDE DEF v
      <3>4. J(v, i) = J(u, i)
        BY <1>b, <3>2
      <3>5. CASE i = m
        BY <3>3, <3>4, <3>5
      <3>6. CASE i # m
        <4>1. i \in 0 .. m - 1
          BY <1>2, <3>6
        <4> QED
          BY <2>3, <3>3, <3>4, <3>6, <4>1
      <3> QED
        BY <3>5, <3>6
    <2>5. v = [i \in 0 .. m |-> v[i]]
      OBVIOUS
    <2> HIDE DEF v
    <2>6. v = [i \in 0 .. m |-> J(v, i)]
      BY <2>4, <2>5
    <2> QED
      BY <1>2, <1>a, <2>6
  <1> QED
    BY <1>3, <1>4

\* From column to column a line goes one row further at most.
LEMMA LineSlopes ==
  ASSUME NEW u, NEW b \in Nat, NEW dx, NEW dy, NEW y1 \in Nat, NEW s \in {-1, 1},
         LineRuns(u, b, dx, dy, y1, s), NEW i \in 0 .. b
  PROVE  u[i].y \in Int /\ Distance(u[i].y, y1) <= i
  <1> DEFINE Near(j) == u[j].y \in Int /\ u[j].y <= y1 + j /\ y1 <= u[j].y + j
             S == {j \in Nat : j \in 0 .. b /\ ~Near(j)}
  <1>1. u[0].y = y1
    BY DEF LineRuns
  <1>2. ASSUME NEW j \in 1 .. b
        PROVE  u[j].y = u[j - 1].y + s \/ u[j].y = u[j - 1].y + 0
    <2>1. u[j] = NextColumn(u[j - 1], dx, dy, s)
      BY DEF LineRuns
    <2> QED
      BY <2>1 DEF NextColumn
  <1>3. S = {}
    <2> SUFFICES ASSUME S # {} PROVE FALSE
      OBVIOUS
    <2>0. S \in SUBSET Nat
      OBVIOUS
    <2>1. PICK m \in S : \A y \in S : m <= y
      BY <2>0, LeastNat
    <2>2. m \in Nat /\ m \in 0 .. b /\ ~Near(m)
      OBVIOUS
    <2>3. m # 0
      BY <1>1, <2>2
    <2>4. m - 1 \in Nat /\ m - 1 \in 0 .. b /\ m - 1 \notin S /\ m \in 1 .. b
      BY <2>1, <2>2, <2>3
    <2>5. Near(m - 1)
      BY <2>4
    <2>6. Near(m)
      BY <1>2, <2>4, <2>5
    <2> QED
      BY <2>2, <2>6
  <1>4. Near(i)
    <2>1. i \in Nat /\ i \notin S
      BY <1>3
    <2> QED
      BY <2>1
  <1> QED
    BY <1>4 DEF Distance

LEMMA BresenhamIs ==
  ASSUME NEW x1, NEW y1, NEW x2, NEW y2, Distance(x1, x2) \in Nat, DrawLineBresenham(x1, y1, x2, y2)
  PROVE  \E u : /\ LineRuns(u, Distance(x1, x2), Distance(x1, x2), Distance(y1, y2), y1, Step(y1, y2))
                /\ shape'.kind = "line" /\ shape'.x = x1 /\ shape'.y = y1 /\ shape'.w = x2
                /\ shape'.pixels
                     = {<<x1 + i * Step(x1, x2), u[i].y>> : i \in 0 .. Distance(x1, x2)}
  <1> DEFINE u == CHOOSE v : v = [i \in 0 .. Distance(x1, x2) |->
                    IF i = 0 THEN [error |-> 0, y |-> y1]
                    ELSE NextColumn(v[i - 1], Distance(x1, x2), Distance(y1, y2), Step(y1, y2))]
  <1>1. /\ shape'.kind = "line" /\ shape'.x = x1 /\ shape'.y = y1 /\ shape'.w = x2
        /\ shape'.pixels = {<<x1 + i * Step(x1, x2), u[i].y>> : i \in 0 .. Distance(x1, x2)}
    BY DEF DrawLineBresenham
  <1>2. PICK v : LineRuns(v, Distance(x1, x2), Distance(x1, x2), Distance(y1, y2), y1, Step(y1, y2))
    BY LineExists
  <1>3. LineRuns(u, Distance(x1, x2), Distance(x1, x2), Distance(y1, y2), y1, Step(y1, y2))
    BY <1>2 DEF LineRuns
  <1> HIDE DEF u
  <1> QED
    BY <1>1, <1>3

LEMMA BresenhamCovers ==
  ASSUME NEW x1 \in ShapeSizes, NEW y1 \in ShapeSizes, NEW x2 \in ShapeSizes, NEW y2 \in ShapeSizes,
         DrawLineBresenham(x1, y1, x2, y2)
  PROVE  Covers(shape')
  <1>1. x1 \in Nat /\ y1 \in Nat /\ x2 \in Nat /\ y2 \in Nat
    BY DisplayAssumption
  <1>2. PICK d : d = Distance(x1, x2) /\ d \in Nat
    BY <1>1 DEF Distance
  <1>3. PICK s, t : s = Step(y1, y2) /\ s \in {-1, 1} /\ t = Step(x1, x2) /\ t \in {-1, 1}
    BY DEF Step
  <1>4. PICK u : /\ LineRuns(u, d, d, Distance(y1, y2), y1, s)
                 /\ shape'.kind = "line" /\ shape'.x = x1 /\ shape'.y = y1 /\ shape'.w = x2
                 /\ shape'.pixels = {<<x1 + i * t, u[i].y>> : i \in 0 .. d}
    BY <1>2, <1>3, BresenhamIs
  <1>5. ASSUME NEW i \in 0 .. d
        PROVE  /\ u[i].y \in Int /\ Distance(u[i].y, y1) <= i
               /\ x1 + i * t \in Int /\ Distance(x1 + i * t, x1) = i
    <2>1. u[i].y \in Int /\ Distance(u[i].y, y1) <= i
      BY <1>1, <1>2, <1>3, <1>4, LineSlopes
    <2>2. i \in Nat
      BY <1>2
    <2>3. x1 + i * t \in Int /\ Distance(x1 + i * t, x1) = i
      <3>1. CASE t = 1
        BY <1>1, <2>2, <3>1 DEF Distance
      <3>2. CASE t = -1
        BY <1>1, <2>2, <3>2 DEF Distance
      <3> QED
        BY <1>3, <3>1, <3>2
    <2> QED
      BY <2>1, <2>3
  <1> DEFINE f == [i \in 0 .. d |-> <<x1 + i * t, u[i].y>>]
             P == {<<x1 + i * t, u[i].y>> : i \in 0 .. d}
  <1>6. \A p : p \in P <=> \E i \in 0 .. d : p = <<x1 + i * t, u[i].y>>
    OBVIOUS
  <1>7. shape'.pixels = P
    BY <1>4
  <1>8. f = [i \in 0 .. d |-> f[i]] /\ \A i \in 0 .. d : f[i] = <<x1 + i * t, u[i].y>>
    OBVIOUS
  <1> HIDE DEF f, P
  <1>9. \A i, j \in 0 .. d : f[i] = f[j] => i = j
    <2>1. ASSUME NEW i \in 0 .. d, NEW j \in 0 .. d, f[i] = f[j] PROVE i = j
      <3>1. x1 + i * t = x1 + j * t
        BY <1>8, <2>1
      <3> QED
        BY <1>5, <3>1
    <2> QED
      BY <2>1
  <1>10. f \in Bijection(0 .. d, P)
    <2>1. f \in [0 .. d -> P]
      BY <1>6, <1>8
    <2>2. \A p \in P : \E i \in 0 .. d : f[i] = p
      BY <1>6, <1>8
    <2>3. DOMAIN f = 0 .. d
      BY <2>1
    <2>4. IsInjective(f)
      BY <1>9, <2>3 DEF IsInjective
    <2> QED
      BY <2>1, <2>2, <2>4 DEF Bijection, Injection, Surjection
  <1>11. IsFiniteSet(0 .. d) /\ Cardinality(0 .. d) = d + 1
    BY <1>2, FS_Interval
  <1>12. Cardinality(P) = d + 1
    BY <1>10, <1>11, FS_Bijection DEF ExistsBijection
  <1>13. \A p \in P : Distance(p[2], y1) <= Distance(p[1], x1)
    BY <1>5, <1>6
  <1> QED
    BY <1>2, <1>4, <1>7, <1>12, <1>13 DEF Covers

(***************************************************************************)
(* Drawn text: the pen goes to the right, or to the start of a new row.    *)
(***************************************************************************)
LEMMA TextHasTwo ==
  ASSUME NEW text \in [1 .. 2 -> Chars]
  PROVE  /\ Len(text) = 2 /\ DOMAIN text = 1 .. 2 /\ text[1] \in Chars /\ text[2] \in Chars
  <1>1. text \in Seq(Chars)
    BY SeqDef
  <1>2. DOMAIN text = 1 .. 2
    OBVIOUS
  <1>3. Len(text) \in Nat /\ DOMAIN text = 1 .. Len(text)
    BY <1>1, LenProperties
  <1>4. 2 \in 1 .. Len(text) /\ Len(text) + 1 \notin 1 .. Len(text)
    <2>1. 2 \in DOMAIN text
      BY <1>2
    <2> QED
      BY <1>3, <2>1
  <1>5. Len(text) = 2
    <2>1. CASE Len(text) <= 2
      BY <1>3, <1>4, <2>1
    <2>2. CASE Len(text) > 2
      <3>1. Len(text) \in DOMAIN text
        BY <1>3, <2>2
      <3> QED
        BY <1>2, <2>2, <3>1
    <2> QED
      BY <1>3, <2>1, <2>2
  <1> QED
    BY <1>2, <1>5

LEMMA WidthIs ==
  ASSUME NEW text \in [1 .. 2 -> Chars], NEW scale,
         NEW a, NEW b, a = scale * LoadChar(text[1]), b = scale * LoadChar(text[2]),
         a \in Int, b \in Int
  PROVE  ComputeTextWidth(text, scale) = a + b + 4
  <1> DEFINE sum == CHOOSE v : v = [i \in 0 .. Len(text) |->
                        IF i = 0 THEN 0 ELSE v[i - 1] + 2 + scale * LoadChar(text[i])]
             w == [i \in 0 .. 2 |-> IF i = 0 THEN 0 ELSE IF i = 1 THEN 0 + 2 + a ELSE 0 + 2 + a + 2 + b]
             N(v) == [i \in 0 .. 2 |-> IF i = 0 THEN 0 ELSE v[i - 1] + 2 + scale * LoadChar(text[i])]
  <1>1. ComputeTextWidth(text, scale) = sum[2]
    BY TextHasTwo DEF ComputeTextWidth
  <1>2. w[0] = 0 /\ w[1] = 0 + 2 + a /\ w[2] = 0 + 2 + a + 2 + b
    OBVIOUS
  <1>3. N(w)[0] = 0 /\ N(w)[1] = w[0] + 2 + a /\ N(w)[2] = w[1] + 2 + b
    OBVIOUS
  <1>4. w = [i \in 0 .. 2 |-> w[i]] /\ N(w) = [i \in 0 .. 2 |-> N(w)[i]]
    OBVIOUS
  <1>5. 0 .. 2 = {0, 1, 2}
    OBVIOUS
  <1>6. \E v : v = N(v)
    <2> HIDE DEF w, N
    <2> QED
      BY <1>2, <1>3, <1>4, <1>5
  <1>7. sum = N(sum)
    BY <1>6, TextHasTwo
  <1>8. sum[0] = 0 /\ sum[1] = sum[0] + 2 + a /\ sum[2] = sum[1] + 2 + b
    <2> HIDE DEF sum
    <2> QED
      BY <1>7
  <1> HIDE DEF sum
  <1> QED
    BY <1>1, <1>8

LEMMA TextIs ==
  ASSUME NEW x, NEW y, NEW text \in [1 .. 2 -> Chars], NEW scale, DrawText(x, y, text, scale)
  PROVE  \E p, q, r :
            /\ p = [x |-> 0, y |-> 0] /\ q = Pen(text, scale, p, 1) /\ r = Pen(text, scale, q, 2)
            /\ shape'.kind = "text" /\ shape'.x = x /\ shape'.y = y
            /\ shape'.w = ComputeTextWidth(text, scale) - 2
            /\ shape'.h = r.y + scale * GlyphHeight
            /\ \A d : d \in shape'.pixels <=>
                  \/ /\ text[1] # NewLine
                     /\ d \in Box(x + p.x, y + p.y, scale * LoadChar(text[1]), scale * GlyphHeight)
                  \/ /\ text[2] # NewLine
                     /\ d \in Box(x + q.x, y + q.y, scale * LoadChar(text[2]), scale * GlyphHeight)
  <1> DEFINE pen == CHOOSE v : v = [i \in 0 .. Len(text) |->
                        IF i = 0 THEN [x |-> 0, y |-> 0] ELSE Pen(text, scale, v[i - 1], i)]
             N(v) == [i \in 0 .. 2 |-> IF i = 0 THEN [x |-> 0, y |-> 0] ELSE Pen(text, scale, v[i - 1], i)]
             p == [x |-> 0, y |-> 0]
             q == Pen(text, scale, p, 1)
             r == Pen(text, scale, q, 2)
             w == [i \in 0 .. 2 |-> IF i = 0 THEN p ELSE IF i = 1 THEN q ELSE r]
             Place(i) == Box(x + pen[i - 1].x, y + pen[i - 1].y,
                             scale * LoadChar(text[i]), scale * GlyphHeight)
  <1>1. /\ shape'.kind = "text" /\ shape'.x = x /\ shape'.y = y
        /\ shape'.w = ComputeTextWidth(text, scale) - 2
        /\ shape'.h = pen[Len(text)].y + scale * GlyphHeight
        /\ shape'.pixels = UNION {Place(i) : i \in {j \in DOMAIN text : text[j] # NewLine}}
    BY DEF DrawText
  <1>2. Len(text) = 2 /\ DOMAIN text = 1 .. 2
    BY TextHasTwo
  <1>3. \E v : v = N(v)
    <2>1. w[0] = p /\ w[1] = q /\ w[2] = r
      OBVIOUS
    <2>2. w = [i \in 0 .. 2 |-> w[i]]
      OBVIOUS
    <2> HIDE DEF w
    <2>3. \A i \in 0 .. 2 : w[i] = IF i = 0 THEN [x |-> 0, y |-> 0] ELSE Pen(text, scale, w[i - 1], i)
      <3>1. \A i \in 0 .. 2 : i = 0 \/ i = 1 \/ i = 2
        OBVIOUS
      <3> QED
        BY <2>1, <3>1
    <2>4. w = N(w)
      BY <2>2, <2>3
    <2> QED
      BY <2>4
  <1>4. pen = N(pen)
    BY <1>2, <1>3
  <1> HIDE DEF pen
  <1>5. pen[0] = p /\ pen[1] = q /\ pen[2] = r
    <2>1. pen[0] = p /\ pen[1] = Pen(text, scale, pen[0], 1) /\ pen[2] = Pen(text, scale, pen[1], 2)
      BY <1>4
    <2> QED
      BY <2>1
  <1>6. \A d : d \in shape'.pixels <=>
            \/ text[1] # NewLine /\ d \in Place(1)
            \/ text[2] # NewLine /\ d \in Place(2)
    <2>1. \A d : d \in shape'.pixels <=> \E i \in 1 .. 2 : text[i] # NewLine /\ d \in Place(i)
      <3> HIDE DEF Place
      <3> QED
        BY <1>1, <1>2
    <2>2. 1 .. 2 = {1, 2}
      OBVIOUS
    <2> HIDE DEF Place
    <2> QED
      BY <2>1, <2>2
  <1>7. /\ Place(1) = Box(x + p.x, y + p.y, scale * LoadChar(text[1]), scale * GlyphHeight)
        /\ Place(2) = Box(x + q.x, y + q.y, scale * LoadChar(text[2]), scale * GlyphHeight)
    <2>1. 1 - 1 = 0 /\ 2 - 1 = 1
      OBVIOUS
    <2> HIDE DEF p, q
    <2> QED
      BY <1>5, <2>1
  <1> HIDE DEF p, q, r, Place
  <1>8. /\ p = [x |-> 0, y |-> 0] /\ q = Pen(text, scale, p, 1) /\ r = Pen(text, scale, q, 2)
    BY DEF p, q, r
  <1>9. /\ shape'.kind = "text" /\ shape'.x = x /\ shape'.y = y
        /\ shape'.w = ComputeTextWidth(text, scale) - 2
        /\ shape'.h = r.y + scale * GlyphHeight
    BY <1>1, <1>2, <1>5
  <1> QED
    BY <1>6, <1>7, <1>8, <1>9

LEMMA BoxWithin ==
  ASSUME NEW x \in Int, NEW y \in Int, NEW w \in Int, NEW h \in Int,
         NEW a \in Int, NEW b \in Int, NEW v \in Int, NEW g \in Int,
         x <= a, y <= b, a + v <= x + w, b + g <= y + h,
         NEW d \in Box(a, b, v, g)
  PROVE  d \in Box(x, y, w, h)
  BY DEF Box

LEMMA TextCovers ==
  ASSUME NEW x \in ShapeSizes, NEW text \in [1 .. 2 -> Chars], NEW scale \in Scales,
         DrawText(x, x, text, scale)
  PROVE  Covers(shape')
  <1>1. x \in Nat /\ scale \in Nat /\ scale > 0 /\ GlyphHeight = 14 /\ Scales \subseteq Nat
    BY DisplayAssumption
  <1>2. PICK a, b : /\ a = scale * LoadChar(text[1]) /\ b = scale * LoadChar(text[2])
                    /\ a \in Nat /\ b \in Nat /\ a > 0 /\ b > 0
    <2>1. PICK m, n : /\ m = LoadChar(text[1]) /\ n = LoadChar(text[2])
                      /\ m \in Nat /\ n \in Nat /\ m > 0 /\ n > 0
      BY TextHasTwo, GlyphFits
    <2>2. scale * m \in Nat /\ scale * n \in Nat /\ scale * m > 0 /\ scale * n > 0
      BY <1>1, <2>1, SMT
    <2> QED
      BY <2>1, <2>2
  <1>3. PICK p, q, r :
            /\ p = [x |-> 0, y |-> 0] /\ q = Pen(text, scale, p, 1) /\ r = Pen(text, scale, q, 2)
            /\ shape'.kind = "text" /\ shape'.x = x /\ shape'.y = x
            /\ shape'.w = ComputeTextWidth(text, scale) - 2
            /\ shape'.h = r.y + scale * GlyphHeight
            /\ \A d : d \in shape'.pixels <=>
                  \/ /\ text[1] # NewLine
                     /\ d \in Box(x + p.x, x + p.y, scale * LoadChar(text[1]), scale * GlyphHeight)
                  \/ /\ text[2] # NewLine
                     /\ d \in Box(x + q.x, x + q.y, scale * LoadChar(text[2]), scale * GlyphHeight)
    BY TextIs
  <1>4. shape'.w = a + b + 2
    BY <1>2, <1>3, WidthIs
  <1>5. p.x = 0 /\ p.y = 0
    BY <1>3
  <1>6. /\ text[1] = NewLine => q.x = 0 /\ q.y = scale * 14 + 1
        /\ text[1] # NewLine => q.x = a + 2 /\ q.y = 0
    BY <1>1, <1>2, <1>3, <1>5 DEF Pen
  <1>7. /\ text[2] = NewLine => r.y = q.y + scale * 14 + 1
        /\ text[2] # NewLine => r.y = q.y
    BY <1>1, <1>3, <1>6 DEF Pen
  <1>8. shape'.h = r.y + scale * 14
    BY <1>1, <1>3
  <1>9. shape'.pixels \subseteq Box(x, x, shape'.w, shape'.h)
    <2> SUFFICES ASSUME NEW d \in shape'.pixels PROVE d \in Box(x, x, a + b + 2, r.y + scale * 14)
      BY <1>4, <1>8
    <2>1. CASE d \in Box(x + 0, x + 0, a, scale * 14)
      BY <1>1, <1>2, <1>6, <1>7, <2>1, BoxWithin
    <2>2. CASE text[2] # NewLine /\ d \in Box(x + q.x, x + q.y, b, scale * 14)
      BY <1>1, <1>2, <1>6, <1>7, <2>2, BoxWithin
    <2> QED
      BY <1>1, <1>2, <1>3, <1>5, <2>1, <2>2
  <1>10. ASSUME shape'.h \in {c * GlyphHeight : c \in Scales}
         PROVE  <<x + shape'.w - 1, x>> \in shape'.pixels
    <2>1. PICK c \in Scales : r.y + scale * 14 = c * 14
      BY <1>1, <1>8, <1>10
    <2>2. c \in Nat
      BY <1>1
    <2>3. text[1] # NewLine /\ text[2] # NewLine
      BY <1>1, <1>6, <1>7, <2>1, <2>2
    <2>4. <<x + (a + b + 2) - 1, x>> \in Box(x + q.x, x + q.y, b, scale * 14)
      BY <1>1, <1>2, <1>6, <2>3 DEF Box
    <2> QED
      BY <1>1, <1>2, <1>3, <1>4, <2>3, <2>4
  <1> QED
    BY <1>3, <1>9, <1>10 DEF Covers
-----------------------------------------------------------------------------
ShapeCovers == Covers(shape)

LEMMA ShapeStep ==
  ASSUME ShapeNext PROVE ShapeCovers'
  <1>1. ASSUME NEW x \in ShapeSizes, NEW y \in ShapeSizes, NEW w \in ShapeSizes, NEW h \in ShapeSizes,
               \/ \E fill \in BOOLEAN : DrawRectangle(x, y, w, h, fill)
               \/ DrawRectangleNoBorder(x, y, w, h)
               \/ DrawLineBresenham(x, y, w, h)
        PROVE  Covers(shape')
    BY <1>1, RectangleCovers, NoBorderCovers, BresenhamCovers
  <1>2. ASSUME NEW x \in ShapeSizes, NEW y \in ShapeSizes, NEW length \in ShapeSizes,
               NEW vertical \in BOOLEAN, DrawLine(x, y, length, vertical)
        PROVE  Covers(shape')
    BY <1>2, LineCovers
  <1>3. ASSUME NEW x \in ShapeSizes, NEW scale \in Scales, NEW text \in [1 .. 2 -> Chars],
               DrawText(x, x, text, scale)
        PROVE  Covers(shape')
    BY <1>3, TextCovers
  <1>4. ASSUME NEW c \in Chars \ {NewLine}, NEW width \in ShapeSizes, NEW height \in ShapeSizes,
               ResizeChar(c, width, height)
        PROVE  Covers(shape')
    BY <1>4, ResizeCovers
  <1>5. Covers(shape')
    BY <1>1, <1>2, <1>3, <1>4 DEF ShapeNext
  <1> QED
    BY <1>5 DEF ShapeCovers

\* Characters have space of their own, and the last shape its pixels.
DrawInv == TextInv /\ ShapeCovers

LEMMA DrawInit == ASSUME DisplayInit PROVE DrawInv
  <1>1. TextInv
    BY DisplayAssumption DEF DisplayInit, TextInv
  <1>2. shape.kind = "none" /\ shape.pixels = {}
    BY DEF DisplayInit, NoShape
  <1>3. Covers(shape)
    BY <1>2 DEF Covers
  <1> QED
    BY <1>1, <1>3 DEF DrawInv, ShapeCovers

LEMMA DrawStep == ASSUME DrawInv, [TextNext \/ ShapeNext]_displayVars PROVE DrawInv'
  <1>1. TextInv'
    BY TextStep DEF DrawInv
  <1>2. CASE ShapeNext
    BY <1>1, <1>2, ShapeStep DEF DrawInv
  <1>3. CASE TextNext \/ UNCHANGED displayVars
    <2>1. shape' = shape
      BY <1>3 DEF TextNext, PrintChar, Printnl, Printf, Clearscr, displayVars
    <2>2. ShapeCovers'
      BY <2>1 DEF DrawInv, ShapeCovers
    <2> QED
      BY <1>1, <2>2 DEF DrawInv
  <1> QED
    BY <1>2, <1>3

\* DrawsInPlace for every font, screen and size: no character covers another or
\* leaves the screen's width, rectangles fill their area or lie on its edge,
\* lines have a pixel in each column between their ends, resized glyphs show
\* pixels of the glyph, and a text fills the width that is computed for it.
THEOREM DrawsKept == DisplaySpec => []DrawsInPlace
  <1>1. DisplayInit => DrawInv
    BY DrawInit
  <1>2. DrawInv /\ [TextNext \/ ShapeNext]_displayVars => DrawInv'
    BY DrawStep
  <1>3. DrawInv => DrawsInPlace
    BY TextApart, CoversAll DEF DrawInv, ShapeCovers, DrawsInPlace
  <1> QED
    BY <1>1, <1>2, <1>3, PTL DEF DisplaySpec
=============================================================================
