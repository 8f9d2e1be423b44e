SPECIFICATION Spec
CONSTANTS
    UserProcess = {p1, p2}
    SchedulerEvents = SchedulerEvents
    KeyboardDriver = KeyboardDriver
    ThreadAddr = {t1, t2, t3}
    NoThread = NoThread
    NBlocks = 3
    TimeSlice = 0
    TimeWrap = 1
    Delays <- NoDelay
    Masks <- NoIds
    EmitIds <- NoIds
    KeyEvents <- NoIds
    UninitState <- Recycled
    UninitSuspended <- NotSuspended
    Disciplined = FALSE
    MaxThreadId = 4
    MaxEvents = 0
    MaxListeners = 0
SYMMETRY Symmetric
INVARIANTS
    TypeOK
    EveryThreadScheduledOnce
    ThreadsBelongToProcess
    AreasAreExclusive
