SPECIFICATION Spec
CONSTANTS
    UserProcess = {p1}
    SchedulerEvents = SchedulerEvents
    KeyboardDriver = KeyboardDriver
    ThreadAddr = {t1, t2}
    NoThread = NoThread
    NBlocks = 3
    TimeSlice = 0
    TimeWrap = 1
    Delays <- NoDelay
    Masks <- EveryEvent
    EmitIds <- NoIds
    KeyEvents <- KeyPress
    UninitState <- Zeroed
    UninitSuspended <- NotSuspended
    Disciplined = FALSE
    MaxThreadId = 2
    MaxEvents = 1
    MaxListeners = 1
INVARIANTS
    EventThreadExists
