SPECIFICATION Spec
CONSTANTS
    UserProcess = {p1, p2}
    SchedulerEvents = SchedulerEvents
    KeyboardDriver = KeyboardDriver
    ThreadAddr = {t1, t2}
    NoThread = NoThread
    NBlocks = 2
    TimeSlice = 0
    TimeWrap = 1
    Delays <- NoDelay
    Masks <- EveryEvent
    EmitIds <- NoIds
    KeyEvents <- KeyPress
    UninitState <- Recycled
    UninitSuspended <- NotSuspended
    Disciplined = TRUE
    MaxThreadId = 3
    MaxEvents = 2
    MaxListeners = 1
SYMMETRY Symmetric
INVARIANTS
    RunningMayRun
    EventThreadExists
    HandlersDoNotNest
PROPERTIES
    EventsInOrder
