SPECIFICATION FairSpec
CONSTANTS
    UserProcess = {p1}
    SchedulerEvents = SchedulerEvents
    KeyboardDriver = KeyboardDriver
    ThreadAddr = {t1, t2}
    NoThread = NoThread
    NBlocks = 2
    TimeSlice = 1
    TimeWrap = 3
    Delays <- SomeDelays
    Masks <- EveryEvent
    EmitIds <- KeyPress
    KeyEvents <- NoIds
    UninitState <- Recycled
    UninitSuspended <- NotSuspended
    Disciplined = TRUE
    MaxThreadId = 2
    MaxEvents = 1
    MaxListeners = 1
PROPERTIES
    RunnableThreadRuns
    EventIsDelivered
