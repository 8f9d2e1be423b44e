SPECIFICATION Spec
CONSTANTS
    Value = {a}
    NoValue = NoValue
    InitialSize = 5
    StaleFlags <- AnyFlag
    MaxCapacity = 10
INVARIANTS
    PanicMeansFull
