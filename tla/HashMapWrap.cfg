SPECIFICATION MapSpec
CONSTANTS
    Key = {9, 19}
    MapValue = {x}
    NoMapValue = NoMapValue
    MapCapacity = 10
    MaxMapCapacity = 10
INVARIANTS
    RemovalKeepsEntries
