SPECIFICATION Spec
CONSTANTS
    LogKeys = {k1, k2, k3}
    Window = 1
    MaxEntries = 1
    NoEntry = NoEntry
    MaxChecks = 5
    MaxTime = 4
    Lengths = {1, 3}
    MaxBytes = 2
    Absent = Absent
    MaxWrites = 4
SYMMETRY Symmetry
CHECK_DEADLOCK FALSE
INVARIANTS
    TableIsBounded
    EntriesAreExact
    RecentKeysAreKept
    SizeIsBounded
PROPERTY
    OnlyTheOldestAreLost
