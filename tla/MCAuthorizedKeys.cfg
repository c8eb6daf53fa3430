SPECIFICATION Spec
CONSTANTS
    Keys <- MCKeys
    Texts <- MCTexts
    MaxSize = 3
    MaxEntries = 2
    ReloadInterval = 1
    FileSystems <- MCFileSystems
    MaxVersions = 2
    MaxTime = 2
CHECK_DEADLOCK FALSE
INVARIANTS
    CacheIsOneVersion
    FreshAfterCheck
PROPERTY
    LastGoodIsKept
