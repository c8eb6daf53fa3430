CONSTANTS
    Error = Error
    MaxU16 = 65535
    MaxU32 = 2000000
    MaxU64 = 1000000
    Absolute <- MCAbsolute
    Tilde <- MCTilde
    Bare <- MCBare
    FileStem <- MCFileStem
    Texts <- MCTexts
    Instances = {d1, d2}
    Service = d1
    Nobody = Nobody
    MaxStarts = 2
    LogToFile = FALSE
SPECIFICATION Spec
INVARIANTS
    HostKeyIsStable
    ServesConfined
    NeverKilled
    ConfigIsAsWritten
PROPERTY StopIsServed
CHECK_DEADLOCK FALSE
