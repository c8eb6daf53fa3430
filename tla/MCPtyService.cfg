CONSTANTS
    Inputs = {"data", "Eof", "other"}
    MaxOutput = 2
    MaxInput = 1
    PtyCap = 1
    StreamCap = 1
    Window = 1
SPECIFICATION Spec
PROPERTIES
    PtySessionSpec
    PtySessionEnds
    LeavingHangsUp
CHECK_DEADLOCK FALSE
