CONSTANTS
    Inputs = {"data", "Eof", "other"}
    MaxOutput = 2
    MaxInput = 1
    PipeCap = 1
    StreamCap = 1
    Window = 1
SPECIFICATION Spec
INVARIANT NoChildLeftBehind
PROPERTIES
    SessionSpec
    
    SessionEnds
CHECK_DEADLOCK FALSE
