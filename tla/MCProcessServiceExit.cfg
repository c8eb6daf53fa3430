CONSTANTS
    Inputs = {"data"}
    MaxOutput = 1
    MaxInput = 2
    PipeCap = 1
    StreamCap = 1
    Window = 1
SPECIFICATION Spec
INVARIANT ExitIsReported
CHECK_DEADLOCK FALSE
