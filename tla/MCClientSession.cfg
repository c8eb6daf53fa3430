CONSTANTS
    Channels = {c1}
    Terms = {"xterm", "vt220"}
    Names = {"TERM", "PATH"}
    Values = {"dumb"}
    Addresses = {"", "localhost"}
    Ports = {1, 2}
    BadPort = 65536
    None = None
    MaxForwards = 3
SPECIFICATION Spec
INVARIANTS
    GrantsReachTheProgram
    ListenersAreTracked
PROPERTY ForwardsEndWithSession
CHECK_DEADLOCK FALSE
