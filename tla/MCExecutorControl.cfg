SPECIFICATION Spec
CONSTANTS
    Sessions = {s1, s2}
    NoSession = NoSession
    MaxCalls = 3
    MaxIncoming = 1
CHECK_DEADLOCK FALSE
INVARIANTS
    
    NoForwardLeaks
PROPERTIES
    ForwardsReachTheirSession
    CallsReturn
