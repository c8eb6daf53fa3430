SPECIFICATION Spec
CONSTANTS
    NoGuard = NoGuard
    NoPeer = NoPeer
    InA = {a1, a2}
    InB = {}
    Ips <- MCIps
    Subnets <- MCSubnets
    subnet_key <- MCSubnetKey
    Conns = {c1, c2, c3}
    MaxGlobal = 3
    MaxPerIp = 2
    MaxPerSubnet = 2
    PerMinute = 1
    Burst = 2
    BanThreshold = 2
    BanWindow = 1
    BanDuration = 2
    Minute = 2
    MaxTime = 3
SYMMETRY Symmetry
INVARIANTS
    SlotsMatchGuards
    CapsRespected
    EnoughFailuresBan
    RateBoundWhileTracked
PROPERTIES
    SlotsSpec
    BanHolds
    BanIsEarned
