SPECIFICATION Spec
CONSTANTS
    NoGuard = NoGuard
    Ips = {ip1, ip2}
    Subnets = {ip1, ip2}
    subnet_key <- MCSubnetKey
    Conns = {c1, c2}
    MaxGlobal = 2
    MaxPerIp = 2
    MaxPerSubnet = 2
    LoginGrace = 3
    BannerTimeout = 2
    KexTimeout = 1
    MaxFailureIps = 1
    MaxFailures = 2
    MaxTime = 3
CHECK_DEADLOCK FALSE
INVARIANTS
    SlotsFollowConnections
    StallsAreClosed
    RejectionsAreCounted
    FailuresAreCounted
PROPERTIES
    TimeoutsAreEarned
    ServeEnds
