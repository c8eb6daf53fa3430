SPECIFICATION Spec
CONSTANTS
    NoGuard = NoGuard
    Ips = {ip1, ip2}
    Subnets = {ip1, ip2}
    subnet_key <- MCSubnetKey
    Conns = {c1}
    MaxGlobal = 2
    MaxPerIp = 1
    MaxPerSubnet = 1
    LoginGrace = 4
    BannerTimeout = 2
    KexTimeout = 2
    MaxFailureIps = 1
    MaxFailures = 2
    MaxTime = 5
CHECK_DEADLOCK FALSE
INVARIANT TimeoutsAreCounted
