CONSTANTS
    Bufs = {b1, b2}
    Addrs = {1, 2}
    UpAtBoot = {1}
    CfgRoster <- MCCfg2
    ROSTER_MAX = 2
    MaxMisses = 1
    MissTop = 2
    SlowDiv = 1
    Summaries = {0}
    RegFlags = {TRUE}
    HostChecksDup = FALSE
    MaxMsgs = 2
    MaxAdmin = 1
    MaxReattach = 1
    MaxModes = 0
    MaxFlaps = 0
SPECIFICATION Spec
SYMMETRY BufSymmetry
INVARIANTS TypeOK PoolConserved DeliveredToOwner
PROPERTIES LostOnlyToDeadOrRebuild
