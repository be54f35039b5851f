CONSTANTS
    Bufs = {b1}
    Addrs = {1, 2}
    UpAtBoot = {2}
    CfgRoster <- MCCfg1
    ROSTER_MAX = 2
    MaxMisses = 2
    MissTop = 3
    SlowDiv = 2
    Summaries = {0, 1}
    RegFlags = {TRUE, FALSE}
    HostChecksDup = TRUE
    MaxMsgs = 1
    MaxAdmin = 1
    MaxReattach = 0
    MaxModes = 2
    MaxFlaps = 1
SPECIFICATION Spec
INVARIANTS TableFollowsRoster DeadInBoth ShadowIsTold
