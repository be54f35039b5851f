CONSTANTS
    Bufs = {b1}
    Addrs = {1, 2}
    UpAtBoot = {}
    CfgRoster <- MCCfg12
    ROSTER_MAX = 2
    MaxMisses = 1
    MissTop = 2
    SlowDiv = 1
    Summaries = {0}
    RegFlags = {TRUE}
    HostChecksDup = TRUE
    MaxMsgs = 2
    MaxAdmin = 0
    MaxReattach = 0
    MaxModes = 0
    MaxFlaps = 1
SPECIFICATION FairSpec
PROPERTIES DeadRevived DeadReported PoolRefills ExhaustionNotified
