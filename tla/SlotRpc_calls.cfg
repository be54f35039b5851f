SPECIFICATION FairSpec
CONSTANTS
    NSlaves = 2
    HostBase = 10
    Kinds = {"sync", "app", "orig"}
    CMDCORR_MAX = 1
    OrigLen = 1
    NODE_TXQ_LEN = 1
    CollectTries = 2
    MaxReqs = 2
    MaxLoss = 1
    MaxAdmin = 2
INVARIANTS RpcSound
PROPERTIES CallsServed
