SPECIFICATION Spec
CONSTANTS
    Images <- MCImages
    HighSize = 4
    LowSize = 64
    UpCap = 3
    Slots = 4
    MaxArenas = 5
    Cmds = {"MON_PING", "MON_STREAM", "APP_ECHO"}
    DownCap = 4
    MaxReq = 3
CHECK_DEADLOCK FALSE
INVARIANTS  MemoryPaired
 
