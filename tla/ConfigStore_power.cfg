CONSTANTS
    Names = {"idnt", "gpmp"}
    Idnt = "idnt"
    Bytes = {0, 1}
    STORE_ROWS = 3
    STORE_SLOTS = 2
    STORE_DATA_MAX = 1
    Master = {"rec", "addr", "reload"}
    ReloadInCommit = FALSE
    Torn = Torn
    NoFile = NoFile
    Idle = Idle
    MaxSeq = 3
SPECIFICATION FairSpec
INVARIANTS StoreSound
PROPERTIES  PowerSafe
