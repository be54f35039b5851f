INIT PartsInit
NEXT PartsNext
CONSTANTS
    PermSize = 320
    HeapSize = 100
    Arena0Size = 16
    BootSizes <- MCBootSizes
    KbNodes <- MCKbNodes
    KbSize <- MCKbSize
    Local <- MCLocal
    LocalSize = 14
    RecSize <- MCRecSize
    AuxSize <- MCAuxSize
    MaxArenas = 4
    f1 = f1
    f2 = f2
    a1 = a1
    A1 = A1
    b2 = b2
    Files <- MCFiles
    Names <- MCNames
    Sfn <- MCSfn
    NoName = NoName
    NFatEnt = 4
    FatPerSec = 3
    CSize = 2
    SectorLen = 5
    LineLen = 3
    MaxLines = 5
    MaxDeletes = 1
    MaxCuts = 1
    DsPins = {"p1", "p2", "p3"}
    DsVirtuals = {"_up"}
    DsLabels = {"p1", "p2", "p3", "_up", "zz"}
    DsCfg <- MCCfg
    DsOps = {"gt", "eq", "like"}
    DsNumbers = {1}
    DsWidth = 3
    DsMaxInputs = 2
    DsMaxOutputs = 1
    DsMaxWatches = 3
    DsMaxMods = 4
    DsMaxItems = 4
    DsMaxTicks = 3
    SiSlots = {0, 1}
    SiPins = {"p1", "p2", "q"}
    SiGpio = {"p1", "p2", "q"}
    SiAdc = {"p2"}
    SiReserved = {}
    SiPrograms <- MCPrograms
    SiMaxBoots = 2
    SiMaxCmds = 3
    SiMaxResets = 2
    JnDocs <- MCJnDocs
    JnFirst <- MCJnFirst
    JnPaths <- MCJnPaths
    JnKeyBuf = 3
    WireFrames <- MCWireFrames
    WireMasks <- MCWireMasks
    WireMe = 9
    WireRing = 2
    MaxWireFrames = 3
    MaxWireFaults = 1
    IoPins = {0, 1}
    IoDepths = {1, 3}
    AdcNch = 2
    AdcWinLen = 2
    AdcRaws = {0, 5}
    ServoWidths = {400, 1200, 2500}
    I2cDepth = 2
    UpDepth = 1
    MaxWindows = 2
    MaxResyncs = 1
    MaxEdges = 2
    MaxI2c = 4
    BootDocs <- MCBootDocs
    BoardChip = 1
    BoardUid = 77
    Masters = {10}
    SlaveVariants = {20}
    BootTasks = {"bus", "app"}
    HilPins = 2
    ModeCount = 7
    ApMax = 2
    RosterMax = 2
    StaleTicks = 1
    BiteTicks = 1
    MaxRows = 3
    MaxResets = 2
    WlNodes = {"n1", "n2"}
    Depth = 2
    Skew = 1
    WlGrace = 4
    WlMaxPulls = 1
    WlMaxWaves = 1
    WlMaxAlone = 1
    WlMaxResets = 1
    ClSlots = 2
    SeqWidth = 65536
    TxRingSize = 5
    FifoSize = 2
    Chunk = 2
    EventLen = 2
    ReplyLen = 3
    LogLen = 1
    ClMaxEvents = 2
    ClMaxCmds = 1
    ClMaxResets = 1
    ClMaxCloses = 1
INVARIANTS HeapSound   ClientSound JsonExact WireExact
    IoExact BootSound ChainSound LoopSound
CHECK_DEADLOCK FALSE
