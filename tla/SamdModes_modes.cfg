CONSTANTS
    c0 = c0
    c1 = c1
    c2 = c2
    D6 = D6
    NoFile = NoFile
    Chans = {c0, c1, c2}
    A0 = c0
    A1 = c1
    gpmp <- MCGpmp
    mxmp <- MCMxmp
    srvo <- MCSrvo
    cntr <- MCCntr
    ilcf <- MCIlcf
    Widths = {1, 2}
    FRAME = 4
    Sensed = {c1, D6}
    UsbPads = {c0}
    Unruly = {}
    BootModes = {"IDLE", "PIO", "ADC", "MIXED", "SERVO", "COUNTER"}
    MaxEdges = 2
    MaxSwitches = 1
SPECIFICATION FairSpec
CHECK_DEADLOCK FALSE
  
PROPERTIES ReactsToFaults
