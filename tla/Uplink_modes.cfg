SPECIFICATION FairSpec
CONSTANTS
    NAp = 2
    Rounds = 1
    Debounce = 2
    RingLen = 2
    MaxEnv = 2
    MaxNoise = 2
INVARIANTS SessionSound
PROPERTIES  LinkSettles
