CONSTANTS
    r1 = r1
    o1 = o1
    k1 = k1
    k2 = k2
    None = None
    Readers <- OneReader
    Outsiders <- OneOutsider
    Stoppers <- TwoStoppers
    Targets <- OneTarget
    MaxSessions = 2
    SendBuf = 1
    MaxSeq = 2
    Variants <- AllVariants
CHECK_DEADLOCK FALSE
SPECIFICATION FairSpec
INVARIANT
    SessionsSound
PROPERTY
    CallsReturn
