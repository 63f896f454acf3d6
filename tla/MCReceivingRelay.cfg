CONSTANTS
    s1 = s1
    u1 = u1
    Transports <- AllTransports
    Streams <- OneStream
    Unaries <- OneUnary
    OpenIntervals <- Intervals
    DataBuf = 1
    MaxPayloads = 3
CHECK_DEADLOCK FALSE
SPECIFICATION FairSpec
INVARIANTS
    AcksSound
    FanoutOrdered
PROPERTY
    ChannelDrains
