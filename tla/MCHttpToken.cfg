CONSTANTS
    p1 = p1
    p2 = p2
    k1 = k1
    k2 = k2
    q1 = q1
    q2 = q2
    WriterKinds <- AllKinds
    Inputs = {1}
    PerInput = 2
    Heavy <- OneHeavy
    MaxRecs = 2
    Starts = 2
    MaxAttempts = 2
    PqRecords = 5
    RollMax = 2
    RawRoom = 2
    PollKinds = {"s3", "postgres", "http"}
    PollCalls <- TwoCalls
    ObjKeys = {1, 2, 3}
    PageSize = 2
    MaxPolls = 2
    MaxRetries = 1
    TokenLife = 1
    MaxPollClock = 2
    OutMsgs = 2
    InMsgs = 2
    Peers <- TwoPeers
    ServeCalls <- OneCall
    Limits = {1}
    SendBuffer = 1
    FanMsgs = 2
    UserMsgs = 0
    HttpServes <- TwoCalls
    HttpRequests <- TwoRequests
CHECK_DEADLOCK FALSE
SPECIFICATION AdaptersSpec
INVARIANT
    FreshTokenSent
