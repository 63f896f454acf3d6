CONSTANTS
    r1 = r1
    r2 = r2
    c1 = c1
    c2 = c2
    c3 = c3
    f1 = f1
    p1 = p1
    p2 = p2
    AuthOwners <- AllOwners
    AuthReqs <- TwoRequests
    OptionSets <- SomeOptions
    Callers <- SomeCallers
    TTL = 1
    MaxBackoff = 2
    MaxClock = 2
    JwtCalls <- TwoCallers
    KeysTTL = 1
    MaxKey = 2
    MaxKeyClock = 2
    TokenCalls <- ThreeCallers
    Life = 4
    DefaultLife = 3
    Latency = 2
    Skew = 2
    MaxTokenClock = 7
    LogWriters <- ThreeCallers
    Flushers <- OneFlusher
    QueueSize = 1
    Partitions <- TwoPartitions
    LogLen = 2
    StartAts = {"earliest", "latest"}
    Policies = {"auto", "after-each", "after-batch", "time"}
    MaxPollRecs = 2
    MaxRuns = 2
    Emitters <- TwoCallers
    Registrars <- OneFlusher
    Parts <- WireAndGenerator
    Wires <- OneWire
    MaxReports = 2
    w1 = w1
    g1 = g1
    CountRange = 16
    RelayKinds = {"grpc", "quic", "ws", "wt", "web"}
    StoreKinds = {"s3", "postgres"}
    PayloadKinds = {"struct", "proto", "bytes"}
    Algorithms = {"none", "zstd", "lz4"}
    RawKeys = {"k1", "k2"}
    CodedKeys <- OneCodedKey
    BadKeys = {"bad"}
    MaxHops = 2
    ConfigCallers <- ThreeCallers
    MaxConfigRuns = 2
CHECK_DEADLOCK FALSE
SPECIFICATION ServicesSpec
SYMMETRY ServicesSymmetry
INVARIANTS
    AuthSound
    KeysFresh
    TokenLives
    SyncFlushes
    CommitsExact
    SensorSound
    PayloadSound
    ConfigSound
