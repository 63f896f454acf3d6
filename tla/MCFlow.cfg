CONSTANTS
    c1 = c1
    c2 = c2
    d1 = d1
    d2 = d2
    i1 = i1
    i2 = i2
    i3 = i3
    e1 = e1
    e2 = e2
    g1 = g1
    g2 = g2
    w1 = w1
    b1 = b1
    b2 = b2
    Callers <- TwoCallers
    ErrorThreshold = 2
    ConfiguredWindow = 2
    DebouncePeriods <- Debounces
    MaxDelay = 1
    MaxTime = 3
    MaxErrors = 3
    RateCallers <- TwoRateCallers
    Limits <- RateLimits
    Int32Range = 8
    RateMaxTime = 8
    Ids <- ThreeIds
    Priorities = {0, 1, 2, 3}
    RetryCounts = {0, 6}
    MaxLen = 4
    Elements <- TwoElements
    Goroutines <- TwoGoroutines
    Components <- OneWire
    Buffer = 1
    RateLimited = TRUE
    Capacity = 1
    HasResister = TRUE
    Backups <- TwoBackups
    MayTrip = TRUE
    MaxDepth = 6
    MaxCuts = 1
CHECK_DEADLOCK FALSE
SPECIFICATION FlowSpec
SYMMETRY FlowSymmetry
INVARIANTS
    ClosedBelowThreshold
    NotificationBalance
    ResetSignalNotLost
    TokensConserved
    QueueSound
    SurgeSound
PROPERTIES
    CooldownHonoured
    RefillsSpaced
