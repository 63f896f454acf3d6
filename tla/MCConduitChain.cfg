CONSTANTS
    c1 = c1
    c2 = c2
    p1 = p1
    p2 = p2
    w1 = w1
    w2 = w2
    w3 = w3
    Controllers <- TwoControllers
    Concurrency = 1
    LifeFastPath = FALSE
    Buffer = 1
    MaxCalls = 1
    GenControllers <- OneController
    MaxGens = 2
    MaxServes = 2
    Stages <- ThreeStages
    Configurers <- TwoConfigurers
    WireConfigurer = p1
    Settings = {"sensor", "size"}
    MaxElements = 1
    MaxRestarts = 1
    IdleTimeouts = {1, 2}
    TotalItems = 1
    MaxSubmits = 1
    MaxActivity = 2
    PeakSetters <- TwoControllers
    Peaks = {1, 2}
    MaxSettings = 1
CHECK_DEADLOCK FALSE
SPECIFICATION LifecyclesSpec
INVARIANT
    EveryStageInOrder
