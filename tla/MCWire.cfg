CONSTANTS
    e1 = e1
    e2 = e2
    e3 = e3
    w1 = w1
    w2 = w2
    n1 = n1
    Nobody = Nobody
    Elements <- TwoElements
    Workers <- TwoWorkers
    Capacity = 1
    Transforms = 1
    Options <- AllButFactory
    RetryThreshold = 2
    NeutralWires <- OneNeutral
CHECK_DEADLOCK FALSE
SPECIFICATION Spec
SYMMETRY Symmetry
INVARIANTS
    Conservation
    FailuresRecorded
    NoSendOnClosedChannel
PROPERTY
    ImplementsPipeline
