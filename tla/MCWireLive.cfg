CONSTANTS
    e1 = e1
    e2 = e2
    e3 = e3
    w1 = w1
    w2 = w2
    n1 = n1
    Nobody = Nobody
    Elements <- ThreeElements
    Workers <- OneWorker
    Capacity = 2
    Transforms = 0
    Options <- FactoryOrInsulator
    RetryThreshold = 2
    NeutralWires <- OneNeutral
CHECK_DEADLOCK FALSE
SPECIFICATION FairSpec
INVARIANT
    OrderPreserved
PROPERTIES
    AcceptedSettles
    StopReturns
