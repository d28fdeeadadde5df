SPECIFICATION FairSpec
CONSTANTS
    a1 = a1
    a2 = a2
    s1 = s1
    s2 = s2
    t1 = t1
    t2 = t2
    o1 = o1
    o2 = o2
    o3 = o3
    Nobody = Nobody
    Async <- TwoWorkers
    Sync <- TwoSync
    Clients <- TwoClients
    Operations <- ThreeOperations
    AutoSetup = TRUE
    Scripts <- OneClient
INVARIANTS
    NobodySleepsOn
    WorkerSafe
    Conservation
    TakenInOrder
    ConnectionExclusive
PROPERTIES
    OperationsRunAtFirst
    CloseEnds
