SPECIFICATION FairSpec
CONSTANTS
    a1 = a1
    a2 = a2
    s1 = s1
    s2 = s2
    t1 = t1
    t2 = t2
    o1 = o1
    o2 = o2
    o3 = o3
    Nobody = Nobody
    Async <- OneWorker
    Sync <- OneSync
    Clients <- OneClient
    Operations <- OneOperation
    AutoSetup = TRUE
    Scripts = {}
PROPERTIES
    OperationsRun
