SPECIFICATION FairSpec
CONSTANTS
    w1 = w1
    w2 = w2
    continent = continent
    dungeon = dungeon
    inst1 = inst1
    inst2 = inst2
    NoMap = NoMap
    Workers <- MCWorkers
    BaseMaps <- MCBaseMaps
    Instances <- MCInstances
    ParentOf <- MCParentOf
    MaxTicks = 2
INVARIANTS
    NobodySleepsOn
    WorldExclusive
    RequestsAlive
    UpdatedExactlyOnce
    NoNullRequest
PROPERTIES
    UpdateEnds
    ShutdownEnds
