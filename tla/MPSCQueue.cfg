SPECIFICATION FairSpec
CONSTANTS
    p1 = p1
    p2 = p2
    m1 = m1
    m2 = m2
    m3 = m3
    Dummy = Dummy
    Null = Null
    Producers <- MCProducers
    Packets <- MCPackets
INVARIANTS
    NoUseAfterDelete
    NothingCutOff
PROPERTIES
    ImplementsFifo
    Delivered
