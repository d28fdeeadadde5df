SPECIFICATION FairSpec
CONSTANTS
    w1 = w1
    w2 = w2
    c1 = c1
    x1 = x1
    x2 = x2
    empty = empty
    row1 = row1
    row2 = row2
    None = None
    Workers <- MCWorkers
    Callers <- MCCallers
    Transactions <- WithEmpty
    RowsOf <- RowsOfWithEmpty
    Faulty <- FaultySecond
    LoopBreaker = 1
    MaxRetries = 2
    ReconnectAttempts = 2
    MaxLosses = 1
INVARIANTS
    AtomicUnlessLost
    TruthfulUnlessLost
    RetriesDoNotCollide
    WaitsWithoutLocks
PROPERTIES
    TransactionsEnd
