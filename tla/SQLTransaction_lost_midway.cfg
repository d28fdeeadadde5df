SPECIFICATION Spec
CONSTANTS
    w1 = w1
    w2 = w2
    c1 = c1
    x1 = x1
    x2 = x2
    empty = empty
    row1 = row1
    row2 = row2
    None = None
    Workers <- OneWorker
    Callers <- NoCallers
    Transactions <- OneTransaction
    RowsOf <- RowsOfOne
    Faulty <- NoFaulty
    LoopBreaker = 5
    MaxRetries = 1
    ReconnectAttempts = 5
    MaxLosses = 1
INVARIANTS
    Atomic
