SPECIFICATION FairSpec
CONSTANTS
    a = a
    b = b
    c = c
    s1 = s1
    s2 = s2
    s3 = s3
    s4 = s4
    None = None
    Accounts <- MCAccounts
    Sessions <- MCSessions
    Account <- MCAccount
    SkipQueue <- MCSkipQueue
    PlayerLimit = 1
    Tolerance = TRUE
    MaxProgress = 1
    LoggingIn <- MCLoggingIn
ACTION_CONSTRAINTS
    Deferred
    Bounded
INVARIANTS
    QueueSound
    NoRoomWhileQueued
    LimitKept
    NoRollback
PROPERTIES
    Settles
