SPECIFICATION FairSpec
CONSTANTS
    SendBufferSize = 2
    PacketSizes <- MCPacketSizes
    BehindProxy = TRUE
    MaxBuffered = 1
    MaxSent = 4
INVARIANTS
    SessionAlive
    PermissionsFindSession
    AuthenticatedOnce
    StreamInOrder
PROPERTIES
    ClosedIsRemoved
    SessionEnds
