SPECIFICATION Spec
CONSTANTS
    SendBufferSize = 2
    PacketSizes <- MCPacketSizes
    BehindProxy = FALSE
    MaxBuffered = 1
    MaxSent = 4
INVARIANTS
    ClosedAfterWriting
