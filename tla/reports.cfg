SPECIFICATION Spec
CONSTANTS
    MaxTransportErrors = 2
    MaxPacketSize = 2
    OutPacketSize = 2
    MaxAttempts = 2
    LastPort = 1
    Sofs = FALSE
    ReportLengths <- ThreeReports
    PacketLengths <- OnePacket
    MaxLost = 1
    MaxDetaches = 1
    MaxFlushes = 0
    NakTimeouts = FALSE
INVARIANTS
    SingleOwner
    InOrderOnce
    OutInOrderOnce
