SPECIFICATION FairSpec
CONSTANTS
    MaxTransportErrors = 2
    MaxPacketSize = 2
    OutPacketSize = 2
    MaxAttempts = 2
    LastPort = 1
    Sofs = TRUE
    ReportLengths <- NoReports
    PacketLengths <- TwoPackets
    MaxLost = 0
    MaxDetaches = 0
    MaxFlushes = 1
    NakTimeouts = TRUE
PROPERTIES
    NoStarvation
