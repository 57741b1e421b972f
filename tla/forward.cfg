SPECIFICATION Spec
CONSTANTS
    BufferBytes = 2
    TimeoutCycles = 3
    TimerModulus = 4
    Slots = {0, 1}
    EpInterface <- SplitEndpoints
    Requests <- ForwardRequests
    MaxPacket = 2
    MaxSetups = 3
    MaxResets = 1
    MaxDetaches = 0
    MaxLostAcks = 0
INVARIANTS
    NoStaleAnswer
    OnlyClassForwarded
    ForwardedOnce
    RelayNeverOrphaned
    BytesInBytesOut
    SupersededReplayNeverIssued
    MaskTracksDevice
