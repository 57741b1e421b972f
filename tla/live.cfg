SPECIFICATION FairSpec
CONSTANTS
    TimeoutCycles = 3
    TimerModulus = 4
    Slots = {0}
    EpInterface <- OneEndpoint
    MaxLostAcks = 1
    BufferBytes = 2
    Requests <- LiveRequests
    MaxPacket = 1
    MaxSetups = 2
    MaxResets = 1
    MaxDetaches = 1
INVARIANT
    SuccessIsReal
PROPERTY
    Settles
