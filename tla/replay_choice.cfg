SPECIFICATION Spec
CONSTANTS
    BufferBytes = 2
    TimeoutCycles = 4
    TimerModulus = 8
    Slots = {0}
    EpInterface <- OneEndpoint
    Requests <- BootOnly
    MaxPacket = 1
    MaxSetups = 3
    MaxResets = 2
    MaxDetaches = 0
    MaxLostAcks = 0
INVARIANT
    ReplayRespectsChoice
