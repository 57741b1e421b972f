SPECIFICATION FairSpec
CONSTANTS
    attach_stable_cycles = 2
    detach_stable_cycles = 2
    reset_cycles = 10
    chirp_detect_cycles = 1
    chirp_drive_cycles = 1
    chirp_timeout_cycles = 2
    chirp_tail_cycles = 3
    reset_recovery_cycles = 2
    recovery_timeout_cycles = 8
    nonj_tolerance_cycles = 2
    address_recovery_cycles = 1
    HOST_CHIRP_PAIRS = 2
    MAX_ENUM_ATTEMPTS = 2
    Profiles <- ThreeSpeeds
    MaxPlugs = 2
    MaxFaults = 1
INVARIANTS
    TypeOK
    ReadyMeansComplete
    NoOverlap
    SpeedAgreed
PROPERTIES
    CloneSeesFrozenStore
    EnumerationEnds
    Recovers
