SPECIFICATION FairSpec
CONSTANTS
    FieldCount = 2
    ReadAttempts = 2
    Capacity = 2
    Descriptors <- Composite
    MaxPublications = 2
    MaxStops = 1
INVARIANTS
    SnapshotWhole
PROPERTIES
    PanelCatchesUp
CHECK_DEADLOCK FALSE
