SPECIFICATION FairSpec
CONSTANTS
    LayoutCount = 2
    Clamp = 1
    MaxResidual = 3
    CommandSet <- FourCommands
    BootEndpoints = {1}
    Generations = {1, 2}
    NativeOnly = {2}
    MaxMaps = 2
    MaxLosses = 1
    MaxReports = 1
    MaxCommands = 2
    MaxChanges = 1
INVARIANTS
    RecordsAsPromised
PROPERTIES
    CommandsServed
CHECK_DEADLOCK FALSE
