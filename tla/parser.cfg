SPECIFICATION Spec
CONSTANTS
    MaxInterfaces = 2
    MaxEndpoints = 2
    MaxConfigurationSize = 70
    MaxReportSize = 300
    MaxPacketSize = 64
    MaxMore = 3
    Starts <- MCStarts
    Descriptors <- MCDescriptors
    Misstated <- MCMisstated
INVARIANTS
    TableIsComplete
    SecondFetchAgrees
    MirrorsWithoutSecondHeader
CHECK_DEADLOCK FALSE
