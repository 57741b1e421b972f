SPECIFICATION FairSpec
CONSTANTS
    Keys = {"device", "report 0", "report 1", "string"}
    ReportKeys = {"report 0", "report 1"}
    Slots = 3
    StoreSize = 7
    MaxPacketSize0 = 2
    FragmentBytes = 2
    Scripts <- MCScripts
    Lengths <- MCLengths
    MaxSetups = 2
    MaxBusySetups = 0
    MaxLosses = 1
INVARIANTS
    EntriesWhole
    RightByte
    TransferComplete
    ExportedWhole
PROPERTY EveryInAnswered
