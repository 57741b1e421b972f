SPECIFICATION FairSpec
CONSTANTS
    LastSource = 1
    Unmatched = Unmatched
    Slots <- OneSlot
    Endpoints <- BothSources
    FifoDepth = 4
    MaxReportBytes = 4
    BufferBytes = 4
    ReportLengths <- LongShort
    MaxDetaches = 1
    MaxFlushes = 1
INVARIANTS
    TypeOK
    WholeReports
PROPERTIES
    EachReportTaken
