SPECIFICATION FairSpec
CONSTANTS
  CommitTimeout = 5
  SettleSlots = 3
  SeqModulus = 8
  MapModulus = 8
  EntryCount = 2
  MaxFields = 2
  Devices <- Composite
  Kinds = {"RELATIVE", "ABSOLUTE"}
  MaxRequests = 1
  MaxFaults = 1
INVARIANTS ActiveMapOfOneUpload MapAgreementSeen NoMouseSound
PROPERTIES ImplementsService UploadsEnd
