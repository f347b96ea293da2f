SPECIFICATION FairSpec
CONSTANTS
    Width = 3
    MaxSequence = 5
    MaxBundle = 2
    MaxFinished = 2
CHECK_DEADLOCK FALSE
INVARIANTS
    RecordTypeOK
    WindowExact
PROPERTIES
    ImplementsChannel
    FreshRecordsDelivered
