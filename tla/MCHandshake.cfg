SPECIFICATION FairSpec
CONSTANTS
    None = None
    ClientSecret = p1
    ServerSecrets = {p1, p2}
    MaxFaults = 2
    MaxLate = 2
    MaxRecords = 2
    MaxDuplicateRetransmissions = 2
    MaxAccepts = 2
CHECK_DEADLOCK FALSE
INVARIANTS
    FreshRecordNumbers
    TranscriptStartsWithLastHello
PROPERTIES
    ImplementsAgreement
    HandshakeCompletes
