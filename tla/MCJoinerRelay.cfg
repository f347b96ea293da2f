SPECIFICATION Spec
CONSTANTS
    None = None
    pskd = pskd
    other = other
    ClientSecret = pskd
    Handlers <- MCHandlers
    MaxFaults = 2
    MaxRecords = 3
    MaxDuplicateRetransmissions = 1
    MaxDuplicateFlights = 1
    MaxLate = 1
CHECK_DEADLOCK FALSE
INVARIANTS
    RelayedNumbersFresh
    EventsInOrder
    KekOnlyIfAccepted
    JoinerToldByItsSession
PROPERTIES
    SessionsRetired
