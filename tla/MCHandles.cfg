SPECIFICATION HandlesSpec
CONSTANTS
    Callers = {c1, c2}
    j1 = j1
    j2 = j2
    Joiners = {j1, j2}
    BloomBits <- MCBloomBits
    Operations <- MCOperations
    MaxChanges = 1
    MaxCalls = 2
    Capacity = 1
CHECK_DEADLOCK FALSE
INVARIANTS
    CacheFresh
    JoinersKept
    HeardOfFreshPrefix
    EventsAccounted
PROPERTIES
    CallsEnd
