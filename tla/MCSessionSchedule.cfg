SPECIFICATION PunctualSpec
CONSTANTS
    Calls = {c1, c2}
    NoCall = NoCall
    Tokens = {t1, t2, t3, t4}
    CallOps = {"con", "non", "petition"}
    Automatic = TRUE
    AckTimeouts = {2, 3}
    MaxRetransmit = 2
    ExchangeTimeout = 12
    KeepAliveInterval = 30
CHECK_DEADLOCK FALSE
SYMMETRY Symmetry
INVARIANTS
    RetriesFitDeadline
