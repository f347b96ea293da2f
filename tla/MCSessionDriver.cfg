SPECIFICATION Spec
CONSTANTS
    Calls = {c1, c2, c3}
    NoCall = NoCall
    Tokens = {t1, t2, t3, t4}
    CallOps = {"con", "post", "bad", "petition", "keepalive", "resign"}
    Automatic = TRUE
    AckTimeouts = {1}
    MaxRetransmit = 1
    ExchangeTimeout = 2
    KeepAliveInterval = 3
CHECK_DEADLOCK FALSE
SYMMETRY Symmetry
INVARIANTS
    TypeOK
    NoCallerForgotten
    OneExchangePerKind
    SlotNeverIdle
    StatusMatchesExchanges
    KeepAliveNeverForgotten
    LossPublishedOnce
PROPERTIES
    AnsweredOnce
    NothingNewWhileResigning
