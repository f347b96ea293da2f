SPECIFICATION AnsweredSpec
CONSTANTS
    BorderAgent = BA
    Devices = {d1, d2}
    Ids = {i1}
    Lifetime = 3
    MaxRemembered = 2
    MaxSerial = 2
SYMMETRY Symmetry
CHECK_DEADLOCK FALSE
INVARIANTS
    RepliesBelong
    ActedOnce
