SPECIFICATION CodecsSpec
CONSTANTS
    Err = Err
    None = None
    Q = 5
    Challenge <- MCChallenge
    Values <- MCValues
    Versions <- MCVersions
    Messages <- MCMessages
    Originals <- MCOriginals
    Passwords <- MCPasswords
    Nonces <- MCNonces
INVARIANTS
    DatasetReadsBack
    ShortIsNeverMisread
    ReassembledWhole
    KeysMatchPasswords
CHECK_DEADLOCK FALSE
