CONSTANTS
    w1 = w1
    w2 = w2
    r1 = r1
    r2 = r2
    Writers <- TwoWriters
    Readers <- TwoReaders
    Old = Old
    Torn = Torn
    Unread = Unread
    Syncs = TRUE
    UnlinkFails = FALSE
    MaxLosses = 2
SPECIFICATION Spec
CHECK_DEADLOCK FALSE
INVARIANTS
    ReadsAreWhole
    NeverTruncated
    NoLitter
PROPERTIES
    IsARegister
