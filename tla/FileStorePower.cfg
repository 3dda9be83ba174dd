CONSTANTS
    w1 = w1
    w2 = w2
    r1 = r1
    r2 = r2
    Writers <- OneWriter
    Readers <- OneReader
    Old = Old
    Torn = Torn
    Unread = Unread
    Syncs = FALSE
    UnlinkFails = TRUE
    MaxLosses = 1
SPECIFICATION Spec
CHECK_DEADLOCK FALSE
INVARIANT
    NeverTruncated
