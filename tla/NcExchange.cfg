CONSTANTS
    Frame = 3
    Replies = {0, 3, 5}
    InCap = 1
    OutCap = 2
    Limit = 3
    ExchangeTimeout = 2
SPECIFICATION FairExchange
CHECK_DEADLOCK FALSE
INVARIANTS
    TypeOK
    Reaped
    NeitherWaits
PROPERTIES
    KeepsPromise
    NeverSpins
    ExchangeEnds
    ReplyArrives
