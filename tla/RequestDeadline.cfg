CONSTANTS
    KeychainService = FALSE
    r1 = r1
    r2 = r2
    x = x
    Nothing = Nothing
    Missing = Missing
    Broken = Broken
    Garbage = Garbage
    Requesters <- OneRequester
    Strangers <- OneStranger
    Passphrases = {"pw", "other"}
    ServerPw = "pw"
    Jobs <- SlowJobs
    Sizes = {0, 3}
    Contents <- OneContent
    InitialStore <- OldStore
    Backlog = 2
    RequestLimit = 2
    ExchangeTimeout = 2
    ConnectTimeout = 1
    Faults = {"accept"}
    MaxRuns = 2
    MaxNow = 0
SPECIFICATION FairDaemon
CHECK_DEADLOCK FALSE
INVARIANTS
    OneAtATime
PROPERTIES
    NoLateWork
    ServedInTurn
    QueuedIsServed
