CONSTANTS
    KeychainService = FALSE
    r1 = r1
    r2 = r2
    x = x
    Nothing = Nothing
    Missing = Missing
    Broken = Broken
    Garbage = Garbage
    Requesters <- OneRequester
    Strangers <- OneStranger
    Passphrases = {"pw", "other"}
    ServerPw = "pw"
    Jobs <- SlowJobs
    Sizes = {0, 2}
    Contents <- OneContent
    InitialStore <- OldStore
    Backlog = 2
    RequestLimit = 2
    ExchangeTimeout = 2
    ConnectTimeout = 1
    Faults = {"accept"}
    MaxRuns = 1
    MaxNow = 0
SPECIFICATION Spec
CHECK_DEADLOCK FALSE
INVARIANT
    KeepsServing
