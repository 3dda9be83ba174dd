CONSTANTS
    KeychainService = TRUE
    r1 = r1
    r2 = r2
    x = x
    Nothing = Nothing
    Missing = Missing
    Broken = Broken
    Garbage = Garbage
    Requesters <- OneRequester
    Strangers <- NoStrangers
    Passphrases = {"pw", "other"}
    ServerPw = "pw"
    Jobs <- MacJobs
    Sizes = {}
    Contents <- MacContents
    InitialStore <- OldStore
    Backlog = 2
    RequestLimit = 1
    ExchangeTimeout = 1
    ConnectTimeout = 1
    Faults = {"corrupt"}
    MaxRuns = 2
    MaxNow = 0
SPECIFICATION FairRequesters
CHECK_DEADLOCK FALSE
INVARIANTS
    StoresStayUsable
    ExitTellsAll
PROPERTIES
    NoStepBack
    RequestsEnd
