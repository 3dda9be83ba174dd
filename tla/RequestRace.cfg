CONSTANTS
    KeychainService = FALSE
    r1 = r1
    r2 = r2
    x = x
    Nothing = Nothing
    Missing = Missing
    Broken = Broken
    Garbage = Garbage
    Requesters <- TwoRequesters
    Strangers <- NoStrangers
    Passphrases = {"pw", "other"}
    ServerPw = "pw"
    Jobs <- RaceJobs
    Sizes = {}
    Contents <- RenewedContents
    InitialStore <- OldStore
    Backlog = 2
    RequestLimit = 1
    ExchangeTimeout = 1
    ConnectTimeout = 1
    Faults = {"misdeliver"}
    MaxRuns = 1
    MaxNow = 1
SPECIFICATION Spec
CHECK_DEADLOCK FALSE
SYMMETRY Symmetry
INVARIANTS
    FailedLeavesStore
PROPERTIES
    NeverImportsExpired
    KeepsPromise
