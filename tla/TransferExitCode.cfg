CONSTANTS
    KeychainService = FALSE
    s1 = s1
    s2 = s2
    Salts <- OneSalt
    Scrambled = Scrambled
    Nothing = Nothing
    Passphrases = {"pw", "other"}
    Jobs <- OddJobs
    Configs <- AnyConfig
    InitialStore <- OldStore
    Backlog = 2
    Window = 1
    MaxPayload = 2
    Faults = {}
    Hung <- Nobody
    Replayers <- Nobody
    MaxRuns = 1
    MaxNow = 0
SPECIFICATION Spec
CHECK_DEADLOCK FALSE
INVARIANT
    ExitCodeAuthoritative
