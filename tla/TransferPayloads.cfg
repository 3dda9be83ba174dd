CONSTANTS
    KeychainService = TRUE
    s1 = s1
    s2 = s2
    Salts <- OneSalt
    Scrambled = Scrambled
    Nothing = Nothing
    Passphrases = {"pw", "other"}
    Jobs <- PayloadJobs
    Configs <- PayloadConfigs
    InitialStore <- OldStore
    Backlog = 1
    Window = 2
    MaxPayload = 3
    Faults = {"corrupt", "garble"}
    Hung <- Nobody
    Replayers <- Nobody
    MaxRuns = 1
    MaxNow = 2
SPECIFICATION Spec
CHECK_DEADLOCK FALSE
INVARIANTS
    StoreStaysUsable
    RefusedMeansNotStored
PROPERTIES
    NeverWritesExpired
