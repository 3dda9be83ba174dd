CONSTANTS
    KeychainService = FALSE
    s1 = s1
    s2 = s2
    Salts <- BothSalts
    Scrambled = Scrambled
    Nothing = Nothing
    Passphrases = {"pw", "other"}
    Jobs <- RaceJobs
    Configs <- RaceConfigs
    InitialStore <- OldStore
    Backlog = 2
    Window = 1
    MaxPayload = 2
    Faults = {"stale"}
    Hung <- TheSecond
    Replayers <- TheSecond
    MaxRuns = 2
    MaxNow = 0
SPECIFICATION FairSpec
CHECK_DEADLOCK FALSE
INVARIANTS
    SentMeansStored
    ImportsAreFaithful
    SuccessMeansWritten
    OneShot
PROPERTIES
    KeepsPromise
    NoStepBack
    ReceptionEnds
    SendingEnds
