CONSTANTS
    KeychainService = TRUE
    Nothing = Nothing
    p1 = p1
    p2 = p2
    alice = alice
    bob = bob
    Processes <- Two
    Accounts <- Names
    Calls <- MCCalls
    FirstDoc <- First
    MaxCalls = 3
    MaxTokens = 3
    MaxEdits = 1
SPECIFICATION Spec
CHECK_DEADLOCK FALSE
SYMMETRY Symmetry
INVARIANTS
    Custody
    MergesLateVersion
PROPERTIES
    SuccessIsVisible
    OnlyForceWritesExpired
    SpoiledOnlyUnchecked
