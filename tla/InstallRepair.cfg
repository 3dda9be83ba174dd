CONSTANTS
    MaxRuns = 4
    MaxDamages = 2
SPECIFICATION Spec
CHECK_DEADLOCK FALSE
INVARIANTS
    RepairsItself
    RerunKeepsVenv
