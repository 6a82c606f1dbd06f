\* A waiting migration whose PR the user merges with the Auto Merge button.
SPECIFICATION FairSpec
CONSTANTS
    Migrations = {m1}
    Workers = {w1}
    Handlers = {h1}
    NSteps = 3
    PRSteps = {2}
    RollbackSteps = {2}
    MaxPRs = 1
    MaxRequests = 4
    Modes = {"gates", "yolo"}
    Calls = {"start", "continue", "mergePR"}
    Faults = {}
    Unborn = Unborn
    Deleted = Deleted
    Nobody = Nobody
PROPERTY
    AutoMergeContinues
CHECK_DEADLOCK FALSE
