\* A batch in gates mode whose member the operator approves step by step.
SPECIFICATION BatchFairSpec
CONSTANTS
    m1 = m1
    m2 = m2
    Migrations = {m1, m2}
    Workers = {w1, w2, w3}
    Handlers = {h1}
    NSteps = 2
    PRSteps = {2}
    RollbackSteps = {2}
    MaxPRs = 3
    MaxRequests = 4
    Modes = {"gates", "yolo"}
    Calls = {"batch", "continue"}
    Faults = {}
    Unborn = Unborn
    Deleted = Deleted
    Nobody = Nobody
    Members <- TwoMembers
    FileStore = TRUE
PROPERTY
    BatchMovesOn
CHECK_DEADLOCK FALSE
