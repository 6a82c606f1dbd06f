\* Every request on the members of a batch, a failing store and restarts.
SPECIFICATION BatchSpec
CONSTANTS
    m1 = m1
    m2 = m2
    Migrations = {m1, m2}
    Workers = {w1, w2}
    Handlers = {h1}
    NSteps = 1
    PRSteps = {1}
    RollbackSteps = {1}
    MaxPRs = 1
    MaxRequests = 2
    Modes = {"yolo"}
    Calls = {"batch", "cancel", "delete", "mergePR"}
    Faults = {"crash", "flaky"}
    Unborn = Unborn
    Deleted = Deleted
    Nobody = Nobody
    Members <- TwoMembers
    FileStore = FALSE
SYMMETRY Symmetry
INVARIANTS
    BatchTypeOK
    CancelsTheRightWork
CHECK_DEADLOCK FALSE
