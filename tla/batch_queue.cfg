\* A batch, a migration started beside it, members rolled back.
SPECIFICATION BatchFairSpec
CONSTANTS
    m1 = m1
    m2 = m2
    Migrations = {m1, m2, m3}
    Workers = {w1, w2, w3}
    Handlers = {h1}
    NSteps = 2
    PRSteps = {2}
    RollbackSteps = {2}
    MaxPRs = 2
    MaxRequests = 3
    Modes = {"gates", "yolo"}
    Calls = {"batch", "start", "rollback"}
    Faults = {}
    Unborn = Unborn
    Deleted = Deleted
    Nobody = Nobody
    Members <- TwoMembers
    FileStore = TRUE
INVARIANTS
    MembersInSequence
    BatchTreatsAll
    OneMigrationAtATime
PROPERTIES
    FollowsQueue
    BatchComesToRest
CHECK_DEADLOCK FALSE
