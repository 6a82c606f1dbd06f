\* One operator who lets every goroutine end before acting on its migration:
\* starts, approves, retries, rolls back; no pause, cancel or delete.
SPECIFICATION FairSpec
CONSTANTS
    Migrations = {m1}
    Workers = {w1, w2}
    Handlers = {h1}
    NSteps = 3
    PRSteps = {2, 3}
    RollbackSteps = {2}
    MaxPRs = 3
    MaxRequests = 5
    Modes = {"gates", "yolo"}
    Calls = {"start", "continue", "retry", "rollback"}
    Faults = {}
    Unborn = Unborn
    Deleted = Deleted
    Nobody = Nobody
INVARIANTS
    OneDriver
    CompletedStepsWereRun
    OneStepPerApproval
PROPERTIES
    ProgressKept
    FollowsLifecycle
    RunsEnd
CHECK_DEADLOCK FALSE
