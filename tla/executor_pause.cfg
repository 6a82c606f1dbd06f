\* Pausing and resuming a migration while a step is in flight.
SPECIFICATION Spec
CONSTANTS
    Migrations = {m1}
    Workers = {w1, w2}
    Handlers = {h1}
    NSteps = 3
    PRSteps = {2}
    RollbackSteps = {2}
    MaxPRs = 1
    MaxRequests = 4
    Modes = {"gates", "yolo"}
    Calls = {"start", "continue", "pause"}
    Faults = {}
    Unborn = Unborn
    Deleted = Deleted
    Nobody = Nobody
INVARIANT
    CompletedStepsWereRun
CHECK_DEADLOCK FALSE
