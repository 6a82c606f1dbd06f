\* Every request, two requests at a time, a flaky store and restarts.
SPECIFICATION Spec
CONSTANTS
    Migrations = {m1}
    Workers = {w1, w2}
    Handlers = {h1, h2}
    NSteps = 2
    PRSteps = {2}
    RollbackSteps = {2}
    MaxPRs = 1
    MaxRequests = 3
    Modes = {"gates", "yolo"}
    Calls = {"start", "continue", "retry", "pause", "cancel", "delete", "mergePR", "rollback"}
    Faults = {"crash", "flaky"}
    Unborn = Unborn
    Deleted = Deleted
    Nobody = Nobody
SYMMETRY Symmetry
INVARIANTS
    TypeOK
    RecordsCoherent
    PRNumbersReal
    CancelsTheRightWork
CHECK_DEADLOCK FALSE
