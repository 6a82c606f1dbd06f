\* A failed migration is rolled back, and every pull request is merged.
SPECIFICATION Spec
CONSTANTS
    Clusters = {c1}
    Modes = {"gates", "yolo"}
    MaxPRs = 4
    MaxMigrations = 1
    Calls = {"rollback"}
    Faults = {}
INVARIANT
    RollbackReenables
CHECK_DEADLOCK FALSE
