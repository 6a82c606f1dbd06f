\* Two clusters, one migration that nothing disturbs.
SPECIFICATION Spec
CONSTANTS
    Clusters = {c1, c2}
    Modes = {"yolo"}
    MaxPRs = 3
    MaxMigrations = 1
    Calls = {}
    Faults = {}
INVARIANT
    FinalizedEverywhere
CHECK_DEADLOCK FALSE
