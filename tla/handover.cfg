\* One cluster, failures, restarted migrations, leftover pull requests.
SPECIFICATION Spec
CONSTANTS
    Clusters = {c1}
    Modes = {"gates", "yolo"}
    MaxPRs = 4
    MaxMigrations = 2
    Calls = {"cancel", "rollback"}
    Faults = {"lost"}
INVARIANTS
    HandoverTypeOK
    NeverUnmanaged
    FinalizedWhenMoved
CHECK_DEADLOCK FALSE
