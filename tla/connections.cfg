\* Two replicas and three changes, on a Secret and in a file.
SPECIFICATION Spec
CONSTANTS
    Names = {a, b}
    t1 = t1
    t2 = t2
    Tokens = {t1, t2}
    Expanded <- MCExpanded
    Pods = {p1, p2}
    Requests = {r1, r2}
    MaxRequests = 3
    Backends = {"secret", "file"}
    Faults = {"fail"}
    Blank = Blank
    Nobody = Nobody
SYMMETRY Symmetry
INVARIANTS
    ConnTypeOK
    DocumentCoherent
PROPERTY
    NoLostChange
CHECK_DEADLOCK FALSE
