\* Requests run to completion one after the other and nothing fails.
SPECIFICATION Spec
CONSTANTS
    None = None
    Tokens = {t1, t2, t3}
    Procs = {p1}
    Clients = {c1}
    MaxPart = 1
    MaxVersion = 4
    DisabledUsers = {1}
    Requests = {"rotate", "issue", "revoke", "view", "refresh", "fetch", "change", "expire"}
    Faults = {}
SYMMETRY Symmetry
INVARIANTS
    CleanMeansRendered
PROPERTIES
    ShownTokenIsStable
    RotationLeavesOne
