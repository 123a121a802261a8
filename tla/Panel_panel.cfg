\* Two requests at a time beside one command of the operator, with every failure.
\* The requests of an instance run out.
SPECIFICATION Spec
CHECK_DEADLOCK FALSE
CONSTANTS
    None = None
    e1 = e1  i1 = i1  i2 = i2
    Emails = {e1}
    AdminIds = {i1, i2}
    t1 = t1  t2 = t2
    Tokens = {t1, t2}
    Addresses = {a1}
    Procs = {p1, p2}
    Conns = {c1, c2, c3}
    Initial <- MCInitial
    Foreign <- MCForeign
    Kinds = {"login", "logout", "call", "restore", "download"}
    Faults = {"db", "cancel", "kill", "disk"}
    Burst = 1
    Window = 1
    TTL = 1
    MaxTime = 1
    MaxRequests = 2
    MaxCommands = 1
SYMMETRY Symmetric
INVARIANTS
    TypeOK
    SessionsHaveAdmin
    AttemptsBounded
    HeldSessionsStay
    DownloadIsOwnCopy
    AttachedOnlyWhileRestoring
    
