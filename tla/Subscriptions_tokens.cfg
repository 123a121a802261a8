\* Two operators rotate, issue, revoke and look at tokens at once; tokens expire,
\* requests die and statements fail.
SPECIFICATION Spec
CONSTANTS
    None = None
    Tokens = {t1, t2, t3}
    Procs = {p1, p2}
    Clients = {c1}
    MaxPart = 0
    MaxVersion = 3
    DisabledUsers = {}
    Requests = {"rotate", "issue", "revoke", "view", "expire"}
    Faults = {"crash", "db"}
SYMMETRY Symmetry
INVARIANTS
    OnePrimary
    PrimaryIsRecoverable
    DeadTokensServeNothing
