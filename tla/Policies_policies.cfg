SPECIFICATION Spec
CONSTANTS
    Servers = {"a", "b"}
    Inbounds = {"i", "j"}
    Users = {"u", "v"}
    Policies = {"reality", "masq", "client", "log", "second", "dns", "proxy", "spare", "rule"}
    Kind <- MCKind
    Home <- MCHome
    Tags = {"direct", "block", "dns-out", "proxy"}
    Values = {1, 2}
    InitPolicies <- MCPoliciesAtFirst
    InitInbounds <- MCInboundsAtFirst
    InitAccess <- MCAccessAtFirst
    Requests <- MCRequests
    Procs = {p, q}
    Faults = {"db", "crash"}
    MaxRequests = 3
    MaxFailures = 1
    None = None
INVARIANTS
    TypeOK
    MarkedWhenChanged
    ValidModelRenders
PROPERTIES
    UsageShowsImpact
SYMMETRY Symmetry
CHECK_DEADLOCK FALSE
