\* Two requests of every kind, one after the other or at a time; one failure, on connections
\* with and without foreign keys.  The requests of an instance run out.
SPECIFICATION Spec
CHECK_DEADLOCK FALSE
CONSTANTS
    None = None
    s1 = s1  s2 = s2  u1 = u1  u2 = u2  i1 = i1  i2 = i2  i3 = i3
    a1 = a1  a2 = a2  a3 = a3  a4 = a4  n1 = n1  n2 = n2
    Servers = {s1, s2}
    Users = {u1, u2}
    Inbounds = {i1, i2, i3}
    Accesses = {a1, a2, a3, a4}
    Names = {n1, n2}
    DefaultServer = s1
    InitInbounds <- MCInbounds
    InitUsers <- MCUsers
    InitAccess <- MCAccess
    Requests <- MCRequests
    Procs = {p1, p2}
    ForeignKeys = {TRUE, FALSE}
    Faults = {"db", "crash"}
    MaxRequests = 2
    MaxFailures = 1
INVARIANTS
    FailedProvisionLeavesNoUser
    SuccessIsDrafted
    SuccessIsMarked
    ProvisionedUserIsServed
    ProvisionRefusedForCause
