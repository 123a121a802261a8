\* Two concurrent requests change, render, apply and roll back one server, create and
\* delete it and refresh; requests die, statements, writes and restarts fail; the last of three
\* versions of the inbounds is rejected by sing-box.
SPECIFICATION Spec
CONSTANTS
    None = None
    s1 = s1  s2 = s2  u1 = u1
    Servers = {s1}
    Units = {u1}
    Procs = {p1, p2}
    RevIds = {r1, r2}
    UnitOf <- MCSharedUnit
    MaxAccess = 2
    MaxPolicy = 0
    MaxRevNo = 2
    Valid <- MCValid
    BinaryMayBeMissing = FALSE
    Requests = {"change", "create", "delete", "render", "apply", "rollback", "refresh"}
    Faults = {"crash", "db", "write", "restart"}
SYMMETRY Symmetry
INVARIANTS
    OneCurrentRevision
    DraftCoversInbounds
    CurrentWasInstalled
    FileAccepted
    UndisturbedApplyTakesEffect
PROPERTIES
    RevisionsAreHistory
    ImplementsDeployment
