\* Requests run to completion one after the other and nothing fails; users are deleted,
\* disabled or expire in bulk at any time.
SPECIFICATION Spec
CONSTANTS
    None = None
    s1 = s1  s2 = s2  u1 = u1
    Servers = {s1}
    Units = {u1}
    Procs = {p1}
    RevIds = {r1, r2, r3}
    UnitOf <- MCSharedUnit
    MaxAccess = 1
    MaxPolicy = 1
    MaxRevNo = 4
    Valid <- MCValid
    BinaryMayBeMissing = TRUE
    Requests = {"change", "bulk", "policy", "create", "delete", "apply", "refresh"}
    Faults = {}
SYMMETRY Symmetry
INVARIANTS
    DraftCoversInbounds
    CurrentRevisionIsOnDisk
