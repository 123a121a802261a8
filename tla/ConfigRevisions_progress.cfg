\* Every request returns, also when it refreshes two servers that another
\* request deletes meanwhile: three ids let the refresh and the deletion run together.
SPECIFICATION FairSpec
CONSTANTS
    None = None
    s1 = s1  s2 = s2  u1 = u1
    Servers = {s1, s2}
    Units = {u1}
    Procs = {p1, p2}
    RevIds = {r1, r2, r3}
    UnitOf <- MCSharedUnit
    MaxAccess = 0
    MaxPolicy = 0
    MaxRevNo = 3
    Valid <- MCAllValid
    BinaryMayBeMissing = FALSE
    Requests = {"delete", "move", "refresh"}
    Faults = {"restart"}
PROPERTIES
    RequestsReturn
