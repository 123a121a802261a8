\* Two users and two names; users are renamed, lose and regain access, are deleted
\* and come back, two instances of the service run under two process ids or the
\* same one, polls fail and instances stay unknown.
SPECIFICATION Spec
CONSTANTS
    None = None
    Users = {u1, u2}
    Names = {n1, n2}
    MaxCount = 2
    Pids = {p1, p2}
    MaxStarts = 2
    Requests = {"rename", "access", "delete"}
    Faults = {"status", "db", "crash"}
SYMMETRY Symmetry
VIEW View
INVARIANTS
    NeverOvercharged
PROPERTIES
    PollCreditsTheGain
