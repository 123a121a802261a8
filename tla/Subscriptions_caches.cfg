\* Two requests: clients fetch and revalidate while the content changes, with
\* and without a mark, and statements fail.
SPECIFICATION Spec
CONSTANTS
    None = None
    Tokens = {t1}
    Procs = {p1, p2}
    Clients = {c1}
    MaxPart = 1
    MaxVersion = 3
    DisabledUsers = {}
    Requests = {"issue", "revoke", "fetch", "change", "unmarked"}
    Faults = {"db"}
SYMMETRY Symmetry
PROPERTIES
    AnswersAreCurrent
