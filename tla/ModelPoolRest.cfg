\* Two users, no crash, the code's own layout: the rest of the file is lost.
\* With Layouts = {"free"} one user is enough.
SPECIFICATION Spec
CONSTANTS
    c1 = c1
    c2 = c2
    p1 = p1
    p2 = p2
    Providers = {p1}
    Ids = {m1}
    Callers = {c1, c2}
    Discoveries = {d1}
    None = None
    Reasons = {"off"}
    Layouts = {"blocks"}
    MaxCommands = 2
    MaxCrashes = 0
INVARIANTS AlwaysPreserved
