\* One user, no crash, the code's own layout: a reason with a quote in it.
SPECIFICATION Spec
CONSTANTS
    c1 = c1
    c2 = c2
    p1 = p1
    p2 = p2
    Providers = {p1}
    Ids = {m1}
    Callers = {c1}
    Discoveries = {d1}
    None = None
    Reasons = {"off", "quoted"}
    Layouts = {"blocks"}
    MaxCommands = 2
    MaxCrashes = 0
INVARIANTS Persisted
