\* One user, a model at two providers, two commands, two crashes, any layout
\* and any reason.
SPECIFICATION Spec
CONSTANTS
    c1 = c1
    c2 = c2
    p1 = p1
    p2 = p2
    Providers = {p1, p2}
    Ids = {m1}
    Callers = {c1}
    Discoveries = {d1}
    None = None
    Reasons = {"off", "quoted", "broken"}
    Layouts = {"blocks", "free"}
    MaxCommands = 2
    MaxCrashes = 2
SYMMETRY MCProviders
INVARIANTS OverridesRule CommandsStand CanComeBack
