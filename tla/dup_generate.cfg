SPECIFICATION Spec
CONSTANTS
    Clients = {c1, c2}
    Keys = {k1}
    UiKeys = {u1, u2}
    Shots = {s1}
    Scopes = {s1}
    ShotsOf <- OneShot
    Counts = {1}
    Seeds = {d1}
    MaxTakes = 3
    None = None
INVARIANT DuplicateProtection
CHECK_DEADLOCK FALSE
