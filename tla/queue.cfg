SPECIFICATION Spec
CONSTANTS
    Clients = {c1, c2}
    Keys = {k1}
    UiKeys = {u1}
    Shots = {s1, s2}
    Scopes = {s1, scene}
    ShotsOf <- SceneToo
    Counts = {1, 2}
    Seeds = {d1, d2}
    MaxTakes = 2
    None = None
SYMMETRY Symmetry
INVARIANTS
    TypeOK
    NumbersDense
    BatchWhole
    OneAnswer
PROPERTY LedgerSpec
CHECK_DEADLOCK FALSE
