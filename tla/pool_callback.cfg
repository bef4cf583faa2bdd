SPECIFICATION Spec
CONSTANTS
    Jobs = {1, 2}
    Rank <- RankByNumber
    Embedded = {e}
    Runners = {}
    Slots = {s1, s2}
    InjectedClient = TRUE
    MaxFaults = 0
    None = None
INVARIANTS
    AtomicFinalization
