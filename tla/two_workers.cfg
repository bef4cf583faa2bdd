SPECIFICATION Spec
CONSTANTS
    Jobs = {1}
    Rank <- RankByNumber
    Embedded = {e}
    Runners = {r}
    Slots = {s1}
    InjectedClient = TRUE
    MaxFaults = 0
    None = None
PROPERTIES
    LifecycleSpec
