SPECIFICATION Spec
CONSTANTS
    Jobs = {1}
    Rank <- RankByNumber
    Embedded = {e}
    Runners = {r1, r2}
    Slots = {s1}
    InjectedClient = TRUE
    MaxFaults = 2
    None = None
INVARIANTS
    AtMostOneSubmission
    SucceededHasTake
    MediaKept
    RunnersExclusive
