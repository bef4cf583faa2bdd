SPECIFICATION Spec
CONSTANTS
    Jobs = {1}
    Rank <- RankByNumber
    Embedded = {e}
    Runners = {}
    Slots = {s1}
    InjectedClient = FALSE
    MaxFaults = 0
    None = None
INVARIANTS
    LivePromptKeepsJob
