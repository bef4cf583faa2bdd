SPECIFICATION Spec
CONSTANTS
    Jobs = {1, 2}
    Rank <- RankByNumber
    Embedded = {e}
    Runners = {}
    Slots = {s1}
    InjectedClient = TRUE
    MaxFaults = 2
    None = None
INVARIANTS
    TypeOK
    AtMostOneSubmission
    AtomicFinalization
    LivePromptKeepsJob
PROPERTIES
    LifecycleSpec
    EveryJobEnds
