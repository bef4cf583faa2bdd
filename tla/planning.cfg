SPECIFICATION Spec
CONSTANTS
    Scenes = {sc1}
    Primary = sc1
    Beats = {1, 2}
    Shots = {1, 2}
    Plans = {1, 2}
    Actors = {a, b}
    MaxNew = 1
    MaxWrites = 4
    MaxVersion = 2
    None = None
SYMMETRY Symmetry
INVARIANTS
    TypeOK
    OneCurrentPlan
    CascadeComplete
    TakenShotsStay
PROPERTIES
    ReplacedIsFinal
    ReplanReplaces
    WorkIsKept
CHECK_DEADLOCK FALSE
