SPECIFICATION Spec
CONSTANTS
    Characters = {c1}
    Environment = env
    Looks = {thin, full}
    Thin = {thin}
    Images = {i1, i2}
    Assets = {x, y}
    Runs = {r1, r2}
    Actors = {a, b}
    MaxOps = 4
    None = None
SYMMETRY Symmetry
INVARIANTS
    TypeOK
    GeneratedMatches
    NoDuplicates
    FilesAccounted
    SucceededHasAsset
    LiveHasOwner
PROPERTIES
    PinHolds
    DrawingSpec
CHECK_DEADLOCK FALSE
