SPECIFICATION Spec
CONSTANTS
    MaxSteps = 3
    MaxRadius = 2
    Moves = 2
    MaxEntries = 6
    Widths = {1, 2, 64}
    MaxBatch = 2
    RowLimit <- MCRowLimit
    Alignment = 4
    Scalar = TRUE
    Gpus <- MCGpus
    Visible <- MCVisible
    Selections <- MCSelections
    Asked <- MCAsked
    Configs = {"a", "b"}
    MaxInstalls = 2
    MaxForeign = 3
    Fetchers = {"p1", "p2", "p3"}
    Offline = {"p3"}
    Searching = {"p2"}
    Tampering = TRUE
    Builders = {"p1", "p2"}
    MaxUpgrades = 1
    MayCrash = {"p1"}
    MaxEdits = 1
    Sources = {"plain", "bundle", "live"}
    Live = {"live"}
    Bundles = {"bundle"}
    Shareable = {"bundle"}
    Members <- MCMembers
    MaxTampers = 1
    Parts = {1, 2, 3}
    Origins = {"east", "west"}
    MaxShards = 2
    Ceiling = 2
    Measured = 3
    MaxSpeed = 2
    MaxRounds = 2
    Saturated = 1
    Wanted = {0, 2}
INVARIANTS
    CallKeepsItsWord
    OnlyVerifiedTrees
    ExecutesItsSources
    FrozenRuns
    PublishedIsTrue
    FrontierFits
PROPERTIES
    RestoresWhatItFound
CHECK_DEADLOCK FALSE
