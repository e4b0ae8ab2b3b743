SPECIFICATION FairSpec
CONSTANTS
    N = 3
    Rating <- MCRating
    Value <- MCValue
    Owner <- MCOwner
    Size = 3
    Roots <- MCRoots
    Settings <- MCSettings
    Scorers = {0, 3}
    Devices = {"cpu", "cuda"}
    Limit = 8
    Base = 2
    ScoreDigits = 2
    WordDigits = 5
    MayFail = {1}
    MayDisagree = {2}
    MayMisplace = {}
INVARIANTS InStep HeldWhereSought
PROPERTIES ImplementsCnotBeam EveryRankEnds
CHECK_DEADLOCK FALSE
