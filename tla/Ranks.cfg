SPECIFICATION Spec
CONSTANTS
    Paths <- MCPaths
    Solving <- MCSolving
    Launches <- MCLaunches
    Tasks <- MCTasks
    RankNumbers <- MCRankNumbers
    Places <- MCPlaces
    MayCrash <- MCMayCrash
    HungNatives <- MCTasks
INVARIANTS
    LaunchHolds
    OnlyOwners
PROPERTIES
    RanksEnd
CHECK_DEADLOCK FALSE
