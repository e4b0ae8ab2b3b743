SPECIFICATION FairSpec
CONSTANTS
    Cand <- MCCand
    Score <- MCScore
    StateOf <- MCStateOf
    Shard <- MCShard
    ShardOf <- MCShardOf
    BeamWidth = 2
    NoThreshold = 9
    Batches <- TwoDepths
    GoalBatches <- GoalInSecondDepth
    RingCount = 2
    SlotCount = 2
    Capacity = 3
    BatchSize = 2
    Trigger = 2
    Period = 2
INVARIANTS
    GoalNotMissed
    QuiescentOnReturn
PROPERTIES
    NothingLaunchedAfterStop
    Terminates
