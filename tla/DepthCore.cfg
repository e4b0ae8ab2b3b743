SPECIFICATION Spec
CONSTANTS
    Cand <- MCCand
    Score <- MCScore
    StateOf <- MCStateOf
    Shard <- MCShard
    ShardOf <- MCShardOf
    BeamWidth = 2
    NoThreshold = 9
    Batches <- FourLoads
    GoalBatches <- NoGoal
    RingCount = 2
    SlotCount = 2
    Capacity = 3
    BatchSize = 2
    Trigger = 2
    Period = 2
INVARIANTS
    TypeOK
    Ownership
    CapacityRespected
    NoSchedulerThrow
    NothingLost
    ThresholdSound
    CheckedNeverOverflows
PROPERTIES
    ThresholdTightens
    ImplementsBeamDepth
