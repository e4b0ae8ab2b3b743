SPECIFICATION Spec
CONSTANTS
    Cand <- MCCand
    StateOf <- MCStateOf
    Score <- MCScore
    NoThreshold = 9
    Rank <- MCRank
    OwnerOf <- MCOwnerOf
    Loads <- MCLoads
    Shard <- MCShard
    ShardOf <- MCShardOf
    BeamWidth = 6
    SlotCount = 1
    Capacity = 6
    BatchSize = 2
    RecvCapacity = 2
    Trigger = 1
INVARIANTS
    RoundsInStep
    CreditKept
PROPERTIES
    ImplementsBeamDepth
