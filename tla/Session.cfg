SPECIFICATION Spec
CONSTANTS
    Owner = "t1"
    Ranks <- MCRanks
    Threads <- MCThreads
    Workers <- MCWorkers
    Identities <- MCIdentities
    MaxRuns = 2
    MaxGroups = 2
    MaxContexts = 2
    MaxJobs = 2
INVARIANTS
    AnswerBelongsToRequest
    NoStrayWorkers
    JobsAsAnswered
PROPERTIES
    CallsEnd
CHECK_DEADLOCK FALSE
