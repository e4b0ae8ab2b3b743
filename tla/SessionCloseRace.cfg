SPECIFICATION Spec
CONSTANTS
    Threads = {t1, t2}
    Ranks = {r1}
    Identities = {i1}
    MaxRuns = 2
    MaxGroups = 1
    ReapMayFail = FALSE
    ParentMayDie = FALSE
INVARIANTS ClosedFreesWorkers

CHECK_DEADLOCK FALSE
