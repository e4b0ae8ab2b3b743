SPECIFICATION Spec
INVARIANTS
    TuningHolds
PROPERTIES
    BatchHolds
    PlanningEnds
CHECK_DEADLOCK FALSE
