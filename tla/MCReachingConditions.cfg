CONSTANT N <- MCN
SPECIFICATION Spec
INVARIANTS TypeOK RegionReachingExact ReachingFixpoint
PROPERTY ImplementsReachingContract
CHECK_DEADLOCK FALSE
