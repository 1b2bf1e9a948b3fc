CONSTANT N <- MCN
SPECIFICATION Spec
INVARIANT SuccessorReachingExact
CHECK_DEADLOCK FALSE
