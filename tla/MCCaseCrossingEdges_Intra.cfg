CONSTANT N <- MCN
SPECIFICATION Spec
INVARIANT OnlyCrossingEdgesRemoved
CHECK_DEADLOCK FALSE
