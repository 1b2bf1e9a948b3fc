CONSTANT N <- MCN
SPECIFICATION Spec
INVARIANT CasesSeparated
CHECK_DEADLOCK FALSE
