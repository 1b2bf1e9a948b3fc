INIT Init
NEXT Next
INVARIANT OnlyCanaryRemoved
CHECK_DEADLOCK FALSE
