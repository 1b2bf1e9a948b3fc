INIT Init
NEXT Next
INVARIANT EveryPatchApplied
CHECK_DEADLOCK FALSE
