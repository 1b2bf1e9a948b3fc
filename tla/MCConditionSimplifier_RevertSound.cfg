CONSTANT Atoms <- MCAtoms
SPECIFICATION Spec
INVARIANT RevertSound
CHECK_DEADLOCK FALSE
