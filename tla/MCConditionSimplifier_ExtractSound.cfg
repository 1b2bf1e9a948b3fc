CONSTANT Atoms <- MCAtoms
SPECIFICATION Spec
INVARIANT ExtractSound
CHECK_DEADLOCK FALSE
