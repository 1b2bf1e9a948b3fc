CONSTANT Atoms <- MCAtoms
SPECIFICATION Spec
INVARIANTS FoldSound
CHECK_DEADLOCK FALSE
