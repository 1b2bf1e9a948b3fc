CONSTANTS
    Names <- MCNames
    NoName <- MCNoName
    MaxSteps <- MCMaxSteps
    MaxRaises <- MCMaxRaises
SPECIFICATION Spec
INVARIANTS TypeOK ErrorsAttributed
PROPERTY ImplementsContract
CHECK_DEADLOCK FALSE
