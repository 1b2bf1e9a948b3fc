CONSTANTS
    Names <- MCNames
    NoName <- MCNoName
    MaxSteps <- MCMaxSteps
    MaxRaises <- MCMaxRaises
SPECIFICATION Spec
INVARIANT LogEntriesSurvivePickle
CHECK_DEADLOCK FALSE
