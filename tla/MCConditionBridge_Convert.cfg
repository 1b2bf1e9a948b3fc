CONSTANTS
    r1 = r1
    r2 = r2
    Regs <- MCRegs
    Ops = {"Add", "BitwiseNeg", "Rol", "CmpEQ", "CmpLT", "Not"}
    ConvSigned = {FALSE, TRUE}
    InsAddrs = {1}
    MaxCalls = 2
SPECIFICATION Spec

PROPERTY MappingAppendOnly
CHECK_DEADLOCK FALSE
