CONSTANT Stmts <- MCStmts
INIT Init
NEXT Next
INVARIANT LastStatementsSound
CHECK_DEADLOCK FALSE
