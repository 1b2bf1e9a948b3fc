CONSTANT Stmts <- MCStmts
INIT Init
NEXT Next
INVARIANT LastStatementsComplete
CHECK_DEADLOCK FALSE
