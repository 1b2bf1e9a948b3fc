-------------------------- MODULE MCLastStatements --------------------------
(* Statement names for checking LastStatements.                            *)
EXTENDS LastStatements

MCStmts == {"s1", "s2"}
=============================================================================
