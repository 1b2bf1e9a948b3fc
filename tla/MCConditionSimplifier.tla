---------------------- MODULE MCConditionSimplifier ----------------------
(***************************************************************************)
(* Model-checking instance of ConditionSimplifier over three symbols.      *)
(***************************************************************************)
EXTENDS ConditionSimplifier

MCAtoms == {"a", "b", "c"}
=============================================================================
