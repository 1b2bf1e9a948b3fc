----------------------------- MODULE MCAnalysis -----------------------------
(* Analysis with one block name besides None, bodies of two statements  *)
(* and up to two raised exceptions: enough for an exception handled in    *)
(* Inner followed by one crossing into Outer's block, or one crossing and *)
(* one escaping the user's call.                                            *)
EXTENDS Analysis

MCNames == {"n1"}
MCNoName == "None"
MCMaxSteps == 2
MCMaxRaises == 2
=============================================================================
