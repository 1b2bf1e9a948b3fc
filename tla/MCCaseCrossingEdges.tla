------------------------ MODULE MCCaseCrossingEdges ------------------------
(* Six nodes: a switch head and five nodes in and between its cases.       *)
EXTENDS CaseCrossingEdges

MCN == 6
=============================================================================
