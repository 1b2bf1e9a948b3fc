----------------------- MODULE MCReachingConditions -----------------------
(***************************************************************************)
(* Model-checking instance of ReachingConditions: every well-formed region *)
(* over MCN nodes, every terminator shape, with and without successors.    *)
(***************************************************************************)
EXTENDS ReachingConditions

MCN == 5
=============================================================================
