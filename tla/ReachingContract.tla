------------------------- MODULE ReachingContract -------------------------
(***************************************************************************)
(* What recover_reaching_conditions promises (spec 4.3), with no loop in   *)
(* it.  First the edge conditions of region.graph are recovered.  Then     *)
(* the reaching and guarding conditions are published together:           *)
(*   - the reaching conditions solve the equations of lines 341-356 over   *)
(*     the propagation graph: true at the head and at a node that post-    *)
(*     dominates it, else the Or over predecessors of their condition And *)
(*     the edge's, an absent entry reading as true;                       *)
(*   - every node with exactly two predecessors and a diverging edge has   *)
(*     its guarding condition, and no other node has one.                  *)
(* Any solution of the equations is allowed; the contract does not say in *)
(* which order they are solved.                                            *)
(***************************************************************************)
EXTENDS ReachingEquations

VARIABLES
    stage,     \* "edges", "conds" (edge conditions recovered), "published"
    gc         \* guarding_conditions

cvars == <<edges, kind, ws, assigns, stage, econd, rc, gc>>

(* The nodes that receive a reaching condition: the short-cut nodes and   *)
(* the nodes with a predecessor.                                           *)
CondNodes == {n \in GNodes : ShortCut(n) \/ Preds(GEdges, n) # {}}

(* The nodes that receive a guarding condition.                            *)
GuardNodes ==
    {n \in GNodes : Cardinality(Preds(GEdges, n)) = 2 /\ DivergingEdges(n) # {}}

Init ==
    /\ edges \in SUBSET Pairs
    /\ kind \in [Nodes -> Kinds]
    /\ WellFormed(edges, kind)
    /\ ws \in BOOLEAN
    /\ assigns = AssignmentsUpTo
    /\ stage = "edges"
    /\ econd = <<>>
    /\ rc = <<>>
    /\ gc = <<>>

(* recover_edge_conditions(region).                                        *)
Recover ==
    /\ stage = "edges"
    /\ econd' = [e \in RegionEdges |-> ExtractPredicate(e[1], e[2])]
    /\ stage' = "conds"
    /\ UNCHANGED <<edges, kind, ws, assigns, rc, gc>>

(* self.reaching_conditions and self.guarding_conditions are published.   *)
Publish ==
    /\ stage = "conds"
    /\ stage' = "published"
    /\ UNCHANGED <<edges, kind, ws, assigns, econd>>
    /\ gc' = [n \in GuardNodes |-> GuardingCondition(n)]
    /\ \* the reaching conditions solve the equations of lines 341-356; the
       \* graph does not change, so the short-cut nodes are the current ones
       LET sc == {n \in GNodes : ShortCut(n)}
       IN  /\ DOMAIN rc' = CondNodes
           /\ \A n \in CondNodes : rc'[n] = IF n \in sc THEN assigns ELSE OrOfPreds(n)'

Next == Recover \/ Publish

Spec == Init /\ [][Next]_cvars
=============================================================================
