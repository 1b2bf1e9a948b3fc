------------------------ MODULE ReachingConditions ------------------------
(***************************************************************************)
(* ConditionProcessor.recover_reaching_conditions and the edge-predicate   *)
(* extractor it calls (angr/analyses/decompiler/condition_processor.py):  *)
(* the loops over the region graph of ReachingEquations, and the ground    *)
(* truth of which nodes a run reaches that the properties compare with.   *)
(***************************************************************************)
EXTENDS ReachingEquations

VARIABLES
    truth,     \* reference: node -> the assignments under which it is reached
    phase,     \* "edges", "reach", "guard" or "done"
    done,      \* nodes of sorted_nodes already visited by the first loop
    gc,        \* guarding_conditions being built
    gdone      \* nodes already visited by the guarding loop

inputs == <<edges, kind, ws, assigns, truth>>
vars == <<edges, kind, ws, assigns, truth, phase, econd, rc, done, gc, gdone>>

-----------------------------------------------------------------------------
(* The ground truth of which nodes a run reaches.                          *)

(* The block control moves to from n under assignment s (a sink stays).   *)
Step(n, s) ==
    IF Succs(edges, n) = {} THEN n
    ELSE IF IsCond(n) THEN (IF s[n] = 1 THEN TrueTarget(n)
                           ELSE CHOOSE m \in Succs(edges, n) : m # TrueTarget(n))
    ELSE IF kind[n] = "ijump" THEN s[n]
    ELSE CHOOSE m \in Succs(edges, n) : TRUE

Reached(s) ==
    LET w[k \in 0..N] == IF k = 0 THEN RegionHead ELSE LET prev == w[k - 1] IN Step(prev, s)
    IN  {w[k] : k \in 0..N}

(* The assignments under which control reaches n from the head.           *)
ReachSet(n) == truth[n]
Truth == [n \in Nodes |-> {s \in assigns : n \in Reached(s)}]

(* The assignments under which the run stays in region.graph, i.e. does   *)
(* not leave through an edge to the successor.                            *)
Stay == IF ws THEN assigns ELSE assigns \ truth[N]

-----------------------------------------------------------------------------
Init ==
    /\ edges \in SUBSET Pairs
    /\ kind \in [Nodes -> Kinds]
    /\ WellFormed(edges, kind)
    /\ ws \in BOOLEAN
    /\ assigns = AssignmentsUpTo
    /\ truth = Truth
    /\ phase = "edges"
    /\ econd = <<>>
    /\ rc = <<>>
    /\ done = {}
    /\ gc = <<>>
    /\ gdone = {}

(* recover_edge_conditions(region): every edge of region.graph.           *)
RecoverEdgeConditions ==
    /\ phase = "edges"
    /\ econd' = [e \in RegionEdges |-> ExtractPredicate(e[1], e[2])]
    /\ phase' = "reach"
    /\ UNCHANGED <<inputs, rc, done, gc, gdone>>

(* Mutant: the loop walks the nodes of graph_with_successors while the     *)
(* propagation graph is region.graph.                                      *)
VisitNodeAllNodes(n) ==
    /\ phase = "reach"
    /\ n \in Nodes \ done
    /\ Preds(GEdges, n) \subseteq done
    /\ rc' = IF n = RegionHead \/ PostDominates(GNodes, GEdges, n, RegionHead)
             THEN [m \in DOMAIN rc \cup {n} |-> IF m = n THEN assigns ELSE rc[m]]
             ELSE IF Preds(GEdges, n) = {} THEN rc
             ELSE [m \in DOMAIN rc \cup {n} |-> IF m = n THEN OrOfPreds(n) ELSE rc[m]]
    /\ done' = done \cup {n}
    /\ UNCHANGED <<inputs, phase, econd, gc, gdone>>

(* Mutant: the order of sorted_nodes is not topological, so a node may be  *)
(* visited before one of its predecessors.                                 *)
VisitNodeAnyOrder(n) ==
    /\ phase = "reach"
    /\ n \in GNodes \ done
    /\ rc' = IF n = RegionHead \/ PostDominates(GNodes, GEdges, n, RegionHead)
             THEN [m \in DOMAIN rc \cup {n} |-> IF m = n THEN assigns ELSE rc[m]]
             ELSE IF Preds(GEdges, n) = {} THEN rc
             ELSE [m \in DOMAIN rc \cup {n} |-> IF m = n THEN OrOfPreds(n) ELSE rc[m]]
    /\ done' = done \cup {n}
    /\ UNCHANGED <<inputs, phase, econd, gc, gdone>>

(* One iteration of the loop over sorted_nodes (lines 325-361).           *)
VisitNode(n) ==
    /\ phase = "reach"
    /\ n \in GNodes \ done
    /\ Preds(GEdges, n) \subseteq done          \* topological order
    /\ rc' = IF n = RegionHead \/ PostDominates(GNodes, GEdges, n, RegionHead)
             THEN [m \in DOMAIN rc \cup {n} |-> IF m = n THEN assigns ELSE rc[m]]
             ELSE IF Preds(GEdges, n) = {} THEN rc
             ELSE [m \in DOMAIN rc \cup {n} |-> IF m = n THEN OrOfPreds(n) ELSE rc[m]]
    /\ done' = done \cup {n}
    /\ UNCHANGED <<inputs, phase, econd, gc, gdone>>

EndReach ==
    /\ phase = "reach"
    /\ done = GNodes
    /\ phase' = "guard"
    /\ UNCHANGED <<inputs, econd, rc, done, gc, gdone>>

(* One iteration of the guarding-condition loop (lines 368-400).          *)
GuardNode(n) ==
    /\ phase = "guard"
    /\ n \in GNodes \ gdone
    /\ \A m \in GNodes \ gdone : n <= m     \* the loop follows sorted_nodes
    /\ gc' = IF Cardinality(Preds(GEdges, n)) = 2 /\ DivergingEdges(n) # {}
             THEN [m \in DOMAIN gc \cup {n} |-> IF m = n THEN GuardingCondition(n) ELSE gc[m]]
             ELSE gc
    /\ gdone' = gdone \cup {n}
    /\ UNCHANGED <<inputs, phase, econd, rc, done>>

(* Mutant: the maps are assigned before the guarding loop has visited    *)
(* every node.                                                             *)
PublishEarly ==
    /\ phase = "guard"
    /\ phase' = "done"
    /\ UNCHANGED <<inputs, econd, rc, done, gc, gdone>>

(* self.reaching_conditions / self.guarding_conditions are assigned.      *)
Publish ==
    /\ phase = "guard"
    /\ gdone = GNodes
    /\ phase' = "done"
    /\ UNCHANGED <<inputs, econd, rc, done, gc, gdone>>

Next ==
    \/ RecoverEdgeConditions
    \/ \E n \in Nodes : VisitNode(n)
    \/ EndReach
    \/ \E n \in Nodes : GuardNode(n)
    \/ Publish

Spec == Init /\ [][Next]_vars

-----------------------------------------------------------------------------
(* Every variable keeps its shape: conditions are sets of assignments and  *)
(* are only attached to nodes and edges of the graph.                      *)
TypeOK ==
    /\ edges \subseteq Pairs
    /\ kind \in [Nodes -> Kinds]
    /\ ws \in BOOLEAN
    /\ phase \in {"edges", "reach", "guard", "done"}
    /\ econd \in [DOMAIN econd -> SUBSET assigns]
    /\ rc \in [DOMAIN rc -> SUBSET assigns]
    /\ DOMAIN rc \subseteq done
    /\ done \subseteq GNodes
    /\ gc \in [DOMAIN gc -> SUBSET assigns]
    /\ DOMAIN gc \subseteq gdone
    /\ gdone \subseteq GNodes

(* The reaching condition of each region node is exact for the runs that   *)
(* stay in the region: it holds exactly when control, starting at the     *)
(* head and following the branch decisions, reaches the node.  This is    *)
(* what the Or-of-predecessors propagation together with the post-        *)
(* dominator short-cut (lines 341-356) must achieve in any topological     *)
(* order the sort may produce.                                             *)
RegionReachingExact ==
    \A n \in DOMAIN rc \cap RegionNodes : rc[n] \cap Stay = ReachSet(n) \cap Stay

(* With with_successors, the successor's reaching condition is exact as    *)
(* well (spec 4.3: every edge predicate is computed, then propagated).     *)
SuccessorReachingExact ==
    (ws /\ N \in DOMAIN rc) => rc[N] = ReachSet(N)

(* No reaching condition is stale: at every point of the loop over         *)
(* sorted_nodes, the condition recorded for a node is still what lines     *)
(* 341-356 compute from the current map (true for the head and for a node  *)
(* that post-dominates it, otherwise the Or over predecessors of their     *)
(* condition And the edge's).  It fails if a predecessor's condition is    *)
(* read (with its .get default of true) before that predecessor is         *)
(* visited, or is changed after.                                           *)
ReachingFixpoint ==
    \A n \in DOMAIN rc :
        rc[n] = IF n = RegionHead \/ PostDominates(GNodes, GEdges, n, RegionHead)
                THEN assigns ELSE OrOfPreds(n)

-----------------------------------------------------------------------------
(* The refinement mapping onto ReachingContract: the contract is in stage *)
(* "edges" until recover_edge_conditions returns and "published" once the *)
(* two maps are assigned to self; its reaching and guarding conditions    *)
(* are what self holds, nothing before the assignment.                     *)
StageOf == IF phase = "edges" THEN "edges" ELSE IF phase = "done" THEN "published" ELSE "conds"
RcOf == IF phase = "done" THEN rc ELSE <<>>
GcOf == IF phase = "done" THEN gc ELSE <<>>

Contract == INSTANCE ReachingContract WITH stage <- StageOf, rc <- RcOf, gc <- GcOf

(* recover_reaching_conditions implements its contract (spec 4.3): what   *)
(* it publishes solves the reaching-condition equations of lines 341-356  *)
(* whatever topological order quasi_topological_sort_nodes picks, gives a *)
(* guarding condition to exactly the two-predecessor nodes with a         *)
(* diverging edge, and is published only after both loops are over.     *)
ImplementsReachingContract == Contract!Spec
=============================================================================
