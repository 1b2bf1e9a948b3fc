--------------------- MODULE ReachingConditionsProofs ---------------------
(***************************************************************************)
(* Proofs about ReachingConditions that hold for every number of nodes N.  *)
(***************************************************************************)
EXTENDS ReachingConditions, TLAPS

(* Every condition the extractor produces is a set of assignments.        *)
LEMMA ExtractPredicateType ==
    ASSUME NEW src, NEW dst
    PROVE  ExtractPredicate(src, dst) \subseteq assigns
BY DEF ExtractPredicate

(* The Or-of-predecessors formula stays within the assignments as long as *)
(* the conditions it combines do.                                         *)
LEMMA OrOfPredsType ==
    ASSUME NEW n, rc \in [DOMAIN rc -> SUBSET assigns]
    PROVE  OrOfPreds(n) \subseteq assigns
<1>1. \A p : PredCond(p) \subseteq assigns
    BY DEF PredCond
<1>. QED
    BY <1>1 DEF OrOfPreds

(* A guarding condition is a set of assignments.                          *)
LEMMA GuardingConditionType ==
    ASSUME NEW n
    PROVE  GuardingCondition(n) \subseteq assigns
BY DEF GuardingCondition

(* The solver keeps every variable in its type: conditions are sets of    *)
(* assignments, attached only to nodes of the propagation graph that the  *)
(* loops have visited.                                                     *)
THEOREM TypeCorrect == Spec => []TypeOK
<1>1. Init => TypeOK
    BY DEF Init, TypeOK, WellFormed, GNodes
<1>2. TypeOK /\ [Next]_vars => TypeOK'
  <2> SUFFICES ASSUME TypeOK, [Next]_vars PROVE TypeOK'
      OBVIOUS
  <2>1. CASE RecoverEdgeConditions
    <3>1. econd' \in [DOMAIN econd' -> SUBSET assigns']
        BY <2>1, ExtractPredicateType DEF RecoverEdgeConditions, inputs
    <3>. QED
        BY <2>1, <3>1 DEF RecoverEdgeConditions, TypeOK, inputs, GNodes
  <2>2. ASSUME NEW n \in Nodes, VisitNode(n) PROVE TypeOK'
    <3>1. OrOfPreds(n) \subseteq assigns
        BY OrOfPredsType DEF TypeOK
    <3>2. rc' \in [DOMAIN rc' -> SUBSET assigns] /\ DOMAIN rc' \subseteq done'
        BY <2>2, <3>1 DEF VisitNode, TypeOK
    <3>3. done' \subseteq GNodes'
        BY <2>2 DEF VisitNode, TypeOK, GNodes, inputs
    <3>. QED
        BY <2>2, <3>2, <3>3 DEF VisitNode, TypeOK, inputs, GNodes
  <2>3. CASE EndReach
      BY <2>3 DEF EndReach, TypeOK, inputs, GNodes
  <2>4. ASSUME NEW n \in Nodes, GuardNode(n) PROVE TypeOK'
    <3>1. GuardingCondition(n) \subseteq assigns
        BY GuardingConditionType
    <3>2. gc' \in [DOMAIN gc' -> SUBSET assigns] /\ DOMAIN gc' \subseteq gdone'
        BY <2>4, <3>1 DEF GuardNode, TypeOK
    <3>. QED
        BY <2>4, <3>2 DEF GuardNode, TypeOK, inputs, GNodes
  <2>5. CASE Publish
      BY <2>5 DEF Publish, TypeOK, inputs, GNodes
  <2>6. CASE UNCHANGED vars
      BY <2>6 DEF vars, TypeOK, GNodes
  <2>. QED
      BY <2>1, <2>2, <2>3, <2>4, <2>5, <2>6 DEF Next
<1>. QED
    BY <1>1, <1>2, PTL DEF Spec

-----------------------------------------------------------------------------
(* The strengthening of ReachingFixpoint: nothing is recorded before the  *)
(* edge conditions are, and a node is visited only after every            *)
(* predecessor it has in the propagation graph.                            *)
FixpointInv ==
    /\ phase = "edges" => DOMAIN rc = {} /\ done = {}
    /\ \A m \in done : Preds(GEdges, m) \subseteq done
    /\ ReachingFixpoint

(* The value of a predecessor's reaching condition, with its default of   *)
(* true, does not change when a step records a condition for another node *)
(* or leaves the map alone.                                                *)
LEMMA PredCondStable ==
    ASSUME NEW p, NEW n, NEW v, p # n, assigns' = assigns,
           \/ rc' = rc
           \/ rc' = [m \in DOMAIN rc \cup {n} |-> IF m = n THEN v ELSE rc[m]]
    PROVE  PredCond(p)' = PredCond(p)
BY DEF PredCond

(* The Or over predecessors of a node is unchanged by a step that keeps   *)
(* the graph, the edge conditions and every predecessor's condition.      *)
LEMMA OrOfPredsStable ==
    ASSUME NEW m, edges' = edges, ws' = ws, econd' = econd, assigns' = assigns,
           \A p \in Preds(GEdges, m) : PredCond(p)' = PredCond(p)
    PROVE  OrOfPreds(m)' = OrOfPreds(m)
<1>1. GEdges' = GEdges
    BY DEF GEdges, RegionEdges
<1>2. Preds(GEdges, m)' = Preds(GEdges, m)
    BY <1>1 DEF Preds
<1>3. \A p \in Preds(GEdges, m) : EdgeCond(<<p, m>>)' = EdgeCond(<<p, m>>)
    BY DEF EdgeCond
<1>. QED
    BY <1>2, <1>3 DEF OrOfPreds

(* A step that changes neither the inputs nor the maps keeps every        *)
(* condition's right-hand side.                                            *)
LEMMA FixpointFrame ==
    ASSUME ReachingFixpoint, UNCHANGED <<inputs, econd, rc>>
    PROVE  ReachingFixpoint'
<1>1. GNodes' = GNodes /\ GEdges' = GEdges
    BY DEF inputs, GNodes, GEdges, RegionEdges
<1>2. ASSUME NEW n PROVE OrOfPreds(n)' = OrOfPreds(n)
    BY OrOfPredsStable DEF inputs, PredCond
<1>3. ASSUME NEW n
      PROVE  PostDominates(GNodes, GEdges, n, RegionHead)' = PostDominates(GNodes, GEdges, n, RegionHead)
    BY <1>1
<1>. QED
    BY <1>2, <1>3 DEF ReachingFixpoint, inputs

(* Every reaching condition the first loop has recorded is, at every     *)
(* point, what lines 341-356 compute from the current map: a node's       *)
(* value never goes stale because a predecessor is visited after it.     *)
THEOREM FixpointCorrect == Spec => []ReachingFixpoint
<1>1. Init => FixpointInv
    BY DEF Init, FixpointInv, ReachingFixpoint
<1>2. TypeOK /\ FixpointInv /\ [Next]_vars => FixpointInv'
  <2> SUFFICES ASSUME TypeOK, FixpointInv, [Next]_vars PROVE FixpointInv'
      OBVIOUS
  <2>1. CASE RecoverEdgeConditions
      BY <2>1 DEF RecoverEdgeConditions, FixpointInv, ReachingFixpoint, inputs, GEdges, RegionEdges
  <2>2. ASSUME NEW n \in Nodes, VisitNode(n) PROVE FixpointInv'
    <3>1. UNCHANGED <<inputs, phase, econd>> /\ n \notin done
        BY <2>2 DEF VisitNode
    <3>2. GNodes' = GNodes /\ GEdges' = GEdges /\ Preds(GEdges, n) \subseteq done
        BY <2>2, <3>1 DEF VisitNode, inputs, GNodes, GEdges, RegionEdges
    <3>3. (phase = "edges" => DOMAIN rc = {} /\ done = {})'
        BY <2>2, <3>1 DEF VisitNode
    <3>4. (\A m \in done : Preds(GEdges, m) \subseteq done)'
        BY <2>2, <3>2 DEF VisitNode, FixpointInv
    <3>5. DOMAIN rc \subseteq done
        BY DEF TypeOK
    <3>6. ASSUME NEW m, \A p \in Preds(GEdges, m) : p # n
          PROVE  OrOfPreds(m)' = OrOfPreds(m)
      <4>1. \A p \in Preds(GEdges, m) : PredCond(p)' = PredCond(p)
          BY <2>2, <3>1, <3>6, PredCondStable DEF VisitNode, inputs
      <4>. QED
          BY <3>1, <4>1, OrOfPredsStable DEF inputs
    <3>7. ReachingFixpoint'
      <4> SUFFICES ASSUME NEW m \in DOMAIN rc'
                   PROVE  rc'[m] = (IF m = RegionHead \/ PostDominates(GNodes, GEdges, m, RegionHead)
                                    THEN assigns ELSE OrOfPreds(m))'
          BY DEF ReachingFixpoint
      <4>1. CASE m = n
        <5>1. OrOfPreds(n)' = OrOfPreds(n)
            BY <3>1, <3>2, <3>6
        <5>. QED
            BY <2>2, <3>1, <3>2, <3>5, <4>1, <5>1 DEF VisitNode, inputs
      <4>2. CASE m # n
        <5>1. m \in DOMAIN rc /\ rc'[m] = rc[m]
            BY <2>2, <4>2 DEF VisitNode
        <5>2. Preds(GEdges, m) \subseteq done
            BY <3>5, <5>1 DEF FixpointInv
        <5>3. OrOfPreds(m)' = OrOfPreds(m)
            BY <3>1, <3>6, <5>2
        <5>. QED
            BY <3>1, <3>2, <5>1, <5>3 DEF FixpointInv, ReachingFixpoint, inputs
      <4>. QED
          BY <4>1, <4>2
    <3>. QED
        BY <3>3, <3>4, <3>7 DEF FixpointInv
  <2>3. CASE EndReach
      BY <2>3, FixpointFrame DEF EndReach, FixpointInv, inputs, GNodes, GEdges, RegionEdges
  <2>4. ASSUME NEW n \in Nodes, GuardNode(n) PROVE FixpointInv'
      BY <2>4, FixpointFrame DEF GuardNode, FixpointInv, inputs, GNodes, GEdges, RegionEdges
  <2>5. CASE Publish
      BY <2>5, FixpointFrame DEF Publish, FixpointInv, inputs, GNodes, GEdges, RegionEdges
  <2>6. CASE UNCHANGED vars
      BY <2>6, FixpointFrame DEF vars, FixpointInv, inputs, GNodes, GEdges, RegionEdges
  <2>. QED
      BY <2>1, <2>2, <2>3, <2>4, <2>5, <2>6 DEF Next
<1>3. FixpointInv => ReachingFixpoint
    BY DEF FixpointInv
<1>. QED
    BY <1>1, <1>2, <1>3, TypeCorrect, PTL DEF Spec
=============================================================================
