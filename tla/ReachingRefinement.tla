------------------------- MODULE ReachingRefinement -------------------------
(***************************************************************************)
(* Proof that ReachingConditions implements ReachingContract for every    *)
(* number of nodes N: the loops of recover_reaching_conditions publish a  *)
(* solution of the reaching-condition equations and exactly the guarding  *)
(* conditions the contract names.                                          *)
(***************************************************************************)
EXTENDS ReachingConditionsProofs, TLAPS

(* What the loops have built when the maps are published.  Once the first *)
(* loop is over every node of _g has been visited; the nodes with a       *)
(* reaching condition are the visited ones that are short-cut or have a   *)
(* predecessor; no node is visited by the guarding loop before the edge   *)
(* conditions exist; the nodes with a guarding condition are the visited  *)
(* two-predecessor ones with a diverging edge, and each holds             *)
(* GuardingCondition of the current edge conditions.                       *)
PublishInv ==
    /\ phase \in {"guard", "done"} => done = GNodes
    /\ DOMAIN rc = {n \in done : ShortCut(n) \/ Preds(GEdges, n) # {}}
    /\ phase = "edges" => gdone = {}
    /\ DOMAIN gc = {n \in gdone : Cardinality(Preds(GEdges, n)) = 2 /\ DivergingEdges(n) # {}}
    /\ \A n \in DOMAIN gc : gc[n] = GuardingCondition(n)

(* A step that keeps the inputs and the edge conditions keeps the         *)
(* propagation graph and every node's short-cut, predecessors, diverging *)
(* edges and guarding condition.                                           *)
LEMMA GraphFrame ==
    ASSUME UNCHANGED <<inputs, econd>>
    PROVE  /\ GNodes' = GNodes /\ GEdges' = GEdges
           /\ \A n : /\ ShortCut(n)' = ShortCut(n)
                     /\ Preds(GEdges, n)' = Preds(GEdges, n)
                     /\ DivergingEdges(n)' = DivergingEdges(n)
                     /\ GuardingCondition(n)' = GuardingCondition(n)
<1>1. GNodes' = GNodes /\ GEdges' = GEdges
    BY DEF inputs, GNodes, GEdges, RegionEdges
<1>2. \A n : ShortCut(n)' = ShortCut(n)
    BY <1>1 DEF ShortCut
<1>3. \A n : Preds(GEdges, n)' = Preds(GEdges, n)
    BY <1>1 DEF Preds
<1>4. \A n : DivergingEdges(n)' = DivergingEdges(n)
    BY <1>1 DEF DivergingEdges, NodesNotReaching, SliceNodes, inputs
<1>5. \A n : GuardingCondition(n)' = GuardingCondition(n)
    BY <1>4 DEF GuardingCondition, inputs
<1>. QED
    BY <1>1, <1>2, <1>3, <1>4, <1>5

(* The loops keep PublishInv.                                              *)
LEMMA PublishInvStep ==
    ASSUME PublishInv, [Next]_vars
    PROVE  PublishInv'
<1>1. CASE RecoverEdgeConditions
    \* gdone is empty, so the new edge conditions change no guarding entry
    BY <1>1 DEF RecoverEdgeConditions, PublishInv, inputs, GNodes, GEdges, RegionEdges, Preds, ShortCut
<1>2. ASSUME NEW n \in Nodes, VisitNode(n) PROVE PublishInv'
  <2>1. UNCHANGED <<inputs, econd, phase, gc, gdone>> /\ done' = done \cup {n}
      BY <1>2 DEF VisitNode
  <2>2. DOMAIN rc' = DOMAIN rc \cup (IF ShortCut(n) \/ Preds(GEdges, n) # {} THEN {n} ELSE {})
      BY <1>2 DEF VisitNode, ShortCut
  <2>. QED
      BY <1>2, <2>1, <2>2, GraphFrame DEF PublishInv, VisitNode
<1>3. CASE EndReach
    BY <1>3, GraphFrame DEF EndReach, PublishInv
<1>4. ASSUME NEW n \in Nodes, GuardNode(n) PROVE PublishInv'
  <2>1. UNCHANGED <<inputs, econd, phase, rc, done>> /\ gdone' = gdone \cup {n}
      BY <1>4 DEF GuardNode
  <2>2. phase = "guard"
      BY <1>4 DEF GuardNode
  <2>. QED
      BY <1>4, <2>1, <2>2, GraphFrame DEF PublishInv, GuardNode
<1>5. CASE Publish
    BY <1>5, GraphFrame DEF Publish, PublishInv
<1>6. CASE UNCHANGED vars
  <2>1. UNCHANGED <<inputs, econd>> /\ UNCHANGED <<phase, rc, done, gc, gdone>>
      BY <1>6 DEF vars, inputs
  <2>. QED
      BY <2>1, GraphFrame DEF PublishInv
<1>. QED
    BY <1>1, <1>2, <1>3, <1>4, <1>5, <1>6 DEF Next

(* Whenever the maps are published, the loops have visited every node and *)
(* recorded exactly the conditions the contract names.                     *)
THEOREM PublishInvariant == Spec => []PublishInv
<1>1. Init => PublishInv
    BY DEF Init, PublishInv
<1>. QED
    BY <1>1, PublishInvStep, PTL DEF Spec

-----------------------------------------------------------------------------
(* The refinement.                                                         *)

(* The operators the contract shares with the solver read neither the    *)
(* stage nor the maps it publishes, so under the refinement mapping they  *)
(* are the solver's own.                                                   *)
LEMMA ContractShared ==
    /\ \A S : Contract!Cardinality(S) = Cardinality(S)
    /\ Contract!Pairs = Pairs
    /\ Contract!AssignmentsUpTo = AssignmentsUpTo
    /\ \A E, K : Contract!WellFormed(E, K) <=> WellFormed(E, K)
    /\ Contract!RegionEdges = RegionEdges
    /\ Contract!GNodes = GNodes /\ Contract!GEdges = GEdges
    /\ \A E, n : Contract!Preds(E, n) = Preds(E, n)
    /\ \A a, b : Contract!ExtractPredicate(a, b) = ExtractPredicate(a, b)
    /\ \A e : Contract!EdgeCond(e) = EdgeCond(e)
    /\ \A n : Contract!ShortCut(n) = ShortCut(n)
    /\ \A n : Contract!DivergingEdges(n) = DivergingEdges(n)
    /\ \A n : Contract!GuardingCondition(n) = GuardingCondition(n)
<1>0. \A S : Contract!Cardinality(S) = Cardinality(S)
    BY DEF Contract!Cardinality, Cardinality
<1>1. Contract!Pairs = Pairs /\ Contract!AssignmentsUpTo = AssignmentsUpTo
    BY DEF Contract!Pairs, Pairs, Contract!AssignmentsUpTo, AssignmentsUpTo,
           Contract!Decisions, Decisions, Contract!IsCond, IsCond, Contract!Succs, Succs,
           Contract!Nodes, Nodes
<1>2. \A E, K : Contract!WellFormed(E, K) <=> WellFormed(E, K)
    BY Zenon DEF Contract!WellFormed, WellFormed, Contract!Preds, Preds, Contract!Succs, Succs,
           Contract!Nodes, Nodes, Contract!RegionHead, RegionHead, Contract!Cardinality, Cardinality
<1>3. /\ Contract!RegionEdges = RegionEdges
      /\ Contract!GNodes = GNodes /\ Contract!GEdges = GEdges
      /\ \A E, n : Contract!Preds(E, n) = Preds(E, n)
    BY DEF Contract!RegionEdges, RegionEdges, Contract!GNodes, GNodes, Contract!GEdges, GEdges,
           Contract!Preds, Preds, Contract!Nodes, Nodes, Contract!RegionNodes, RegionNodes
<1>4. \A a, b : Contract!ExtractPredicate(a, b) = ExtractPredicate(a, b)
    BY DEF Contract!ExtractPredicate, ExtractPredicate, Contract!IsCond, IsCond,
           Contract!TrueTarget, TrueTarget, Contract!Succs, Succs, Contract!Nodes, Nodes
<1>5. \A e : Contract!EdgeCond(e) = EdgeCond(e)
    BY DEF Contract!EdgeCond, EdgeCond
<1>6. \A n : Contract!ShortCut(n) = ShortCut(n)
    BY <1>3 DEF Contract!ShortCut, ShortCut, Contract!PostDominates, PostDominates,
           Contract!ReachFrom, ReachFrom, Contract!Succs, Succs, Contract!Nodes, Nodes,
           Contract!RegionHead, RegionHead
<1>7. \A n : Contract!DivergingEdges(n) = DivergingEdges(n)
    BY <1>3 DEF Contract!DivergingEdges, DivergingEdges, Contract!NodesNotReaching, NodesNotReaching,
           Contract!SliceNodes, SliceNodes, Contract!HasPath, HasPath, Contract!ReachFrom, ReachFrom,
           Contract!Succs, Succs, Contract!Nodes, Nodes
<1>8. \A n : Contract!GuardingCondition(n) = GuardingCondition(n)
    BY <1>7 DEF Contract!GuardingCondition, GuardingCondition
<1>. QED
    BY <1>0, <1>1, <1>2, <1>3, <1>4, <1>5, <1>6, <1>7, <1>8

(* A start of the loops is a start of the contract.                        *)
LEMMA ReachingInit == Init => Contract!Init
<1> SUFFICES ASSUME Init PROVE Contract!Init
    OBVIOUS
<1>1. Contract!WellFormed(edges, kind)
    BY ContractShared DEF Init
<1>2. edges \in SUBSET Contract!Pairs /\ assigns = Contract!AssignmentsUpTo
    BY ContractShared DEF Init
<1>3. StageOf = "edges" /\ RcOf = <<>> /\ GcOf = <<>>
    BY DEF Init, StageOf, RcOf, GcOf
<1>. QED
    BY <1>1, <1>2, <1>3 DEF Init, Contract!Init, Contract!Nodes, Nodes, Contract!Kinds, Kinds

(* While the loops run, the contract sees nothing change.                  *)
LEMMA ReachingStutter ==
    ASSUME UNCHANGED <<inputs, econd>>, phase \in {"reach", "guard"}, phase' \in {"reach", "guard"}
    PROVE  UNCHANGED Contract!cvars
BY DEF Contract!cvars, StageOf, RcOf, GcOf, inputs

(* recover_edge_conditions is the contract's Recover.                      *)
LEMMA RecoverRefines ==
    ASSUME RecoverEdgeConditions PROVE Contract!Recover
BY ContractShared DEF RecoverEdgeConditions, Contract!Recover, StageOf, RcOf, GcOf, inputs

(* The assignment to self is the contract's Publish: the map the first    *)
(* loop built solves the equations over all of _g, and the guarding loop  *)
(* has recorded exactly the contract's guarding conditions.                *)
LEMMA PublishRefines ==
    ASSUME TypeOK, ReachingFixpoint, PublishInv, Publish
    PROVE  Contract!Publish
<1>1. UNCHANGED <<inputs, econd, rc, done, gc, gdone>> /\ phase = "guard" /\ phase' = "done"
      /\ gdone = GNodes
    BY DEF Publish
<1>2. RcOf' = rc /\ GcOf' = gc /\ StageOf = "conds" /\ StageOf' = "published"
    BY <1>1 DEF RcOf, GcOf, StageOf
<1>3. done = GNodes
    BY <1>1 DEF PublishInv
<1>4. DOMAIN rc = Contract!CondNodes
    BY <1>3, ContractShared DEF PublishInv, Contract!CondNodes
<1>5. ASSUME NEW n \in Contract!CondNodes, ~ShortCut(n)
      PROVE  Contract!OrOfPreds(n)' = OrOfPreds(n)
  <2>1. \A p : Contract!PredCond(p)' = PredCond(p)
      BY <1>1, <1>2 DEF Contract!PredCond, PredCond, inputs
  <2>2. Contract!Preds(Contract!GEdges, n)' = Preds(GEdges, n)
      BY <1>1 DEF Contract!Preds, Preds, Contract!GEdges, GEdges, Contract!RegionEdges, RegionEdges,
                  Contract!Nodes, Nodes, inputs
  <2>3. \A p : Contract!EdgeCond(<<p, n>>)' = EdgeCond(<<p, n>>)
      BY <1>1 DEF Contract!EdgeCond, EdgeCond, inputs
  <2>. QED
      BY <2>1, <2>2, <2>3 DEF Contract!OrOfPreds, OrOfPreds
<1>6. \A n \in Contract!CondNodes :
        rc[n] = IF n \in {m \in Contract!GNodes : Contract!ShortCut(m)} THEN assigns
                ELSE Contract!OrOfPreds(n)'
  <2> SUFFICES ASSUME NEW n \in Contract!CondNodes
               PROVE  rc[n] = IF n \in {m \in Contract!GNodes : Contract!ShortCut(m)} THEN assigns
                              ELSE Contract!OrOfPreds(n)'
      OBVIOUS
  <2>1. n \in DOMAIN rc /\ n \in GNodes
      BY <1>3, <1>4 DEF PublishInv
  <2>2. rc[n] = IF ShortCut(n) THEN assigns ELSE OrOfPreds(n)
      BY <2>1 DEF ReachingFixpoint, ShortCut
  <2>3. (n \in {m \in Contract!GNodes : Contract!ShortCut(m)}) <=> ShortCut(n)
      BY <2>1, ContractShared
  <2>4. CASE ShortCut(n)
      BY <2>2, <2>3, <2>4
  <2>5. CASE ~ShortCut(n)
      BY <2>2, <2>3, <2>5, <1>5
  <2>. QED
      BY <2>4, <2>5
<1>7. gc = [n \in Contract!GuardNodes |-> Contract!GuardingCondition(n)]
  <2>1. DOMAIN gc = Contract!GuardNodes
      BY <1>1, ContractShared DEF PublishInv, Contract!GuardNodes
  <2>2. \A n \in DOMAIN gc : gc[n] = Contract!GuardingCondition(n)
      BY ContractShared DEF PublishInv
  <2>. QED
      BY <2>1, <2>2 DEF TypeOK
<1>. QED
    BY <1>1, <1>2, <1>4, <1>6, <1>7 DEF Contract!Publish, inputs

(* Every step of the loops is a step of the contract or leaves what it    *)
(* sees unchanged.                                                         *)
LEMMA ReachingStep ==
    ASSUME TypeOK, ReachingFixpoint, PublishInv, [Next]_vars
    PROVE  [Contract!Next]_Contract!cvars
<1>1. CASE RecoverEdgeConditions
    BY <1>1, RecoverRefines DEF Contract!Next
<1>2. ASSUME NEW n \in Nodes, VisitNode(n) PROVE UNCHANGED Contract!cvars
    BY <1>2, ReachingStutter DEF VisitNode
<1>3. CASE EndReach
  <2>1. UNCHANGED Contract!cvars
      BY <1>3, ReachingStutter DEF EndReach
  <2>. QED
      BY <2>1
<1>4. ASSUME NEW n \in Nodes, GuardNode(n) PROVE UNCHANGED Contract!cvars
    BY <1>4, ReachingStutter DEF GuardNode
<1>5. CASE Publish
    BY <1>5, PublishRefines DEF Contract!Next
<1>6. CASE UNCHANGED vars
    BY <1>6 DEF vars, Contract!cvars, StageOf, RcOf, GcOf
<1>. QED
    BY <1>1, <1>2, <1>3, <1>4, <1>5, <1>6 DEF Next

(* recover_reaching_conditions implements its contract for every number  *)
(* of nodes: whatever topological order the sort produces, what it       *)
(* publishes solves the equations of lines 341-356 and holds a guarding   *)
(* condition for exactly the two-predecessor nodes with a diverging edge, *)
(* and nothing is published before both loops are over.                   *)
THEOREM ImplementsReachingContractCorrect == Spec => ImplementsReachingContract
BY ReachingInit, ReachingStep, TypeCorrect, FixpointCorrect, PublishInvariant, PTL
   DEF Spec, ImplementsReachingContract, Contract!Spec
=============================================================================
