------------------------- MODULE ReachingEquations -------------------------
(***************************************************************************)
(* The region graph and the condition formulas of                          *)
(* ConditionProcessor.recover_reaching_conditions                          *)
(* (angr/analyses/decompiler/condition_processor.py): what the solver's   *)
(* loops compute, shared by the solver (ReachingConditions) and by the     *)
(* contract it implements (ReachingContract).                              *)
(*                                                                         *)
(* The region is an acyclic graph over Nodes = 1..N with head 1.  Node N   *)
(* is the region's successor: it belongs to graph_with_successors and not  *)
(* to region.graph.  Edges only go from a smaller to a larger node, so     *)
(* 1..N is a topological order and the graph is a DAG, which is what the   *)
(* code assumes ("we assume the graph that's passed in is acyclic").       *)
(*                                                                         *)
(* A claripy condition is abstracted to its truth table: the set of       *)
(* assignments of the branch decisions under which it holds.  A decision   *)
(* is made by each block whose terminator branches: a conditional jump     *)
(* decides its condition variable (1 = taken), an indirect jump decides    *)
(* its target.  And, Or and Not are intersection, union and complement.   *)
(* Blocks ending in a jump to a constant, a fallthrough, a call or a       *)
(* return have kind "uncond" and decide nothing.                           *)
(***************************************************************************)
EXTENDS Naturals, FiniteSets, Sequences

CONSTANT N   \* number of nodes: N - 1 region nodes and the successor N

ASSUME NAssumption == N \in Nat /\ N >= 2

Nodes == 1..N
RegionHead == 1
RegionNodes == 1..(N - 1)
Pairs == {p \in Nodes \X Nodes : p[1] < p[2]}

(* "condlo"/"condhi": a two-way conditional jump whose true_target is the  *)
(* smaller/larger of its two successors.                                    *)
Kinds == {"uncond", "condlo", "condhi", "ijump"}

VARIABLES
    edges,     \* the edges of graph_with_successors
    kind,      \* the shape of each block's terminator
    ws,        \* the with_successors argument
    assigns,   \* every assignment of the branch decisions
    econd,     \* edge_conditions: edge -> condition
    rc         \* reaching_conditions: node -> condition

-----------------------------------------------------------------------------
(* The graphs.                                                              *)

Succs(E, n) == {m \in Nodes : <<n, m>> \in E}
Preds(E, n) == {m \in Nodes : <<m, n>> \in E}

(* region.graph: graph_with_successors without the successor N.            *)
RegionEdges == {e \in edges : e[2] # N}

(* _g: the graph the propagation walks (lines 305-313).                    *)
GNodes == IF ws THEN Nodes ELSE RegionNodes
GEdges == IF ws THEN edges ELSE RegionEdges

(* Nodes reachable from the set S in E, by a recursive function over the  *)
(* number of steps (a path in a graph over N nodes has at most N steps).  *)
ReachFrom(E, S) ==
    LET r[k \in 0..N] == IF k = 0 THEN S
                        ELSE LET prev == r[k - 1]
                             IN  prev \cup {m \in Nodes : \E p \in prev : <<p, m>> \in E}
    IN  r[N]

HasPath(E, a, b) == b \in ReachFrom(E, {a})

(* angr.utils.graph.inverted_idoms / dominates, from their specification:  *)
(* x strictly post-dominates y in (V, E) when every path from y to an exit *)
(* of the graph passes through x.                                          *)
PostDominates(V, E, x, y) ==
    LET exits == {m \in V : Succs(E, m) = {}}
        avoid == {e \in E : e[1] # x /\ e[2] # x}
    IN  /\ x # y
        /\ ReachFrom(avoid, {y}) \cap (exits \ {x}) = {}

(* The head and the nodes that post-dominate it: their reaching condition *)
(* is true (lines 340-344).                                                 *)
ShortCut(n) == n = RegionHead \/ PostDominates(GNodes, GEdges, n, RegionHead)

-----------------------------------------------------------------------------
(* Branch decisions.                                                       *)

IsCond(n) == kind[n] \in {"condlo", "condhi"}
TrueTarget(n) ==
    LET s == Succs(edges, n)
    IN  IF kind[n] = "condlo" THEN CHOOSE m \in s : \A o \in s : m <= o
                              ELSE CHOOSE m \in s : \A o \in s : m >= o

Decisions(n) == IF IsCond(n) THEN {0, 1}
                ELSE IF kind[n] = "ijump" THEN Succs(edges, n)
                ELSE {0}

(* The assignments, as sequences indexed by node, built node by node.     *)
AssignmentsUpTo ==
    LET a[k \in 0..N] == IF k = 0 THEN {<<>>}
                        ELSE {Append(x, v) : x \in a[k - 1], v \in Decisions(k)}
    IN  a[N]

-----------------------------------------------------------------------------
(* _extract_predicate(src, dst, "transition") for the terminator shapes   *)
(* the model distinguishes (lines 663-715, 260-269).                       *)
ExtractPredicate(src, dst) ==
    IF IsCond(src)
    THEN IF TrueTarget(src) = dst THEN {s \in assigns : s[src] = 1}   \* bool_var
                                  ELSE {s \in assigns : s[src] = 0}   \* Not(bool_var)
    ELSE IF kind[src] = "ijump"
    THEN {s \in assigns : s[src] = dst}                               \* target_ast == dst.addr
    ELSE assigns                                                      \* claripy.true()

(* edge_conditions.get(edge, claripy.true())                               *)
EdgeCond(e) == IF e \in DOMAIN econd THEN econd[e] ELSE assigns
(* reaching_conditions.get(pred, claripy.true())                           *)
PredCond(p) == IF p \in DOMAIN rc THEN rc[p] ELSE assigns

(* Mutant: the predecessor's own reaching condition is dropped, leaving    *)
(* Or over preds of the edge condition alone.                              *)
OrOfPredsEdgeOnly(n) ==
    UNION {EdgeCond(<<p, n>>) : p \in Preds(GEdges, n)}

(* The reaching condition the first loop computes for a non-head node that *)
(* does not post-dominate the head: Or over preds of And(pred, edge).      *)
OrOfPreds(n) ==
    UNION {PredCond(p) \cap EdgeCond(<<p, n>>) : p \in Preds(GEdges, n)}

-----------------------------------------------------------------------------
(* The guarding condition of a node with two predecessors (lines 367-400). *)
SliceNodes(n) == {m \in GNodes : HasPath(GEdges, m, n)}
NodesNotReaching(n) ==
    LET slice == SliceNodes(n) \ {n}
    IN  {d \in GNodes : (\E m \in slice : d \in Succs(GEdges, m)) /\ ~HasPath(GEdges, d, n)}
DivergingEdges(n) ==
    LET nnr == NodesNotReaching(n)
    IN  {e \in DOMAIN econd : e[2] \in nnr /\ e[1] \notin nnr}
GuardingCondition(n) ==
    UNION {assigns \ econd[e] : e \in DivergingEdges(n)}

-----------------------------------------------------------------------------
(* Graphs the solver is given: every node but the head has a predecessor,  *)
(* the successor N has no successor, and the terminator matches the        *)
(* out-degree (a conditional jump has two targets, an indirect jump two or *)
(* more, anything else at most one).                                       *)
WellFormed(E, K) ==
    /\ \A n \in Nodes \ {RegionHead} : Preds(E, n) # {}
    /\ Succs(E, N) = {}
    /\ \A n \in Nodes :
         LET d == Cardinality(Succs(E, n))
         IN  CASE K[n] \in {"condlo", "condhi"} -> d = 2
               [] K[n] = "ijump"               -> d >= 2
               [] OTHER                        -> d <= 1
=============================================================================
