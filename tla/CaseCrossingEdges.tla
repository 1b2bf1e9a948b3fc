------------------------- MODULE CaseCrossingEdges -------------------------
(***************************************************************************)
(* ConditionProcessor._remove_crossing_edges_between_cases                 *)
(* (condition_processor.py, lines 1239-1274), which recover_reaching_     *)
(* conditions applies to the region graph when it is given a map from     *)
(* case entries to their switch head (lines 315-317).                      *)
(*                                                                         *)
(* The graph is acyclic over Nodes = 1..N; node 1 is the switch head and   *)
(* its successors are the case entries.  The walk starts a breadth-first   *)
(* traversal from each case entry in turn, in the iteration order of a    *)
(* Python set, and collects the edges to remove.                           *)
(***************************************************************************)
EXTENDS Naturals, FiniteSets, Sequences, SequencesExt

CONSTANT N   \* number of nodes

ASSUME NAssumption == N \in Nat /\ N >= 2

Nodes == 1..N
SwitchHead == 1
Pairs == {p \in Nodes \X Nodes : p[1] < p[2]}

VARIABLES
    edges,       \* the region graph
    entries,     \* starting_nodes: the nodes whose address is a case entry
    started,     \* the starting nodes whose traversal has begun
    queue,       \* the breadth-first queue of the current traversal
    traversed,   \* traversed_nodes
    rem,         \* edges_to_remove
    out          \* the graph returned, once the walk is over

vars == <<edges, entries, started, queue, traversed, rem, out>>

NoGraph == {<<0, 0>>}   \* out before the function returns

Succs(E, n) == {m \in Nodes : <<n, m>> \in E}
OutDegree(n) == Cardinality(Succs(edges, n))

ReachFrom(E, S) ==
    LET r[k \in 0..N] == IF k = 0 THEN S
                        ELSE LET prev == r[k - 1]
                             IN  prev \cup {m \in Nodes : \E p \in prev : <<p, m>> \in E}
    IN  r[N]

-----------------------------------------------------------------------------
Init ==
    /\ edges \in SUBSET Pairs
    /\ entries = Succs(edges, SwitchHead)
    /\ entries # {}
    /\ \A n \in Nodes \ {SwitchHead} : \E m \in Nodes : <<m, n>> \in edges
    /\ started = {}
    /\ queue = <<>>
    /\ traversed = {}
    /\ rem = {}
    /\ out = NoGraph

(* for starting_node in starting_nodes: queue = [starting_node]           *)
StartCase(s) ==
    /\ out = NoGraph
    /\ queue = <<>>
    /\ s \in entries \ started
    /\ started' = started \cup {s}
    /\ queue' = <<s>>
    /\ UNCHANGED <<edges, entries, traversed, rem, out>>

(* Mutant: the traversed check is skipped, so a node reached again is      *)
(* walked again instead of cutting the edge.                               *)
VisitNoTraversedCheck ==
    /\ queue # <<>>
    /\ LET src == Head(queue)
           tr  == traversed \cup {src}
           fresh == {m \in Succs(edges, src) : m \notin entries}
       IN  /\ traversed' = tr
           /\ rem' = rem \cup {<<src, m>> : m \in Succs(edges, src) \cap entries}
           /\ \E order \in SetToSeqs(fresh) : queue' = Tail(queue) \o order
    /\ UNCHANGED <<edges, entries, started, out>>

(* One iteration of the while loop: pop src, mark it traversed, and look  *)
(* at each successor.  A successor already traversed is not walked again; *)
(* the edge to it is removed unless it is a sink.  An edge to a case entry *)
(* is removed.  Any other successor is queued, in the order                *)
(* graph.successors yields them.                                           *)
Visit ==
    /\ queue # <<>>
    /\ LET src == Head(queue)
           tr  == traversed \cup {src}
           old == {m \in Succs(edges, src) : m \in tr}
           fresh == {m \in Succs(edges, src) : m \notin tr /\ m \notin entries}
       IN  /\ traversed' = tr
           /\ rem' = rem \cup {<<src, m>> : m \in {x \in old : OutDegree(x) > 0}}
                         \cup {<<src, m>> : m \in (Succs(edges, src) \ tr) \cap entries}
           /\ \E order \in SetToSeqs(fresh) : queue' = Tail(queue) \o order
    /\ UNCHANGED <<edges, entries, started, out>>

(* The copy of the graph without edges_to_remove is returned.             *)
Finish ==
    /\ out = NoGraph
    /\ queue = <<>>
    /\ started = entries
    /\ out' = edges \ rem
    /\ UNCHANGED <<edges, entries, started, queue, traversed, rem>>

Next ==
    \/ \E s \in Nodes : StartCase(s)
    \/ Visit
    \/ Finish

Spec == Init /\ [][Next]_vars

-----------------------------------------------------------------------------
Done == out # NoGraph

(* The case entries from which a node can be reached in a graph.           *)
CasesReaching(E, x) == {e \in entries : x \in ReachFrom(E, {e})}

(* After the trim, no node that has successors can be reached from two    *)
(* different case entries: case-local reasoning cannot leak into another  *)
(* case (spec 4.3 step 2).  Shared sinks (a common return) are allowed, as *)
(* the code keeps edges into a traversed node without successors.         *)
CasesSeparated ==
    Done => \A x \in Nodes : OutDegree(x) > 0 => Cardinality(CasesReaching(out, x)) <= 1

(* Only edges that cross between cases are removed (spec 4.3 step 2): a   *)
(* removed edge enters a case entry, or leads to a node that some case    *)
(* reaches and the edge's source is not reached from.                     *)
OnlyCrossingEdgesRemoved ==
    Done => \A e \in edges \ out :
              e[2] \in entries \/ CasesReaching(edges, e[2]) # CasesReaching(edges, e[1])
=============================================================================
