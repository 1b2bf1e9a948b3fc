# TLA+ verification of angr's decompiler condition processor

This directory holds TLA+ models of the parts of
`src/angr/analyses/decompiler/condition_processor.py` that structure conditions
for the decompiler, and of the Windows stack-canary optimization pass
(`optimization_passes/win_stack_canary_simplifier.py`), and of the analysis
framework that runs them (`analyses/analysis.py`: creation of an analysis,
its `_resilience` blocks, its progress bar, pickling). It also holds the TLC configurations that check the models
and the TLAPS proofs about them. `PROJECT.json` lists, for every definition,
the source lines it models.

## The system

`ConditionProcessor` is used by the region structurer. Given an acyclic region
(a graph of AIL blocks with a head), it does the following:

1. **Edge-condition extraction.** `recover_edge_conditions` and
   `_extract_predicate` give each edge a claripy Bool term, the condition under
   which control takes that edge:
   - a conditional jump gives its condition on the edge to `true_target` and the
     negation on the other edge;
   - an indirect jump gives `target == dst.addr`;
   - anything else gives `true`.
2. **Reaching conditions.** `recover_reaching_conditions` walks the nodes in a
   topological order:
   - the head and every node that post-dominates the head get `true`;
   - every other node gets the Or, over its predecessors, of
     `And(pred_condition, edge_condition)`, simplified with sympy.
3. **Guarding conditions.** For a node with two predecessors, the same function
   collects the conditions of the edges that leave the slice of nodes that can
   reach it. It then builds the node's guarding condition from them.
4. **Rewrite passes.** `_revert_short_circuit_conditions`,
   `_fold_double_negations` and `_extract_common_subexpressions` rewrite a
   condition syntactically. Each pass must return a term with the same truth
   table (spec sections 4.4 and 8).
5. **The AIL↔claripy bridge.** `claripy_ast_from_ail_condition` translates
   an AIL expression into a claripy AST. Leaves and operators without a
   translation become fresh symbols. Each such symbol is recorded in
   `_condition_mapping` (symbol name → AIL expression). After structuring,
   `convert_claripy_bool_ast` translates back: a symbol is looked up in the
   mapping, and an operator goes through a reverse table.

6. **Switch-case trimming.** When `recover_reaching_conditions` is given a map
   from case entries to their switch head, it first applies
   `_remove_crossing_edges_between_cases`. That function runs one
   breadth-first walk from each case entry and removes two kinds of edges:
   - edges into a case entry;
   - edges into a node that an earlier walk already traversed, unless that
     node has no successors.

7. **Last-statement lookup.** `get_last_statement` returns one statement that
   ends a structured node. `_extract_predicate` and
   `have_opposite_edge_conditions` read an edge's branch from it.
   `get_last_statements` returns all of them; its docstring asks every caller
   to move to it. In both functions, an empty node raises `EmptyBlockNotice`,
   which some node kinds catch and others let escape.

8. **Windows stack-canary removal.** `WinStackCanarySimplifier` is an
   optimization pass run on a function's AIL graph before structuring:
   - `_check` finds the canary set-up in the first block: the cookie, loaded,
     xored with the stack pointer and stored in a stack slot, in one statement
     or in three consecutive ones;
   - `_analyze` visits every predecessor of an exit block. If it calls
     `_security_check_cookie`, xors the slot back, and stores a return address,
     the block is replaced by a copy without those three statements;
   - if any predecessor was patched, the set-up statements are popped from a
     copy of the first block (in reverse index order), the copy replaces the
     first block, and the slot is recorded as the canary stack item.

9. **The analysis framework.** `AnalysisFactory.__call__` creates an
   analysis object, and `_AnalysisFactory` / `Analysis._prep` give it its
   options (`fail_fast`, `show_progressbar`) and fresh `errors` and
   `named_errors` lists; then `__init__` runs the analysis body. Inside the
   body, `with self._resilience(name, exception):` catches an exception of the
   given class unless `fail_fast` is set, and appends an `AnalysisLogEntry`
   with the exception info to `errors` (or `named_errors[name]`). An analysis
   may call another analysis from inside such a block; an exception that the
   inner one does not catch crosses into the outer block. `_update_progress`
   starts the progress bar, `_finish_progress` stops it. A finished analysis
   can be pickled: `AnalysisLogEntry.__getstate__` stores `str()` of the
   exception type, value and traceback.

The materializer (`remove_claripy_bool_asts`) is not modelled yet (see the
end of this README).

## Abstraction

A claripy condition is modelled by its **truth table**: the set of assignments
of the branch decisions under which the condition holds.
- Every branching block makes one decision. A conditional jump decides 0 or 1;
  an indirect jump decides its target.
- And, Or and Not become intersection, union and complement.
- Satisfiability becomes non-emptiness.

This is exact for the questions asked here, because the properties compare
conditions by their meaning. sympy's `simplify_logic` preserves meaning, so it
disappears from the model.

The rewrite passes act on the **syntax** of a term, so they cannot use truth
tables. `ConditionSimplifier` models terms as records `[op, args, name]` and
evaluates them on every valuation of the symbols. The claripy constructors keep
the normalisations they apply when a term is built:
- `Not(Not x)` is `x`;
- an And or Or with one argument is that argument;
- `claripy.And()` with no argument is a nondeterministic choice between `true`
  and an exception.

## Modules

| Module | Models | State | Actions |
|---|---|---|---|
| `ReachingEquations` | the region graph and the condition formulas `recover_reaching_conditions` evaluates: `_g` (lines 305-313), `_extract_predicate` (lines 260-269, 663-715), the post-dominator short-cut, the Or over predecessors (lines 340-356) and the guarding condition (lines 367-400) | the inputs, `econd`, `rc` | none: shared by `ReachingConditions` and `ReachingContract` |
| `ReachingConditions` | `recover_edge_conditions`, `_extract_predicate`, `recover_reaching_conditions` (lines 260-403, 661-715), over the formulas of `ReachingEquations` | the input graph, terminator kinds, `with_successors`; `econd` (edge_conditions), `rc` (reaching_conditions), `gc` (guarding_conditions), the visited sets of the two loops, the phase | `RecoverEdgeConditions`, `VisitNode(n)` (one iteration of the first loop), `EndReach`, `GuardNode(n)` (one iteration of the second loop), `Publish` |
| `ConditionSimplifier` | the three rewrite passes (lines 989-1130) | the input condition, the pass's result, claripy's empty-And behaviour | `ApplyRevertShortCircuit`, `ApplyFoldDoubleNegations`, `ApplyExtractCommonSubexpressions` |
| `ConditionBridge` | `claripy_ast_from_ail_condition`, `_ail2claripy_op_mapping`, `_dummy_bvs`, `convert_claripy_bool_ast_core` (the table entries for CmpEQ, signed CmpLT, Add, Not, Neg, BitwiseNeg and the `_DUMMY_` fallback; Register, Convert and Const leaves, lines 853-940; the whole reverse `_mapping`, lines 754-835, without the memo and the peephole optimizations) | `cm` (`_condition_mapping`), the conditions translated so far with their claripy ASTs | `Translate(e, ins)`: `_extract_predicate` translating a conditional jump's condition with `must_bool=True` |
| `CaseCrossingEdges` | `_remove_crossing_edges_between_cases` (lines 1239-1274) | the graph and its case entries; `queue`, `traversed` (traversed_nodes), `rem` (edges_to_remove), the entries already started, the returned graph | `StartCase(s)` (one iteration of the loop over starting nodes, in any order), `Visit` (one iteration of the while loop, with the successors queued in any order), `Finish` |
| `LastStatements` | `get_last_statement`, `get_last_statements` (lines 498-655) | the node asked about and the two results; a node is a record `[kind, stmts, kids, els]`, a result `[exc, val]`, where `exc` records an escaping `EmptyBlockNotice` or `NotImplementedError` | `CallGetLastStatement`, `CallGetLastStatements`; every branch of the two functions is a case of a recursive operator |
| `WinStackCanary` | `WinStackCanarySimplifier._check`, `_analyze` and its four finders (`win_stack_canary_simplifier.py`, lines 42-353) | the architecture, the function graph, the input blocks and the output blocks by address, `firstBlock` (as `_check` read it), `initIds`, the predecessors still to visit, `found` (found_endpoints), the canary slot, and a history of the statement ids the pass removed | `BeginAnalyze`, `ProcessPred(p)` (one iteration of the loop over predecessors, patch and `_update_block` included), `FinishAnalyze` (the pops, `_update_block` of the first block and the stack item) |
| `Analysis` | `AnalysisLogEntry`, `Analysis._resilience`, `_prep`, `_update_progress`, `_finish_progress`, `__getstate__` (`analysis.py`, lines 67-112, 189-378, 410-418) | two instances, `Outer` (the user's call) and `Inner` (called by Outer from inside a `_resilience` block): `st`, `pc`, `ff` (`_fail_fast`), `show`, `bar` and `live` (the progress bar), `eref`/`nref` (which list object `self.errors` / `self.named_errors` is: the class attribute `Cls` or the instance's own), `errs`/`nerrs` (the lists), `blk` (the block Outer waits in), `exc` (the exception an instance raised), the history `raised`, and `loaded` (the unpickled copy) | `CallOuter`, `CallInner` (the call inside a block), `Block(i, n, f, c)` (one `_resilience` block whose code completes or raises class `c`), `UpdateProgress`, `FinishProgress`, `Return`, `PickleRoundTrip` |
| `ReachingContract` | what `recover_reaching_conditions` promises (spec 4.3, abstract): edge conditions first, then both maps at once, the reaching conditions a solution of the equations of lines 341-356 | `stage`, the inputs, `econd`, `rc`, `gc` | `Recover`, `Publish` |
| `ReachingConditionsProofs` | proofs about `ReachingConditions` | | |
| `ReachingRefinement` | proof that `ReachingConditions` implements `ReachingContract` | | |
| `ResilienceContract` | the resilience contract of spec 7 (abstract) | per instance `stat` (idle, active, done), `logs` (per list name, the numbers of the exceptions logged in it), `count` (exceptions raised) and `esc` (the exception an instance raised) | `Call(i)` (empty lists of its own), `Raise(D, h, n)` (ends the analyses in `D`, logs in list `n` of `h` or, for `h = 0`, nowhere), `End(i)` |
| `AnalysisProofs` | proofs about `Analysis` | | |
| `AnalysisRefinement` | proof that `Analysis` implements `ResilienceContract` | | |
| `MCReachingConditions`, `MCConditionSimplifier`, `MCConditionBridge`, `MCCaseCrossingEdges`, `MCLastStatements`, `MCAnalysis` | TLC instances | | |

The graph of `ReachingConditions` is built as follows:
- Nodes are `1..N`, and the head is 1.
- Node `N` is the region's successor. It is in `graph_with_successors` but not in
  `region.graph`.
- Edges only go from a smaller node to a larger one. So every acyclic region is
  represented up to renaming, and `1..N` is a topological order.
- `Init` enumerates every well-formed graph:
  - every node except the head has a predecessor;
  - the successor has no out-edge;
  - a conditional jump has two targets, an indirect jump at least two, and
    anything else at most one.
- `Init` also enumerates every terminator kind and both values of
  `with_successors`.
- `VisitNode` may take the nodes in any topological order. The code's
  `quasi_topological_sort_nodes` picks one such order, and every property must
  hold for all of them.
- The guarding loop follows the sorted order (ascending).

The reference against which the model is checked is `truth`, computed once in
`Init`. For each node, it is the set of assignments under which the
deterministic walk from the head passes through that node.

Post-dominance comes from `angr.utils.graph`, which is not in this source tree.
It is modelled from its definition: every path from `y` to an exit passes
through `x`.

## Runs

| Run | Checks | Result |
|---|---|---|
| `reaching_exact` (`MCReachingConditions.cfg`, N = 5) | `TypeOK`, `RegionReachingExact`, `ReachingFixpoint`, `ImplementsReachingContract` | passes (about 43 000 states) |
| `bridge_round_trip` (`MCConditionBridge.cfg`) | `RoundTrip` | passes (about 100 000 states) |
| `cases_separated` (`MCCaseCrossingEdges.cfg`, 6 nodes) | `CasesSeparated` | passes (about 700 000 states) |
| `last_statements_sound` (`MCLastStatements.cfg`, nodes two levels deep) | `LastStatementsSound` | passes (about 43 000 states) |
| `last_statements_complete` | `LastStatementsComplete` | violated (finding) |
| `fold_sound` (`MCConditionSimplifier.cfg`, 3 symbols) | `FoldSound` | passes |
| `revert_sound` | `RevertSound` | violated (finding) |
| `extract_sound` | `ExtractSound` | violated (finding) |
| `canary_only_canary_removed` (`WinStackCanary.cfg`) | `OnlyCanaryRemoved` | passes (about 650 states) |
| `canary_patch_lost` (`WinStackCanary_Patch.cfg`) | `EveryPatchApplied` | violated (finding) |
| `resilience_attributed` (`MCAnalysis.cfg`) | `TypeOK`, `ErrorsAttributed`, `ImplementsContract` | passes (about 57 000 states) |
| `log_entries_pickle` (`MCAnalysis_Pickle.cfg`) | `LogEntriesSurvivePickle` | violated (finding) |

Four further configurations are kept for the reader but are not among the
runs: `MCReachingConditions_SuccessorExact.cfg` (`SuccessorReachingExact`),
`MCConditionBridge_Neg.cfg` (`RoundTrip` with Neg),
`MCConditionBridge_Convert.cfg` (`MappingAppendOnly`) and
`MCCaseCrossingEdges_Intra.cfg` (`OnlyCrossingEdgesRemoved`). TLC reports each
of these properties violated; the observations are listed as hazards in
`PROJECT.json`.

- **RegionReachingExact.** Consider the runs that stay inside the region. On
  those runs, the reaching condition of every region node holds exactly when
  control reaches the node. This holds for every visiting order, every
  terminator shape and every graph of 4 region nodes plus a successor.
  Without `with_successors`, the comparison is limited to `Stay`, the
  assignments whose run does not take the edge to the successor. So the
  post-dominator short-cut (line 340) is judged only on the runs that stay.
  On a run that leaves early, a node that post-dominates the head in
  `region.graph` is not reached, but it still gets `true`. No run checks that
  case; it is listed as a hazard.
- **ReachingFixpoint.** At every point of the loop, each recorded condition
  equals what lines 341-356 compute from the current map. So no predecessor's
  condition was read through its `.get` default before the predecessor was
  visited, or changed after. `RegionReachingExact` judges the final values;
  this property judges the order in which they are built. TLAPS proves it for
  every N.
- **ImplementsReachingContract.** The solver implements `ReachingContract`
  under a mapping in which the contract is at stage "edges" until
  `recover_edge_conditions` returns, at "conds" while the two loops run, and
  "published" once both maps are assigned to `self` (lines 402-403), with empty
  maps before that. So the published reaching conditions solve the equations
  over all of `_g`: true at the head and at a node that post-dominates it, the
  Or over predecessors elsewhere, an entry for exactly the nodes that are
  short-cut or have a predecessor. This holds whatever topological order the
  sort picks. The published guarding conditions are those of exactly the
  two-predecessor nodes with a diverging edge, computed from the final edge
  conditions. Nothing is published before both loops are over. TLAPS proves
  it for every N. In `ReachingContract`'s `Publish` the short-cut test is made
  on the current state, and only the published map and the Or over
  predecessors are primed. The graph does not change in that step, so this
  says the same thing, and TLC does not evaluate post-dominance under a
  prime, which is slow there.
- **SuccessorReachingExact** (configured, not a run). This property fails. With `with_successors`, edge
  conditions are still recovered on `region.graph` only (line 274), so an edge
  into the successor has no condition. The lookup
  `edge_conditions.get(edge, claripy.true())` then makes that edge
  unconditional. Shortest counterexample: the head ends in an indirect jump to
  2, 3, 4 and the successor. The successor's reaching condition is `true`,
  although it is reached only when the jump goes to it.
- **Guarding conditions are not checked for meaning.** The guarding condition
  is built as `Or(Not c1, Not c2, ...)` (line 399), as spec 4.4b states. The
  comment on line 398 says "the negation of the union", which would be
  `And(Not c1, ...)`. With two diverging edges, the Or also holds on a run
  that takes one of them and skips the node. Spec 4.4b calls the guard only a
  candidate for the structurer, so no property states its meaning. `TypeOK`
  covers its domain.
- **RoundTrip.** Translate two branch conditions one after the other, then
  convert each claripy AST back with the mapping as it stands at the end, as
  the materializer does after structuring. The result must have the same value
  as the original AIL condition for every register contents (spec 8). The
  model compares values: registers are 2 bits wide, widening Converts go to 3
  bits, and booleans are 0/1.
  - It holds for Add, BitwiseNeg, Rol (an operator without a translation, which
    becomes a `_dummy_bvs` symbol), CmpEQ, signed CmpLT, Not, and unsigned
    widening and one-bit Converts.
  - It fails with Neg (`MCConditionBridge_Neg.cfg`). The forward table builds claripy's arithmetic
    negation, but the reverse table maps `__neg__` to a logical `Not` (line 783).
- **CasesSeparated.** After the trim, no node that has successors can be
  reached from two different case entries. It holds on every graph over six
  nodes whose head's successors are the case entries, for every order of the
  starting-node set and every order of `graph.successors`. It says nothing
  about edges removed in excess. The merge edges removed inside one case
  (lines 1254 and 1265) are seen only by `OnlyCrossingEdgesRemoved`, below.
- **OnlyCrossingEdgesRemoved** (configured, not a run). This property fails. It says that every
  removed edge enters a case entry, or joins nodes reached from different
  sets of cases. The trim also removes merge edges inside one case body.
  Example: case 2 has edges 2→3, 2→4, 3→4 and 4→6, and
  `graph.successors(2)` yields 4 before 3. Then 4 is already traversed when 3
  is visited, and the edge 3→4 is removed. Node 4's reaching condition
  then loses the path through 3.
- **LastStatementsSound and LastStatementsComplete.** These are checked
  against a reference, `Endings`: the ways an execution of the node can end.
  An ending is a last statement, a break marker, or "fall" when the node runs
  no statement.
  - Soundness holds. Every statement that either function reports is an
    ending.
  - Completeness fails. It says that each ending is in the list of
    `get_last_statements`, or the list holds `None`, as it does for a missing
    arm.
  - For a ConditionNode whose true arm is an empty block, the empty-block
    exception is swallowed and nothing is appended. So the path through that
    arm is lost.
  - An empty false arm is not caught at all. The whole node then counts as
    empty, and an enclosing sequence reports the statement before it.
- **MappingAppendOnly** (configured, not a run). No translation rebinds an
  existing symbol name to a different expression (spec 3: the mapping is
  append-only). `MCConditionBridge_Convert.cfg` shows it failing. It fails once
  both signed and unsigned widenings occur. The name of a Convert symbol
  (line 875) carries the widths and the operand's hash but not the sign flag,
  so the second widening overwrites the first one's entry. `RoundTrip` fails
  on the same inputs. `bridge_round_trip` therefore uses unsigned widenings
  only. On those inputs every symbol name is unique by construction (lines
  90-93), so `MappingAppendOnly` is not among its properties.
- **FoldSound, RevertSound and ExtractSound.** For each pass, whenever it
  returns a term, that term is equivalent to its input. The inputs are:
  - literals;
  - conjunctions of two or three literals over distinct symbols;
  - two-armed disjunctions of these;
  - negations of conjunctions and of literal disjunctions.

  These are the shapes that reaching conditions take. Only `_fold_double_negations` is sound on them.
  `_revert_short_circuit_conditions` drops the third conjunct of an And arm
  (`a || (c && !a && b)` becomes `a || c`).
  `_extract_common_subexpressions` turns `a || (a && c)` into `a && c`.

  None of the three passes has a caller in this source tree; the two
  findings stand against spec 4.4 and section 8, which document them as
  truth-table preserving. `MkNot` normalises `Not(Not(x))` to `x`, as claripy
  does, so the `Not` branch of `_fold_double_negations` (line 1063) is never
  reached; `FoldSound` judges the And/Or recursion of the fold.
- **OnlyCanaryRemoved.** Every statement outside the canary set-up and checks
  is still in its block when the pass ends. The inputs cover AMD64 and X86,
  folded, spread and broken set-ups, folded and spread checks, a check without
  the return-address store, and a call to another function. The function
  shapes are an entry that also leads straight to an exit, two checking
  predecessors of one exit, and an entry block that itself checks the canary
  before its exit. The property holds because the pops go in reverse order;
  popping in ascending order shifts the indices and removes body statements.
- **EveryPatchApplied.** This property fails. It says that once `_analyze`
  returns, no statement the pass removed is in the output graph. `first_block`
  is read by `_check` before the loop over predecessors. When the entry block
  is itself a checking predecessor, the loop replaces it (line 141), and then
  `first_block.copy()` starts from the stale block (line 146). `_update_block`
  (outside this tree, modelled as: replace when the old block is in the graph,
  otherwise either ignore or replace) then either leaves the set-up statements
  in or puts the check call, xor and return-address store back.

- **ErrorsAttributed.** The resilience contract (spec 7). Every exception
  raised in a `_resilience` block is recorded exactly once, in the `errors`
  or `named_errors[name]` of the innermost analysis whose block handles it
  (class matches the filter and `fail_fast` is off), and in no other list of
  any analysis. An exception no block handles is the one the user's call
  raises. It would fail if `_prep` left an instance on the class attributes
  `Analysis.errors` / `named_errors` (the two analyses would share one list),
  or if an exception that escapes Inner were recorded by Inner as well as by
  Outer's block.
- **ImplementsContract.** The two analyses implement `ResilienceContract`.
  `Analysis` defines the mapping: `StatOf` maps `st` to idle, active (running
  or waiting) or done (returned or raised). `LogsOf` maps each list of a
  called instance to the numbers of its entries (`IdSeq(View(i, n))`), and
  the lists of an instance not yet called to empty ones. `count` is
  `Len(raised)`, and `esc` is `exc`. Unlike `ErrorsAttributed`, this property
  also speaks of the order of the entries and of when each list may change:
  only an active analysis's list, and only by appending the newest number.
  The mutant `RaiseInCalleeLog` has Outer's block log a crossing exception
  into Inner's list, which has already ended. It breaks this property.
- **LogEntriesSurvivePickle.** This property fails. It says that every log
  entry of an unpickled analysis formats and prints as the original does.
  `AnalysisLogEntry.__getstate__` (line 88) stores `str()` of the exception
  type, value and traceback, and `__setstate__` puts the strings back. Then
  `format()` hands strings to `traceback.format_exception`, and `__repr__`
  asks a string for `__name__`: both raise `AttributeError`.

**Bounds.** N = 5 gives four region nodes and a successor. That is enough for:
- a diamond, so a merge node with two predecessors and a guarding condition;
- a node that post-dominates the head;
- an indirect jump with three or more targets;
- edges that leave to the successor.

Every counterexample of the solver needs at most five nodes. The trim needs
six: a merge edge inside a case only looks like a crossing edge when two paths
of different lengths lead to a node that has a successor. The bridge uses two
registers (so two `_dummy_bvs` symbols can collide), a single instruction
address, and two translations (so a later translation can rebind an earlier
symbol). The last-statement lookup enumerates every node of one level over
blocks of zero or one statement, breaks and conditional breaks, and the
sequences, multi-nodes and conditions of two levels that have one compound
child. The analysis model has one block name besides `None`, two statements per
body and two raised exceptions: enough for Outer to call Inner inside a block
and for a second exception after the first, in either instance, with every
filter, class and `fail_fast` value. Three symbols are enough
for three-conjunct Ands and for shared subterms. The canary pass uses functions of at most
four blocks: enough for two predecessors of one exit, for an entry that is
itself a predecessor of an exit, and for blocks of up to nine statements in
which the set-up and the check each take their folded and their spread form.

**Mutants.** Each property of a passing run is broken by a plausible bug in the
code it is about:
- visiting nodes of `graph_with_successors` while propagating over
  `region.graph` breaks `TypeOK`;
- visiting a node before one of its predecessors breaks `ReachingFixpoint`;
- assigning the maps to `self` before the guarding loop has visited every
  node breaks `ImplementsReachingContract`;
- dropping the predecessor's own condition from the Or over predecessors breaks
  `RegionReachingExact`;
- folding `!(A || B)` into `!A || !B` breaks `FoldSound`;
- mapping `__invert__` back to a logical Not breaks `RoundTrip`;
- skipping the traversed check in the walk breaks `CasesSeparated`;
- answering a SequenceNode with its first node breaks `LastStatementsSound`;
- popping the canary set-up statements in ascending order breaks
  `OnlyCanaryRemoved`;
- making the log entry without `exc_info=True` breaks `TypeOK`;
- leaving `errors` and `named_errors` on the class attributes in `_prep`
  breaks `ErrorsAttributed`.

No model assumes fairness, and no property is a liveness property. Every
property is a safety property of a terminating, single-threaded computation
(spec 5). That an analysis call ends follows from the bounded bodies and
Python's call and return; no bug of `analysis.py` could make it fail, so it
is not stated. `CHECK_DEADLOCK FALSE` is used because
each model stops on purpose:
- the solver once `phase = "done"`;
- the trim once it has returned its graph;
- the passes after their one call;
- the bridge after `MaxCalls` translations;
- the lookup after its two calls;
- the canary pass once `_analyze` has returned;
- the analysis model once the user's call has returned or raised (and the
  result has been pickled).

## Proofs

`ReachingConditionsProofs` proves `TypeCorrect == Spec => []TypeOK` for every
`N >= 2`, assuming only `NAssumption`. Three lemmas state that the condition
built by each operator is a set of assignments:
- `ExtractPredicateType`;
- `OrOfPredsType`;
- `GuardingConditionType`.

`TypeOK` is inductive as it stands. It relates the domains of `rc` and `gc` to
the nodes each loop has visited, and the visited sets to the nodes of the
propagation graph. The step proof has one case per action.

It also proves `FixpointCorrect == Spec => []ReachingFixpoint`.
`ReachingFixpoint` is not inductive by itself: a visit could change a
predecessor's condition after a successor has read it. The strengthening
`FixpointInv` adds two facts:
- nothing is recorded while the phase is still "edges", so the one step that
  changes `econd` finds `rc` empty;
- every visited node has all its predecessors in the propagation graph
  visited. This is the guard that models `quasi_topological_sort_nodes`.

The argument runs as follows. A visit records a condition only for a node
`n` that is not yet visited. So `n` is neither in the domain of `rc` nor a
predecessor of a recorded node. Lemma `PredCondStable` then shows that
`reaching_conditions.get(p, true)` keeps its value for every other `p`.
Lemma `OrOfPredsStable` lifts this to the Or over predecessors. The other
actions leave `rc`, `econd` and the graph alone (lemma `FixpointFrame`).
`TypeCorrect` supplies `DOMAIN rc \subseteq done`. Post-dominance is never
expanded: it depends only on the graph, which no step changes.

`ReachingRefinement` proves `ImplementsReachingContractCorrect == Spec =>
ImplementsReachingContract` for every `N >= 2`. The proof has the same form as
`AnalysisRefinement` (below). It rests on `PublishInvariant == Spec =>
[]PublishInv`. `PublishInv` says what the loops have built by the time of
`Publish`:
- after `EndReach`, every node of `_g` has been visited;
- the domain of `rc` is exactly the visited nodes that are short-cut or have a
  predecessor;
- the guarding loop has visited nothing while the edge conditions are not yet
  recovered, so the one step that changes `econd` changes no guarding entry;
- the domain of `gc` is exactly the visited two-predecessor nodes with a
  diverging edge, and each entry is `GuardingCondition` of the current
  `econd`.

`PublishInv` is inductive by itself, with lemma `GraphFrame` for the steps that
keep the graph and the edge conditions. TLC checked it, with `TypeOK` and
`FixpointInv`, as an invariant of the `MCReachingConditions` instance (43 383
states) before the proof used it.

The refinement steps are as follows:
- `ReachingInit`: the initial state maps to the contract's.
- `RecoverRefines`: `RecoverEdgeConditions` is `Recover`.
- `ReachingStutter`: every step of the two loops is a stutter of the contract.
- `PublishRefines`: `Publish` is the contract's `Publish`. Its equation
  conjunct comes from `ReachingFixpoint` (theorem `FixpointCorrect`), and its
  domain and guarding conjuncts from `PublishInv`.

Lemma `ContractShared` states that every operator the contract shares with the
solver, seen through the mapping, is the solver's own, because none of them
reads the stage or the published maps.

`AnalysisProofs` proves `TypeCorrect == Spec => []TypeOK` for the analysis
model, for every set of block names and every `MaxSteps` and `MaxRaises`,
assuming only `ConstantsAssumption`. `TypeOK` is not inductive here. When a
called analysis ends, its caller's body goes on with its next statement, so
the step counter of the caller could pass `MaxSteps` unless the caller
stopped before its last statement. The strengthening `IInv` adds:
- the history `raised` holds records of raised exceptions, and `blk` holds
  blocks (`BlockRec`);
- a running Inner has a waiting Outer, and an idle Inner has an Outer that
  is not waiting;
- a waiting Outer has a statement still to run.

TLC checks `IInv` as an invariant of the `MCAnalysis` instance before the
proof uses it. The step proof has one case per action; `BlockStep` proves
the case of a `_resilience` block with one sub-case per outcome of the
except clause (handled here, handled by the caller's block, escaping).
`ControlParts`, `FlagParts`, `ListParts` and `RaiseParts` split the
invariant so that each leaf sees only the facts it needs, `EntryType`
states that an entry made in the except clause is a log entry, and
`LogInType` that appending it keeps every list a list of entries.

`AnalysisProofs` also proves `ErrorsAttributedCorrect == Spec =>
[]ErrorsAttributed`, the resilience contract, under the same assumption.
`ErrorsAttributed` is not inductive. It says nothing about an instance that
has not been called, yet a call must find no exception already attributed to
the new instance. It also does not say that the lists an instance logs into
are its own; with the class attributes (`PrepSharedLists`) they would not be.
The strengthening `AInv` adds four facts to `IInv`:
- `OwnLists`: every called instance has `errors` and `named_errors` lists of
  its own (`eref[i] = i`, `nref[i] = i`);
- `RaisedByCalled`: before the user's call nothing is raised and Inner is
  idle, and every exception raised in Inner was raised after Inner was called;
- `Attributed`: for every called instance and every name, the exception
  numbers in the list are exactly the raised exceptions that `Handler` gives
  to that list, with no number twice (`Distinct`);
- `Escaped`: an exception that no block handles is the one Outer raised.

TLC checks `AInv` as an invariant of the `MCAnalysis` instance (57 037
states) before the proof uses it. `AInvStep` has one case per action:
- `CallOuterStep`: the history is empty and the new lists are empty;
- `CallInnerStep`: every earlier record was raised in Outer, so none is
  Inner's, and Outer's lists and handlers are untouched;
- `BlockAStep`: a completed block and the frame actions use `FrameStep`. A
  logged exception uses `LoggedStep`, whether it is logged by the raising
  instance or by Outer's block around the call. An escaping one uses
  `EscapeStep`.

These rest on the following lemmas:
- `RaisedAppend` and `HandlerFrame`: appending a record keeps the handler of
  every earlier one;
- `LogInView`: an append changes exactly one list;
- `IdsAppend`: an append adds the new number, which no list held before;
- `DistinctCardinality`: a list without repeated numbers has as many numbers
  as entries, through `FS_Surjection`. This gives the `Cardinality`
  conjunct, the "exactly once" of the contract.

`AnalysisRefinement` proves `ImplementsContractCorrect == Spec =>
ImplementsContract` under the same assumption. The proof follows the usual
form for a refinement. `ContractInit` shows that the initial state maps to
`Contract!Init`. `ContractStep` shows `AInv /\ [Next]_vars =>
[Contract!Next]_Contract!avars`, one case per action:
- `CallOuterRefines` and `CallInnerRefines`: `Prep` gives the called
  instance fresh lists, so its mapped lists become `NoLogs`. The caller's
  lists are untouched, and a call of Inner finds Outer active.
- `BlockRefines`: a completed block is a stutter. A raise, with number
  `Len(raised) + 1`, is one of three contract steps:
  - handled in place: `Raise({}, i, n)`;
  - handled by Outer's block around the call: `Raise({Inner}, Outer,
    blk[Outer].name)`;
  - escaping: `Raise(D, 0, NoName)`, with `D = {Outer}` or both instances.
- `ReturnRefines`: `End(i)`. A returning Inner resumes Outer, which stays
  active.
- The progress, pickle and stuttering steps: `ContractStutter`.

The invariant `AInv` is needed because `OwnLists` makes each called
instance's lists its own. It also supplies the fact that a running Inner has
a waiting Outer.

These cases rest on lemmas about the mapping:
- `LogsAfterLog`: through `LogInView`, a `LogIn` by a called instance
  appends the exception number to exactly that one mapped list;
- `IdSeqAppend`: `IdSeq` commutes with `Append`, through `SeqEqual`;
- `LogsFrame`: a step that keeps the lists, the references and the set of
  called instances keeps the mapped lists;
- `LogsAfterCall`: the functional form of a call's mapped lists.

Some results stay with TLC. The exactness of the reaching conditions
(`RegionReachingExact`) is stated through a recursive function (`Reached`)
whose value for every input would need induction over data, which the provers
cannot instantiate. Liveness and ENABLED are out of TLAPS's reach; the
project states no liveness property. `ConditionSimplifier`, `ConditionBridge` and `LastStatements` declare
RECURSIVE operators, so they hold no theorem. `CaseCrossingEdges` extends
`SequencesExt`, which reaches RECURSIVE operators, so it holds none either.

## Not modelled

- **sympy conversion.** `claripy_ast_to_sympy_expr` and `sympy_expr_to_claripy_ast`
  belong to an external algebra system, so they are used as an oracle.
- **`_simplify_trivial_cases`.** Not modelled yet.
- **`_remove_redundant_terms`.** It only prints diagnostics.
- **Exception edges, `ConditionalBreakNode` sources and the jump-table branch of
  `recover_reaching_conditions`.** Planned.
- **Parts of the bridge.** Unsigned ordered comparisons are left out: their
  round trip depends on the op name the installed claripy gives Python's `<`,
  and that is outside this tree. Also left out: Div, Mod, shifts, Concat,
  Extract, loads, calls, Tmp and multi-statement leaves, the annotation table,
  and the peephole optimizations applied on the way back (they preserve
  values).
- **The materializer.** Planned.
- **Truth values of nodes.** `if block.true_node:` is modelled as
  `is not None`. The node classes are outside this tree.
- **Parts of the canary pass.** A non-int `store_offset` (only logged, line
  76) and several duplicated blocks per address from `_get_blocks` are not
  among the inputs.
- **Other source files.** In `analysis.py`, the telemetry spans, the
  progress callback, `_ram_usage`, `_release_gil` (a time/GIL courtesy) and
  `AnalysesHub`'s plugin registry are not modelled: they change no state a
  property can tell apart. `code_location.py` is a
  value object, and `ccall_rewriters/__init__.py` only re-exports names.
