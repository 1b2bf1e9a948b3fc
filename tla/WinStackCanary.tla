--------------------------- MODULE WinStackCanary ---------------------------
(***************************************************************************)
(* WinStackCanarySimplifier (optimization_passes/                          *)
(* win_stack_canary_simplifier.py): the pass that removes the stack       *)
(* canary set-up from a function's first block and the                     *)
(* _security_check_cookie calls from the blocks before its exits.          *)
(*                                                                         *)
(* A block is a sequence of AIL statements.  A statement is a record that *)
(* keeps only the shape the pattern finders test:                          *)
(*   k    "StoreXorLoad"    Store(SBO off, Xor(Load(Const a), SBO))        *)
(*        "AsgLoadConst"    Assignment(vvar dst, Load(Const a))            *)
(*        "AsgXorVvar"      Assignment(vvar dst, Xor(vvar src, SBO))       *)
(*        "StoreVvar"       Store(SBO off, vvar src)                       *)
(*        "AsgXorLoadStack" Assignment(vvar dst, Xor(Load(SBO off), SBO))  *)
(*        "AsgLoadStack"    Assignment(vvar dst, Load(SBO off))            *)
(*        "StoreConst"      Store(SBO, Const): a = "end" when the constant *)
(*                          is the block's end address (a return address) *)
(*        "Call"            Call(Const): a = "check" for a function that   *)
(*                          is _security_check_cookie                      *)
(*        "Other"           anything else;                                 *)
(* SBO is a StackBaseOffset, vvar a register VirtualVariable, a "cookie"  *)
(* the address of the security cookie.  Each statement also carries its   *)
(* place in the input (id) and, for the properties only, whether it        *)
(* belongs to the canary (role).                                           *)
(***************************************************************************)
EXTENDS Naturals, Sequences, SequencesExt

Arches == {"AMD64", "X86"}
Slots == {1, 2}                 \* stack offsets

(* The register _find_*_canary_storing_stmt looks for.                    *)
CheckReg(arch) == IF arch = "AMD64" THEN "rcx" ELSE "eax"
(* The register the compiler loads the cookie into.                       *)
InitReg(arch)  == IF arch = "AMD64" THEN "rax" ELSE "eax"

St(k, dst, src, off, a, role) ==
    [k |-> k, dst |-> dst, src |-> src, off |-> off, a |-> a, role |-> role, id |-> <<0, 0>>]
None == "none"

-----------------------------------------------------------------------------
(* _find_canary_init_stmt (lines 157-221): the statements that store the  *)
(* cookie xor the stack pointer, folded into one Store or spread over a    *)
(* load, a xor and a store on consecutive statements.  The scan carries    *)
(* the code's locals; a statement that breaks the pattern ends the loop.  *)
(* The result is the list of indices, <<>> for None.                      *)
FindCanaryInitStmt(b) ==
    LET st0 == [res |-> <<>>, stop |-> FALSE, load |-> 0, lreg |-> None, xor |-> 0, xreg |-> None]
        f[i \in 0..Len(b)] ==
          IF i = 0 THEN st0
          ELSE LET p == f[i - 1]
                   s == b[i]
                   q == IF s.k = "AsgLoadConst" /\ s.a = "cookie"
                        THEN [p EXCEPT !.load = i, !.lreg = s.dst] ELSE p
                   r == IF q.load # 0 /\ i = q.load + 1
                        THEN IF s.k = "AsgXorVvar" /\ s.src = q.lreg
                             THEN [q EXCEPT !.xor = i, !.xreg = s.dst]
                             ELSE [q EXCEPT !.stop = TRUE]
                        ELSE q
               IN  IF p.stop THEN p
                   ELSE IF s.k = "StoreXorLoad" /\ s.a = "cookie"
                   THEN [p EXCEPT !.res = <<i>>, !.stop = TRUE]
                   ELSE IF r.stop THEN r
                   ELSE IF r.xor # 0 /\ i = r.xor + 1
                   THEN IF s.k = "StoreVvar" /\ s.src = r.xreg
                        THEN [r EXCEPT !.res = <<r.load, r.xor, i>>, !.stop = TRUE]
                        ELSE [r EXCEPT !.stop = TRUE]
                   ELSE r
    IN  f[Len(b)].res

(* The first index of b satisfying P, 0 for None.                         *)
FirstIndex(b, P(_)) ==
    IF \E i \in DOMAIN b : P(i)
    THEN CHOOSE i \in DOMAIN b : P(i) /\ \A j \in 1..(i - 1) : ~P(j)
    ELSE 0

(* _find_amd64_canary_storing_stmt / _find_x86_canary_storing_stmt        *)
(* (lines 223-327): the statement that xors the canary read back from the *)
(* slot, in one statement, or as a xor of the check register after a load *)
(* of the slot into it.                                                     *)
FindCanaryStoringStmt(b, off, arch) ==
    LET ck == CheckReg(arch)
        folded(i) == b[i].k = "AsgXorLoadStack" /\ b[i].dst = ck /\ b[i].off = off
        load(j)   == b[j].k = "AsgLoadStack" /\ b[j].dst = ck /\ b[j].off = off
        xor(i)    == b[i].k = "AsgXorVvar" /\ b[i].src = ck
    IN  FirstIndex(b, LAMBDA i : folded(i) \/ (xor(i) /\ \E j \in 1..(i - 1) : load(j)))

(* _find_return_addr_storing_stmt (lines 329-339).                        *)
FindReturnAddrStoringStmt(b) ==
    FirstIndex(b, LAMBDA i : b[i].k = "StoreConst" /\ b[i].a = "end")

(* _find_stmt_calling_security_check_cookie (lines 341-353); the lookup   *)
(* of the callee by name or by is_function_security_check_cookie is       *)
(* abstracted to a = "check".                                              *)
FindStmtCallingSecurityCheckCookie(b) ==
    FirstIndex(b, LAMBDA i : b[i].k = "Call" /\ b[i].a = "check")

(* pred.copy(statements=...) without the statements at the indices in S.  *)
WithoutIndices(b, S) ==
    LET ids == {b[i].id : i \in S}
    IN  SelectSeq(b, LAMBDA s : s.id \notin ids)

(* Mutant: the init statements are popped in ascending order, so each pop *)
(* shifts the indices of the ones still to pop.                            *)
PopOrderAscending(ids) == ids

(* sorted(canary_init_stmt_ids, reverse=True)                              *)
PopOrder(ids) == Reverse(ids)

(* first_block_copy.statements.pop(i) for each i in order; an index past  *)
(* the end raises IndexError (ok = FALSE).                                 *)
PopAll(b, order) ==
    LET g[k \in 0..Len(order)] ==
          IF k = 0 THEN [ok |-> TRUE, b |-> b]
          ELSE LET prev == g[k - 1]
               IN  IF ~prev.ok \/ order[k] > Len(prev.b) THEN [prev EXCEPT !.ok = FALSE]
                   ELSE [prev EXCEPT !.b = RemoveAt(prev.b, order[k])]
    IN  g[Len(order)]

-----------------------------------------------------------------------------
(* Inputs.  Three function shapes over addresses 1..4, entry 1:            *)
(*   "exit":   1 -> 2 -> 3 and 1 -> 4, the entry also leading to an exit; *)
(*   "two":    1 -> 2 -> 4 and 1 -> 3 -> 4, two checking predecessors;    *)
(*   "single": 1 -> 2, the entry block itself calls the check.            *)
Entry == 1
Shapes == {"exit", "two", "single"}
GraphOf(g) ==
    CASE g = "exit" -> {<<1, 2>>, <<2, 3>>, <<1, 4>>}
      [] g = "two"  -> {<<1, 2>>, <<1, 3>>, <<2, 4>>, <<3, 4>>}
      [] OTHER      -> {<<1, 2>>}
AddrsOf(g) == IF g = "single" THEN 1..2 ELSE 1..4

Body        == St("Other", None, None, 0, None, "body")
LoadOther(r) == St("AsgLoadConst", r, None, 0, "other", "body")

(* Canary set-ups of the first block: folded, spread, and spread with a   *)
(* statement in between, which the finder does not recognise.             *)
EntryShapes(arch) ==
    LET r == InitReg(arch)
        load == St("AsgLoadConst", r, None, 0, "cookie", "canary")
        xor  == St("AsgXorVvar", r, r, 0, None, "canary")
        store == St("StoreVvar", None, r, 1, None, "canary")
    IN  { <<LoadOther(r), St("StoreXorLoad", None, None, 1, "cookie", "canary"), Body>>,
          <<Body, load, xor, store, Body, Body>>,
          <<load, Body, xor, store, Body>> }

(* Blocks before an exit: the check folded, the check spread over a load  *)
(* and a xor, the check without the return-address store, and a call to  *)
(* another function.                                                       *)
PredShapes(arch) ==
    LET ck == CheckReg(arch)
        ret == St("StoreConst", None, None, 0, "end", "canary")
        call == St("Call", None, None, 0, "check", "canary")
    IN  { <<Body, St("AsgXorLoadStack", ck, None, 1, None, "canary"), ret, call>>,
          <<St("AsgLoadStack", ck, None, 1, None, "canary"), Body,
            St("AsgXorVvar", ck, ck, 0, None, "canary"), ret, call>>,
          <<Body, St("AsgXorLoadStack", ck, None, 1, None, "canary"), call>>,
          <<Body, St("StoreConst", None, None, 0, "end", "body"),
            St("Call", None, None, 0, "other", "body")>> }

Number(a, s) == [i \in 1..Len(s) |-> [s[i] EXCEPT !.id = <<a, i>>]]

FunctionsOf(arch, g) ==
    LET E == EntryShapes(arch)
        P == PredShapes(arch)
        ret == <<Body>>
    IN  CASE g = "exit" -> {<<e, p, ret, ret>> : e \in E, p \in P}
          [] g = "two"  -> {<<e, p, q, ret>> : e \in E, p \in P, q \in P}
          [] OTHER      -> {<<e \o p, ret>> : e \in E, p \in P}

-----------------------------------------------------------------------------
VARIABLES
    arch,        \* self.project.arch.name
    edges,       \* self._func.graph
    orig,        \* the blocks the pass is given, by address
    blocks,      \* the blocks of the output graph, by address
    firstBlock,  \* first_block as _check read it
    initIds,     \* canary_init_stmt_ids (<<>> for None)
    todo,        \* predecessors of exits not yet processed
    found,       \* found_endpoints
    slot,        \* the offset recorded in stack_items (0: none)
    intent,      \* history: ids of the statements the pass has removed
    phase        \* "analyze", "preds", "done"

vars == <<arch, edges, orig, blocks, firstBlock, initIds, todo, found, slot, intent, phase>>

Succs(a) == {m \in DOMAIN orig : <<a, m>> \in edges}
(* all_endpoint_addrs and the keys of pred_addr_to_endpoint_addrs          *)
Endpoints == {a \in DOMAIN orig : Succs(a) = {}}
EndpointPreds == {p \in DOMAIN orig : Succs(p) \cap Endpoints # {}}

Init ==
    /\ arch \in Arches
    /\ \E g \in Shapes :
          /\ edges = GraphOf(g)
          /\ \E f \in FunctionsOf(arch, g) :
                orig = [a \in AddrsOf(g) |-> Number(a, f[a])]
    /\ blocks = orig
    /\ firstBlock = orig[Entry]
    /\ initIds = FindCanaryInitStmt(orig[Entry])
    /\ todo = {}
    /\ found = FALSE
    /\ slot = 0
    /\ intent = {}
    /\ phase = "analyze"

(* _update_block(old, new) (OptimizationPass, outside this tree): the     *)
(* block of the output graph is replaced by new.  When old is no longer   *)
(* the block in the graph, the outcome depends on ailment.Block equality: *)
(* it is either ignored or replaces the block anyway.                      *)
UpdateBlock(a, old, new) ==
    IF blocks[a] = old THEN blocks' = [blocks EXCEPT ![a] = new]
    ELSE blocks' \in {blocks, [blocks EXCEPT ![a] = new]}

(* _analyze up to the loop over predecessors (lines 51-95): without an    *)
(* init statement the pass stops; otherwise the store's stack offset is   *)
(* where the canary lives.                                                 *)
BeginAnalyze ==
    /\ phase = "analyze"
    /\ IF initIds = <<>>
       THEN phase' = "done" /\ UNCHANGED todo
       ELSE phase' = "preds" /\ todo' = EndpointPreds
    /\ UNCHANGED <<arch, edges, orig, blocks, firstBlock, initIds, found, slot, intent>>

StoreOffset == firstBlock[Last(initIds)].off

(* One iteration of the loop over pred_addr_to_endpoint_addrs (lines      *)
(* 96-143): a predecessor that calls _security_check_cookie and has the   *)
(* canary xor and the return-address store is patched without those       *)
(* three statements.                                                       *)
ProcessPred(p) ==
    /\ phase = "preds"
    /\ p \in todo
    /\ todo' = todo \ {p}
    /\ LET pred == blocks[p]
           call == FindStmtCallingSecurityCheckCookie(pred)
           xor  == FindCanaryStoringStmt(pred, StoreOffset, arch)
           ret  == FindReturnAddrStoringStmt(pred)
       IN  IF call = 0 \/ xor = 0 \/ ret = 0
           THEN UNCHANGED <<blocks, found, intent>>
           ELSE /\ UpdateBlock(p, pred, WithoutIndices(pred, {call, xor, ret}))
                /\ found' = TRUE
                /\ intent' = intent \cup {pred[i].id : i \in {call, xor, ret}}
    /\ UNCHANGED <<arch, edges, orig, firstBlock, initIds, slot, phase>>

(* Mutant: the pops go in ascending order.                                *)
FirstBlockCopyAscending(b, ids) == PopAll(b, PopOrderAscending(ids))

(* first_block_copy without the init statements (lines 146-149).          *)
FirstBlockCopy(b, ids) == PopAll(b, PopOrder(ids))

(* After the loop (lines 145-155): when some exit was patched, the init   *)
(* statements are removed from a copy of first_block, the copy replaces   *)
(* it, and the canary slot is recorded in stack_items.                    *)
FinishAnalyze ==
    /\ phase = "preds"
    /\ todo = {}
    /\ phase' = "done"
    /\ IF found
       THEN LET copy == FirstBlockCopy(firstBlock, initIds)
            IN  /\ copy.ok
                /\ UpdateBlock(Entry, firstBlock, copy.b)
                /\ slot' = StoreOffset
                /\ intent' = intent \cup {firstBlock[i].id : i \in ToSet(initIds)}
       ELSE UNCHANGED <<blocks, slot, intent>>
    /\ UNCHANGED <<arch, edges, orig, firstBlock, initIds, todo, found>>

Next ==
    \/ BeginAnalyze
    \/ \E p \in 1..4 : ProcessPred(p)
    \/ FinishAnalyze

Spec == Init /\ [][Next]_vars

-----------------------------------------------------------------------------
Ids(b) == {b[i].id : i \in DOMAIN b}

(* The pass removes nothing but canary statements: every statement of the *)
(* function that is not part of the canary set-up or check is still in    *)
(* its block, whatever order the init statements are popped in and        *)
(* whichever check pattern matched.                                        *)
OnlyCanaryRemoved ==
    \A a \in DOMAIN orig : \A i \in DOMAIN orig[a] :
        orig[a][i].role = "body" => orig[a][i].id \in Ids(blocks[a])

(* Every removal the pass makes is in its output: once _analyze returns,  *)
(* no statement it took out of a block (the check call, the canary xor,   *)
(* the return-address store, the init statements) is in the output graph. *)
EveryPatchApplied ==
    phase = "done" => \A a \in DOMAIN blocks : Ids(blocks[a]) \cap intent = {}
=============================================================================
