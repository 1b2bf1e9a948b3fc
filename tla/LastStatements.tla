--------------------------- MODULE LastStatements ---------------------------
(***************************************************************************)
(* ConditionProcessor.get_last_statement and get_last_statements          *)
(* (condition_processor.py, lines 498-655): the statements that end a     *)
(* structured node.  _extract_predicate and have_opposite_edge_conditions *)
(* call get_last_statement on the source of an edge (lines 250, 697).     *)
(*                                                                         *)
(* A structured node is a record with the same fields for every kind:     *)
(*   kind   "Block" (ailment.Block), "Seq" (SequenceNode), "Multi",       *)
(*          "Code", "Loop", "Cond" (ConditionNode), "Casc"                *)
(*          (CascadingConditionNode), "Switch", "IncSwitch", "Brk",       *)
(*          "Cont", "CBrk" (ConditionalBreakNode), "Region"               *)
(*          (GraphRegion), "None" (Python None);                           *)
(*   stmts  the statements of a Block, as names;                           *)
(*   kids   the children in order: the nodes of a Seq or Multi, the inner *)
(*          node of a Code or Loop, <<true_node, false_node>> of a Cond,  *)
(*          the condition nodes of a Casc, the cases of a Switch;         *)
(*   els    the else_node of a Casc, the default_node of a Switch.        *)
(* A statement is a name; the results also hold "None" (Python None) and  *)
(* the markers "break", "continue" and "condbreak" for the nodes that     *)
(* get_last_statements returns themselves.  Raising EmptyBlockNotice or   *)
(* NotImplementedError is a result whose exc field is "empty" or          *)
(* "notimpl".                                                              *)
(***************************************************************************)
EXTENDS Naturals, Sequences, SequencesExt

CONSTANT Stmts   \* statement names

Mk(k, s, c, e) == [kind |-> k, stmts |-> s, kids |-> c, els |-> e]
NoNode == Mk("None", <<>>, <<>>, <<>>)
Else(e) == IF e = NoNode THEN <<>> ELSE <<e>>   \* els as a list of at most one node
Blk(s)     == Mk("Block", s, <<>>, <<>>)
Leaf(k)    == Mk(k, <<>>, <<>>, <<>>)
Seq1(c)    == Mk("Seq", <<>>, c, <<>>)
Multi(c)   == Mk("Multi", <<>>, c, <<>>)
Code(n)    == Mk("Code", <<>>, <<n>>, <<>>)
Loop(n)    == Mk("Loop", <<>>, <<n>>, <<>>)
Cond(t, f) == Mk("Cond", <<>>, <<t, f>>, <<>>)
Casc(c, e) == Mk("Casc", <<>>, c, Else(e))
Switch(c, d) == Mk("Switch", <<>>, c, Else(d))
ElseNode(b) == IF b.els = <<>> THEN NoNode ELSE b.els[1]

(* Results of get_last_statement (one item) and get_last_statements (a    *)
(* list of items).                                                         *)
Ret1(v)    == [exc |-> "none", val |-> v]
Raise1(x)  == [exc |-> x, val |-> "None"]
RetN(v)    == [exc |-> "none", val |-> v]
RaiseN(x)  == [exc |-> x, val |-> <<>>]

-----------------------------------------------------------------------------
(* get_last_statement                                                      *)

RECURSIVE GetLastStatement(_)

(* Mutant: a SequenceNode answers with its first node.                    *)
SeqLastStatementFirst(b) ==
    IF b.kids # <<>> THEN GetLastStatement(Head(b.kids)) ELSE Raise1("empty")

(* A SequenceNode answers with its last node and raises when it has none. *)
SeqLastStatement(b) ==
    IF b.kids # <<>> THEN GetLastStatement(Last(b.kids)) ELSE Raise1("empty")

(* MultiNode: the last node that does not raise EmptyBlockNotice.         *)
RECURSIVE MultiLastStatement(_, _)
MultiLastStatement(kids, i) ==
    IF i = 0 THEN Raise1("empty")
    ELSE LET r == GetLastStatement(kids[i])
         IN  IF r.exc = "empty" THEN MultiLastStatement(kids, i - 1) ELSE r

(* ConditionNode: the true node's statement, an empty true node counting  *)
(* as None; the false node is asked only when that gives None.            *)
CondLastStatement(b) ==
    LET t == b.kids[1]
        f == b.kids[2]
        r == GetLastStatement(t)
        s == IF t = NoNode THEN Ret1("None")
             ELSE IF r.exc = "empty" THEN Ret1("None") ELSE r
    IN  IF s.exc = "none" /\ s.val = "None" /\ f # NoNode
        THEN GetLastStatement(f) ELSE s

(* CascadingConditionNode without an else node: the condition nodes from  *)
(* the last one back, stopping at the first that gives a statement.       *)
RECURSIVE CascLastStatement(_, _)
CascLastStatement(kids, i) ==
    IF i = 0 THEN Ret1("None")
    ELSE LET r == GetLastStatement(kids[i])
         IN  IF r.exc # "none" \/ r.val # "None" THEN r
             ELSE CascLastStatement(kids, i - 1)

GetLastStatement(b) ==
    CASE b.kind = "Seq"    -> SeqLastStatement(b)
      [] b.kind = "Code"   -> GetLastStatement(b.kids[1])
      [] b.kind = "Block"  -> IF b.stmts = <<>> THEN Raise1("empty")
                              ELSE Ret1(Last(b.stmts))
      [] b.kind = "Multi"  -> MultiLastStatement(b.kids, Len(b.kids))
      [] b.kind = "Loop"   -> GetLastStatement(b.kids[1])
      [] b.kind = "Cond"   -> CondLastStatement(b)
      [] b.kind = "Casc"   -> IF b.els # <<>> THEN GetLastStatement(b.els[1])
                              ELSE CascLastStatement(b.kids, Len(b.kids))
      [] b.kind \in {"CBrk", "Brk", "Cont", "Switch", "IncSwitch", "Region"}
                           -> Ret1("None")
      [] OTHER             -> Raise1("notimpl")

-----------------------------------------------------------------------------
(* get_last_statements                                                     *)

RECURSIVE GetLastStatements(_)

(* Concatenation of two results; the first exception raised wins.        *)
Cat(r1, r2) ==
    IF r1.exc # "none" THEN r1
    ELSE IF r2.exc # "none" THEN r2
    ELSE RetN(r1.val \o r2.val)

(* SequenceNode and MultiNode: the last node that does not raise          *)
(* EmptyBlockNotice.                                                       *)
RECURSIVE SeqLastStatements(_, _)
SeqLastStatements(kids, i) ==
    IF i = 0 THEN RaiseN("empty")
    ELSE LET r == GetLastStatements(kids[i])
         IN  IF r.exc = "empty" THEN SeqLastStatements(kids, i - 1) ELSE r

(* The lists of nodes kids[1..i], concatenated; every exception escapes.  *)
RECURSIVE AllLastStatements(_, _)
AllLastStatements(kids, i) ==
    IF i = 0 THEN RetN(<<>>)
    ELSE Cat(AllLastStatements(kids, i - 1), GetLastStatements(kids[i]))

(* An optional node whose EmptyBlockNotice is swallowed (the true node of *)
(* a ConditionNode, the else node of a CascadingConditionNode); a missing *)
(* node stands for None.                                                   *)
OptionalLastStatements(n) ==
    IF n = NoNode THEN RetN(<<"None">>)
    ELSE LET r == GetLastStatements(n)
         IN  IF r.exc = "empty" THEN RetN(<<>>) ELSE r

(* An optional node whose EmptyBlockNotice escapes (the false node of a   *)
(* ConditionNode, the default node of a SwitchCaseNode).                  *)
DefaultLastStatements(n) ==
    IF n = NoNode THEN RetN(<<"None">>) ELSE GetLastStatements(n)

GetLastStatements(b) ==
    CASE b.kind \in {"Seq", "Multi"} -> SeqLastStatements(b.kids, Len(b.kids))
      [] b.kind = "Code"   -> GetLastStatements(b.kids[1])
      [] b.kind = "Block"  -> IF b.stmts = <<>> THEN RaiseN("empty")
                              ELSE RetN(<<Last(b.stmts)>>)
      [] b.kind = "Loop"   -> IF b.kids[1] = NoNode THEN RaiseN("empty")
                              ELSE GetLastStatements(b.kids[1])
      [] b.kind = "CBrk"   -> RetN(<<"condbreak">>)
      [] b.kind = "Cond"   -> Cat(OptionalLastStatements(b.kids[1]),
                                  DefaultLastStatements(b.kids[2]))
      [] b.kind = "Casc"   -> Cat(OptionalLastStatements(ElseNode(b)),
                                  AllLastStatements(b.kids, Len(b.kids)))
      [] b.kind = "Brk"    -> RetN(<<"break">>)
      [] b.kind = "Cont"   -> RetN(<<"continue">>)
      [] b.kind = "Switch" -> Cat(AllLastStatements(b.kids, Len(b.kids)),
                                  DefaultLastStatements(ElseNode(b)))
      [] b.kind = "IncSwitch" -> AllLastStatements(b.kids, Len(b.kids))
      [] b.kind = "Region" -> RetN(<<>>)
      [] OTHER             -> RaiseN("notimpl")

-----------------------------------------------------------------------------
(* Reference: how an execution of a node can end.  An ending is the last  *)
(* statement executed, a marker for a break, continue or conditional      *)
(* break, or "fall" when the node executes no statement at all (an empty  *)
(* block, a missing arm).  A sequence ends like its last node, or like    *)
(* the nodes before it when that one executes nothing.                     *)
RECURSIVE Endings(_)
RECURSIVE SeqEndings(_, _)
SeqEndings(kids, i) ==
    IF i = 0 THEN {"fall"}
    ELSE LET e == Endings(kids[i])
         IN  (e \ {"fall"}) \cup (IF "fall" \in e THEN SeqEndings(kids, i - 1) ELSE {})
OptEndings(n) == IF n = NoNode THEN {"fall"} ELSE Endings(n)
Endings(b) ==
    CASE b.kind = "Block"  -> IF b.stmts = <<>> THEN {"fall"} ELSE {Last(b.stmts)}
      [] b.kind \in {"Seq", "Multi"} -> SeqEndings(b.kids, Len(b.kids))
      [] b.kind \in {"Code", "Loop"} -> OptEndings(b.kids[1])
      [] b.kind = "Cond"   -> OptEndings(b.kids[1]) \cup OptEndings(b.kids[2])
      [] b.kind \in {"Casc", "Switch"} ->
             UNION {Endings(b.kids[i]) : i \in DOMAIN b.kids} \cup OptEndings(ElseNode(b))
      [] b.kind = "Brk"    -> {"break"}
      [] b.kind = "Cont"   -> {"continue"}
      [] b.kind = "CBrk"   -> {"condbreak"}
      [] OTHER             -> {}

-----------------------------------------------------------------------------
(* Inputs: structured nodes two levels deep.                              *)
Leaves == {Blk(<<>>)} \cup {Blk(<<s>>) : s \in Stmts} \cup {Leaf("Brk"), Leaf("CBrk")}
Opt(S) == S \cup {NoNode}
Lists(S) == {<<x>> : x \in S} \cup {<<x, y>> : x, y \in S}
Compound(S) ==
    {Seq1(l) : l \in Lists(S)} \cup {Multi(l) : l \in Lists(S)}
    \cup {Code(x) : x \in S} \cup {Loop(x) : x \in Opt(S)}
    \cup {Cond(t, f) : t, f \in Opt(S)}
    \cup {Casc(l, e) : l \in Lists(S), e \in Opt(S)}
    \cup {Switch(l, d) : l \in Lists(S), d \in Opt(S)}
Level1 == Leaves \cup Compound(Leaves)
Level2 ==
    {Seq1(<<x, y>>) : x \in Leaves, y \in Level1}
    \cup {Multi(<<y, x>>) : y \in Level1, x \in Leaves}
    \cup {Cond(t, f) : t \in Level1, f \in Opt(Leaves)}
    \cup {Cond(t, f) : t \in Opt(Leaves), f \in Level1}
Nodes == Level1 \cup Level2

(* Before the call: a result that is not yet there. *)
Pending1 == Raise1("pending")
PendingN == RaiseN("pending")

VARIABLES
    block,   \* the node asked about
    last,    \* the result of get_last_statement(block)
    lasts    \* the result of get_last_statements(block)

vars == <<block, last, lasts>>

Init ==
    /\ block \in Nodes
    /\ last = Pending1
    /\ lasts = PendingN

CallGetLastStatement ==
    /\ last = Pending1
    /\ last' = GetLastStatement(block)
    /\ UNCHANGED <<block, lasts>>

CallGetLastStatements ==
    /\ lasts = PendingN
    /\ lasts' = GetLastStatements(block)
    /\ UNCHANGED <<block, last>>

Next == CallGetLastStatement \/ CallGetLastStatements

Spec == Init /\ [][Next]_vars

-----------------------------------------------------------------------------
(* Every statement either function reports can be the last one executed  *)
(* in the node: get_last_statement's single answer and each statement of *)
(* get_last_statements' list are endings of some execution.  This is     *)
(* what _extract_predicate relies on when it reads the branch of an edge *)
(* from the last statement of a structured source node.                   *)
LastStatementsSound ==
    /\ last # Pending1 /\ last.exc = "none" /\ last.val \in Stmts
         => last.val \in Endings(block)
    /\ lasts # PendingN /\ lasts.exc = "none"
         => \A i \in DOMAIN lasts.val :
               lasts.val[i] \in Stmts => lasts.val[i] \in Endings(block)

(* get_last_statements covers every way the node can end: each ending is *)
(* in the list, or the list holds None, which tells the caller that some *)
(* path ends without a statement of this node (the docstring of          *)
(* get_last_statement asks every caller to move to this function).        *)
LastStatementsComplete ==
    lasts # PendingN /\ lasts.exc = "none" =>
        \/ "None" \in ToSet(lasts.val)
        \/ Endings(block) \subseteq ToSet(lasts.val)
=============================================================================
