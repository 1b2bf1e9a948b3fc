------------------------ MODULE ConditionSimplifier ------------------------
(***************************************************************************)
(* The rewrite passes of ConditionProcessor that work on the syntax of a   *)
(* claripy Bool AST (condition_processor.py, lines 1013-1130):             *)
(* _revert_short_circuit_conditions, _fold_double_negations and            *)
(* _extract_common_subexpressions.                                        *)
(*                                                                         *)
(* A term is a record [op, args, name]: a symbol ("BoolS", name), a        *)
(* constant ("BoolV", name TRUE/FALSE), or "Not", "And", "Or" over the     *)
(* sequence args.  claripy interns terms by structure, so "is" and "==" on *)
(* terms are both equality of the records.  The satisfiability oracle      *)
(* (claripy.SolverCacheless) is a truth-table check over the symbols, and  *)
(* simplify_condition (sympy) is an oracle that returns an equivalent term; *)
(* it is modelled as returning its argument.                               *)
(***************************************************************************)
EXTENDS Naturals, Sequences, FiniteSets

CONSTANT Atoms   \* the names of the boolean symbols

ASSUME AtomsAssumption == Atoms # {} /\ IsFiniteSet(Atoms)

VARIABLES
    cond,        \* the condition handed to a pass
    out,         \* what the pass returned ("None" is represented by NoTerm)
    emptyAnd,    \* what claripy.And() with no argument does: "true" or "raise"
    pass         \* the pass that was called, "none" before the call

vars == <<cond, out, emptyAnd, pass>>

Sym(x) == [op |-> "BoolS", args |-> <<>>, name |-> x]
TrueT  == [op |-> "BoolV", args |-> <<>>, name |-> TRUE]
FalseT == [op |-> "BoolV", args |-> <<>>, name |-> FALSE]
NoTerm == [op |-> "None", args |-> <<>>, name |-> FALSE]
ErrT   == [op |-> "Raise", args |-> <<>>, name |-> FALSE]

-----------------------------------------------------------------------------
(* Semantics: the reference every pass is checked against.                 *)
RECURSIVE Eval(_, _)
Eval(f, s) ==
    CASE f.op = "BoolS" -> s[f.name]
      [] f.op = "BoolV" -> f.name
      [] f.op = "Not"   -> ~Eval(f.args[1], s)
      [] f.op = "And"   -> \A i \in DOMAIN f.args : Eval(f.args[i], s)
      [] f.op = "Or"    -> \E i \in DOMAIN f.args : Eval(f.args[i], s)

Valuations == [Atoms -> BOOLEAN]
Equivalent(f, g) == \A s \in Valuations : Eval(f, s) = Eval(g, s)

(* AST.variables                                                           *)
RECURSIVE Variables(_)
Variables(f) ==
    IF f.op = "BoolS" THEN {f.name}
    ELSE UNION {Variables(f.args[i]) : i \in DOMAIN f.args}

RECURSIVE HasError(_)
HasError(f) == f.op = "Raise" \/ \E i \in DOMAIN f.args : HasError(f.args[i])

-----------------------------------------------------------------------------
(* claripy's constructors, with the normalisations they apply at          *)
(* construction: Not(Not(x)) is x, a one-argument And/Or is its argument. *)
MkNot(f) == IF f.op = "Not" THEN f.args[1]
            ELSE IF f.op = "BoolV" THEN [f EXCEPT !.name = ~f.name]
            ELSE [op |-> "Not", args |-> <<f>>, name |-> FALSE]

MkAnd(a) == IF a = <<>> THEN (IF emptyAnd = "true" THEN TrueT ELSE ErrT)
            ELSE IF Len(a) = 1 THEN a[1]
            ELSE [op |-> "And", args |-> a, name |-> FALSE]

MkOr(a) == IF Len(a) = 1 THEN a[1] ELSE [op |-> "Or", args |-> a, name |-> FALSE]

(* simplify_condition: an equivalent term (oracle).                        *)
SimplifyCondition(f) == f

(* A claripy.SolverCacheless with the constraint x == y added is           *)
(* unsatisfiable.                                                          *)
EqUnsat(x, y) == \A s \in Valuations : Eval(x, s) # Eval(y, s)

-----------------------------------------------------------------------------
(* _revert_short_circuit_conditions: !A || (A && !B) ==> !(A && B)         *)
RevertShortCircuitConditions(c) ==
    IF c.op # "Or" THEN c
    ELSE IF Len(c.args) = 1 THEN c.args[1]
    ELSE IF c.args[2].op # "And" /\ c.args[1].op # "And" THEN c
    ELSE
      LET notA  == IF c.args[2].op = "And" THEN c.args[1] ELSE c.args[2]
          conj  == IF c.args[2].op = "And" THEN c.args[2] ELSE c.args[1]
          pick  == IF Variables(notA) = Variables(conj.args[1]) THEN 1
                   ELSE IF Variables(notA) = Variables(conj.args[2]) THEN 2
                   ELSE 0
          other == IF pick = 1 THEN conj.args[2] ELSE conj.args[1]
          rest  == SubSeq(c.args, 3, Len(c.args))
          res   == MkNot(MkAnd(<<MkNot(notA), MkNot(other)>>))
      IN  IF pick = 0 THEN c
          ELSE IF ~EqUnsat(notA, conj.args[pick]) THEN c
          ELSE IF Len(c.args) <= 2 THEN res
          ELSE MkOr(<<res>> \o rest)

-----------------------------------------------------------------------------
(* Mutant: !(A || B) is folded to !A || !B.                                 *)
FoldDoubleNegationsOrSwap(c) ==
    IF c.op # "Not" THEN NoTerm
    ELSE LET x == c.args[1] IN
      IF x.op = "Not" THEN x
      ELSE IF x.op = "And" /\ Len(x.args) = 2 /\ x.args[1].op = "Not"
      THEN IF x.args[2].op = "Not"
           THEN MkOr(<<x.args[1].args[1], x.args[2].args[1]>>)
           ELSE MkOr(<<x.args[1].args[1], SimplifyCondition(MkNot(x.args[2]))>>)
      ELSE IF x.op = "Or" /\ Len(x.args) = 2
      THEN MkOr(<<SimplifyCondition(MkNot(x.args[1])), SimplifyCondition(MkNot(x.args[2]))>>)
      ELSE NoTerm

(* _fold_double_negations                                                   *)
(*   !(!A) ==> A;  !((!A) && (!B)) ==> A || B;  !((!A) && B) ==> A || !B;   *)
(*   !(A || B) ==> (!A && !B).  NoTerm stands for the returned None.        *)
FoldDoubleNegations(c) ==
    IF c.op # "Not" THEN NoTerm
    ELSE LET x == c.args[1] IN
      IF x.op = "Not" THEN x
      ELSE IF x.op = "And" /\ Len(x.args) = 2 /\ x.args[1].op = "Not"
      THEN IF x.args[2].op = "Not"
           THEN MkOr(<<x.args[1].args[1], x.args[2].args[1]>>)
           ELSE MkOr(<<x.args[1].args[1], SimplifyCondition(MkNot(x.args[2]))>>)
      ELSE IF x.op = "Or" /\ Len(x.args) = 2
      THEN MkAnd(<<SimplifyCondition(MkNot(x.args[1])), SimplifyCondition(MkNot(x.args[2]))>>)
      ELSE NoTerm

-----------------------------------------------------------------------------
(* _extract_common_subexpressions: (A && B) || (A && C) => A && (B || C)   *)
Occurrences(args, e) ==
    Cardinality({i \in DOMAIN args : IF args[i].op = "And"
                                     THEN \E j \in DOMAIN args[i].args : args[i].args[j] = e
                                     ELSE args[i] = e})
Candidates(args) ==
    UNION {IF args[i].op = "And" THEN {args[i].args[j] : j \in DOMAIN args[i].args}
           ELSE {args[i]} : i \in DOMAIN args}

(* The elements of a finite set as a sequence, in a fixed order.           *)
SetToSeqOf(S) ==
    LET f == CHOOSE g \in [1..Cardinality(S) -> S] : \A i, j \in DOMAIN g : i # j => g[i] # g[j]
    IN  f

FilterOut(seq, S) == SelectSeq(seq, LAMBDA e : e \notin S)

RECURSIVE ExtractCommonSubexpressions(_)
ExtractCommonSubexpressions(c) ==
    IF c.op = "And"
    THEN LET r == [i \in DOMAIN c.args |-> ExtractCommonSubexpressions(c.args[i])]
         IN  IF \A i \in DOMAIN r : r[i] = NoTerm THEN NoTerm
             ELSE MkAnd([i \in DOMAIN r |-> IF r[i] # NoTerm THEN r[i] ELSE c.args[i]])
    ELSE IF c.op = "Or"
    THEN LET r      == [i \in DOMAIN c.args |-> ExtractCommonSubexpressions(c.args[i])]
             args   == [i \in DOMAIN r |-> IF r[i] # NoTerm THEN r[i] ELSE c.args[i]]
             common == {e \in Candidates(args) : Occurrences(args, e) = Len(args)}
             kept   == SelectSeq(args, LAMBDA a : a.op = "And" \/ a \notin common)
             newArgs == [i \in DOMAIN kept |-> MkAnd(FilterOut(kept[i].args, common))]
         IN  IF common = {} THEN MkOr(args)
             ELSE MkAnd(SetToSeqOf(common) \o <<MkOr(newArgs)>>)
    ELSE NoTerm

-----------------------------------------------------------------------------
(* The conditions handed to the passes: literals, conjunctions of two or   *)
(* three literals over distinct symbols, two-armed disjunctions of those,  *)
(* and negations of conjunctions and disjunctions: the shapes reaching     *)
(* conditions take after And(pred, edge) / Or(...) in the solver.          *)
Lits == {Sym(x) : x \in Atoms} \cup {MkNot(Sym(x)) : x \in Atoms}
LitSym(l) == IF l.op = "Not" THEN l.args[1].name ELSE l.name
Conj2 == {[op |-> "And", args |-> <<l1, l2>>, name |-> FALSE] :
            l1 \in Lits, l2 \in Lits}
Conj3 == {[op |-> "And", args |-> <<l1, l2, l3>>, name |-> FALSE] :
            l1 \in Lits, l2 \in Lits, l3 \in Lits}
Conjs == {c \in Conj2 \cup Conj3 :
            \A i, j \in DOMAIN c.args : i # j => LitSym(c.args[i]) # LitSym(c.args[j])}
Arms == Lits \cup Conjs
Disjs == {d \in {[op |-> "Or", args |-> <<x, y>>, name |-> FALSE] : x \in Arms, y \in Arms} :
            d.args[1] # d.args[2]}
Negs == {MkNot(f) : f \in Conjs \cup {d \in Disjs : d.args[1] \in Lits /\ d.args[2] \in Lits}}
Inputs == Arms \cup Disjs \cup Negs

Init ==
    /\ cond \in Inputs
    /\ out = NoTerm
    /\ emptyAnd \in {"true", "raise"}
    /\ pass = "none"

(* Each action is one call of a pass on the condition.                     *)
ApplyRevertShortCircuit ==
    /\ pass = "none"
    /\ out' = RevertShortCircuitConditions(cond)
    /\ pass' = "revert"
    /\ UNCHANGED <<cond, emptyAnd>>

ApplyFoldDoubleNegations ==
    /\ pass = "none"
    /\ out' = FoldDoubleNegations(cond)
    /\ out' # NoTerm
    /\ pass' = "fold"
    /\ UNCHANGED <<cond, emptyAnd>>

ApplyExtractCommonSubexpressions ==
    /\ pass = "none"
    /\ out' = LET r == ExtractCommonSubexpressions(cond)
              IN  IF HasError(r) THEN ErrT ELSE r
    /\ out' # NoTerm
    /\ pass' = "extract"
    /\ UNCHANGED <<cond, emptyAnd>>

Next ==
    \/ ApplyRevertShortCircuit
    \/ ApplyFoldDoubleNegations
    \/ ApplyExtractCommonSubexpressions

Spec == Init /\ [][Next]_vars

-----------------------------------------------------------------------------
(* The result of a pass is a term (or None, or the exception of an empty  *)
(* claripy.And()) over the symbols of the input.                          *)
TypeOK ==
    /\ cond \in Inputs
    /\ emptyAnd \in {"true", "raise"}
    /\ pass \in {"none", "revert", "fold", "extract"}
    /\ out \in {NoTerm, ErrT} \/ Variables(out) \subseteq Variables(cond)

(* Soundness of each pass (spec 4.4 and 8: "for each pass,                 *)
(* satisfiable(input XOR output) is false"): whenever the pass returns a   *)
(* term, the term has the same truth table as the condition it was given. *)
Returned == out \notin {NoTerm, ErrT}

(* _fold_double_negations returns an equivalent term.                      *)
FoldSound == pass = "fold" /\ Returned => Equivalent(out, cond)

(* _revert_short_circuit_conditions returns an equivalent term.            *)
RevertSound == pass = "revert" /\ Returned => Equivalent(out, cond)

(* _extract_common_subexpressions returns an equivalent term.              *)
ExtractSound == pass = "extract" /\ Returned => Equivalent(out, cond)
=============================================================================
