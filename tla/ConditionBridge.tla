-------------------------- MODULE ConditionBridge --------------------------
(***************************************************************************)
(* The bridge between AIL expressions and claripy ASTs in                  *)
(* condition_processor.py: claripy_ast_from_ail_condition with the         *)
(* operator table _ail2claripy_op_mapping (forward), and                   *)
(* convert_claripy_bool_ast(_core) (backward), sharing the processor's     *)
(* _condition_mapping from symbol names to AIL expressions.                *)
(*                                                                         *)
(* AIL expressions are records [op, args, bits, val, signed]; claripy      *)
(* ASTs are records [op, args, size, name, val].  A symbol's name is a     *)
(* record holding what the code's f-string puts into it (the expression's *)
(* repr, the instruction address, the widths, the hash of the operand),    *)
(* so two names are equal exactly when the code's strings are.  Values are *)
(* integers of the expression's width; a boolean is 0 or 1.                *)
(***************************************************************************)
EXTENDS Naturals, Sequences, FiniteSets, TLC

CONSTANTS
    Regs,        \* the registers conditions read (model values)
    Ops,         \* the AIL operators the conditions are built with
    ConvSigned,  \* the signedness flags a widening Convert may carry
    InsAddrs,    \* instruction addresses of the conditional jumps
    MaxCalls     \* bound on the number of conditions translated

ASSUME BridgeAssumption ==
    /\ Regs # {} /\ IsFiniteSet(Regs)
    /\ Ops \subseteq {"Add", "Neg", "BitwiseNeg", "Rol", "CmpEQ", "CmpLT", "Not"}
    /\ ConvSigned \subseteq BOOLEAN /\ ConvSigned # {}
    /\ InsAddrs # {} /\ InsAddrs \subseteq Nat
    /\ MaxCalls \in Nat

W == 2    \* width of a register
CW == 3   \* width a Convert widens a register to

VARIABLES
    cm,      \* self._condition_mapping: symbol name -> AIL expression
    trans    \* the conditions translated so far: <<[e, t]>>

vars == <<cm, trans>>

-----------------------------------------------------------------------------
(* AIL expressions (ailment.Expr).                                         *)
NoE == [op |-> "none", args |-> <<>>, bits |-> 0, val |-> 0, signed |-> FALSE]
Reg(r) == [op |-> "Register", args |-> <<>>, bits |-> W, val |-> r, signed |-> FALSE]
Const(v, b) == [op |-> "Const", args |-> <<>>, bits |-> b, val |-> v, signed |-> FALSE]
CmpOps == {"CmpEQ", "CmpNE", "CmpLT", "CmpLE", "CmpGT", "CmpGE", "LogicalAnd", "LogicalOr"}
Bin(o, a, b, s) == [op |-> o, args |-> <<a, b>>, bits |-> IF o \in CmpOps THEN 1 ELSE a.bits,
                    val |-> 0, signed |-> s]
Un(o, a) == [op |-> o, args |-> <<a>>, bits |-> a.bits, val |-> 0, signed |-> FALSE]
(* Convert(from_bits = a.bits, to_bits, is_signed, operand)                *)
Conv(a, to, s) == [op |-> "Convert", args |-> <<a>>, bits |-> to, val |-> a.bits, signed |-> s]

(* BinaryOp.verbose_op: the operator with " (signed)" for signed           *)
(* comparisons (ailment, outside this tree).                               *)
VerboseOp(e) == IF e.op = "CmpLT" /\ e.signed THEN "CmpLT (signed)" ELSE e.op

(* claripy ASTs.                                                           *)
NoT == [op |-> "none", args |-> <<>>, size |-> 0, name |-> [k |-> "none"], val |-> 0]
NoName == [k |-> "none", e |-> NoE, from |-> 0, to |-> 0, inner |-> NoT]
Name(k, e, from, to, inner) == [k |-> k, e |-> e, from |-> from, to |-> to, inner |-> inner]
BVS(n, size) == [op |-> "BVS", args |-> <<>>, size |-> size, name |-> n, val |-> 0]
BoolS(n) == [op |-> "BoolS", args |-> <<>>, size |-> 0, name |-> n, val |-> 0]
BVV(v, size) == [op |-> "BVV", args |-> <<>>, size |-> size, name |-> NoName, val |-> v]
BoolV(b) == [op |-> "BoolV", args |-> <<>>, size |-> 0, name |-> NoName, val |-> b]
Op(o, args, size) == [op |-> o, args |-> args, size |-> size, name |-> NoName, val |-> 0]
IsBool(t) == t.size = 0
MkNot(t) == IF t.op = "Not" THEN t.args[1] ELSE Op("Not", <<t>>, 0)

SetMap(m, n, e) == [x \in DOMAIN m \cup {n} |-> IF x = n THEN e ELSE m[x]]

-----------------------------------------------------------------------------
(* claripy_ast_from_ail_condition(condition, nobool, must_bool, ins_addr)  *)
(* with the table _ail2claripy_op_mapping; returns [t, cm].                *)
RECURSIVE Fwd(_, _, _, _, _)

(* _dummy_bvs: the name f"ailexpr_{condition!r}{name_suffix}"             *)
DummyName(e) == Name("dummy", e, 0, 0, NoT)

(* A binary entry of _ail2claripy_op_mapping ("CmpEQ", "CmpLT (signed)",  *)
(* "Add"): both operands converted with nobool=True, then the claripy op. *)
FwdBinOp(o, e, ins, m) ==
    LET x == Fwd(e.args[1], TRUE, FALSE, ins, m)
        y == Fwd(e.args[2], TRUE, FALSE, ins, x.cm)
    IN  [t |-> Op(o, <<x.t, y.t>>, IF o = "__add__" THEN x.t.size ELSE 0), cm |-> y.cm]

(* The entries "Not", "Neg" and "BitwiseNeg": claripy.Not, -, ~.           *)
FwdUnOp(v, e, ins, m) ==
    LET x == Fwd(e.args[1], FALSE, FALSE, ins, m)
    IN  [t |-> IF v = "Not" THEN MkNot(x.t)
               ELSE Op(IF v = "Neg" THEN "__neg__" ELSE "__invert__", <<x.t>>, x.t.size),
         cm |-> x.cm]

(* The lookup of the entry by verbose_op, then by op, then "_DUMMY_"       *)
(* ("Rol" and the catch-all call _dummy_bvs), and its call.               *)
FwdOp(e, ins, m) ==
    LET v == VerboseOp(e)
    IN  CASE v = "CmpEQ"          -> FwdBinOp("__eq__", e, ins, m)
          [] v = "CmpLT (signed)" -> FwdBinOp("SLT", e, ins, m)
          [] v = "Add"            -> FwdBinOp("__add__", e, ins, m)
          [] v \in {"Not", "Neg", "BitwiseNeg"} -> FwdUnOp(v, e, ins, m)
          [] OTHER -> LET n == DummyName(e)
                      IN  [t |-> BVS(n, e.bits), cm |-> SetMap(m, n, e)]

(* A Register leaf: a BVS named after the register and ins_addr.          *)
FwdRegister(e, ins, m) ==
    LET n == Name("reg", e, ins, 0, NoT)
    IN  [t |-> BVS(n, e.bits), cm |-> SetMap(m, n, e)]

(* A Convert: a BoolS for one bit unless nobool, else a BVS; the name      *)
(* carries from_bits, to_bits and the operand's hash, not the sign.       *)
FwdConvert(e, nobool, ins, m) ==
    LET x == Fwd(e.args[1], FALSE, FALSE, ins, m)
        isBool == e.bits = 1 /\ ~nobool
        n == Name(IF isBool THEN "ailcond_Conv" ELSE "ailexpr_Conv", NoE, e.val, e.bits, x.t)
    IN  [t |-> IF isBool THEN BoolS(n) ELSE BVS(n, e.bits), cm |-> SetMap(x.cm, n, e)]

(* A Const: a BVV, a 1-bit one becoming true or false.                     *)
FwdConst(e, m) ==
    [t |-> IF e.bits = 1 THEN BoolV(e.val) ELSE BVV(e.val, e.bits), cm |-> m]

Fwd(e, nobool, mustbool, ins, m) ==
    CASE e.op = "Register" -> FwdRegister(e, ins, m)
      [] e.op = "Convert"  -> FwdConvert(e, nobool, ins, m)
      [] e.op = "Const"    -> FwdConst(e, m)
      [] OTHER ->
           LET r0 == FwdOp(e, ins, m)
               \* a Bool requested as a bit-vector becomes a 1-bit symbol
               r1 == IF IsBool(r0.t) /\ nobool
                     THEN LET n == Name("from_bool", NoE, 0, 0, r0.t)
                          IN  [t |-> BVS(n, 1), cm |-> SetMap(r0.cm, n, e)]
                     ELSE r0
           IN  IF r1.t.size = 1 /\ mustbool
               THEN IF r1.t.op = "BVV" THEN [t |-> BoolV(r1.t.val), cm |-> r1.cm]
                    ELSE LET n == Name("bool_from_bv1", NoE, 0, 0, r1.t)
                         IN  [t |-> BoolS(n), cm |-> SetMap(r1.cm, n, e)]
               ELSE r1

-----------------------------------------------------------------------------
(* convert_claripy_bool_ast(_core): claripy AST -> AIL expression, or      *)
(* NoE where the code raises NotImplementedError.                          *)
RECURSIVE ToIR(_, _)

(* Mutant: "__invert__" is mapped back to a logical Not.                   *)
UnaryReverseInvertAsNot ==
    ("Not" :> "Not") @@ ("__neg__" :> "Not") @@ ("__invert__" :> "Not")

(* The unary entries of _mapping (lines 782-784), for _unary_op_reduce.   *)
UnaryReverse ==
    ("Not" :> "Not") @@ ("__neg__" :> "Not") @@ ("__invert__" :> "BitwiseNeg")

(* The binary entries of _mapping (lines 785-811), for _binary_op_reduce: *)
(* the AIL operator and the signed flag.                                   *)
BinaryReverse ==
    ("And" :> <<"LogicalAnd", FALSE>>) @@ ("Or" :> <<"LogicalOr", FALSE>>)
    @@ ("__le__" :> <<"CmpLE", TRUE>>) @@ ("SLE" :> <<"CmpLE", TRUE>>)
    @@ ("__lt__" :> <<"CmpLT", TRUE>>) @@ ("SLT" :> <<"CmpLT", TRUE>>)
    @@ ("UGT" :> <<"CmpGT", FALSE>>) @@ ("UGE" :> <<"CmpGE", FALSE>>)
    @@ ("__gt__" :> <<"CmpGT", TRUE>>) @@ ("__ge__" :> <<"CmpGE", TRUE>>)
    @@ ("SGT" :> <<"CmpGT", TRUE>>) @@ ("SGE" :> <<"CmpGE", TRUE>>)
    @@ ("ULT" :> <<"CmpLT", FALSE>>) @@ ("ULE" :> <<"CmpLE", FALSE>>)
    @@ ("__eq__" :> <<"CmpEQ", FALSE>>) @@ ("__ne__" :> <<"CmpNE", FALSE>>)
    @@ ("__add__" :> <<"Add", FALSE>>) @@ ("__sub__" :> <<"Sub", FALSE>>)
    @@ ("__mul__" :> <<"Mul", FALSE>>) @@ ("__xor__" :> <<"Xor", FALSE>>)
    @@ ("__or__" :> <<"Or", FALSE>>) @@ ("__and__" :> <<"And", FALSE>>)
    @@ ("__lshift__" :> <<"Shl", FALSE>>) @@ ("__rshift__" :> <<"Sar", FALSE>>)
    @@ ("__floordiv__" :> <<"Div", FALSE>>) @@ ("__mod__" :> <<"Mod", FALSE>>)
    @@ ("LShR" :> <<"Shr", FALSE>>)

(* convert_claripy_bool_ast_core (lines 754-835) without the memo, the    *)
(* annotation table and the peephole optimizations: true, the mapping's  *)
(* symbols, constants, then the table; an operator outside it (and        *)
(* Extract, ZeroExt, Concat, which the forward direction never produces   *)
(* here) raises NotImplementedError.                                       *)
ToIR(t, m) ==
    IF t.op = "BoolV" /\ t.val = 1 THEN Const(1, 1)
    ELSE IF t.op \in {"BVS", "BoolS"} /\ t.name \in DOMAIN m THEN m[t.name]
    ELSE IF t.op = "BVV" THEN Const(t.val, t.size)
    ELSE IF t.op = "BoolV" THEN Const(0, 1)
    ELSE IF t.op \in DOMAIN UnaryReverse THEN Un(UnaryReverse[t.op], ToIR(t.args[1], m))
    ELSE IF t.op \in DOMAIN BinaryReverse
         THEN Bin(BinaryReverse[t.op][1], ToIR(t.args[1], m), ToIR(t.args[2], m), BinaryReverse[t.op][2])
    ELSE NoE

-----------------------------------------------------------------------------
(* The value an AIL expression denotes when the registers hold s; NoE     *)
(* (a raised NotImplementedError) denotes no value.                        *)
Signed(x, b) == IF x >= 2^(b - 1) THEN x - 2^b ELSE x
Bit(c) == IF c THEN 1 ELSE 0

RECURSIVE EvalAil(_, _)
EvalAil(e, s) ==
    LET A(i) == EvalAil(e.args[i], s)
        M == 2^e.bits
    IN
    CASE e.op = "Register"   -> s[e.val]
      [] e.op = "Const"      -> e.val
      [] e.op = "Add"        -> (A(1) + A(2)) % M
      [] e.op = "Neg"        -> (M - A(1)) % M
      [] e.op = "BitwiseNeg" -> M - 1 - A(1)
      [] e.op = "Not"        -> Bit(A(1) = 0)
      [] e.op = "Rol"        -> LET k == A(2) % e.bits
                                IN  (A(1) * 2^k + A(1) \div 2^(e.bits - k)) % M
      [] e.op = "CmpEQ"      -> Bit(A(1) = A(2))
      [] e.op = "CmpLT"      -> IF e.signed
                                THEN Bit(Signed(A(1), e.args[1].bits) < Signed(A(2), e.args[2].bits))
                                ELSE Bit(A(1) < A(2))
      [] e.op = "Convert"    -> IF e.bits < e.val THEN A(1) % M
                                ELSE IF e.signed THEN Signed(A(1), e.val) % M
                                ELSE A(1)

RECURSIVE Raises(_)
Raises(e) == e.op = "none" \/ \E i \in DOMAIN e.args : Raises(e.args[i])

Valuations == [Regs -> 0..(2^W - 1)]
SameValue(e, f) == ~Raises(f) /\ \A s \in Valuations : EvalAil(e, s) = EvalAil(f, s)

-----------------------------------------------------------------------------
(* The conditions the extractor hands over: comparisons of two register-  *)
(* width terms or of two widened terms, a register converted to one bit,  *)
(* and their negations.                                                    *)
Leaves == {Reg(r) : r \in Regs} \cup {Const(1, W)}
Terms ==
    Leaves
    \cup {Un(o, Reg(r)) : o \in Ops \cap {"Neg", "BitwiseNeg"}, r \in Regs}
    \cup {Bin(o, Reg(r), Const(1, W), FALSE) : o \in Ops \cap {"Add", "Rol"}, r \in Regs}
Wide == {Conv(Reg(r), CW, sg) : r \in Regs, sg \in ConvSigned} \cup {Const(1, CW)}
Cmps == {Bin(o, x, y, o = "CmpLT") :
           o \in Ops \cap {"CmpEQ", "CmpLT"},
           <<x, y>> \in {p \in (Terms \X Terms) \cup (Wide \X Wide) : p[1] # p[2]}}
Bools == {Conv(Reg(r), 1, FALSE) : r \in Regs}
Conds == Cmps \cup Bools \cup {Un("Not", c) : c \in IF "Not" \in Ops THEN Cmps \cup Bools ELSE {}}

Init ==
    /\ cm = [n \in {} |-> NoE]
    /\ trans = <<>>

(* _extract_predicate on a ConditionalJump (lines 707-713) translates its  *)
(* condition with must_bool=True at the statement's address.              *)
Translate(e, ins) ==
    /\ Len(trans) < MaxCalls
    /\ LET r == Fwd(e, FALSE, TRUE, ins, cm)
       IN  /\ cm' = r.cm
           /\ trans' = Append(trans, [e |-> e, t |-> r.t])

Next == \E e \in Conds, ins \in InsAddrs : Translate(e, ins)

Spec == Init /\ [][Next]_vars

-----------------------------------------------------------------------------
(* Round trip (spec 8): converting back any condition translated so far,  *)
(* with the mapping as it now stands, as remove_claripy_bool_asts does     *)
(* after structuring, gives an AIL expression with the same value as the  *)
(* original for every register contents.                                  *)
RoundTrip ==
    \A i \in 1..Len(trans) : SameValue(trans[i].e, ToIR(trans[i].t, cm))

(* The condition mapping is append-only (spec 3): a later translation      *)
(* never rebinds a symbol name to a different AIL expression.              *)
MappingAppendOnly ==
    [][\A n \in DOMAIN cm \cap DOMAIN cm' : cm'[n] = cm[n]]_vars
=============================================================================
