--------------------------- MODULE AnalysisProofs ---------------------------
(***************************************************************************)
(* Proofs about Analysis that hold for every set of block names and every  *)
(* bound on the statements of a body and on the exceptions raised.         *)
(***************************************************************************)
EXTENDS Analysis, FiniteSetTheorems, SequenceTheorems, TLAPS

(* The records the history keeps of a raised exception, and the blocks     *)
(* Outer can wait in.                                                       *)
BlockRec == [name : AllNames, filter : Filters]
RaisedRec == [cls : Raisable, inst : Insts, name : AllNames, filter : Filters,
              outer : BlockRec]

(* TypeOK is not inductive: when Inner ends, Outer's body goes on with its *)
(* next statement, so Outer must have been left waiting with a statement   *)
(* still to run.  A running Inner has a waiting Outer, and a waiting Outer *)
(* stopped before its last statement.                                      *)
IInv ==
    /\ TypeOK
    /\ raised \in Seq(RaisedRec)
    /\ blk \in [Insts -> BlockRec]
    /\ st[Inner] = "running" => st[Outer] = "waiting"
    /\ st[Inner] = "idle" => st[Outer] # "waiting"
    /\ st[Outer] = "waiting" => pc[Outer] < MaxSteps

(* The invariant's conjuncts, in four groups: the control state, the      *)
(* flags, the log lists, and the exceptions.                                *)
LEMMA ControlParts ==
    ASSUME IInv
    PROVE  /\ st \in [Insts -> {"idle", "running", "waiting", "returned", "raised"}]
           /\ pc \in [Insts -> 0..MaxSteps]
           /\ st[Inner] = "running" => st[Outer] = "waiting"
           /\ st[Inner] = "idle" => st[Outer] # "waiting"
           /\ st[Outer] = "waiting" => pc[Outer] < MaxSteps
BY Zenon DEF IInv, TypeOK

LEMMA FlagParts ==
    ASSUME IInv
    PROVE  /\ ff \in [Insts -> BOOLEAN] /\ show \in [Insts -> BOOLEAN]
           /\ bar \in [Insts -> BOOLEAN] /\ live \subseteq Insts
BY Zenon DEF IInv, TypeOK

LEMMA ListParts ==
    ASSUME IInv
    PROVE  /\ eref \in [Insts -> Refs] /\ nref \in [Insts -> Refs]
           /\ errs \in [Refs -> Seq(EntrySet)]
           /\ nerrs \in [Refs -> [Names -> Seq(EntrySet)]]
BY Zenon DEF IInv, TypeOK

LEMMA RaiseParts ==
    ASSUME IInv
    PROVE  /\ exc \in [Insts -> 0..MaxRaises]
           /\ raised \in Seq(RaisedRec) /\ Len(raised) <= MaxRaises
           /\ blk \in [Insts -> BlockRec]
BY Zenon DEF IInv, TypeOK

(* An entry of exception k is a log entry.                                  *)
LEMMA EntryType ==
    ASSUME NEW c \in Raisable, NEW k \in 1..MaxRaises
    PROVE  Entry(c, k) \in EntrySet
BY DEF Entry, EntrySet, Obj

(* Appending an entry to one of the log lists keeps every list a list of    *)
(* entries.                                                                 *)
LEMMA LogInType ==
    ASSUME NEW i \in Insts, NEW n \in AllNames, NEW e \in EntrySet,
           eref \in [Insts -> Refs], nref \in [Insts -> Refs],
           errs \in [Refs -> Seq(EntrySet)], nerrs \in [Refs -> [Names -> Seq(EntrySet)]],
           LogIn(i, n, e)
    PROVE  errs' \in [Refs -> Seq(EntrySet)] /\ nerrs' \in [Refs -> [Names -> Seq(EntrySet)]]
<1>1. CASE n = NoName
  <2>1. errs' = [errs EXCEPT ![eref[i]] = Append(@, e)] /\ nerrs' = nerrs
      BY <1>1 DEF LogIn
  <2>2. eref[i] \in Refs /\ Append(errs[eref[i]], e) \in Seq(EntrySet)
      OBVIOUS
  <2>. QED
      BY <2>1, <2>2
<1>2. CASE n # NoName
  <2>1. n \in Names /\ errs' = errs
      BY <1>2 DEF LogIn, AllNames
  <2>2. nerrs' = [nerrs EXCEPT ![nref[i]][n] = Append(@, e)]
      BY <1>2 DEF LogIn
  <2>. QED
      BY <2>1, <2>2
<1>. QED
    BY <1>1, <1>2

(* A _resilience block keeps the invariant: its raise is logged in a list  *)
(* of the right type, and only a waiting Outer is resumed.                  *)
LEMMA BlockStep ==
    ASSUME IInv, NEW i \in Insts, NEW n \in AllNames, NEW f \in Filters,
           NEW c \in Raisable \cup {"none"}, Block(i, n, f, c)
    PROVE  IInv'
<1>. USE ConstantsAssumption DEF Insts, Outer, Inner, Refs, Cls
<1>0. UNCHANGED <<ff, show, bar, live, eref, nref, loaded>> /\ CanStep(i)
    BY DEF Block
<1>1. CASE c = "none"
  <2>1. Stepped(i) /\ UNCHANGED <<st, errs, nerrs, blk, exc, raised>>
      BY <1>1 DEF Block
  <2>2. pc' \in [Insts -> 0..MaxSteps] /\ (st[Outer] = "waiting" => pc'[Outer] < MaxSteps)
      BY <1>0, <2>1, ControlParts DEF CanStep, Stepped
  <2>. QED
      BY <1>0, <2>1, <2>2, ControlParts, FlagParts, ListParts, RaiseParts, Zenon DEF IInv, TypeOK
<1>2. CASE c # "none"
  <2>. DEFINE k == Len(raised) + 1
              e == Entry(c, k)
  <2>1. c \in Raisable /\ k \in 1..MaxRaises /\ Len(raised) < MaxRaises
      BY <1>2, RaiseParts DEF Block
  <2>2. e \in EntrySet
      BY <2>1, EntryType
  <2>3. raised' \in Seq(RaisedRec) /\ Len(raised') <= MaxRaises
    <3>1. raised' = Append(raised, [cls |-> c, inst |-> i, name |-> n, filter |-> f,
                                    outer |-> blk[Outer]])
        BY <1>2 DEF Block
    <3>2. [cls |-> c, inst |-> i, name |-> n, filter |-> f, outer |-> blk[Outer]] \in RaisedRec
        BY <2>1, RaiseParts DEF RaisedRec
    <3>. QED
        BY <3>1, <3>2, <2>1, RaiseParts
  <2>4. RaiseIn(i, n, f, c, k)
      BY <1>2 DEF Block
  <2>5. CASE Handles(i, f, c)
    <3>1. LogIn(i, n, e) /\ Stepped(i) /\ UNCHANGED <<st, exc, blk>>
        BY <2>4, <2>5 DEF RaiseIn
    <3>2. errs' \in [Refs -> Seq(EntrySet)] /\ nerrs' \in [Refs -> [Names -> Seq(EntrySet)]]
        BY <3>1, <2>2, ListParts, LogInType
    <3>3. pc' \in [Insts -> 0..MaxSteps] /\ (st[Outer] = "waiting" => pc'[Outer] < MaxSteps)
        BY <1>0, <3>1, ControlParts DEF CanStep, Stepped
    <3>. QED
        BY <1>0, <3>1, <3>2, <3>3, <2>3, ControlParts, FlagParts, ListParts, RaiseParts, Zenon DEF IInv, TypeOK
  <2>6. CASE ~Handles(i, f, c) /\ i = Inner /\ Handles(Outer, blk[Outer].filter, c)
    <3>1. /\ LogIn(Outer, blk[Outer].name, e) /\ Stepped(Outer)
          /\ st' = [st EXCEPT ![Inner] = "raised", ![Outer] = "running"]
          /\ exc' = [exc EXCEPT ![Inner] = k]
          /\ blk' = [blk EXCEPT ![Outer] = NoBlock]
        BY <2>4, <2>6 DEF RaiseIn
    <3>2. blk[Outer].name \in AllNames
        BY RaiseParts DEF BlockRec
    <3>3. errs' \in [Refs -> Seq(EntrySet)] /\ nerrs' \in [Refs -> [Names -> Seq(EntrySet)]]
        BY <3>1, <3>2, <2>2, ListParts, LogInType
    <3>4. st[Outer] = "waiting"
        BY <1>0, <2>6, ControlParts DEF CanStep
    <3>5. pc' \in [Insts -> 0..MaxSteps]
        BY <3>1, <3>4, ControlParts DEF Stepped
    <3>6. /\ st' \in [Insts -> {"idle", "running", "waiting", "returned", "raised"}]
          /\ st'[Inner] = "raised" /\ st'[Outer] = "running"
          /\ exc' \in [Insts -> 0..MaxRaises]
          /\ blk' \in [Insts -> BlockRec]
        BY <3>1, <2>1, ControlParts, RaiseParts DEF NoBlock, BlockRec, AllNames, Filters
    <3>. QED
        BY <1>0, <3>3, <3>5, <3>6, <2>3, ControlParts, FlagParts, ListParts, RaiseParts, Zenon DEF IInv, TypeOK
  <2>7. CASE ~Handles(i, f, c) /\ ~(i = Inner /\ Handles(Outer, blk[Outer].filter, c))
    <3>1. /\ st' = [j \in Insts |-> IF j = i \/ i = Inner THEN "raised" ELSE st[j]]
          /\ exc' = [j \in Insts |-> IF j = i \/ i = Inner THEN k ELSE exc[j]]
          /\ blk' = [blk EXCEPT ![Outer] = NoBlock]
          /\ UNCHANGED <<errs, nerrs, pc>>
        BY <2>4, <2>7 DEF RaiseIn
    <3>2. i = Outer => st[Inner] # "running"
        BY <1>0, ControlParts DEF CanStep
    <3>3. /\ st' \in [Insts -> {"idle", "running", "waiting", "returned", "raised"}]
          /\ st'[Inner] # "running" /\ st'[Outer] # "waiting"
          /\ exc' \in [Insts -> 0..MaxRaises]
          /\ blk' \in [Insts -> BlockRec]
        BY <3>1, <3>2, <2>1, ControlParts, RaiseParts DEF NoBlock, BlockRec, AllNames, Filters
    <3>. QED
        BY <1>0, <3>1, <3>3, <2>3, ControlParts, FlagParts, ListParts, RaiseParts, Zenon DEF IInv, TypeOK
  <2>. QED
      BY <2>5, <2>6, <2>7
<1>. QED
    BY <1>1, <1>2

-----------------------------------------------------------------------------
(* The strengthening of ErrorsAttributed.  An analysis that has been called *)
(* logs into lists of its own (prep's wrapper gave them); nothing is raised *)
(* in an analysis before it is called; no exception is logged twice in one  *)
(* list; each list holds exactly the exceptions attributed to it; and an    *)
(* exception no block handled has ended the user's call.                     *)
OwnLists == \A i \in Insts : st[i] # "idle" => eref[i] = i /\ nref[i] = i

RaisedByCalled ==
    /\ st[Outer] = "idle" => raised = <<>> /\ st[Inner] = "idle"
    /\ \A k \in 1..Len(raised) : raised[k].inst = Inner => st[Inner] # "idle"

Distinct(s) == \A p, q \in DOMAIN s : s[p].value.val = s[q].value.val => p = q

Attributed ==
    \A i \in Insts : st[i] # "idle" =>
        \A n \in AllNames :
            /\ IdsIn(View(i, n)) = {k \in 1..Len(raised) : Handler(k) = [inst |-> i, name |-> n]}
            /\ Distinct(View(i, n))

Escaped == \A k \in 1..Len(raised) : Handler(k).inst = 0 => st[Outer] = "raised" /\ exc[Outer] = k

AInv == IInv /\ OwnLists /\ RaisedByCalled /\ Attributed /\ Escaped

(* The exception numbers of a list with one more entry.                     *)
LEMMA IdsAppend ==
    ASSUME NEW s \in Seq(EntrySet), NEW e \in EntrySet
    PROVE  /\ IdsIn(Append(s, e)) = IdsIn(s) \cup {e.value.val}
           /\ Distinct(s) /\ e.value.val \notin IdsIn(s) => Distinct(Append(s, e))
<1>0. /\ DOMAIN Append(s, e) = 1..Len(s) + 1 /\ DOMAIN s = 1..Len(s)
      /\ \A p \in 1..Len(s) : Append(s, e)[p] = s[p]
      /\ Append(s, e)[Len(s) + 1] = e
    BY AppendProperties
<1>1. IdsIn(Append(s, e)) = IdsIn(s) \cup {e.value.val}
    BY <1>0 DEF IdsIn
<1>2. Distinct(s) /\ e.value.val \notin IdsIn(s) => Distinct(Append(s, e))
    BY <1>0 DEF Distinct, IdsIn
<1>. QED
    BY <1>1, <1>2

(* A list in which no exception appears twice has as many exception        *)
(* numbers as entries.                                                       *)
LEMMA DistinctCardinality ==
    ASSUME NEW s \in Seq(EntrySet), Distinct(s)
    PROVE  Cardinality(IdsIn(s)) = Len(s)
<1>. DEFINE f == [p \in 1..Len(s) |-> s[p].value.val]
<1>1. f \in Surjection(1..Len(s), IdsIn(s))
    BY DEF Surjection, IdsIn
<1>2. f \in Injection(1..Len(s), IdsIn(s))
    BY <1>1 DEF Injection, IsInjective, Surjection, Distinct
<1>3. IsFiniteSet(1..Len(s)) /\ Cardinality(1..Len(s)) = Len(s)
  <2>1. Len(s) \in Nat
      OBVIOUS
  <2>2. IsFiniteSet(1..Len(s))
        /\ Cardinality(1..Len(s)) = IF 1 > Len(s) THEN 0 ELSE Len(s) - 1 + 1
      BY <2>1, FS_Interval
  <2>. QED
      BY <2>1, <2>2
<1>. QED
    BY <1>1, <1>2, <1>3, FS_Surjection

(* Where an exception is attributed depends only on its record and on the  *)
(* fail_fast flags of the instance that raised it and of Outer.             *)
LEMMA HandlerFrame ==
    ASSUME NEW k, raised'[k] = raised[k], ff' = ff
    PROVE  Handler(k)' = Handler(k)
BY DEF Handler, Handles

(* The lists the user reads from an instance that logs into its own lists: *)
(* appending to one of them changes that view and no other.                 *)
LEMMA LogInView ==
    ASSUME NEW i \in Insts, NEW n \in AllNames, NEW e,
           NEW j \in Insts, NEW m \in AllNames,
           eref[i] = i, nref[i] = i, eref[j] = j, nref[j] = j,
           eref' = eref, nref' = nref,
           errs \in [Refs -> Seq(EntrySet)], nerrs \in [Refs -> [Names -> Seq(EntrySet)]],
           LogIn(i, n, e)
    PROVE  View(j, m)' = IF j = i /\ m = n THEN Append(View(i, n), e) ELSE View(j, m)
<1>. USE DEF Insts, Outer, Inner, Refs, Cls
<1>1. CASE n = NoName
    BY <1>1 DEF LogIn, View, ErrorsOf, NamedOf
<1>2. CASE n # NoName
  <2>1. n \in Names /\ errs' = errs /\ nerrs' = [nerrs EXCEPT ![i][n] = Append(@, e)]
      BY <1>2 DEF LogIn, AllNames
  <2>2. CASE m = NoName
      BY <1>2, <2>1, <2>2 DEF View, ErrorsOf
  <2>3. CASE m # NoName
    <3>1. m \in Names /\ View(j, m)' = nerrs'[j][m] /\ View(j, m) = nerrs[j][m]
        BY <2>3 DEF View, NamedOf, AllNames
    <3>2. nerrs'[j][m] = IF j = i /\ m = n THEN Append(nerrs[i][n], e) ELSE nerrs[j][m]
        BY <2>1, <3>1
    <3>. QED
        BY <3>1, <3>2, <2>1 DEF View, NamedOf
  <2>. QED
      BY <2>2, <2>3
<1>. QED
    BY <1>1, <1>2

(* A step that leaves the logs, the history, the flags and the exceptions  *)
(* alone, calls no analysis and does not take back an escaped exception    *)
(* keeps the strengthening.                                                  *)
LEMMA FrameStep ==
    ASSUME AInv, IInv',
           eref' = eref, nref' = nref, errs' = errs, nerrs' = nerrs,
           raised' = raised, ff' = ff, exc' = exc,
           \A i \in Insts : st'[i] = "idle" <=> st[i] = "idle",
           st[Outer] = "raised" => st'[Outer] = "raised"
    PROVE  AInv'
<1>1. \A k : Handler(k)' = Handler(k)
    BY HandlerFrame
<1>2. \A i \in Insts, n \in AllNames : View(i, n)' = View(i, n)
    BY DEF View, ErrorsOf, NamedOf
<1>3. OwnLists'
    BY DEF AInv, OwnLists
<1>4. RaisedByCalled'
    BY DEF AInv, RaisedByCalled, Insts, Outer, Inner
<1>5. Attributed'
    BY <1>1, <1>2 DEF AInv, Attributed
<1>6. Escaped'
    BY <1>1 DEF AInv, Escaped, Insts, Outer, Inner
<1>. QED
    BY <1>3, <1>4, <1>5, <1>6 DEF AInv

(* The facts about the history after a raise appends its record r.          *)
LEMMA RaisedAppend ==
    ASSUME raised \in Seq(RaisedRec), NEW r \in RaisedRec, raised' = Append(raised, r), ff' = ff
    PROVE  /\ raised' \in Seq(RaisedRec)
           /\ Len(raised') = Len(raised) + 1
           /\ 1..Len(raised') = (1..Len(raised)) \cup {Len(raised) + 1}
           /\ Len(raised) + 1 \notin 1..Len(raised)
           /\ raised'[Len(raised) + 1] = r
           /\ \A j \in 1..Len(raised) : Handler(j)' = Handler(j)
<1>1. /\ raised' \in Seq(RaisedRec) /\ Len(raised') = Len(raised) + 1
      /\ \A j \in 1..Len(raised) : raised'[j] = raised[j]
      /\ raised'[Len(raised) + 1] = r
    BY AppendProperties
<1>2. \A j \in 1..Len(raised) : Handler(j)' = Handler(j)
    BY <1>1, HandlerFrame
<1>. QED
    BY <1>1, <1>2

(* A raise that is logged: the entry of exception k goes to the list b of  *)
(* the called instance a, and the new record is attributed to exactly that *)
(* list.                                                                     *)
LEMMA LoggedStep ==
    ASSUME AInv, IInv', NEW a \in Insts, NEW b \in AllNames, NEW e \in EntrySet,
           NEW r \in RaisedRec,
           st[a] # "idle", st[Outer] \in {"running", "waiting"},
           r.inst = Inner => st[Inner] # "idle",
           raised' = Append(raised, r), e.value.val = Len(raised) + 1,
           NEW k, k = Len(raised) + 1, Handler(k)' = [inst |-> a, name |-> b],
           LogIn(a, b, e), eref' = eref, nref' = nref, ff' = ff,
           \A i \in Insts : st'[i] = "idle" <=> st[i] = "idle"
    PROVE  AInv'
<1>. USE DEF Insts, Outer, Inner, Refs, Cls
<1>0. /\ raised \in Seq(RaisedRec)
      /\ errs \in [Refs -> Seq(EntrySet)] /\ nerrs \in [Refs -> [Names -> Seq(EntrySet)]]
    BY RaiseParts, ListParts DEF AInv
<1>1. /\ Len(raised') = k
      /\ 1..Len(raised') = (1..Len(raised)) \cup {k}
      /\ k \notin 1..Len(raised)
      /\ raised'[k] = r
      /\ \A j \in 1..Len(raised) : Handler(j)' = Handler(j)
    BY <1>0, RaisedAppend
<1>2. \A j \in 1..Len(raised) : Handler(j).inst # 0
    BY DEF AInv, Escaped
<1>3. OwnLists'
    BY DEF AInv, OwnLists
<1>4. RaisedByCalled'
  <2>1. st'[Outer] # "idle"
      BY DEF AInv, RaisedByCalled
  <2>2. \A j \in 1..Len(raised') : raised'[j].inst = Inner => st'[Inner] # "idle"
      BY <1>0, <1>1, AppendProperties DEF AInv, RaisedByCalled
  <2>. QED
      BY <2>1, <2>2 DEF RaisedByCalled
<1>5. Attributed'
  <2> SUFFICES ASSUME NEW i \in Insts, st'[i] # "idle", NEW n \in AllNames
               PROVE  /\ IdsIn(View(i, n)') = {j \in 1..Len(raised') : Handler(j)' = [inst |-> i, name |-> n]}
                      /\ Distinct(View(i, n)')
      BY DEF Attributed
  <2>1. st[i] # "idle" /\ eref[i] = i /\ nref[i] = i /\ eref[a] = a /\ nref[a] = a
      BY DEF AInv, OwnLists
  <2>2. View(i, n)' = IF i = a /\ n = b THEN Append(View(a, b), e) ELSE View(i, n)
    <3>1. eref[a] = a /\ nref[a] = a /\ eref[i] = i /\ nref[i] = i
        BY <2>1
    <3> HIDE DEF Insts, Outer, Inner, Refs, Cls
    <3>. QED
        BY <3>1, <1>0, LogInView DEF View, ErrorsOf, NamedOf
  <2>3. /\ IdsIn(View(i, n)) = {j \in 1..Len(raised) : Handler(j) = [inst |-> i, name |-> n]}
        /\ Distinct(View(i, n))
      BY <2>1 DEF AInv, Attributed
  <2>4. {j \in 1..Len(raised') : Handler(j)' = [inst |-> i, name |-> n]}
        = {j \in 1..Len(raised) : Handler(j) = [inst |-> i, name |-> n]}
          \cup (IF i = a /\ n = b THEN {k} ELSE {})
    <3>1. Handler(k)' = [inst |-> i, name |-> n] <=> i = a /\ n = b
        OBVIOUS
    <3>2. \A j \in 1..Len(raised') :
              Handler(j)' = [inst |-> i, name |-> n]
              <=> \/ j \in 1..Len(raised) /\ Handler(j) = [inst |-> i, name |-> n]
                  \/ j = k /\ i = a /\ n = b
        BY <1>1, <3>1
    <3>. QED
        BY <1>1, <3>2
  <2>5. CASE i = a /\ n = b
    <3>1. View(a, b) \in Seq(EntrySet)
        BY <2>1, <2>5, <1>0 DEF View, ErrorsOf, NamedOf, AllNames
    <3>2. k \notin IdsIn(View(a, b))
        BY <2>3, <2>5, <1>1
    <3>. QED
        BY <2>2, <2>3, <2>4, <2>5, <3>1, <3>2, IdsAppend
  <2>6. CASE ~(i = a /\ n = b)
      BY <2>2, <2>3, <2>4, <2>6
  <2>. QED
      BY <2>5, <2>6
<1>6. Escaped'
  <2> SUFFICES ASSUME NEW j \in 1..Len(raised'), Handler(j)'.inst = 0 PROVE FALSE
      BY DEF Escaped
  <2>1. CASE j = k
      BY <2>1
  <2>2. CASE j \in 1..Len(raised)
      BY <2>2, <1>1, <1>2
  <2>. QED
      BY <1>1, <2>1, <2>2
<1>. QED
    BY <1>3, <1>4, <1>5, <1>6 DEF AInv

(* A raise that escapes the user's call: the logs are untouched, the new   *)
(* record is attributed to no list, and Outer has raised it.                 *)
LEMMA EscapeStep ==
    ASSUME AInv, IInv', NEW r \in RaisedRec,
           st[Outer] \in {"running", "waiting"},
           r.inst = Inner => st[Inner] # "idle",
           raised' = Append(raised, r),
           NEW k, k = Len(raised) + 1, Handler(k)'.inst = 0,
           st'[Outer] = "raised", exc'[Outer] = Len(raised) + 1,
           eref' = eref, nref' = nref, errs' = errs, nerrs' = nerrs, ff' = ff,
           \A i \in Insts : st'[i] = "idle" <=> st[i] = "idle"
    PROVE  AInv'
<1>. USE DEF Insts, Outer, Inner, Refs, Cls
<1>0. raised \in Seq(RaisedRec)
    BY RaiseParts DEF AInv
<1>1. /\ Len(raised') = k
      /\ 1..Len(raised') = (1..Len(raised)) \cup {k}
      /\ k \notin 1..Len(raised)
      /\ raised'[k] = r
      /\ \A j \in 1..Len(raised) : Handler(j)' = Handler(j)
    BY <1>0, RaisedAppend
<1>2. \A j \in 1..Len(raised) : Handler(j).inst # 0
    BY DEF AInv, Escaped
<1>3. OwnLists'
    BY DEF AInv, OwnLists
<1>4. RaisedByCalled'
    BY <1>0, <1>1, AppendProperties DEF AInv, RaisedByCalled
<1>5. Attributed'
  <2> SUFFICES ASSUME NEW i \in Insts, st'[i] # "idle", NEW n \in AllNames
               PROVE  /\ IdsIn(View(i, n)') = {j \in 1..Len(raised') : Handler(j)' = [inst |-> i, name |-> n]}
                      /\ Distinct(View(i, n)')
      BY DEF Attributed
  <2>1. View(i, n)' = View(i, n)
      BY DEF View, ErrorsOf, NamedOf
  <2>2. {j \in 1..Len(raised') : Handler(j)' = [inst |-> i, name |-> n]}
        = {j \in 1..Len(raised) : Handler(j) = [inst |-> i, name |-> n]}
    <3>1. Handler(k)' # [inst |-> i, name |-> n]
        OBVIOUS
    <3>. QED
        BY <1>1, <3>1
  <2>. QED
      BY <2>1, <2>2 DEF AInv, Attributed
<1>6. Escaped'
    BY <1>1, <1>2 DEF Escaped
<1>. QED
    BY <1>3, <1>4, <1>5, <1>6 DEF AInv

(* The user's call starts with no exception raised yet, and the lists it  *)
(* gives Outer are empty.                                                    *)
LEMMA CallOuterStep ==
    ASSUME AInv, IInv', NEW f, NEW s, CallOuter(f, s)
    PROVE  AInv'
<1>. USE DEF Insts, Outer, Inner, Refs, Cls
<1>1. raised = <<>> /\ st[Inner] = "idle" /\ raised' = <<>>
    BY DEF AInv, RaisedByCalled, CallOuter
<1>2. /\ st'[Outer] = "running" /\ st'[Inner] = "idle"
      /\ eref'[Outer] = Outer /\ nref'[Outer] = Outer
      /\ errs'[Outer] = <<>> /\ \A n \in Names : nerrs'[Outer][n] = <<>>
    BY <1>1, ControlParts, ListParts DEF AInv, CallOuter, Prep
<1>3. OwnLists' /\ RaisedByCalled' /\ Escaped'
    BY <1>1, <1>2 DEF OwnLists, RaisedByCalled, Escaped
<1>4. Attributed'
  <2> SUFFICES ASSUME NEW i \in Insts, st'[i] # "idle", NEW n \in AllNames
               PROVE  /\ IdsIn(View(i, n)') = {j \in 1..Len(raised') : Handler(j)' = [inst |-> i, name |-> n]}
                      /\ Distinct(View(i, n)')
      BY DEF Attributed
  <2>1. View(i, n)' = <<>>
      BY <1>2 DEF View, ErrorsOf, NamedOf, AllNames
  <2>. QED
      BY <1>1, <2>1 DEF IdsIn, Distinct
<1>. QED
    BY <1>3, <1>4 DEF AInv

(* Outer's body calls Inner: Inner's lists are empty, and every exception *)
(* raised so far was raised in Outer, so none is Inner's to log.           *)
LEMMA CallInnerStep ==
    ASSUME AInv, IInv', NEW n \in AllNames, NEW f, NEW g, NEW s, CallInner(n, f, g, s)
    PROVE  AInv'
<1>. USE DEF Insts, Outer, Inner, Refs, Cls
<1>0. /\ raised \in Seq(RaisedRec)
      /\ errs \in [Refs -> Seq(EntrySet)] /\ nerrs \in [Refs -> [Names -> Seq(EntrySet)]]
      /\ eref[Outer] = Outer /\ nref[Outer] = Outer
    BY RaiseParts, ListParts DEF AInv, OwnLists, CallInner, CanStep
<1>a. IInv /\ RaisedByCalled
    BY DEF AInv
<1>1. /\ st[Outer] = "running" /\ st[Inner] = "idle"
      /\ st'[Outer] = "waiting" /\ st'[Inner] = "running"
      /\ raised' = raised /\ ff'[Outer] = ff[Outer]
      /\ eref'[Outer] = Outer /\ nref'[Outer] = Outer
      /\ eref'[Inner] = Inner /\ nref'[Inner] = Inner
  <2>1. st[Outer] = "running" /\ st[Inner] = "idle" /\ raised' = raised
      BY DEF CallInner, CanStep
  <2>2. st \in [Insts -> {"idle", "running", "waiting", "returned", "raised"}]
      BY <1>a, ControlParts
  <2>3. st'[Outer] = "waiting" /\ st'[Inner] = "running"
      BY <2>2 DEF CallInner
  <2>4. ff \in [Insts -> BOOLEAN] /\ eref \in [Insts -> Refs] /\ nref \in [Insts -> Refs]
      BY <1>a, FlagParts, ListParts
  <2>5. ff'[Outer] = ff[Outer] /\ eref'[Inner] = Inner /\ nref'[Inner] = Inner
        /\ eref'[Outer] = eref[Outer] /\ nref'[Outer] = nref[Outer]
      BY <2>4 DEF CallInner, Prep
  <2>. QED
      BY <1>0, <2>1, <2>3, <2>5
<1>2. \A k \in 1..Len(raised) : raised[k].inst = Outer
  <2> SUFFICES ASSUME NEW k \in 1..Len(raised) PROVE raised[k].inst = Outer
      OBVIOUS
  <2>0. raised[k] \in RaisedRec
      BY <1>0, ElementOfSeq
  <2>1. raised[k].inst \in Insts
      BY <2>0 DEF RaisedRec
  <2>2. raised[k].inst # Inner
      BY <1>a, <1>1 DEF RaisedByCalled
  <2>. QED
      BY <2>1, <2>2
<1>3. \A k \in 1..Len(raised) : Handler(k)' = Handler(k) /\ Handler(k).inst # Inner
    BY <1>1, <1>2 DEF Handler, Handles
<1>4. OwnLists' /\ RaisedByCalled'
    BY <1>1 DEF OwnLists, RaisedByCalled
<1>5. Escaped'
    BY <1>1, <1>3 DEF AInv, Escaped
<1>6. Attributed'
  <2> SUFFICES ASSUME NEW i \in Insts, st'[i] # "idle", NEW m \in AllNames
               PROVE  /\ IdsIn(View(i, m)') = {j \in 1..Len(raised') : Handler(j)' = [inst |-> i, name |-> m]}
                      /\ Distinct(View(i, m)')
      BY DEF Attributed
  <2>1. CASE i = Outer
    <3>1. View(i, m)' = View(i, m)
        BY <1>0, <1>1, <2>1 DEF CallInner, Prep, View, ErrorsOf, NamedOf, AllNames
    <3>. QED
        BY <1>1, <1>3, <2>1, <3>1 DEF AInv, Attributed
  <2>2. CASE i = Inner
    <3>1. errs'[Inner] = <<>> /\ \A x \in Names : nerrs'[Inner][x] = <<>>
        BY <1>0 DEF CallInner, Prep
    <3>2. View(i, m)' = <<>>
        BY <1>1, <2>2, <3>1 DEF View, ErrorsOf, NamedOf, AllNames
    <3>3. {j \in 1..Len(raised') : Handler(j)' = [inst |-> i, name |-> m]} = {}
        BY <1>1, <1>3, <2>2
    <3>. QED
        BY <3>2, <3>3 DEF IdsIn, Distinct
  <2>. QED
      BY <2>1, <2>2
<1>. QED
    BY <1>4, <1>5, <1>6 DEF AInv

(* A block of a running body: it completes, or its exception is logged by *)
(* the body's own block, by Outer's block around Inner's call, or escapes. *)
LEMMA BlockAStep ==
    ASSUME AInv, IInv', NEW i \in Insts, NEW n \in AllNames, NEW f \in Filters,
           NEW c \in Raisable \cup {"none"}, Block(i, n, f, c)
    PROVE  AInv'
<1>. USE DEF Insts, Outer, Inner, Refs, Cls
<1>a. IInv
    BY DEF AInv
<1>0. /\ st[i] = "running" /\ st[Outer] \in {"running", "waiting"}
      /\ eref' = eref /\ nref' = nref /\ ff' = ff
    <2>1. st[i] = "running" /\ eref' = eref /\ nref' = nref /\ ff' = ff
        BY DEF Block, CanStep
    <2>. QED
        BY <1>a, <2>1, ControlParts
<1>1. CASE c = "none"
  <2>1. st' = st /\ errs' = errs /\ nerrs' = nerrs /\ exc' = exc /\ raised' = raised
      BY <1>1 DEF Block
  <2>. QED
      BY <1>0, <2>1, FrameStep
<1>2. CASE c # "none"
  <2>0. PICK k : k = Len(raised) + 1
      OBVIOUS
  <2>. DEFINE r == [cls |-> c, inst |-> i, name |-> n, filter |-> f, outer |-> blk[Outer]]
              e == Entry(c, k)
  <2>1. /\ c \in Raisable /\ k \in 1..MaxRaises
        /\ raised \in Seq(RaisedRec) /\ blk[Outer] \in BlockRec
    <3>1. raised \in Seq(RaisedRec) /\ blk[Outer] \in BlockRec
        BY <1>a, RaiseParts
    <3>2. Len(raised) < MaxRaises /\ Len(raised) \in Nat
        BY <1>2, <3>1, LenProperties DEF Block
    <3>. QED
        BY <1>2, <2>0, <3>1, <3>2, ConstantsAssumption
  <2>2. r \in RaisedRec /\ e \in EntrySet /\ e.value.val = k
      BY <2>1, EntryType DEF RaisedRec, Entry, Obj
  <2>3. raised' = Append(raised, r) /\ RaiseIn(i, n, f, c, k)
      BY <1>2, <2>0 DEF Block
  <2>4. raised'[k] = r
      BY <2>0, <2>1, <2>2, <2>3, AppendProperties
  <2>5. Handler(k)' = IF Handles(i, f, c) THEN [inst |-> i, name |-> n]
                      ELSE IF i = Inner /\ Handles(Outer, blk[Outer].filter, c)
                           THEN [inst |-> Outer, name |-> blk[Outer].name]
                           ELSE [inst |-> 0, name |-> NoName]
      BY <1>0, <2>4 DEF Handler, Handles
  <2>6. r.inst = Inner => st[Inner] # "idle"
      BY <1>0
  <2>7. CASE Handles(i, f, c)
    <3>1. LogIn(i, n, e) /\ st' = st
        BY <2>3, <2>7 DEF RaiseIn
    <3>. QED
        BY <1>0, <2>0, <2>2, <2>3, <2>5, <2>6, <2>7, <3>1, LoggedStep
  <2>8. CASE ~Handles(i, f, c) /\ i = Inner /\ Handles(Outer, blk[Outer].filter, c)
    <3>1. /\ LogIn(Outer, blk[Outer].name, e)
          /\ st' = [st EXCEPT ![Inner] = "raised", ![Outer] = "running"]
        BY <2>3, <2>8 DEF RaiseIn
    <3>2. /\ blk[Outer].name \in AllNames /\ st[Outer] # "idle"
          /\ \A j \in Insts : st'[j] = "idle" <=> st[j] = "idle"
        BY <1>0, <1>a, <2>1, <2>8, <3>1, ControlParts DEF BlockRec
    <3>. QED
        BY <1>0, <2>0, <2>2, <2>3, <2>5, <2>6, <2>8, <3>1, <3>2, LoggedStep
  <2>9. CASE ~Handles(i, f, c) /\ ~(i = Inner /\ Handles(Outer, blk[Outer].filter, c))
    <3>1. /\ st' = [j \in Insts |-> IF j = i \/ i = Inner THEN "raised" ELSE st[j]]
          /\ exc' = [j \in Insts |-> IF j = i \/ i = Inner THEN k ELSE exc[j]]
          /\ errs' = errs /\ nerrs' = nerrs
        BY <2>3, <2>9 DEF RaiseIn
    <3>2. /\ Handler(k)'.inst = 0
          /\ st'[Outer] = "raised" /\ exc'[Outer] = k
          /\ \A j \in Insts : st'[j] = "idle" <=> st[j] = "idle"
        BY <1>0, <2>5, <2>9, <3>1
    <3>. QED
        BY <1>0, <2>0, <2>2, <2>3, <2>6, <3>1, <3>2, EscapeStep
  <2>. QED
      BY <2>7, <2>8, <2>9
<1>. QED
    BY <1>1, <1>2

(* The strengthening is kept by every step.                                *)
LEMMA IInvStep == IInv /\ [Next]_vars => IInv'
<1>. USE ConstantsAssumption DEF Insts, Outer, Inner, Refs, Cls
<1> SUFFICES ASSUME IInv, [Next]_vars PROVE IInv'
    OBVIOUS
<1>0. (* the facts every case below rests on *)
      /\ st \in [Insts -> {"idle", "running", "waiting", "returned", "raised"}]
      /\ pc \in [Insts -> 0..MaxSteps]
      /\ st[Inner] = "running" => st[Outer] = "waiting"
      /\ st[Outer] = "waiting" => pc[Outer] < MaxSteps
    BY ControlParts
<1>1. ASSUME NEW f \in BOOLEAN, NEW s \in BOOLEAN, CallOuter(f, s) PROVE IInv'
  <2>1. /\ ff' \in [Insts -> BOOLEAN] /\ show' \in [Insts -> BOOLEAN]
        /\ eref' \in [Insts -> Refs] /\ nref' \in [Insts -> Refs]
        /\ errs' \in [Refs -> Seq(EntrySet)] /\ nerrs' \in [Refs -> [Names -> Seq(EntrySet)]]
      BY <1>1, ListParts, FlagParts DEF CallOuter, Prep
  <2>2. /\ st' \in [Insts -> {"idle", "running", "waiting", "returned", "raised"}]
        /\ st'[Outer] = "running" /\ st'[Inner] = st[Inner] /\ st[Inner] # "running"
      BY <1>1, <1>0 DEF CallOuter
  <2>3. bar' = bar /\ live' = live /\ pc' = pc /\ blk' = blk /\ exc' = exc /\ raised' = raised /\ loaded' = loaded
      BY <1>1 DEF CallOuter
  <2>. QED
      BY <2>1, <2>2, <2>3, ControlParts, FlagParts, ListParts, RaiseParts, Zenon DEF IInv, TypeOK
<1>2. ASSUME NEW n \in AllNames, NEW f \in Filters, NEW g \in BOOLEAN,
             NEW s \in BOOLEAN, CallInner(n, f, g, s)
      PROVE  IInv'
  <2>1. /\ ff' \in [Insts -> BOOLEAN] /\ show' \in [Insts -> BOOLEAN]
        /\ eref' \in [Insts -> Refs] /\ nref' \in [Insts -> Refs]
        /\ errs' \in [Refs -> Seq(EntrySet)] /\ nerrs' \in [Refs -> [Names -> Seq(EntrySet)]]
      BY <1>2, ListParts, FlagParts DEF CallInner, Prep
  <2>2. /\ st' \in [Insts -> {"idle", "running", "waiting", "returned", "raised"}]
        /\ st'[Outer] = "waiting" /\ st'[Inner] = "running"
        /\ pc[Outer] < MaxSteps
      BY <1>2, <1>0 DEF CallInner, CanStep
  <2>3. blk' \in [Insts -> BlockRec]
      BY <1>2, RaiseParts DEF CallInner, BlockRec
  <2>4. bar' = bar /\ live' = live /\ pc' = pc /\ exc' = exc /\ raised' = raised /\ loaded' = loaded
      BY <1>2 DEF CallInner
  <2>. QED
      BY <2>1, <2>2, <2>3, <2>4, ControlParts, FlagParts, ListParts, RaiseParts, Zenon DEF IInv, TypeOK
<1>3. ASSUME NEW i \in Insts, NEW n \in AllNames, NEW f \in Filters,
             NEW c \in Raisable \cup {"none"}, Block(i, n, f, c)
      PROVE  IInv'
    BY <1>3, BlockStep
<1>4. ASSUME NEW i \in Insts, UpdateProgress(i) PROVE IInv'
  <2>1. pc' \in [Insts -> 0..MaxSteps] /\ (st[Outer] = "waiting" => pc'[Outer] < MaxSteps)
      BY <1>4, <1>0 DEF UpdateProgress, CanStep, Stepped
  <2>2. bar' \in [Insts -> BOOLEAN] /\ live' \subseteq Insts
      BY <1>4, FlagParts DEF UpdateProgress
  <2>3. st' = st /\ ff' = ff /\ show' = show /\ eref' = eref /\ nref' = nref /\ errs' = errs /\ nerrs' = nerrs /\ blk' = blk /\ exc' = exc /\ raised' = raised /\ loaded' = loaded
      BY <1>4 DEF UpdateProgress
  <2>. QED
      BY <2>1, <2>2, <2>3, ControlParts, FlagParts, ListParts, RaiseParts, Zenon DEF IInv, TypeOK
<1>5. ASSUME NEW i \in Insts, FinishProgress(i) PROVE IInv'
  <2>1. pc' \in [Insts -> 0..MaxSteps] /\ (st[Outer] = "waiting" => pc'[Outer] < MaxSteps)
      BY <1>5, <1>0 DEF FinishProgress, CanStep, Stepped
  <2>2. bar' \in [Insts -> BOOLEAN] /\ live' \subseteq Insts
      BY <1>5, FlagParts DEF FinishProgress
  <2>3. st' = st /\ ff' = ff /\ show' = show /\ eref' = eref /\ nref' = nref /\ errs' = errs /\ nerrs' = nerrs /\ blk' = blk /\ exc' = exc /\ raised' = raised /\ loaded' = loaded
      BY <1>5 DEF FinishProgress
  <2>. QED
      BY <2>1, <2>2, <2>3, ControlParts, FlagParts, ListParts, RaiseParts, Zenon DEF IInv, TypeOK
<1>6. ASSUME NEW i \in Insts, Return(i) PROVE IInv'
  <2>1. bar' \in [Insts -> BOOLEAN]
      BY <1>6, FlagParts DEF Return
  <2>2. /\ st' \in [Insts -> {"idle", "running", "waiting", "returned", "raised"}]
        /\ pc' \in [Insts -> 0..MaxSteps]
        /\ st'[Inner] # "running" /\ st'[Outer] # "waiting"
      BY <1>6, <1>0 DEF Return, Stepped
  <2>3. blk' \in [Insts -> BlockRec]
      BY <1>6, RaiseParts DEF Return, NoBlock, BlockRec, AllNames, Filters
  <2>4. ff' = ff /\ show' = show /\ live' = live /\ eref' = eref /\ nref' = nref /\ errs' = errs /\ nerrs' = nerrs /\ exc' = exc /\ raised' = raised /\ loaded' = loaded
      BY <1>6 DEF Return
  <2>. QED
      BY <2>1, <2>2, <2>3, <2>4, ControlParts, FlagParts, ListParts, RaiseParts, Zenon DEF IInv, TypeOK
<1>7. CASE PickleRoundTrip
  <2>1. st' = st /\ ff' = ff /\ show' = show /\ bar' = bar /\ live' = live /\ pc' = pc /\ eref' = eref /\ nref' = nref /\ errs' = errs /\ nerrs' = nerrs /\ blk' = blk /\ exc' = exc /\ raised' = raised
      BY <1>7 DEF PickleRoundTrip
  <2>. QED
      BY <2>1, ControlParts, FlagParts, ListParts, RaiseParts, Zenon DEF IInv, TypeOK
<1>8. CASE UNCHANGED vars
  <2>1. st' = st /\ ff' = ff /\ show' = show /\ bar' = bar /\ live' = live /\ pc' = pc /\ eref' = eref /\ nref' = nref /\ errs' = errs /\ nerrs' = nerrs /\ blk' = blk /\ exc' = exc /\ raised' = raised
      BY <1>8 DEF vars
  <2>. QED
      BY <2>1, ControlParts, FlagParts, ListParts, RaiseParts, Zenon DEF IInv, TypeOK
<1>. QED
    BY <1>1, <1>2, <1>3, <1>4, <1>5, <1>6, <1>7, <1>8 DEF Next

(* The whole strengthening is kept by every step.                            *)
LEMMA AInvStep == AInv /\ [Next]_vars => AInv'
<1>. USE DEF Insts, Outer, Inner, Refs, Cls
<1> SUFFICES ASSUME AInv, [Next]_vars PROVE AInv'
    OBVIOUS
<1>0. IInv' /\ IInv
    BY IInvStep DEF AInv
<1>f. st \in [Insts -> {"idle", "running", "waiting", "returned", "raised"}]
      /\ (st[Inner] = "running" => st[Outer] = "waiting")
    BY <1>0, ControlParts
<1>1. ASSUME NEW f \in BOOLEAN, NEW s \in BOOLEAN, CallOuter(f, s) PROVE AInv'
    BY <1>0, <1>1, CallOuterStep
<1>2. ASSUME NEW n \in AllNames, NEW f \in Filters, NEW g \in BOOLEAN,
             NEW s \in BOOLEAN, CallInner(n, f, g, s)
      PROVE  AInv'
    BY <1>0, <1>2, CallInnerStep
<1>3. ASSUME NEW i \in Insts, NEW n \in AllNames, NEW f \in Filters,
             NEW c \in Raisable \cup {"none"}, Block(i, n, f, c)
      PROVE  AInv'
    BY <1>0, <1>3, BlockAStep
<1>4. ASSUME NEW i \in Insts, UpdateProgress(i) PROVE AInv'
  <2>1. st' = st /\ ff' = ff /\ eref' = eref /\ nref' = nref /\ errs' = errs /\ nerrs' = nerrs /\ exc' = exc /\ raised' = raised
      BY <1>4 DEF UpdateProgress
  <2>. QED
      BY <1>0, <2>1, FrameStep
<1>5. ASSUME NEW i \in Insts, FinishProgress(i) PROVE AInv'
  <2>1. st' = st /\ ff' = ff /\ eref' = eref /\ nref' = nref /\ errs' = errs /\ nerrs' = nerrs /\ exc' = exc /\ raised' = raised
      BY <1>5 DEF FinishProgress
  <2>. QED
      BY <1>0, <2>1, FrameStep
<1>6. ASSUME NEW i \in Insts, Return(i) PROVE AInv'
  <2>1. ff' = ff /\ eref' = eref /\ nref' = nref /\ errs' = errs /\ nerrs' = nerrs /\ exc' = exc /\ raised' = raised
      BY <1>6 DEF Return
  <2>2. /\ \A j \in Insts : st'[j] = "idle" <=> st[j] = "idle"
        /\ st[Outer] # "raised"
      BY <1>6, <1>f DEF Return
  <2>. QED
      BY <1>0, <2>1, <2>2, FrameStep
<1>7. CASE PickleRoundTrip
  <2>1. st' = st /\ ff' = ff /\ eref' = eref /\ nref' = nref /\ errs' = errs /\ nerrs' = nerrs /\ exc' = exc /\ raised' = raised
      BY <1>7 DEF PickleRoundTrip
  <2>. QED
      BY <1>0, <2>1, FrameStep
<1>8. CASE UNCHANGED vars
  <2>1. st' = st /\ ff' = ff /\ eref' = eref /\ nref' = nref /\ errs' = errs /\ nerrs' = nerrs /\ exc' = exc /\ raised' = raised
      BY <1>8 DEF vars
  <2>. QED
      BY <1>0, <2>1, FrameStep
<1>. QED
    BY <1>1, <1>2, <1>3, <1>4, <1>5, <1>6, <1>7, <1>8 DEF Next

(* The initial state satisfies the strengthening: nothing is called and    *)
(* nothing is raised.                                                         *)
LEMMA AInvInit == Init => AInv
<1>. USE ConstantsAssumption DEF Insts, Outer, Inner, Refs, Cls
<1> SUFFICES ASSUME Init PROVE AInv
    OBVIOUS
<1>1. IInv
    BY DEF Init, IInv, TypeOK, NoBlock, BlockRec, AllNames, Filters
<1>2. OwnLists /\ RaisedByCalled /\ Attributed /\ Escaped
    BY DEF Init, OwnLists, RaisedByCalled, Attributed, Escaped
<1>. QED
    BY <1>1, <1>2 DEF AInv

(* Every variable keeps its type: in particular no log entry records       *)
(* anything but a raised exception, no body runs past MaxSteps statements, *)
(* and no instance raises an exception that was not raised in a block.     *)
THEOREM TypeCorrect == Spec => []TypeOK
<1>. USE ConstantsAssumption DEF Insts, Outer, Inner, Refs, Cls
<1>1. Init => IInv
    BY AInvInit DEF AInv
<1>2. IInv => TypeOK
    BY DEF IInv
<1>. QED
    BY <1>1, <1>2, IInvStep, PTL DEF Spec

(* Every exception raised in the code of an analysis' resilience block is  *)
(* recorded exactly once, in errors or named_errors[name] of the innermost *)
(* analysis whose block handles it and in no other list, and one that no   *)
(* block handles is the exception the user's call raises: whatever the     *)
(* names, the blocks, fail_fast and the exception classes.                 *)
THEOREM ErrorsAttributedCorrect == Spec => []ErrorsAttributed
<1>. USE DEF Insts, Outer, Inner, Refs, Cls
<1>1. AInv => ErrorsAttributed
  <2> SUFFICES ASSUME AInv PROVE ErrorsAttributed
      OBVIOUS
  <2>1. ASSUME NEW i \in Insts, st[i] # "idle", NEW n \in AllNames
        PROVE  /\ IdsIn(View(i, n)) = {k \in 1..Len(raised) : Handler(k) = [inst |-> i, name |-> n]}
               /\ Cardinality(IdsIn(View(i, n))) = Len(View(i, n))
    <3>1. IdsIn(View(i, n)) = {k \in 1..Len(raised) : Handler(k) = [inst |-> i, name |-> n]}
          /\ Distinct(View(i, n))
        BY <2>1 DEF AInv, Attributed
    <3>2. View(i, n) \in Seq(EntrySet)
      <4>1. eref[i] = i /\ nref[i] = i
          BY <2>1 DEF AInv, OwnLists
      <4>2. errs \in [Refs -> Seq(EntrySet)] /\ nerrs \in [Refs -> [Names -> Seq(EntrySet)]]
          BY ListParts DEF AInv
      <4>. QED
          BY <4>1, <4>2 DEF View, ErrorsOf, NamedOf, AllNames
    <3>. QED
        BY <3>1, <3>2, DistinctCardinality
  <2>2. \A k \in 1..Len(raised) : Handler(k).inst = 0 => exc[Outer] = k
      BY DEF AInv, Escaped
  <2>. QED
      BY <2>1, <2>2 DEF ErrorsAttributed
<1>. QED
    BY <1>1, AInvInit, AInvStep, PTL DEF Spec
=============================================================================
