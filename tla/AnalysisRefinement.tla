------------------------- MODULE AnalysisRefinement -------------------------
(***************************************************************************)
(* The analyses implement the resilience contract: under the refinement   *)
(* mapping StatOf, LogsOf, Len(raised), exc, every step of Analysis is a   *)
(* step of ResilienceContract or leaves its variables alone.  The proof    *)
(* rests on the invariant AInv of AnalysisProofs: a called instance logs   *)
(* into lists of its own, and the history keeps the raised exceptions.     *)
(***************************************************************************)
EXTENDS AnalysisProofs, TLAPS

(* The exception number of a log entry is a number.                       *)
LEMMA EntryVal ==
    ASSUME NEW x \in EntrySet
    PROVE  x.value.val \in Nat
<1>1. x.value \in {Obj(k) : k \in 1..MaxRaises}
    BY Zenon DEF EntrySet
<1>2. PICK k \in 1..MaxRaises : x.value = Obj(k)
    BY <1>1
<1>3. x.value.val = k
    BY <1>2 DEF Obj
<1>. QED
    BY <1>3

(* The exception numbers of a list with one more entry.                    *)
LEMMA IdSeqAppend ==
    ASSUME NEW s \in Seq(EntrySet), NEW e \in EntrySet
    PROVE  IdSeq(Append(s, e)) = Append(IdSeq(s), e.value.val)
<1>. DEFINE x == e.value.val
<1>1. /\ Append(s, e) \in Seq(EntrySet) /\ Len(Append(s, e)) = Len(s) + 1
      /\ \A p \in 1..Len(s) : Append(s, e)[p] = s[p]
      /\ Append(s, e)[Len(s) + 1] = e
    BY AppendProperties
<1>2. \A t \in Seq(EntrySet) : IdSeq(t) \in Seq(Nat) /\ Len(IdSeq(t)) = Len(t)
                                /\ \A p \in 1..Len(t) : IdSeq(t)[p] = t[p].value.val
  <2> SUFFICES ASSUME NEW t \in Seq(EntrySet)
               PROVE  IdSeq(t) \in Seq(Nat) /\ Len(IdSeq(t)) = Len(t)
                      /\ \A p \in 1..Len(t) : IdSeq(t)[p] = t[p].value.val
      OBVIOUS
  <2>1. \A p \in 1..Len(t) : t[p].value.val \in Nat
    <3> SUFFICES ASSUME NEW p \in 1..Len(t) PROVE t[p].value.val \in Nat
        OBVIOUS
    <3>1. t[p] \in EntrySet
        BY ElementOfSeq
    <3>. QED
        BY <3>1, EntryVal
  <2>2. IdSeq(t) = [p \in 1..Len(t) |-> t[p].value.val]
      BY DEF IdSeq
  <2>. QED
      BY <2>1, <2>2
<1>3. x \in Nat
    BY EntryVal
<1>4. /\ Append(IdSeq(s), x) \in Seq(Nat) /\ Len(Append(IdSeq(s), x)) = Len(s) + 1
      /\ \A p \in 1..Len(s) : Append(IdSeq(s), x)[p] = s[p].value.val
      /\ Append(IdSeq(s), x)[Len(s) + 1] = x
    BY <1>2, <1>3, AppendProperties
<1>5. /\ IdSeq(Append(s, e)) \in Seq(Nat) /\ Len(IdSeq(Append(s, e))) = Len(s) + 1
      /\ \A p \in 1..Len(s) + 1 : IdSeq(Append(s, e))[p] = Append(IdSeq(s), x)[p]
  <2>1. /\ IdSeq(Append(s, e)) \in Seq(Nat) /\ Len(IdSeq(Append(s, e))) = Len(s) + 1
        /\ \A p \in 1..Len(s) + 1 : IdSeq(Append(s, e))[p] = Append(s, e)[p].value.val
      BY <1>1, <1>2
  <2>2. ASSUME NEW p \in 1..Len(s) + 1
        PROVE  IdSeq(Append(s, e))[p] = Append(IdSeq(s), x)[p]
    <3>0. Len(s) \in Nat
        BY LenProperties
    <3>1. CASE p \in 1..Len(s)
        BY <1>1, <1>4, <2>1, <3>1
    <3>2. CASE p = Len(s) + 1
        BY <1>1, <1>4, <2>1, <3>2
    <3>3. p \in 1..Len(s) \/ p = Len(s) + 1
        BY <3>0
    <3>. QED
        BY <3>1, <3>2, <3>3
  <2>. QED
      BY <2>1, <2>2, Zenon
<1>. QED
    BY <1>4, <1>5, SeqEqual

(* A step that leaves the lists, the references and the called instances  *)
(* alone leaves the mapped lists alone.                                    *)
LEMMA LogsFrame ==
    ASSUME eref' = eref, nref' = nref, errs' = errs, nerrs' = nerrs,
           \A i \in Insts : st'[i] = "idle" <=> st[i] = "idle"
    PROVE  LogsOf' = LogsOf
BY DEF LogsOf, View, ErrorsOf, NamedOf

(* An append by a called instance to one of its lists is an append of the *)
(* exception number to that one mapped list.                               *)
LEMMA LogsAfterLog ==
    ASSUME AInv, NEW a \in Insts, NEW b \in AllNames, NEW e \in EntrySet,
           st[a] # "idle", LogIn(a, b, e), eref' = eref, nref' = nref,
           \A i \in Insts : st'[i] = "idle" <=> st[i] = "idle"
    PROVE  LogsOf' = [LogsOf EXCEPT ![a][b] = Append(@, e.value.val)]
<1>0. /\ errs \in [Refs -> Seq(EntrySet)] /\ nerrs \in [Refs -> [Names -> Seq(EntrySet)]]
      /\ eref[a] = a /\ nref[a] = a
    BY ListParts DEF AInv, OwnLists
<1>1. ASSUME NEW j \in Insts, NEW m \in AllNames
      PROVE  LogsOf'[j][m] = IF j = a /\ m = b THEN Append(LogsOf[a][b], e.value.val)
                                                ELSE LogsOf[j][m]
  <2>1. CASE st[j] = "idle"
    <3>1. j # a
        BY <2>1
    <3>. QED
        BY <2>1, <3>1 DEF LogsOf
  <2>2. CASE st[j] # "idle"
    <3>1. eref[j] = j /\ nref[j] = j
        BY <2>2 DEF AInv, OwnLists
    <3>2. View(j, m)' = IF j = a /\ m = b THEN Append(View(a, b), e) ELSE View(j, m)
      <4> HIDE DEF Insts, Outer, Inner, Refs, Cls
      <4>. QED
        BY <1>0, <3>1, LogInView DEF View, ErrorsOf, NamedOf
    <3>3. View(a, b) \in Seq(EntrySet)
        BY <1>0 DEF View, ErrorsOf, NamedOf, AllNames, Insts, Outer, Inner, Refs, Cls
    <3>4. CASE j = a /\ m = b
        BY <2>2, <3>2, <3>3, <3>4, IdSeqAppend DEF LogsOf
    <3>5. CASE ~(j = a /\ m = b)
        BY <2>2, <3>2, <3>5 DEF LogsOf
    <3>. QED
        BY <3>4, <3>5
  <2>. QED
      BY <2>1, <2>2
<1>2. LogsOf' = [j \in Insts |-> [m \in AllNames |->
                  IF j = a /\ m = b THEN Append(LogsOf[a][b], e.value.val) ELSE LogsOf[j][m]]]
    BY <1>1 DEF LogsOf
<1>3. /\ DOMAIN LogsOf = Insts
      /\ \A j \in Insts : LogsOf[j] = [m \in AllNames |-> LogsOf[j][m]]
    BY DEF LogsOf
<1>4. [LogsOf EXCEPT ![a][b] = Append(@, e.value.val)]
      = [j \in Insts |-> [m \in AllNames |->
            IF j = a /\ m = b THEN Append(LogsOf[a][b], e.value.val) ELSE LogsOf[j][m]]]
    BY <1>3
<1>. QED
    BY <1>2, <1>4
(* The mapped lists are a function of the instances and their list names. *)
LEMMA LogsShape ==
    /\ DOMAIN LogsOf = Insts
    /\ \A j \in Insts : LogsOf[j] = [m \in AllNames |-> LogsOf[j][m]]
    /\ LogsOf' = [j \in Insts |-> [m \in AllNames |-> LogsOf'[j][m]]]
BY DEF LogsOf

(* A call gives the called instance empty mapped lists and leaves the     *)
(* others alone.                                                             *)
LEMMA LogsAfterCall ==
    ASSUME NEW i \in Insts,
           \A j \in Insts, m \in AllNames : LogsOf'[j][m] = IF j = i THEN <<>> ELSE LogsOf[j][m]
    PROVE  LogsOf' = [LogsOf EXCEPT ![i] = Contract!NoLogs]
<1>1. LogsOf' = [j \in Insts |-> [m \in AllNames |-> IF j = i THEN <<>> ELSE LogsOf[j][m]]]
    BY LogsShape
<1>2. [LogsOf EXCEPT ![i] = Contract!NoLogs]
      = [j \in Insts |-> [m \in AllNames |-> IF j = i THEN <<>> ELSE LogsOf[j][m]]]
    BY LogsShape DEF Contract!NoLogs
<1>. QED
    BY <1>1, <1>2

(* A step that changes no variable of the contract.                        *)
LEMMA ContractStutter ==
    ASSUME st' = st, eref' = eref, nref' = nref, errs' = errs, nerrs' = nerrs,
           raised' = raised, exc' = exc
    PROVE  UNCHANGED Contract!avars
<1>1. LogsOf' = LogsOf
    BY LogsFrame
<1>. QED
    BY <1>1 DEF Contract!avars, StatOf

(* The user's call is the contract's call of Outer.                        *)
LEMMA CallOuterRefines ==
    ASSUME AInv, NEW f, NEW s, CallOuter(f, s)
    PROVE  Contract!Call(Outer)
<1>. USE DEF Insts, Outer, Inner, Refs, Cls, Contract!Insts, Contract!Outer, Contract!Inner
<1>1. /\ st[Outer] = "idle" /\ st[Inner] = "idle"
      /\ st' = [st EXCEPT ![Outer] = "running"]
      /\ raised' = raised /\ exc' = exc
    BY DEF AInv, RaisedByCalled, CallOuter
<1>2. /\ st \in [Insts -> {"idle", "running", "waiting", "returned", "raised"}]
      /\ errs \in [Refs -> Seq(EntrySet)] /\ nerrs \in [Refs -> [Names -> Seq(EntrySet)]]
      /\ eref \in [Insts -> Refs] /\ nref \in [Insts -> Refs]
    BY ControlParts, ListParts DEF AInv
<1>3. /\ eref'[Outer] = Outer /\ nref'[Outer] = Outer
      /\ errs'[Outer] = <<>> /\ \A n \in Names : nerrs'[Outer][n] = <<>>
    BY <1>2 DEF CallOuter, Prep
<1>4. StatOf' = [StatOf EXCEPT ![Outer] = "active"]
    BY <1>1, <1>2 DEF StatOf
<1>5. \A j \in Insts, m \in AllNames : LogsOf'[j][m] = IF j = Outer THEN <<>> ELSE LogsOf[j][m]
  <2>1. \A m \in AllNames : View(Outer, m)' = <<>>
      BY <1>3 DEF View, ErrorsOf, NamedOf, AllNames
  <2>2. \A m \in AllNames : LogsOf'[Outer][m] = <<>>
      BY <1>1, <1>2, <2>1 DEF LogsOf, IdSeq
  <2>3. \A m \in AllNames : LogsOf'[Inner][m] = <<>> /\ LogsOf[Inner][m] = <<>>
      BY <1>1, <1>2 DEF LogsOf
  <2>. QED
      BY <2>2, <2>3
<1>. QED
    BY <1>1, <1>4, <1>5, LogsAfterCall DEF Contract!Call, StatOf

(* Outer's body calling Inner is the contract's call of Inner.             *)
LEMMA CallInnerRefines ==
    ASSUME AInv, NEW n \in AllNames, NEW f, NEW g, NEW s, CallInner(n, f, g, s)
    PROVE  Contract!Call(Inner)
<1>. USE DEF Insts, Outer, Inner, Refs, Cls, Contract!Insts, Contract!Outer, Contract!Inner
<1>1. /\ st[Outer] = "running" /\ st[Inner] = "idle"
      /\ st' = [st EXCEPT ![Outer] = "waiting", ![Inner] = "running"]
      /\ raised' = raised /\ exc' = exc
    BY DEF CallInner, CanStep
<1>2. /\ st \in [Insts -> {"idle", "running", "waiting", "returned", "raised"}]
      /\ errs \in [Refs -> Seq(EntrySet)] /\ nerrs \in [Refs -> [Names -> Seq(EntrySet)]]
      /\ eref \in [Insts -> Refs] /\ nref \in [Insts -> Refs]
    BY ControlParts, ListParts DEF AInv
<1>3. /\ eref'[Inner] = Inner /\ nref'[Inner] = Inner
      /\ errs'[Inner] = <<>> /\ \A x \in Names : nerrs'[Inner][x] = <<>>
      /\ eref'[Outer] = eref[Outer] /\ nref'[Outer] = nref[Outer]
      /\ errs'[Outer] = errs[Outer] /\ nerrs'[Outer] = nerrs[Outer]
      /\ eref[Outer] = Outer /\ nref[Outer] = Outer
    BY <1>1, <1>2 DEF CallInner, Prep, AInv, OwnLists
<1>4. StatOf' = [StatOf EXCEPT ![Inner] = "active"]
    BY <1>1, <1>2 DEF StatOf
<1>5. \A j \in Insts, m \in AllNames : LogsOf'[j][m] = IF j = Inner THEN <<>> ELSE LogsOf[j][m]
  <2>1. \A m \in AllNames : LogsOf'[Inner][m] = <<>>
      BY <1>1, <1>2, <1>3 DEF LogsOf, IdSeq, View, ErrorsOf, NamedOf, AllNames
  <2>2. \A m \in AllNames : View(Outer, m)' = View(Outer, m)
      BY <1>3 DEF View, ErrorsOf, NamedOf
  <2>3. \A m \in AllNames : LogsOf'[Outer][m] = LogsOf[Outer][m]
      BY <1>1, <1>2, <2>2 DEF LogsOf
  <2>. QED
      BY <2>1, <2>3
<1>. QED
    BY <1>1, <1>4, <1>5, LogsAfterCall DEF Contract!Call, Contract!Active, StatOf

(* A return is the contract's end of that analysis.                        *)
LEMMA ReturnRefines ==
    ASSUME AInv, NEW i \in Insts, Return(i)
    PROVE  Contract!End(i)
<1>. USE DEF Insts, Outer, Inner, Refs, Cls, Contract!Insts, Contract!Outer, Contract!Inner
<1>1. /\ st \in [Insts -> {"idle", "running", "waiting", "returned", "raised"}]
      /\ st[Inner] = "running" => st[Outer] = "waiting"
    BY ControlParts DEF AInv
<1>2. /\ st[i] = "running"
      /\ st' = IF i = Inner THEN [st EXCEPT ![Inner] = "returned", ![Outer] = "running"]
                            ELSE [st EXCEPT ![i] = "returned"]
      /\ eref' = eref /\ nref' = nref /\ errs' = errs /\ nerrs' = nerrs
      /\ raised' = raised /\ exc' = exc
    BY DEF Return
<1>3. StatOf' = [StatOf EXCEPT ![i] = "done"]
    BY <1>1, <1>2 DEF StatOf
<1>4. LogsOf' = LogsOf
    BY <1>1, <1>2, LogsFrame
<1>. QED
    BY <1>2, <1>3, <1>4 DEF Contract!End, Contract!Active, StatOf
(* A block is a stutter of the contract when its code completes, and a    *)
(* raise otherwise: handled in place (logged in i's list n), handled by    *)
(* Outer's block around the call of Inner (Inner ends, the exception is    *)
(* logged in Outer's list), or escaping (i ends, and Outer with it when i  *)
(* is Inner, and nothing is logged).                                       *)
LEMMA BlockRefines ==
    ASSUME AInv, NEW i \in Insts, NEW n \in AllNames, NEW f \in Filters,
           NEW c \in Raisable \cup {"none"}, Block(i, n, f, c)
    PROVE  [Contract!Next]_Contract!avars
<1>. USE DEF Insts, Outer, Inner, Refs, Cls, Contract!Insts, Contract!Outer, Contract!Inner
<1>a. IInv
    BY DEF AInv
<1>0. /\ st \in [Insts -> {"idle", "running", "waiting", "returned", "raised"}]
      /\ exc \in [Insts -> 0..MaxRaises]
      /\ st[i] = "running" /\ st[Outer] \in {"running", "waiting"}
      /\ i = Inner => st[Outer] = "waiting"
      /\ eref' = eref /\ nref' = nref
    <2>1. st[i] = "running" /\ eref' = eref /\ nref' = nref
        BY DEF Block, CanStep
    <2>. QED
        BY <1>a, <2>1, ControlParts, RaiseParts
<1>1. CASE c = "none"
  <2>1. st' = st /\ errs' = errs /\ nerrs' = nerrs /\ exc' = exc /\ raised' = raised
      BY <1>1 DEF Block
  <2>. QED
      BY <1>0, <2>1, ContractStutter
<1>2. CASE c # "none"
  <2>0. PICK k : k = Len(raised) + 1
      OBVIOUS
  <2>. DEFINE r == [cls |-> c, inst |-> i, name |-> n, filter |-> f, outer |-> blk[Outer]]
              e == Entry(c, k)
  <2>1. /\ c \in Raisable /\ k \in 1..MaxRaises /\ Len(raised) < MaxRaises
        /\ raised \in Seq(RaisedRec) /\ blk[Outer] \in BlockRec
    <3>1. raised \in Seq(RaisedRec) /\ blk[Outer] \in BlockRec
        BY <1>a, RaiseParts
    <3>2. Len(raised) < MaxRaises /\ Len(raised) \in Nat
        BY <1>2, <3>1, LenProperties DEF Block
    <3>. QED
        BY <1>2, <2>0, <3>1, <3>2, ConstantsAssumption
  <2>2. r \in RaisedRec /\ e \in EntrySet /\ e.value.val = k
      BY <2>1, EntryType DEF RaisedRec, Entry, Obj
  <2>3. raised' = Append(raised, r) /\ RaiseIn(i, n, f, c, k)
      BY <1>2, <2>0 DEF Block
  <2>4. Len(raised') = Len(raised) + 1
      BY <2>1, <2>2, <2>3, AppendProperties
  <2>5. CASE Handles(i, f, c)
    <3>1. LogIn(i, n, e) /\ st' = st /\ exc' = exc
        BY <2>3, <2>5 DEF RaiseIn
    <3>2. LogsOf' = [LogsOf EXCEPT ![i][n] = Append(@, k)]
        BY <1>0, <2>2, <3>1, LogsAfterLog
    <3>3. /\ StatOf' = [j \in Insts |-> IF j \in {} THEN "done" ELSE StatOf[j]]
          /\ exc' = [j \in Insts |-> IF j \in {} THEN k ELSE exc[j]]
          /\ StatOf[i] = "active"
        BY <1>0, <3>1 DEF StatOf
    <3>4. Contract!Raise({}, i, n)
        BY <2>0, <2>1, <2>4, <3>2, <3>3 DEF Contract!Raise, Contract!Active
    <3>. QED
        BY <3>4 DEF Contract!Next
  <2>6. CASE ~Handles(i, f, c) /\ i = Inner /\ Handles(Outer, blk[Outer].filter, c)
    <3>. DEFINE b == blk[Outer].name
    <3>1. /\ LogIn(Outer, b, e)
          /\ st' = [st EXCEPT ![Inner] = "raised", ![Outer] = "running"]
          /\ exc' = [exc EXCEPT ![Inner] = k]
        BY <2>3, <2>6 DEF RaiseIn
    <3>2. /\ b \in AllNames /\ st[Outer] = "waiting"
          /\ \A j \in Insts : st'[j] = "idle" <=> st[j] = "idle"
        BY <1>0, <2>1, <2>6, <3>1 DEF BlockRec
    <3>3. LogsOf' = [LogsOf EXCEPT ![Outer][b] = Append(@, k)]
        BY <1>0, <2>2, <3>1, <3>2, LogsAfterLog
    <3>4. /\ StatOf' = [j \in Insts |-> IF j \in {Inner} THEN "done" ELSE StatOf[j]]
          /\ exc' = [j \in Insts |-> IF j \in {Inner} THEN k ELSE exc[j]]
          /\ StatOf[Inner] = "active" /\ StatOf[Outer] = "active"
        BY <1>0, <2>6, <3>1, <3>2 DEF StatOf
    <3>5. Contract!Raise({Inner}, Outer, b)
        BY <2>0, <2>1, <2>4, <3>3, <3>4 DEF Contract!Raise, Contract!Active
    <3>. QED
        BY <3>2, <3>5 DEF Contract!Next
  <2>7. CASE ~Handles(i, f, c) /\ ~(i = Inner /\ Handles(Outer, blk[Outer].filter, c))
    <3>. DEFINE D == IF i = Inner THEN Insts ELSE {Outer}
    <3>1. /\ st' = [j \in Insts |-> IF j = i \/ i = Inner THEN "raised" ELSE st[j]]
          /\ exc' = [j \in Insts |-> IF j = i \/ i = Inner THEN k ELSE exc[j]]
          /\ errs' = errs /\ nerrs' = nerrs
        BY <2>3, <2>7 DEF RaiseIn
    <3>2. \A j \in Insts : (j \in D <=> (j = i \/ i = Inner)) /\ (j \in D => st[j] # "idle")
        BY <1>0
    <3>3. LogsOf' = LogsOf
        BY <1>0, <3>1, <3>2, LogsFrame
    <3>4. /\ StatOf' = [j \in Insts |-> IF j \in D THEN "done" ELSE StatOf[j]]
          /\ exc' = [j \in Insts |-> IF j \in D THEN k ELSE exc[j]]
          /\ \A j \in D : StatOf[j] = "active"
        BY <1>0, <3>1, <3>2 DEF StatOf
    <3>5. Contract!Raise(D, 0, NoName)
        BY <2>0, <2>1, <2>4, <3>3, <3>4 DEF Contract!Raise, Contract!Active
    <3>. QED
        BY <3>5 DEF Contract!Next, AllNames
  <2>. QED
      BY <2>5, <2>6, <2>7
<1>. QED
    BY <1>1, <1>2
(* The initial state of the wrapped analyses is the contract's.            *)
LEMMA ContractInit == Init => Contract!Init
<1>. USE DEF Insts, Outer, Inner, Refs, Cls, Contract!Insts, Contract!Outer, Contract!Inner
<1> SUFFICES ASSUME Init PROVE Contract!Init
    OBVIOUS
<1>1. StatOf = [j \in Insts |-> "idle"]
    BY DEF Init, StatOf
<1>2. LogsOf = [j \in Insts |-> Contract!NoLogs]
    BY DEF Init, LogsOf, Contract!NoLogs
<1>3. Len(raised) = 0 /\ exc = [j \in Insts |-> 0]
    BY DEF Init
<1>. QED
    BY <1>1, <1>2, <1>3 DEF Contract!Init

(* Every step of the wrapped analyses is a step of the contract or leaves *)
(* its variables alone.                                                    *)
LEMMA ContractStep == AInv /\ [Next]_vars => [Contract!Next]_Contract!avars
<1>. USE DEF Insts, Outer, Inner, Refs, Cls, Contract!Insts, Contract!Outer, Contract!Inner
<1> SUFFICES ASSUME AInv, [Next]_vars PROVE [Contract!Next]_Contract!avars
    OBVIOUS
<1>1. ASSUME NEW f \in BOOLEAN, NEW s \in BOOLEAN, CallOuter(f, s)
      PROVE  [Contract!Next]_Contract!avars
    BY <1>1, CallOuterRefines DEF Contract!Next
<1>2. ASSUME NEW n \in AllNames, NEW f \in Filters, NEW g \in BOOLEAN,
             NEW s \in BOOLEAN, CallInner(n, f, g, s)
      PROVE  [Contract!Next]_Contract!avars
    BY <1>2, CallInnerRefines DEF Contract!Next
<1>3. ASSUME NEW i \in Insts, NEW n \in AllNames, NEW f \in Filters,
             NEW c \in Raisable \cup {"none"}, Block(i, n, f, c)
      PROVE  [Contract!Next]_Contract!avars
    BY <1>3, BlockRefines
<1>4. ASSUME NEW i \in Insts, UpdateProgress(i) \/ FinishProgress(i)
      PROVE  [Contract!Next]_Contract!avars
  <2>1. st' = st /\ eref' = eref /\ nref' = nref /\ errs' = errs /\ nerrs' = nerrs /\ exc' = exc /\ raised' = raised
      BY <1>4 DEF UpdateProgress, FinishProgress
  <2>. QED
      BY <2>1, ContractStutter
<1>5. ASSUME NEW i \in Insts, Return(i)
      PROVE  [Contract!Next]_Contract!avars
    BY <1>5, ReturnRefines DEF Contract!Next
<1>6. CASE PickleRoundTrip \/ UNCHANGED vars
  <2>1. st' = st /\ eref' = eref /\ nref' = nref /\ errs' = errs /\ nerrs' = nerrs /\ exc' = exc /\ raised' = raised
      BY <1>6 DEF PickleRoundTrip, vars
  <2>. QED
      BY <2>1, ContractStutter
<1>. QED
    BY <1>1, <1>2, <1>3, <1>4, <1>5, <1>6 DEF Next

(* The resilience wrapper implements its contract (spec 7): under the     *)
(* mapping of __call__, prep's wrapper, _resilience and __init__'s return  *)
(* onto calls, raises and ends, every behaviour of the two analyses is a   *)
(* behaviour of ResilienceContract, for all names and raise bounds.        *)
THEOREM ImplementsContractCorrect == Spec => ImplementsContract
<1>1. Init => Contract!Init
    BY ContractInit
<1>2. AInv /\ [Next]_vars => [Contract!Next]_Contract!avars
    BY ContractStep
<1>3. Init => AInv
    BY AInvInit
<1>4. AInv /\ [Next]_vars => AInv'
    BY AInvStep
<1>. QED
    BY <1>1, <1>2, <1>3, <1>4, PTL DEF Spec, ImplementsContract, Contract!Spec
=============================================================================
