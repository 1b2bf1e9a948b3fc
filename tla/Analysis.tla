------------------------------ MODULE Analysis ------------------------------
(***************************************************************************)
(* The analysis framework of angr (src/angr/analyses/analysis.py): how an  *)
(* analysis is created by AnalysisFactory.__call__ and prep, how its body  *)
(* records the exceptions raised inside Analysis._resilience blocks, its   *)
(* progress bar, and what its log entries become when the finished        *)
(* analysis is pickled.                                                    *)
(*                                                                         *)
(* Two instances are modelled: Outer, the analysis the user calls, and    *)
(* Inner, an analysis Outer's body calls from inside one of its            *)
(* _resilience blocks (an analysis that runs another, as the decompiler    *)
(* does).  A body is a sequence of at most MaxSteps statements: a          *)
(* _resilience block whose code completes or raises, the call of Inner,    *)
(* _update_progress and _finish_progress.  Python runs one statement at a *)
(* time, so each is one atomic step.                                       *)
(***************************************************************************)
EXTENDS Naturals, Sequences, FiniteSets

CONSTANTS
    Names,      \* values given to _resilience(name=...)
    NoName,     \* name=None
    MaxSteps,   \* statements an analysis body runs
    MaxRaises   \* exceptions raised over a behaviour

ASSUME ConstantsAssumption ==
    /\ NoName \notin Names
    /\ MaxSteps \in Nat
    /\ MaxRaises \in Nat

Outer == 1
Inner == 2
Insts == {Outer, Inner}
Cls == 0                        \* the class attributes Analysis.errors / named_errors
Refs == Insts \cup {Cls}        \* the objects an instance's attributes can point to
AllNames == Names \cup {NoName}

(* The exception argument of _resilience, and the exception classes a      *)
(* block's code raises: KeyError and ValueError are Exceptions,             *)
(* KeyboardInterrupt is a BaseException only.                               *)
Filters == {"Exception", "KeyError"}
Raisable == {"KeyError", "ValueError", "KeyboardInterrupt"}
IsInstance(c, f) == c = f \/ (f = "Exception" /\ c # "KeyboardInterrupt")

(* A field of an AnalysisLogEntry: a Python object, None, or the str() of  *)
(* one (what __getstate__ stores).                                          *)
Obj(x) == [kind |-> "obj", val |-> x]
NoneObj == [kind |-> "none", val |-> "None"]
Str(f) == [kind |-> "str", val |-> f.val]

(* Mutant: the entry is made without exc_info=True, so it records no      *)
(* exception.                                                               *)
EntryNoExcInfo(c, k) ==
    [type |-> NoneObj, value |-> NoneObj, tb |-> NoneObj, msg |-> "exception occurred"]

(* AnalysisLogEntry("exception occurred", exc_info=True) (lines 67-79),     *)
(* created in the except clause: sys.exc_info() is the exception k of       *)
(* class c being handled.                                                   *)
Entry(c, k) ==
    [type |-> Obj(c), value |-> Obj(k), tb |-> Obj("traceback"), msg |-> "exception occurred"]

(* pickle.loads(pickle.dumps(e)): __getstate__ (lines 86-92) stores the     *)
(* str() of the three exception fields, __setstate__ (lines 94-95) puts     *)
(* them back as they are.                                                   *)
Reload(e) == [type |-> Str(e.type), value |-> Str(e.value), tb |-> Str(e.tb), msg |-> e.msg]

(* AnalysisLogEntry.format (lines 81-84): format_exception walks the        *)
(* traceback object and fails on anything else.                             *)
Format(e) ==
    IF e.tb = NoneObj THEN <<"msg", e.msg>>
    ELSE IF e.type.kind = "obj" /\ e.value.kind = "obj" /\ e.tb.kind = "obj"
         THEN <<"trace", e.type.val, e.value.val, e.msg>>
         ELSE <<"raises", "AttributeError">>

(* AnalysisLogEntry.__repr__ (lines 97-112): an entry with an exception     *)
(* names it through exc_type.__name__, which only a class has.              *)
Repr(e) ==
    IF e.type = NoneObj THEN <<"msg", e.msg>>
    ELSE IF e.type.kind = "obj" THEN <<"exc", e.msg, e.type.val, e.value.val>>
    ELSE <<"raises", "AttributeError">>

NoBlock == [name |-> NoName, filter |-> "Exception"]
NoCopy == [errors |-> <<>>, named |-> [n \in Names |-> <<>>], made |-> FALSE]

-----------------------------------------------------------------------------
VARIABLES
    st,       \* st[i]: "idle", "running", "waiting" (inside the block that
              \* called Inner), "returned" or "raised"
    ff,       \* ff[i]: self._fail_fast
    show,     \* show[i]: self._show_progressbar
    bar,      \* bar[i]: self._progressbar is not None
    live,     \* the instances whose progress bar was started and not stopped
    pc,       \* pc[i]: statements of the body run so far
    eref,     \* eref[i]: the list object self.errors is
    nref,     \* nref[i]: the defaultdict self.named_errors is
    errs,     \* errs[r]: the contents of list object r
    nerrs,    \* nerrs[r][n]: the contents of named_errors object r at key n
    blk,      \* blk[Outer]: name and exception argument of the block
              \* that is waiting for Inner
    exc,      \* exc[i]: the exception that escaped i's call (0: none)
    raised,   \* history: each exception raised, with its class, the
              \* instance and block it was raised in, and the block of
              \* Outer around it
    loaded    \* the user's pickle round trip of the returned Outer

vars == <<st, ff, show, bar, live, pc, eref, nref, errs, nerrs, blk, exc, raised, loaded>>

Init ==
    /\ st = [i \in Insts |-> "idle"]
    /\ ff = [i \in Insts |-> FALSE]
    /\ show = [i \in Insts |-> FALSE]
    /\ bar = [i \in Insts |-> FALSE]
    /\ live = {}
    /\ pc = [i \in Insts |-> 0]
    /\ eref = [i \in Insts |-> Cls]
    /\ nref = [i \in Insts |-> Cls]
    /\ errs = [r \in Refs |-> <<>>]
    /\ nerrs = [r \in Refs |-> [n \in Names |-> <<>>]]
    /\ blk = [i \in Insts |-> NoBlock]
    /\ exc = [i \in Insts |-> 0]
    /\ raised = <<>>
    /\ loaded = NoCopy

ErrorsOf(i) == errs[eref[i]]
NamedOf(i) == nerrs[nref[i]]

(* Mutant: the wrapper does not give the new object lists of its own, so  *)
(* self.errors and self.named_errors are the class attributes.             *)
PrepSharedLists(i, f, s) ==
    /\ ff' = [ff EXCEPT ![i] = f]
    /\ show' = [show EXCEPT ![i] = s]
    /\ eref' = [eref EXCEPT ![i] = Cls]
    /\ nref' = [nref EXCEPT ![i] = Cls]
    /\ errs' = errs
    /\ nerrs' = nerrs

(* AnalysisFactory.prep's wrapper (lines 239-252) up to oself.__init__:    *)
(* fresh errors and named_errors, _fail_fast and _show_progressbar as      *)
(* __call__ passed them.                                                    *)
Prep(i, f, s) ==
    /\ ff' = [ff EXCEPT ![i] = f]
    /\ show' = [show EXCEPT ![i] = s]
    /\ eref' = [eref EXCEPT ![i] = i]
    /\ nref' = [nref EXCEPT ![i] = i]
    /\ errs' = [errs EXCEPT ![i] = <<>>]
    /\ nerrs' = [nerrs EXCEPT ![i] = [n \in Names |-> <<>>]]

(* A statement of i's body may run.                                        *)
CanStep(i) == st[i] = "running" /\ pc[i] < MaxSteps
Stepped(i) == pc' = [pc EXCEPT ![i] = @ + 1]

(* self.errors.append(error) or self.named_errors[name].append(error).     *)
LogIn(i, n, e) ==
    IF n = NoName
    THEN errs' = [errs EXCEPT ![eref[i]] = Append(@, e)] /\ nerrs' = nerrs
    ELSE nerrs' = [nerrs EXCEPT ![nref[i]][n] = Append(@, e)] /\ errs' = errs

(* The except clause of _resilience (lines 313-325) in instance i: the     *)
(* exception is handled there when it is an instance of the block's        *)
(* exception argument and _fail_fast is off.                                *)
Handles(i, f, c) == IsInstance(c, f) /\ ~ff[i]

(* Mutant: the caller's block logs the exception that crossed out of the  *)
(* call into the lists of the analysis that raised it, not its own.        *)
RaiseInCalleeLog(i, n, f, c, k) ==
    LET e == Entry(c, k)
        ob == blk[Outer]
    IN  IF Handles(i, f, c)
        THEN /\ LogIn(i, n, e) /\ Stepped(i)
             /\ UNCHANGED <<st, exc, blk>>
        ELSE IF i = Inner /\ Handles(Outer, ob.filter, c)
        THEN /\ LogIn(Inner, ob.name, e) /\ Stepped(Outer)
             /\ st' = [st EXCEPT ![Inner] = "raised", ![Outer] = "running"]
             /\ exc' = [exc EXCEPT ![Inner] = k]
             /\ blk' = [blk EXCEPT ![Outer] = NoBlock]
        ELSE /\ st' = [j \in Insts |-> IF j = i \/ i = Inner THEN "raised" ELSE st[j]]
             /\ exc' = [j \in Insts |-> IF j = i \/ i = Inner THEN k ELSE exc[j]]
             /\ blk' = [blk EXCEPT ![Outer] = NoBlock]
             /\ UNCHANGED <<errs, nerrs, pc>>

(* Exception k of class c is raised by the code of a block (name n,        *)
(* exception argument f) of instance i.  Handled there, it is logged and   *)
(* the body goes on.  Otherwise it leaves i's __init__, so the factory     *)
(* call raises it; if i is Inner, it goes on in Outer's block around the   *)
(* call, which handles it or lets it escape Outer's call too.              *)
RaiseIn(i, n, f, c, k) ==
    LET e == Entry(c, k)
        ob == blk[Outer]
    IN  IF Handles(i, f, c)
        THEN /\ LogIn(i, n, e) /\ Stepped(i)
             /\ UNCHANGED <<st, exc, blk>>
        ELSE IF i = Inner /\ Handles(Outer, ob.filter, c)
        THEN /\ LogIn(Outer, ob.name, e) /\ Stepped(Outer)
             /\ st' = [st EXCEPT ![Inner] = "raised", ![Outer] = "running"]
             /\ exc' = [exc EXCEPT ![Inner] = k]
             /\ blk' = [blk EXCEPT ![Outer] = NoBlock]
        ELSE /\ st' = [j \in Insts |-> IF j = i \/ i = Inner THEN "raised" ELSE st[j]]
             /\ exc' = [j \in Insts |-> IF j = i \/ i = Inner THEN k ELSE exc[j]]
             /\ blk' = [blk EXCEPT ![Outer] = NoBlock]
             /\ UNCHANGED <<errs, nerrs, pc>>

-----------------------------------------------------------------------------
(* The user calls the analysis: AnalysisFactory.__call__ (lines 256-265)    *)
(* with fail_fast f and show_progressbar s, then prep's wrapper.           *)
CallOuter(f, s) ==
    /\ st[Outer] = "idle"
    /\ Prep(Outer, f, s)
    /\ st' = [st EXCEPT ![Outer] = "running"]
    /\ UNCHANGED <<bar, live, pc, blk, exc, raised, loaded>>

(* with self._resilience(name=n, exception=f): self.project.analyses[...]( *)
(* fail_fast=g, show_progressbar=s): Outer's body calls Inner.             *)
CallInner(n, f, g, s) ==
    /\ CanStep(Outer)
    /\ st[Inner] = "idle"
    /\ Prep(Inner, g, s)
    /\ st' = [st EXCEPT ![Outer] = "waiting", ![Inner] = "running"]
    /\ blk' = [blk EXCEPT ![Outer] = [name |-> n, filter |-> f]]
    /\ UNCHANGED <<bar, live, pc, exc, raised, loaded>>

(* with self._resilience(name=n, exception=f): <code>, where the code      *)
(* completes (c = "none") or raises an exception of class c.               *)
Block(i, n, f, c) ==
    /\ CanStep(i)
    /\ IF c = "none"
       THEN Stepped(i) /\ UNCHANGED <<st, errs, nerrs, blk, exc, raised>>
       ELSE /\ Len(raised) < MaxRaises
            /\ raised' = Append(raised, [cls |-> c, inst |-> i, name |-> n, filter |-> f,
                                         outer |-> blk[Outer]])
            /\ RaiseIn(i, n, f, c, Len(raised) + 1)
    /\ UNCHANGED <<ff, show, bar, live, eref, nref, loaded>>

(* _update_progress (lines 338-360): with show_progressbar, the bar is     *)
(* created and started on first use.                                        *)
UpdateProgress(i) ==
    /\ CanStep(i)
    /\ Stepped(i)
    /\ IF show[i] /\ ~bar[i]
       THEN bar' = [bar EXCEPT ![i] = TRUE] /\ live' = live \cup {i}
       ELSE UNCHANGED <<bar, live>>
    /\ UNCHANGED <<st, ff, show, eref, nref, errs, nerrs, blk, exc, raised, loaded>>

(* _finish_progress (lines 362-378): with show_progressbar, the bar (made  *)
(* first if there was none) is completed, stopped and dropped.              *)
FinishProgress(i) ==
    /\ CanStep(i)
    /\ Stepped(i)
    /\ IF show[i]
       THEN bar' = [bar EXCEPT ![i] = FALSE] /\ live' = live \ {i}
       ELSE UNCHANGED <<bar, live>>
    /\ UNCHANGED <<st, ff, show, eref, nref, errs, nerrs, blk, exc, raised, loaded>>

(* oself.__init__ returns: __call__ sets r._progressbar = None (lines      *)
(* 266-268) without stopping it.  For Inner, the call expression in        *)
(* Outer's block completes and Outer's body goes on.                        *)
Return(i) ==
    /\ st[i] = "running"
    /\ bar' = [bar EXCEPT ![i] = FALSE]
    /\ IF i = Inner
       THEN /\ st' = [st EXCEPT ![Inner] = "returned", ![Outer] = "running"]
            /\ blk' = [blk EXCEPT ![Outer] = NoBlock]
            /\ Stepped(Outer)
       ELSE /\ st' = [st EXCEPT ![i] = "returned"]
            /\ UNCHANGED <<blk, pc>>
    /\ UNCHANGED <<ff, show, live, eref, nref, errs, nerrs, exc, raised, loaded>>

(* The user pickles the returned analysis and loads it back: Analysis.     *)
(* __getstate__ (lines 410-415) keeps errors and named_errors, whose        *)
(* entries go through AnalysisLogEntry.__getstate__/__setstate__.          *)
PickleRoundTrip ==
    /\ st[Outer] = "returned"
    /\ ~loaded.made
    /\ loaded' = [errors |-> [p \in DOMAIN ErrorsOf(Outer) |-> Reload(ErrorsOf(Outer)[p])],
                  named |-> [n \in Names |-> [p \in DOMAIN NamedOf(Outer)[n] |->
                                                 Reload(NamedOf(Outer)[n][p])]],
                  made |-> TRUE]
    /\ UNCHANGED <<st, ff, show, bar, live, pc, eref, nref, errs, nerrs, blk, exc, raised>>

Next ==
    \/ \E f, s \in BOOLEAN : CallOuter(f, s)
    \/ \E n \in AllNames, f \in Filters, g, s \in BOOLEAN : CallInner(n, f, g, s)
    \/ \E i \in Insts, n \in AllNames, f \in Filters, c \in Raisable \cup {"none"} : Block(i, n, f, c)
    \/ \E i \in Insts : UpdateProgress(i) \/ FinishProgress(i) \/ Return(i)
    \/ PickleRoundTrip

Spec == Init /\ [][Next]_vars

-----------------------------------------------------------------------------
EntrySet == [type : {Obj(c) : c \in Raisable}, value : {Obj(k) : k \in 1..MaxRaises},
             tb : {Obj("traceback")}, msg : {"exception occurred"}]

TypeOK ==
    /\ st \in [Insts -> {"idle", "running", "waiting", "returned", "raised"}]
    /\ ff \in [Insts -> BOOLEAN] /\ show \in [Insts -> BOOLEAN] /\ bar \in [Insts -> BOOLEAN]
    /\ live \subseteq Insts
    /\ pc \in [Insts -> 0..MaxSteps]
    /\ eref \in [Insts -> Refs] /\ nref \in [Insts -> Refs]
    /\ errs \in [Refs -> Seq(EntrySet)]
    /\ nerrs \in [Refs -> [Names -> Seq(EntrySet)]]
    /\ exc \in [Insts -> 0..MaxRaises]
    /\ Len(raised) <= MaxRaises

(* The list an exception handled by instance i in a block named n is       *)
(* recorded in, as the user reads it from the instance.                    *)
View(i, n) == IF n = NoName THEN ErrorsOf(i) ELSE NamedOf(i)[n]
IdsIn(s) == {s[p].value.val : p \in DOMAIN s}

(* Where the code must record the k-th raised exception: in the block it   *)
(* was raised in, if that block handles it; else, for Inner, in Outer's    *)
(* block around the call, if that one does; else nowhere, and it escapes  *)
(* the user's call.                                                         *)
Handler(k) ==
    LET r == raised[k]
    IN  IF Handles(r.inst, r.filter, r.cls) THEN [inst |-> r.inst, name |-> r.name]
        ELSE IF r.inst = Inner /\ Handles(Outer, r.outer.filter, r.cls)
        THEN [inst |-> Outer, name |-> r.outer.name]
        ELSE [inst |-> 0, name |-> NoName]

(* The resilience contract (spec 7: a failure is caught, logged and        *)
(* attributed without affecting others): every exception raised in an     *)
(* analysis' resilience blocks is recorded exactly once, in the errors or  *)
(* named_errors[name] of the innermost analysis whose block handles it,    *)
(* and in no list of any other analysis or name; one that no block         *)
(* handles is the exception the user's call raises.  This is about the     *)
(* mutable class attributes errors and named_errors, about fail_fast, and  *)
(* about an exception crossing from a called analysis into its caller.    *)
ErrorsAttributed ==
    /\ \A i \in Insts : st[i] # "idle" =>
         \A n \in AllNames :
            /\ IdsIn(View(i, n)) = {k \in 1..Len(raised) : Handler(k) = [inst |-> i, name |-> n]}
            /\ Cardinality(IdsIn(View(i, n))) = Len(View(i, n))
    /\ \A k \in 1..Len(raised) : Handler(k).inst = 0 => exc[Outer] = k

(* A finished analysis can be pickled and loaded (its __getstate__ and      *)
(* the factory's cleanup exist for that): every log entry of the loaded     *)
(* copy formats and prints as the original does.                            *)
LogEntriesSurvivePickle ==
    loaded.made =>
        /\ \A p \in DOMAIN loaded.errors :
              /\ Format(loaded.errors[p]) = Format(ErrorsOf(Outer)[p])
              /\ Repr(loaded.errors[p]) = Repr(ErrorsOf(Outer)[p])
        /\ \A n \in Names : \A p \in DOMAIN loaded.named[n] :
              /\ Format(loaded.named[n][p]) = Format(NamedOf(Outer)[n][p])
              /\ Repr(loaded.named[n][p]) = Repr(NamedOf(Outer)[n][p])

(* The refinement mapping onto ResilienceContract: an instance is idle,   *)
(* active (running or waiting for the analysis it called) or done         *)
(* (returned or raised); the lists of a called instance are the exception *)
(* numbers of the entries the user reads from it.                          *)
StatOf ==
    [i \in Insts |-> IF st[i] = "idle" THEN "idle"
                     ELSE IF st[i] \in {"running", "waiting"} THEN "active" ELSE "done"]
IdSeq(s) == [p \in DOMAIN s |-> s[p].value.val]
LogsOf ==
    [i \in Insts |-> [n \in AllNames |-> IF st[i] = "idle" THEN <<>> ELSE IdSeq(View(i, n))]]

Contract == INSTANCE ResilienceContract
                WITH Lists <- AllNames, stat <- StatOf, logs <- LogsOf,
                     count <- Len(raised), esc <- exc

(* The analyses implement the resilience contract: each step of the code  *)
(* is a call, a return, or a raise that logs the new exception in one list *)
(* of one active analysis (or in none, when the user's call raises it)    *)
(* and changes no other list, so a finished analysis' errors and          *)
(* named_errors never change afterwards.  This is about the lists prep's  *)
(* wrapper gives each instance and about which instance's list the except *)
(* clause of _resilience appends to.                                       *)
ImplementsContract == Contract!Spec
=============================================================================
