------------------------- MODULE ResilienceContract -------------------------
(***************************************************************************)
(* What the resilience wrapper of an analysis promises (spec 7): a failure *)
(* inside one analysis is caught, logged and attributed, or surfaces from   *)
(* the user's call, without affecting the other analyses.  An analysis is  *)
(* idle until it is called, active while its body runs or waits for the   *)
(* analysis it called, and done once it has returned or raised.  Each      *)
(* analysis has one list per name (errors and named_errors); a list holds  *)
(* the numbers of the exceptions logged into it.  Outer is the analysis    *)
(* the user calls, Inner the one Outer's body calls.                       *)
(***************************************************************************)
EXTENDS Naturals, Sequences

CONSTANTS
    Lists,       \* the names of an analysis' lists, errors included
    MaxRaises    \* the number of exceptions the instance may raise

Outer == 1
Inner == 2
Insts == {Outer, Inner}

VARIABLES
    stat,    \* stat[i]: "idle", "active" or "done"
    logs,    \* logs[i][n]: the exception numbers logged in list n of i
    count,   \* the number of exceptions raised so far
    esc      \* esc[i]: the exception a done analysis raised, 0 for none

avars == <<stat, logs, count, esc>>

NoLogs == [n \in Lists |-> <<>>]
Active(i) == stat[i] = "active"

Init ==
    /\ stat = [i \in Insts |-> "idle"]
    /\ logs = [i \in Insts |-> NoLogs]
    /\ count = 0
    /\ esc = [i \in Insts |-> 0]

(* An analysis is called, by the user or by Outer's body, with lists of   *)
(* its own, empty.                                                         *)
Call(i) ==
    /\ stat[i] = "idle"
    /\ i = Inner => Active(Outer)
    /\ stat' = [stat EXCEPT ![i] = "active"]
    /\ logs' = [logs EXCEPT ![i] = NoLogs]
    /\ UNCHANGED <<count, esc>>

(* Exception count + 1 is raised.  It ends the active analyses in D, which *)
(* raise it, and is logged in list n of the active analysis h outside D,  *)
(* or, for h = 0, is logged nowhere and ends the user's call.  No other    *)
(* list changes.                                                           *)
Raise(D, h, n) ==
    /\ count < MaxRaises
    /\ \A j \in D : Active(j)
    /\ count' = count + 1
    /\ stat' = [j \in Insts |-> IF j \in D THEN "done" ELSE stat[j]]
    /\ esc' = [j \in Insts |-> IF j \in D THEN count + 1 ELSE esc[j]]
    /\ IF h = 0
       THEN Outer \in D /\ logs' = logs
       ELSE /\ Active(h) /\ h \notin D
            /\ logs' = [logs EXCEPT ![h][n] = Append(@, count + 1)]

(* An analysis returns.                                                    *)
End(i) ==
    /\ Active(i)
    /\ stat' = [stat EXCEPT ![i] = "done"]
    /\ UNCHANGED <<logs, count, esc>>

Next ==
    \/ \E i \in Insts : Call(i) \/ End(i)
    \/ \E D \in SUBSET Insts, h \in Insts \cup {0}, n \in Lists : Raise(D, h, n)

Spec == Init /\ [][Next]_avars
=============================================================================
