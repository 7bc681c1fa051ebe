-------------------------- MODULE InternalLifecycle ---------------------------
(***************************************************************************)
(* What the PMI controller promises of a PowerMonitorInternal object to    *)
(* those who only see the object: its finalizer and its status change as   *)
(* below and in no other way, and no status is written once the object is  *)
(* being deleted.  PowerMonitorInternal implements this specification;     *)
(* PowerMonitor relies on it.                                              *)
(***************************************************************************)
EXTENDS Naturals

VARIABLE internal   \* the object: metadata and the Reconciled condition

Absent == [live |-> FALSE, gen |-> 0, deleted |-> TRUE, fin |-> FALSE,
           og |-> 0, ok |-> FALSE]

Created == [live |-> TRUE, gen |-> 1, deleted |-> FALSE, fin |-> FALSE,
            og |-> 0, ok |-> FALSE]

(***************************************************************************)
(* The client's side.                                                      *)
(***************************************************************************)
Edit == internal.live /\ internal' = [internal EXCEPT !.gen = @ + 1]

\* An object without finalizers disappears when it is deleted.
Delete ==
  /\ internal.live /\ ~internal.deleted
  /\ internal' = IF internal.fin THEN [internal EXCEPT !.deleted = TRUE] ELSE Absent

(***************************************************************************)
(* The controller's side.                                                  *)
(***************************************************************************)
AddFinalizer ==
  /\ internal.live /\ ~internal.deleted /\ ~internal.fin
  /\ internal' = [internal EXCEPT !.fin = TRUE]

\* Success or failure is reported for the generation the object has then.
Report ==
  /\ internal.live /\ ~internal.deleted
  /\ \E ok \in BOOLEAN : internal' = [internal EXCEPT !.og = internal.gen, !.ok = ok]

RemoveFinalizer ==
  /\ internal.live /\ internal.deleted /\ internal.fin
  /\ internal' = Absent

Controller == AddFinalizer \/ Report \/ RemoveFinalizer

Init == internal = Created
Next == Edit \/ Delete \/ Controller
Spec == Init /\ [][Next]_internal
===============================================================================
