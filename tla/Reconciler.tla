------------------------------ MODULE Reconciler ------------------------------
(***************************************************************************)
(* The sub-reconciler protocol of pkg/reconciler: every sub-reconciler     *)
(* returns a Result (an action and an error) and the Runner folds the      *)
(* results of a list of them into what the controller returns to           *)
(* controller-runtime.  Both controllers run their work through it.        *)
(*                                                                         *)
(* Errors are abstracted to what the status code tells apart: nil, the     *)
(* SecretNotFoundError, and any other error.                               *)
(***************************************************************************)

NoErr == "nil"
SecretNotFoundError == "SecretNotFoundError"
OtherError == "error"

Errors == {NoErr, SecretNotFoundError, OtherError}
Actions == {"Continue", "Requeue", "Stop"}

Result(action, err) == [action |-> action, err |-> err]
Ok == Result("Continue", NoErr)

(***************************************************************************)
(* Runner.Run.  The runner keeps the LAST error it was given.  Continue    *)
(* goes on despite an error; Stop returns the error and, when there is     *)
(* none, asks for an immediate requeue; Requeue comes back in 5 seconds    *)
(* and returns no error, whatever was collected so far.                    *)
(***************************************************************************)
LastErr(err, res) == IF res.err # NoErr THEN res.err ELSE err

EndsRun(res) == res.action # "Continue"

\* The error the runner returns when `res` is the last result it looks at.
RunErr(err, res) ==
  IF res.action = "Requeue" THEN NoErr ELSE LastErr(err, res)

\* A runner that treats Requeue like a normal end of the list.
RunAgainNever(err, res) == FALSE

\* Whether the returned ctrl.Result asks controller-runtime to run again.
RunAgain(err, res) ==
  \/ res.action = "Requeue"
  \/ res.action = "Stop" /\ LastErr(err, res) = NoErr

(***************************************************************************)
(* What an Updater returns for the outcome of its server-side apply.       *)
(* Conflict and AlreadyExists are retried with the error suppressed.       *)
(***************************************************************************)
UpdaterResult(outcome, onError) ==
  CASE outcome = "applied"  -> Ok
    [] outcome = "conflict" -> Result("Requeue", NoErr)
    [] outcome = "error"    -> Result(onError, OtherError)

\* A Deleter that gives up waiting is a success.
DeleterResultTimeoutOk(outcome, onError) ==
  IF outcome \in {"gone", "timeout"} THEN Ok ELSE Result(onError, OtherError)

\* What a Deleter returns: the object is gone, or the call or the wait failed.
DeleterResult(outcome, onError) ==
  IF outcome = "gone" THEN Ok ELSE Result(onError, OtherError)
===============================================================================
