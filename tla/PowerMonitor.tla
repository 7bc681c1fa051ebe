----------------------------- MODULE PowerMonitor -----------------------------
(***************************************************************************)
(* The PowerMonitor controller: it turns the user's PowerMonitor (PM) into *)
(* a PowerMonitorInternal of the same name and copies the status back.     *)
(* The other side of the internal object is the PMI controller, of which   *)
(* only the promise of InternalLifecycle is used.  Users edit, delete and  *)
(* re-create the PM, informer caches lag behind, calls fail and the        *)
(* operator crashes.                                                       *)
(***************************************************************************)
EXTENDS Naturals, Reconciler

CONSTANTS
  MaxUid,      \* bound: PowerMonitors created one after the other
  MaxGen,      \* bound: generations of a PowerMonitor
  MaxFaults    \* bound: failed calls and crashes

ASSUME PowerMonitorBounds ==
  MaxUid \in Nat \ {0} /\ MaxGen \in Nat \ {0} /\ MaxFaults \in Nat

VARIABLES
  valid,       \* the PM has the one name that is reconciled
  pm,          \* the PM as the API server has it
  pmCache,     \* the PM as the operator's informer cache has it
  internal,    \* the internal object: see InternalLifecycle
  made,        \* the PM generation the internal's spec was made from
  icache,      \* internal and made as the informer cache has them
  queued,      \* the PM's request is in the work queue, now or after a delay
  run,         \* the reconcile in progress
  faults       \* faults so far

vars == <<valid, pm, pmCache, internal, made, icache, queued, run, faults>>

Life == INSTANCE InternalLifecycle

(***************************************************************************)
(* State.  A generation of a PM is named by the PM's uid and its number.   *)
(* The status is abstracted to its ObservedGeneration, whether Reconciled  *)
(* is True, and the generation the internal it was copied from was made of.*)
(***************************************************************************)
Version(uid, gen) == [uid |-> uid, gen |-> gen]
NoVersion == Version(0, 0)

Status(og, ok, from) == [og |-> og, ok |-> ok, from |-> from]
NoStatus == Status(0, FALSE, NoVersion)

NoPM(uid) == [live |-> FALSE, uid |-> uid, gen |-> 0, deleted |-> TRUE,
              fin |-> FALSE, st |-> NoStatus]
NewPM(uid) == [live |-> TRUE, uid |-> uid, gen |-> 1, deleted |-> FALSE,
               fin |-> FALSE, st |-> NoStatus]

Idle == [at |-> "idle", from |-> NoVersion, deleted |-> FALSE, err |-> NoErr,
         again |-> FALSE]

Init ==
  /\ valid \in BOOLEAN
  /\ pm = NewPM(1) /\ pmCache = NoPM(0)
  /\ internal = Life!Absent /\ made = NoVersion
  /\ icache = [internal |-> Life!Absent, made |-> NoVersion]
  /\ queued = FALSE /\ run = Idle /\ faults = 0

NoFault == UNCHANGED faults
Fault == faults < MaxFaults /\ faults' = faults + 1

(***************************************************************************)
(* Reconcile.                                                              *)
(***************************************************************************)
\* Any name is reconciled.
StartAnyName ==
  /\ queued /\ run = Idle
  /\ queued' = FALSE
  /\ run' = IF ~pmCache.live THEN Idle
            ELSE [Idle EXCEPT !.at = "internal", !.deleted = pmCache.deleted,
                              !.from = Version(pmCache.uid, pmCache.gen)]
  /\ UNCHANGED <<valid, pm, pmCache, internal, made, icache, faults>>

Start ==
  /\ queued /\ run = Idle
  /\ queued' = FALSE
  /\ run' = IF ~pmCache.live THEN Idle
            ELSE [Idle EXCEPT !.at = IF valid THEN "internal" ELSE "invalid",
                              !.from = Version(pmCache.uid, pmCache.gen),
                              !.deleted = pmCache.deleted]
  /\ UNCHANGED <<valid, pm, pmCache, internal, made, icache, faults>>

\* The Runner (see Reconciler): the sub-reconciler before `next` returned res.
Advance(res, next) ==
  run' = IF EndsRun(res) \/ next = "status"
         THEN [run EXCEPT !.at = "status", !.err = RunErr(run.err, res),
                          !.again = RunAgain(run.err, res)]
         ELSE [run EXCEPT !.at = next, !.err = LastErr(run.err, res)]

\* The internal as the server has it after the apply.  The operator is the only
\* field manager, so the owner reference follows the PM that applies; a PM of
\* another uid may have the spec of the one it replaces.
Applied ==
  /\ \/ ~internal.live /\ internal' = Life!Created
     \/ /\ internal.live /\ made # run.from
        /\ internal' = [internal EXCEPT !.gen = @ + 1]
     \/ /\ internal.live /\ (made = run.from \/ made.uid # run.from.uid)
        /\ UNCHANGED internal
  /\ made' = run.from

\* Updater of newPowerMonitorInternal.
UpdateInternal ==
  /\ run.at = "internal" /\ ~run.deleted
  /\ \/ NoFault /\ Applied /\ Advance(UpdaterResult("applied", "Continue"), "finalizer")
     \/ /\ Fault /\ (Applied \/ UNCHANGED <<internal, made>>)
        /\ Advance(UpdaterResult("error", "Continue"), "finalizer")
     \/ /\ Fault /\ UNCHANGED <<internal, made>>
        /\ Advance(UpdaterResult("conflict", "Continue"), "finalizer")
  /\ UNCHANGED <<valid, pm, pmCache, icache, queued>>

\* Deleter: the call ...
DeleteInternal ==
  /\ run.at = "internal" /\ run.deleted
  /\ \/ /\ NoFault
        /\ Life!Delete \/ (~(internal.live /\ ~internal.deleted) /\ UNCHANGED internal)
        /\ run' = [run EXCEPT !.at = "wait"]
     \/ /\ Fault /\ UNCHANGED internal
        /\ Advance(DeleterResult("error", "Continue"), "finalizer")
  /\ UNCHANGED <<valid, pm, pmCache, made, icache, queued>>

\* ... and the wait, through the cache, for a minute.  The PMI controller may need
\* longer; the run goes on either way.
AwaitInternal ==
  /\ run.at = "wait"
  /\ Advance(DeleterResult(IF icache.internal.live THEN "timeout" ELSE "gone", "Continue"),
             "finalizer")
  /\ UNCHANGED <<valid, pm, pmCache, internal, made, icache, queued, faults>>

\* Finalizer, on the PM read again from the cache.
Finalizer ==
  /\ run.at = "finalizer"
  /\ LET adds    == pmCache.live /\ ~pmCache.deleted /\ ~pmCache.fin
         removes == pmCache.live /\ pmCache.deleted /\ pmCache.fin
     IN  \/ ~adds /\ ~removes /\ NoFault /\ UNCHANGED pm /\ Advance(Ok, "status")
         \/ /\ adds \/ removes
            /\ pmCache = pm /\ NoFault
            /\ pm' = IF removes THEN NoPM(pm.uid) ELSE [pm EXCEPT !.fin = TRUE]
            /\ Advance(Result("Stop", NoErr), "status")
         \/ /\ adds \/ removes
            /\ UNCHANGED pm
            /\ IF pmCache = pm THEN Fault ELSE NoFault
            /\ Advance(Result("Stop", OtherError), "status")
         \/ Fault /\ UNCHANGED pm /\ Advance(Result("Requeue", OtherError), "status")
  /\ UNCHANGED <<valid, pmCache, internal, made, icache, queued>>

\* Errors are not returned to controller-runtime.
EndWithoutRetry(updateErr) == run' = Idle /\ UNCHANGED queued

\* What Reconcile returns: errors and requeues bring the request back.
End(updateErr) ==
  /\ run' = Idle
  /\ queued' = (queued \/ run.err # NoErr \/ run.again \/ updateErr)

\* Status().Update of the cached PM with status st: a conflict unless the cache is
\* up to date.  RetryOnConflict reads the cache again (this action may wait for it)
\* until the retries are used up.
WriteStatus(st) ==
  \/ pmCache = pm /\ NoFault /\ pm' = [pm EXCEPT !.st = st] /\ End(FALSE)
  \/ pmCache # pm /\ NoFault /\ UNCHANGED pm /\ End(TRUE)
  \/ Fault /\ UNCHANGED pm /\ End(TRUE)

\* hasPowerMonitorInternalStatusChanged: the Reconciled condition always carries
\* the generation it was written for.
HasStatusChanged(i) == i.og = i.gen

\* The conditions are copied with the internal's own generation.
UpdateStatusVerbatim ==
  /\ run.at = "status"
  /\ IF \/ ~pmCache.live \/ pmCache.deleted
        \/ ~icache.internal.live \/ icache.internal.deleted
        \/ ~HasStatusChanged(icache.internal)
     THEN End(FALSE) /\ NoFault /\ UNCHANGED pm
     ELSE WriteStatus(Status(icache.internal.og, icache.internal.ok, icache.made))
  /\ UNCHANGED <<valid, pmCache, internal, made, icache>>

\* updatePowerMonitorStatus.  Its reads, whose errors are dropped, are served by the
\* informer cache and do not fail here.
UpdateStatus ==
  /\ run.at = "status"
  /\ IF \/ ~pmCache.live \/ pmCache.deleted
        \/ ~icache.internal.live \/ icache.internal.deleted
        \/ ~HasStatusChanged(icache.internal)
     THEN End(FALSE) /\ NoFault /\ UNCHANGED pm
     ELSE WriteStatus(Status(pmCache.gen, icache.internal.ok, icache.made))
  /\ UNCHANGED <<valid, pmCache, internal, made, icache>>

\* setInvalidStatus, for a PM of another name.  The write also refreshes the
\* transition times; they have whole seconds, so a repeated one soon changes nothing.
SetInvalidStatus ==
  /\ run.at = "invalid"
  /\ IF ~pmCache.live \/ pmCache.deleted
     THEN End(FALSE) /\ NoFault /\ UNCHANGED pm
     ELSE WriteStatus(Status(pmCache.gen, FALSE, NoVersion))
  /\ UNCHANGED <<valid, pmCache, internal, made, icache>>

(***************************************************************************)
(* Events, crashes, users and the PMI controller.                          *)
(***************************************************************************)
\* For(PowerMonitor) has no predicate.
SyncPM ==
  /\ pmCache # pm
  /\ pmCache' = pm /\ queued' = TRUE
  /\ UNCHANGED <<valid, pm, internal, made, icache, run, faults>>

\* Owns(PowerMonitorInternal) with a predicate that drops changes of the status.
SyncInternalGeneration ==
  /\ icache # [internal |-> internal, made |-> made]
  /\ icache' = [internal |-> internal, made |-> made]
  /\ queued' = (queued \/ internal.gen # icache.internal.gen)
  /\ UNCHANGED <<valid, pm, pmCache, internal, made, run, faults>>

\* Owns(PowerMonitorInternal): every new resource version is a request for its
\* owner.
SyncInternal ==
  /\ icache # [internal |-> internal, made |-> made]
  /\ icache' = [internal |-> internal, made |-> made]
  /\ queued' = TRUE
  /\ UNCHANGED <<valid, pm, pmCache, internal, made, run, faults>>

\* The periodic resync.
Wake ==
  /\ pmCache.live /\ ~queued /\ run = Idle
  /\ queued' = TRUE
  /\ UNCHANGED <<valid, pm, pmCache, internal, made, icache, run, faults>>

\* The operator dies; the new one lists the objects before it starts.
Crash ==
  /\ Fault
  /\ run' = Idle /\ queued' = TRUE
  /\ pmCache' = pm /\ icache' = [internal |-> internal, made |-> made]
  /\ UNCHANGED <<valid, pm, internal, made>>

EditPM ==
  /\ pm.live /\ pm.gen < MaxGen
  /\ pm' = [pm EXCEPT !.gen = @ + 1]
  /\ UNCHANGED <<valid, pmCache, internal, made, icache, queued, run, faults>>

DeletePM ==
  /\ pm.live /\ ~pm.deleted
  /\ pm' = IF pm.fin THEN [pm EXCEPT !.deleted = TRUE] ELSE NoPM(pm.uid)
  /\ UNCHANGED <<valid, pmCache, internal, made, icache, queued, run, faults>>

CreatePM ==
  /\ ~pm.live /\ pm.uid < MaxUid
  /\ pm' = NewPM(pm.uid + 1)
  /\ UNCHANGED <<valid, pmCache, internal, made, icache, queued, run, faults>>

\* The garbage collector deletes an internal whose owner is gone.
CollectInternal ==
  /\ ~(pm.live /\ pm.uid = made.uid)
  /\ Life!Delete
  /\ UNCHANGED <<valid, pm, pmCache, made, icache, queued, run, faults>>

\* The PMI controller.
InternalController ==
  /\ Life!Controller
  /\ UNCHANGED <<valid, pm, pmCache, made, icache, queued, run, faults>>

Operator ==
  \/ Start \/ UpdateInternal \/ DeleteInternal \/ AwaitInternal \/ Finalizer
  \/ UpdateStatus \/ SetInvalidStatus

Next ==
  \/ Operator \/ SyncPM \/ SyncInternal \/ Wake \/ Crash \/ EditPM \/ DeletePM \/ CreatePM
  \/ CollectInternal \/ InternalController

Spec == Init /\ [][Next]_vars

(***************************************************************************)
(* Fairness.  The controller's worker goes on, informers deliver, orphans  *)
(* are collected.  Of the PMI controller only what PowerMonitorInternal is *)
(* checked to keep is assumed: an internal that is to go eventually goes   *)
(* (DeletionCompletes) and a new generation is eventually reported on      *)
(* (Converges, for specs that can be deployed).                            *)
(***************************************************************************)
Outdated == internal.og # internal.gen

Fairness ==
  /\ WF_vars(Operator) /\ WF_vars(SyncPM) /\ WF_vars(SyncInternal)
  /\ WF_vars(CollectInternal)
  /\ WF_vars(InternalController /\ internal.deleted)
  /\ WF_vars(InternalController /\ Outdated /\ ~Outdated')

FairSpec == Spec /\ Fairness

(***************************************************************************)
(* Properties.                                                             *)
(***************************************************************************)
Internals == [live : BOOLEAN, gen : Nat, deleted : BOOLEAN, fin : BOOLEAN, og : Nat,
              ok : BOOLEAN]
Versions == [uid : 0 .. MaxUid, gen : 0 .. MaxGen]
PMs == [live : BOOLEAN, uid : 0 .. MaxUid, gen : 0 .. MaxGen, deleted : BOOLEAN,
        fin : BOOLEAN, st : [og : 0 .. MaxGen, ok : BOOLEAN, from : Versions]]

\* The variables have the shape the code gives them.
TypeOK ==
  /\ valid \in BOOLEAN /\ queued \in BOOLEAN
  /\ pm \in PMs /\ pmCache \in PMs
  /\ internal \in Internals /\ made \in Versions
  /\ icache \in [internal : Internals, made : Versions]
  /\ run \in [at : {"idle", "invalid", "internal", "wait", "finalizer", "status"},
              from : Versions, deleted : BOOLEAN, err : Errors, again : BOOLEAN]
  /\ faults \in 0 .. MaxFaults

\* Nothing is left that will make the controller look at the PM again.
Quiescent ==
  /\ run.at = "idle" /\ ~queued /\ pmCache = pm
  /\ icache = [internal |-> internal, made |-> made]
  /\ pm.live /\ ~pm.deleted

\* At rest the internal is made from the PM's current generation, whichever PM of
\* that name made it first, and once the PMI controller has reported on it the PM
\* shows that report under its own generation.
StatusMirrored ==
  Quiescent /\ valid =>
    /\ internal.live /\ made = Version(pm.uid, pm.gen)
    /\ ~internal.deleted /\ ~Outdated => pm.st = Status(pm.gen, internal.ok, made)

\* At rest a PM of another name is reported invalid in its current generation and
\* nothing was made for it.
InvalidReported ==
  Quiescent /\ ~valid => pm.st = Status(pm.gen, FALSE, NoVersion) /\ ~internal.live

\* A deleted PM goes, and unless another takes its place so does its internal, even
\* when the Deleter gives up waiting for it.
PMDeletionCompletes ==
  /\ pm.deleted ~> ~pm.live \/ ~pm.deleted
  /\ <>[](~pm.live) => <>[](~internal.live)

\* A PM that stays ends up with the status of its own current generation, even if
\* it was created while the internal of its predecessor was still being removed.
StatusConverges ==
  <>[](valid /\ pm.live /\ ~pm.deleted) =>
  <>[](pm.st.og = pm.gen /\ pm.st.from = Version(pm.uid, pm.gen))
===============================================================================
