---------------------- MODULE PowerMonitorInternalProofs ----------------------
(***************************************************************************)
(* Proof that the PMI controller loses no work (NoLostWork), for every set *)
(* of specs and secrets, on either kind of cluster, whatever others delete *)
(* and for any number of edits and faults.                                 *)
(***************************************************************************)
EXTENDS PowerMonitorInternal, TLAPS

(***************************************************************************)
(* The inductive invariant.                                                *)
(***************************************************************************)
\* The object is what generation g calls for, or the informers are about to deliver
\* that it is gone.
Settled(k, g) == UpToDate(k, g) \/ (k \in stale /\ Watched(k))

AllSettled(g) == \A k \in Kinds : Restored(k) => Settled(k, g)

\* Only a PMI that was asked to go is gone or cleaned up.
DeletionIsFinal ==
  /\ ~pmi.live => pmi.deleted
  /\ cache.live /\ cache.deleted => pmi.deleted
  /\ run.at # "idle" /\ run.deleted => pmi.deleted
  /\ run.at = "wait" => run.deleted

\* A reconcile works from the cached PMI unless a newer one is queued.
RunIsCurrent ==
  /\ run.at = "idle" => run \in {Idle, Skipped}
  /\ run.at # "idle" /\ ~queued =>
       cache.live /\ run.gen = cache.gen /\ run.deleted = cache.deleted

\* OpenShift's own kinds are never applied elsewhere.
OpenShiftOnlyKinds == ~OpenShift => \A k \in OpenShiftOnly : obj[k] = 0

\* The namespace is gone and the run has yet to come to the ServiceAccount, the first
\* of its objects in the namespace that is made for every spec and watched.
NamespaceLost == obj["Namespace"] = 0 /\ run.pc <= 9

\* While no step has failed, the steps before the current one have done theirs,
\* unless the namespace was deleted by others: then the ServiceAccount will fail.
StepsDone ==
  run.at = "steps" /\ ~run.deleted /\ run.err = NoErr /\ ~queued /\ ~pmi.deleted =>
    \/ NamespaceLost
    \/ \A i \in 1 .. run.pc - 1 :
         UpdatePath[i] \in Kinds /\ Restored(UpdatePath[i])
           => Settled(UpdatePath[i], run.gen)

\* A reconcile that ends without an error and asks for no other did everything, as far
\* as the informers' copies showed.
CleanRunDone ==
  run.at = "status" /\ ~run.deleted /\ run.err = NoErr /\ ~run.again /\ ~queued
    /\ ~pmi.deleted => AllSettled(run.gen)

\* NoLostWork, while the informers may still be behind.
RestSettled ==
  AtRest =>
    /\ run # Skipped => pmi.reconciled = ReconciledCondition(pmi.gen, NoErr)
    /\ AllSettled(pmi.gen)

Inv == /\ TypeOK /\ DeletionIsFinal /\ RunIsCurrent /\ OpenShiftOnlyKinds
       /\ StepsDone /\ CleanRunDone /\ RestSettled

(***************************************************************************)
(* Facts about the two paths.                                              *)
(***************************************************************************)
\* Each object has one step of its own in UpdatePath, before the Finalizer.
LEMMA UpdatePathFacts ==
  /\ Len(UpdatePath) = 17
  /\ \A i, j \in 1 .. 17 : UpdatePath[i] = UpdatePath[j] => i = j
  /\ \A k \in Kinds : \E i \in 1 .. 16 : UpdatePath[i] = k
  /\ UpdatePath[17] = "Finalizer"
  /\ UpdatePath[1] = "Namespace" /\ UpdatePath[9] = "ServiceAccount"
<1>1. Len(UpdatePath) = 17
  BY DEF UpdatePath
<1>2. \A i, j \in 1 .. 17 : UpdatePath[i] = UpdatePath[j] => i = j
  BY DEF UpdatePath
<1>3. \A k \in Kinds : \E i \in 1 .. 16 : UpdatePath[i] = k
  BY DEF UpdatePath, Kinds, Cluster, Namespaced
<1>4. /\ UpdatePath[17] = "Finalizer"
      /\ UpdatePath[1] = "Namespace" /\ UpdatePath[9] = "ServiceAccount"
  BY DEF UpdatePath
<1> QED BY <1>1, <1>2, <1>3, <1>4

\* The cleanup path has six steps.
LEMMA CleanupPathFacts == Len(CleanupPath) = 6
  BY DEF CleanupPath

(***************************************************************************)
(* Types of what is written to the status.                                 *)
(***************************************************************************)
LEMMA ConditionType ==
  ASSUME NEW status \in {"True", "False", "Unknown", "Degraded"}, NEW og \in Nat,
         NEW reason \in Reasons, NEW message \in Errors \cup Seq(Nat)
  PROVE  Condition(status, og, reason, message) \in Conditions
  BY DEF Condition, Conditions

\* The messages of the Available condition are sequences of counts.
LEMMA MessageTypes ==
  /\ <<>> \in Errors \cup Seq(Nat)
  /\ \A m \in Nat : <<m>> \in Errors \cup Seq(Nat)
  /\ \A m, n \in Nat : <<m, n>> \in Errors \cup Seq(Nat)
<1>1. <<>> \in Seq(Nat)
  OBVIOUS
<1>2. \A m \in Nat : <<m>> \in Seq(Nat)
  OBVIOUS
<1>3. \A m, n \in Nat : <<m, n>> \in Seq(Nat)
  OBVIOUS
<1> QED BY <1>1, <1>2, <1>3

\* A PMI that does not exist.
LEMMA GoneType == Gone \in Pmis
<1>1. UnsetReconciled \in Conditions
  BY ConditionType DEF UnsetReconciled, Errors, Reasons
<1>2. UnsetAvailable \in Conditions
  BY ConditionType, MessageTypes DEF UnsetAvailable, Reasons
<1> QED BY <1>1, <1>2 DEF Gone, Pmis

\* The Reconciled condition the status update writes.
LEMMA ReconciledConditionType ==
  \A g \in Nat, e \in Errors : ReconciledCondition(g, e) \in Conditions
  BY ConditionType DEF ReconciledCondition, Errors, Reasons

\* The Available condition the status update writes.
LEMMA AvailableConditionType ==
  ASSUME NEW g \in Nat, NEW e, NEW exists \in BOOLEAN, NEW d \in Counts,
         NEW synced \in BOOLEAN
  PROVE  /\ AvailableCondition(g, e, exists, d, synced) \in Conditions
         /\ DaemonSetGetErrorCondition \in Conditions
<1>1. /\ d.desired \in Nat /\ d.ready \in Nat /\ d.updated \in Nat
      /\ d.available \in Nat /\ d.unavailable \in Nat
  BY DEF Counts
<1>2. DaemonSetCondition(d, synced) \in Conditions
  BY <1>1, ConditionType, MessageTypes DEF DaemonSetCondition, Reasons
<1>3. \A c \in Conditions :
        /\ [c EXCEPT !.og = g] \in Conditions
        /\ [c EXCEPT !.status = "Degraded", !.reason = "ReconcileError"] \in Conditions
  BY DEF Conditions, Reasons
<1>4. /\ Condition("False", 0, "DaemonSetNotFound", <<>>) \in Conditions
      /\ Condition("Degraded", 0, "SecretNotFound", <<>>) \in Conditions
      /\ Condition("Unknown", 0, "DaemonSetError", <<>>) \in Conditions
  BY ConditionType, MessageTypes DEF Reasons
<1> QED BY <1>2, <1>3, <1>4 DEF AvailableCondition, DaemonSetGetErrorCondition

(***************************************************************************)
(* Facts about the Runner.                                                 *)
(***************************************************************************)
Results == [action : Actions, err : Errors]

\* What Updater and Deleter return is a result, Ok exactly when they succeed.
LEMMA ResultFacts ==
  /\ Ok \in Results
  /\ \A a \in Actions, e \in Errors : Result(a, e) \in Results
  /\ \A a \in Actions : UpdaterResult("applied", a) = Ok
  /\ \A a \in Actions : \A o \in {"error", "conflict"} :
       UpdaterResult(o, a) \in Results /\ UpdaterResult(o, a) # Ok
  /\ \A a \in Actions : DeleterResult("gone", a) = Ok
  /\ \A a \in Actions : \A o \in {"timeout", "error"} :
       DeleterResult(o, a) \in Results /\ DeleterResult(o, a) # Ok
  BY DEF Ok, Result, Results, UpdaterResult, DeleterResult, Actions, Errors,
         NoErr, OtherError, SecretNotFoundError

\* The Runner's loop: it moves one step or ends; it ends without an error and
\* without asking for another run only after a last result that is Ok.
LEMMA AdvanceFacts ==
  ASSUME run \in Runs, run.pc \in 1 .. Len(Path), NEW res \in Results, Advance(res)
  PROVE  /\ run' \in Runs
         /\ run'.gen = run.gen /\ run'.deleted = run.deleted
         /\ run'.at \in {"steps", "status"}
         /\ run'.at = "steps" => run'.pc = run.pc + 1 /\ run.pc < Len(Path)
         /\ run'.at = "steps" /\ run'.err = NoErr => run.err = NoErr /\ res = Ok
         /\ run'.at = "status" /\ run'.err = NoErr /\ ~run'.again =>
              run.err = NoErr /\ res = Ok /\ run.pc = Len(Path)
<1>1. CASE ~EndsRun(res) /\ run.pc < Len(Path)
  <2>1. run' = [run EXCEPT !.at = "steps", !.pc = @ + 1, !.err = LastErr(run.err, res)]
    BY <1>1 DEF Advance
  <2>2. LastErr(run.err, res) \in Errors
    BY DEF LastErr, Runs, Results
  <2>3. LastErr(run.err, res) = NoErr => run.err = NoErr /\ res = Ok
    BY <1>1 DEF LastErr, EndsRun, Results, Ok, Result, Actions
  <2>4. run' \in Runs
    <3>1. run.pc \in Nat /\ run.pc + 1 \in Nat
      BY DEF Runs
    <3> QED BY <2>1, <2>2, <3>1 DEF Runs
  <2>5. /\ run'.gen = run.gen /\ run'.deleted = run.deleted /\ run'.at = "steps"
        /\ run'.pc = run.pc + 1 /\ run'.err = LastErr(run.err, res)
    BY <2>1 DEF Runs
  <2> QED BY <2>3, <2>4, <2>5, <1>1
<1>2. CASE ~(~EndsRun(res) /\ run.pc < Len(Path))
  <2>1. run' = [run EXCEPT !.at = "status", !.pc = 0, !.err = RunErr(run.err, res),
                           !.again = RunAgain(run.err, res)]
    BY <1>2 DEF Advance
  <2>2. RunErr(run.err, res) \in Errors /\ RunAgain(run.err, res) \in BOOLEAN
    BY DEF RunErr, RunAgain, LastErr, Runs, Results, Errors
  <2>3. RunErr(run.err, res) = NoErr /\ ~RunAgain(run.err, res) =>
          run.err = NoErr /\ res = Ok
    BY DEF RunErr, RunAgain, LastErr, Results, Ok, Result, Actions
  <2>4. res = Ok => run.pc >= Len(Path)
    BY <1>2 DEF EndsRun, Ok, Result, Runs, Path, UpdatePath, CleanupPath
  <2>5. run.pc >= Len(Path) => run.pc = Len(Path)
    BY DEF Path, UpdatePath, CleanupPath
  <2>6. run' \in Runs
    BY <2>1, <2>2 DEF Runs
  <2>7. /\ run'.gen = run.gen /\ run'.deleted = run.deleted /\ run'.at = "status"
        /\ run'.err = RunErr(run.err, res) /\ run'.again = RunAgain(run.err, res)
    BY <2>1 DEF Runs
  <2> QED BY <2>3, <2>4, <2>5, <2>6, <2>7
<1> QED BY <1>1, <1>2

(***************************************************************************)
(* What the sub-reconcilers have in common: a step touches its own object  *)
(* at most, only writes the run's generation and only where the server     *)
(* takes it, and if it returns Ok on the update path the object is what    *)
(* the run's generation calls for.  What the informers hold of the proxy's *)
(* secrets is remembered.                                                  *)
(***************************************************************************)
ProxyStepped(s) ==
  /\ stale' \subseteq ProxyObjects /\ held' \subseteq ProxySecrets
  /\ \A o : o # s => (o \in stale' <=> o \in stale)
  /\ held \subseteq held'
  /\ \A o \in ProxySecrets : InCache(o)' => InCache(o) \/ o \in held'

Stepped(s) ==
  /\ \E res \in Results :
       /\ Advance(res)
       /\ res = Ok /\ ~run.deleted /\ s \in Kinds /\ Restored(s) => Settled(s, run.gen)'
       /\ res = Ok /\ s = "ServiceAccount" => obj["Namespace"] # 0
  /\ obj' \in [Kinds -> 0 .. Len(specs)]
  /\ \A k \in Kinds : k # s => obj'[k] = obj[k]
  /\ s \in Kinds /\ obj'[s] # obj[s] /\ obj'[s] # 0 => CanApply(s) /\ obj'[s] = run.gen
  /\ OpenShiftOnlyKinds'
  /\ ProxyStepped(s)
  /\ ds' \in [status : Counts, synced : BOOLEAN]
  /\ faults' \in 0 .. MaxFaults
  /\ UNCHANGED <<specs, pmi, cache, queued, terminating, ext>>

\* The count of faults stays within its bound.
LEMMA FaultType ==
  ASSUME faults \in 0 .. MaxFaults, Fault \/ NoFault
  PROVE  faults' \in 0 .. MaxFaults
  BY BoundsAssumption DEF Fault, NoFault

\* A sub-reconciler that changes nothing.
LEMMA ReturnSteps ==
  ASSUME TypeOK, OpenShiftOnlyKinds, NEW s, NEW res \in Results,
         Return(res) \/ FailRead(res),
         res = Ok /\ ~run.deleted /\ s \in Kinds /\ Restored(s) => Settled(s, run.gen),
         s # "ServiceAccount"
  PROVE  Stepped(s)
<1>1. /\ UNCHANGED <<specs, pmi, cache, queued, obj, terminating, ext, stale, held, ds>>
      /\ Advance(res)
  BY DEF Return, FailRead, request, proxy
<1>2. faults' \in 0 .. MaxFaults
  BY FaultType DEF Return, FailRead, TypeOK
<1>3. res = Ok /\ ~run.deleted /\ s \in Kinds /\ Restored(s) => Settled(s, run.gen)'
  <2>1. run'.gen = run.gen
    BY <1>1 DEF Advance, TypeOK, Runs
  <2> QED BY <1>1, <2>1 DEF Settled, UpToDate
<1>4. OpenShiftOnlyKinds'
  BY <1>1 DEF OpenShiftOnlyKinds
<1>5. ProxyStepped(s)
  BY <1>1 DEF ProxyStepped, TypeOK, InCache, Exists
<1> QED BY <1>1, <1>2, <1>3, <1>4, <1>5 DEF Stepped, TypeOK

\* An Updater: it applies its object or leaves everything as it is.
LEMMA UpdateSteps ==
  ASSUME TypeOK, OpenShiftOnlyKinds, run.at = "steps", NEW k \in Kinds,
         NEW onError \in Actions, Update(k, onError),
         Wanted(RunSpec, k), k \in OpenShiftOnly => OpenShift
  PROVE  Stepped(k)
<1>0. /\ UNCHANGED <<specs, pmi, cache, queued, terminating, ext>>
      /\ faults' \in 0 .. MaxFaults
  BY FaultType DEF Update, request, TypeOK
<1>1. run.gen \in 1 .. Len(specs) /\ Len(specs) \in Nat
  BY DEF TypeOK
<1>2. ASSUME Applied(k)
      PROVE  /\ obj' \in [Kinds -> 0 .. Len(specs)]
             /\ \A j \in Kinds : j # k => obj'[j] = obj[j]
             /\ OpenShiftOnlyKinds'
             /\ ds' \in [status : Counts, synced : BOOLEAN]
             /\ ProxyStepped(k)
             /\ obj'[k] = run.gen
  <2>1. obj' = [obj EXCEPT ![k] = run.gen]
    BY <1>2 DEF Applied
  <2>2. ds' \in [status : Counts, synced : BOOLEAN]
    BY <1>2 DEF Applied, TypeOK, Counts, NoPods
  <2>3. obj \in [Kinds -> 0 .. Len(specs)]
    BY DEF TypeOK
  <2>4. OpenShiftOnlyKinds'
    BY <2>1, <2>3 DEF OpenShiftOnlyKinds, OpenShiftOnly, Kinds, Cluster
  <2>5. ProxyStepped(k)
    <3>1. stale' = stale \ {k} /\ held' = held \cup ({k} \cap ProxySecrets)
      BY <1>2 DEF Applied, Made
    <3>2. "TLS" \notin Kinds
      BY DEF Kinds, Cluster, Namespaced
    <3>3. \A o \in ProxySecrets : o # k => (Exists(o)' <=> Exists(o))
      BY <1>0, <2>1, <2>3 DEF Exists, ProxySecrets, Kinds, Namespaced
    <3> QED BY <3>1, <3>2, <3>3 DEF ProxyStepped, InCache, TypeOK
  <2> QED BY <1>1, <2>1, <2>2, <2>3, <2>4, <2>5
<1>3. ASSUME UNCHANGED <<obj, proxy, ds>>
      PROVE  /\ obj' \in [Kinds -> 0 .. Len(specs)]
             /\ \A j \in Kinds : j # k => obj'[j] = obj[j]
             /\ OpenShiftOnlyKinds'
             /\ ds' \in [status : Counts, synced : BOOLEAN]
             /\ ProxyStepped(k)
  <2>1. UNCHANGED <<obj, stale, held, ds>>
    BY <1>3 DEF proxy
  <2>2. ProxyStepped(k)
    BY <1>0, <2>1 DEF ProxyStepped, TypeOK, InCache, Exists
  <2> QED BY <2>1, <2>2 DEF OpenShiftOnlyKinds, TypeOK
<1>4. CASE CanApply(k) /\ Applied(k) /\ Advance(UpdaterResult("applied", onError))
  <2>1. Ok \in Results /\ Advance(Ok)
    BY <1>4, ResultFacts
  <2>2. run'.gen = run.gen
    BY <2>1 DEF Advance, TypeOK, Runs
  <2>3. Settled(k, run.gen)'
    BY <1>0, <1>1, <1>2, <1>4, <2>2 DEF Settled, UpToDate, RunSpec
  <2>4. k = "ServiceAccount" => obj["Namespace"] # 0
    BY <1>4 DEF CanApply, Namespaced
  <2> QED BY <1>0, <1>2, <1>4, <2>1, <2>3, <2>4 DEF Stepped
<1>5. CASE /\ (CanApply(k) /\ Applied(k)) \/ UNCHANGED <<obj, proxy, ds>>
           /\ \E o \in {"error", "conflict"} : Advance(UpdaterResult(o, onError))
  BY <1>0, <1>2, <1>3, <1>5, ResultFacts DEF Stepped
<1> QED BY <1>4, <1>5 DEF Update

\* A Deleter: its object is gone, or an error is kept.
LEMMA DeleteSteps ==
  ASSUME TypeOK, OpenShiftOnlyKinds, run.at = "steps", NEW k \in Kinds,
         NEW onError \in Actions, Delete(k, onError),
         run.deleted \/ ~Wanted(RunSpec, k), k # "ServiceAccount"
  PROVE  Stepped(k)
<1>0. /\ UNCHANGED <<specs, pmi, cache, queued, terminating, ext, ds>>
      /\ faults' \in 0 .. MaxFaults
  BY FaultType DEF Delete, request, TypeOK
<1>1. run.gen \in 1 .. Len(specs) /\ Len(specs) \in Nat
  BY DEF TypeOK
<1>2. /\ obj' \in {obj, [obj EXCEPT ![k] = 0]} /\ held' = held
      /\ \/ stale' = stale \ {k} /\ obj' = [obj EXCEPT ![k] = 0]
         \/ stale' = stale /\ obj' = obj
         \/ stale' = stale \cup {o \in {k} \cap ProxyObjects : Exists(o)}
  BY DEF Delete, Lost, proxy
<1>3. /\ obj' \in [Kinds -> 0 .. Len(specs)]
      /\ \A j \in Kinds : j # k => obj'[j] = obj[j]
      /\ obj'[k] \in {0, obj[k]}
      /\ OpenShiftOnlyKinds'
  <2>1. obj \in [Kinds -> 0 .. Len(specs)]
    BY DEF TypeOK
  <2>2. /\ obj' \in [Kinds -> 0 .. Len(specs)]
        /\ \A j \in Kinds : j # k => obj'[j] = obj[j]
        /\ obj'[k] \in {0, obj[k]}
        /\ \A j \in Kinds : obj[j] = 0 => obj'[j] = 0
    BY <1>1, <1>2, <2>1
  <2>3. OpenShiftOnly \subseteq Kinds
    BY DEF OpenShiftOnly, Kinds, Cluster
  <2> QED BY <2>2, <2>3 DEF OpenShiftOnlyKinds
<1>p. ProxyStepped(k)
  <2>1. obj \in [Kinds -> 0 .. Len(specs)] /\ stale \subseteq ProxyObjects
        /\ held \subseteq ProxySecrets /\ ProxySecrets \subseteq Kinds \cup {"TLS"}
    BY DEF TypeOK, ProxySecrets, Kinds, Namespaced
  <2>2. \A o \in ProxySecrets : Exists(o)' => Exists(o)
    BY <1>0, <1>3, <2>1 DEF Exists
  <2>3. stale' \subseteq ProxyObjects /\ (\A o : o # k => (o \in stale' <=> o \in stale))
    BY <1>2, <2>1
  <2>4. \A o \in ProxySecrets : o \in stale' => o \in stale \/ Exists(o)
    BY <1>2
  <2> QED BY <1>2, <2>1, <2>2, <2>3, <2>4 DEF ProxyStepped, InCache
<1>4. CASE obj' = [obj EXCEPT ![k] = 0] /\ Advance(DeleterResult("gone", onError))
  <2>1. Ok \in Results /\ Advance(Ok)
    BY <1>4, ResultFacts
  <2>2. run'.gen = run.gen
    BY <2>1 DEF Advance, TypeOK, Runs
  <2>3. ~run.deleted => Settled(k, run.gen)'
    BY <1>0, <1>4, <2>2 DEF Settled, UpToDate, RunSpec, TypeOK
  <2> QED BY <1>0, <1>3, <1>p, <2>1, <2>3 DEF Stepped, TypeOK
<1>5. CASE Advance(DeleterResult("timeout", onError))
  BY <1>0, <1>3, <1>p, <1>5, ResultFacts DEF Stepped, TypeOK
<1> QED BY <1>4, <1>5 DEF Delete

\* A step of that kind keeps the invariant.
LEMMA SteppedInv ==
  ASSUME Inv, NEW s, At(s), Stepped(s)
  PROVE  Inv'
<1>1. PICK res \in Results :
        /\ Advance(res)
        /\ res = Ok /\ ~run.deleted /\ s \in Kinds /\ Restored(s) => Settled(s, run.gen)'
        /\ res = Ok /\ s = "ServiceAccount" => obj["Namespace"] # 0
  BY DEF Stepped
<1>2. /\ UNCHANGED <<specs, pmi, cache, queued, terminating, ext>>
      /\ obj' \in [Kinds -> 0 .. Len(specs)]
      /\ \A k \in Kinds : k # s => obj'[k] = obj[k]
      /\ stale' \subseteq ProxyObjects /\ held' \subseteq ProxySecrets
      /\ \A k \in Kinds : k # s => (k \in stale' <=> k \in stale)
      /\ OpenShiftOnlyKinds'
  BY DEF Stepped, ProxyStepped
<1>3. /\ run \in Runs /\ run.pc \in 1 .. Len(Path) /\ run.at = "steps"
      /\ run.gen \in 1 .. Len(specs) /\ Path[run.pc] = s
  BY DEF Inv, TypeOK, At
<1>4. /\ run' \in Runs
      /\ run'.gen = run.gen /\ run'.deleted = run.deleted
      /\ run'.at \in {"steps", "status"}
      /\ run'.at = "steps" => run'.pc = run.pc + 1 /\ run.pc < Len(Path)
      /\ run'.at = "steps" /\ run'.err = NoErr => run.err = NoErr /\ res = Ok
      /\ run'.at = "status" /\ run'.err = NoErr /\ ~run'.again =>
           run.err = NoErr /\ res = Ok /\ run.pc = Len(Path)
  BY <1>1, <1>3, AdvanceFacts
<1>5. Path' = Path /\ Len(Path) \in Nat
  BY <1>4, UpdatePathFacts, CleanupPathFacts DEF Path
<1>6. TypeOK'
  <2>1. run'.at \in {"steps", "wait"} => run'.pc \in 1 .. Len(Path')
    BY <1>3, <1>4, <1>5
  <2>2. /\ specs \in Seq(Specs) /\ specs # <<>>
        /\ pmi \in Pmis /\ cache \in Pmis
        /\ pmi.live => pmi.gen = Len(specs)
        /\ cache.live => cache.gen \in 1 .. Len(specs)
        /\ queued \in BOOLEAN /\ terminating \in BOOLEAN
        /\ ext \in [secrets : SUBSET Secrets, config : BOOLEAN, account : BOOLEAN,
                    tls : BOOLEAN]
    BY DEF Inv, TypeOK
  <2>3. ds' \in [status : Counts, synced : BOOLEAN] /\ faults' \in 0 .. MaxFaults
    BY DEF Stepped
  <2> QED BY <1>2, <1>3, <1>4, <2>1, <2>2, <2>3 DEF TypeOK
<1>7. DeletionIsFinal'
  BY <1>2, <1>3, <1>4 DEF Inv, DeletionIsFinal
<1>8. RunIsCurrent'
  BY <1>2, <1>3, <1>4 DEF Inv, RunIsCurrent
<1>9. ASSUME ~run.deleted, run.err = NoErr, ~queued, ~pmi.deleted, res = Ok,
             ~NamespaceLost \/ run.pc = 1
      PROVE  \A i \in 1 .. run.pc :
               UpdatePath[i] \in Kinds /\ Restored(UpdatePath[i])
                 => Settled(UpdatePath[i], run.gen)'
  <2> SUFFICES ASSUME NEW i \in 1 .. run.pc,
                      UpdatePath[i] \in Kinds, Restored(UpdatePath[i])
               PROVE  Settled(UpdatePath[i], run.gen)'
    OBVIOUS
  <2>1. run.pc \in 1 .. 17 /\ UpdatePath[run.pc] = s
    BY <1>3, <1>9, UpdatePathFacts DEF Path
  <2>2. CASE i = run.pc
    BY <1>1, <1>9, <2>1, <2>2
  <2>3. CASE i # run.pc
    <3>1. i \in 1 .. run.pc - 1
      BY <2>1, <2>3
    <3>2. Settled(UpdatePath[i], run.gen)
      BY <1>3, <1>9, <2>1, <3>1 DEF Inv, StepsDone
    <3>3. UpdatePath[i] # s
      BY <2>1, <2>3, UpdatePathFacts
    <3> QED BY <1>2, <1>4, <3>2, <3>3 DEF Settled, UpToDate
  <2> QED BY <2>2, <2>3
<1>10. StepsDone'
  <2> SUFFICES ASSUME run'.at = "steps", ~run'.deleted, run'.err = NoErr, ~queued',
                      ~pmi'.deleted, ~NamespaceLost'
               PROVE  \A i \in 1 .. run'.pc - 1 :
                        UpdatePath[i] \in Kinds /\ Restored(UpdatePath[i])
                          => Settled(UpdatePath[i], run.gen)'
    BY <1>4 DEF StepsDone, Restored
  <2>1. ~run.deleted /\ run.err = NoErr /\ ~queued /\ ~pmi.deleted /\ res = Ok
    BY <1>2, <1>4
  <2>2. run.pc \in 1 .. 17 /\ UpdatePath[run.pc] = s /\ run'.pc = run.pc + 1
    BY <1>3, <1>4, <2>1, UpdatePathFacts DEF Path
  <2>3. ~NamespaceLost \/ run.pc = 1
    <3> SUFFICES ASSUME NamespaceLost, run.pc # 1 PROVE FALSE
      OBVIOUS
    <3>1. s # "ServiceAccount" /\ s # "Namespace"
      BY <1>1, <2>1, <2>2, UpdatePathFacts DEF NamespaceLost
    <3>2. obj'["Namespace"] = 0 /\ run.pc # 9
      BY <1>2, <2>2, <3>1, UpdatePathFacts DEF NamespaceLost, Kinds, Cluster
    <3>3. run.pc + 1 <= 9
      BY <2>2, <3>2 DEF NamespaceLost
    <3> QED BY <2>2, <3>2, <3>3 DEF NamespaceLost
  <2>4. 1 .. run'.pc - 1 = 1 .. run.pc
    BY <2>2
  <2> QED BY <1>9, <2>1, <2>3, <2>4
<1>11. CleanRunDone'
  <2> SUFFICES ASSUME run'.at = "status", ~run'.deleted, run'.err = NoErr, ~run'.again,
                      ~queued', ~pmi'.deleted, NEW k \in Kinds, Restored(k)
               PROVE  Settled(k, run.gen)'
    BY <1>4 DEF CleanRunDone, AllSettled, Restored
  <2>1. PICK i \in 1 .. 16 : UpdatePath[i] = k
    BY UpdatePathFacts
  <2>2. run.pc = 17
    BY <1>4, UpdatePathFacts DEF Path
  <2>3. Settled(UpdatePath[i], run.gen)'
    <3>1. ~run.deleted /\ run.err = NoErr /\ ~queued /\ ~pmi.deleted /\ res = Ok
      BY <1>2, <1>4
    <3>2. i \in 1 .. run.pc /\ UpdatePath[i] \in Kinds /\ Restored(UpdatePath[i])
      BY <2>1, <2>2
    <3>3. ~NamespaceLost
      BY <2>2 DEF NamespaceLost
    <3> QED BY <1>9, <3>1, <3>2, <3>3
  <2> QED BY <2>1, <2>3 DEF Settled, UpToDate
<1>12. RestSettled'
  BY <1>4 DEF RestSettled, AtRest
<1> QED BY <1>2, <1>6, <1>7, <1>8, <1>10, <1>11, <1>12 DEF Inv

(***************************************************************************)
(* The sub-reconcilers are such steps.                                     *)
(***************************************************************************)
SomeStep ==
  \E s : /\ At(s) /\ Stepped(s)
         /\ s = "Namespace" => ~run.deleted
         /\ s = "KubeRBACProxyObjectsChecker" => KubeRBACProxyObjectsChecker

LEMMA SubReconcilersStep ==
  ASSUME Inv,
         \/ UpdateNamespace \/ SecretMounter \/ UpdateResources
         \/ KubeRBACProxyConfigReconciler \/ CABundleConfigReconciler
         \/ UWMSecretTokenReconciler \/ PowerMonitorDeployer
         \/ KubeRBACProxyObjectsChecker \/ PowerMonitorServiceMonitorReconciler
         \/ DeleteResources
  PROVE  SomeStep
<1>0. TypeOK /\ OpenShiftOnlyKinds /\ OpenShift \in BOOLEAN
  BY OpenShiftAssumption DEF Inv
<1>k. /\ "Namespace" \in Kinds /\ "KubeRBACProxyConfig" \in Kinds
      /\ "CABundle" \in Kinds /\ "UWMSecretToken" \in Kinds
      /\ "ConfigMap" \in Kinds /\ "ServiceMonitor" \in Kinds
      /\ "SecretMounter" \notin Kinds /\ "KubeRBACProxyObjectsChecker" \notin Kinds
  BY DEF Kinds, Cluster, Namespaced
<1>a. "Continue" \in Actions /\ "Requeue" \in Actions
  BY DEF Actions
<1>r. /\ Result("Stop", OtherError) \in Results /\ Result("Stop", OtherError) # Ok
      /\ Result("Continue", SecretNotFoundError) \in Results
      /\ Ok \in Results
  BY ResultFacts DEF Ok, Result, Actions, Errors, OtherError, NoErr
<1>1. ASSUME UpdateNamespace PROVE At("Namespace") /\ Stepped("Namespace")
  <2>1. Wanted(RunSpec, "Namespace") /\ "Namespace" \notin OpenShiftOnly
    BY DEF Wanted, OpenShiftOnly
  <2> QED BY <1>0, <1>1, <1>k, <1>a, <2>1, UpdateSteps DEF UpdateNamespace, At
<1>2. ASSUME SecretMounter PROVE At("SecretMounter") /\ Stepped("SecretMounter")
  BY <1>0, <1>2, <1>k, <1>r, ReturnSteps DEF SecretMounter
<1>3. ASSUME UpdateResources
      PROVE  \E s \in Kinds : At(s) /\ Stepped(s) /\ s # "Namespace"
  <2>1. PICK k \in {"ClusterRole", "ClusterRoleBinding", "SCC", "ServiceAccount",
                    "Service", "DaemonSet", "OverviewDashboard",
                    "NamespaceInfoDashboard"} :
          /\ ~run.deleted /\ At(k)
          /\ IF k \in OpenShiftOnly /\ ~OpenShift THEN Return(Ok)
                                                  ELSE Update(k, "Continue")
    BY <1>3 DEF UpdateResources
  <2>2. k \in Kinds
    BY DEF Kinds, Cluster, Namespaced
  <2>3. CASE k \in OpenShiftOnly /\ ~OpenShift
    <3>1. Settled(k, run.gen)
      BY <1>0, <2>3 DEF Settled, UpToDate, Wanted, OpenShiftOnlyKinds
    <3>2. k # "ServiceAccount"
      BY <2>3 DEF OpenShiftOnly
    <3> QED BY <1>0, <1>r, <2>1, <2>2, <2>3, <3>1, <3>2, ReturnSteps
  <2>4. CASE ~(k \in OpenShiftOnly /\ ~OpenShift)
    <3>1. Wanted(RunSpec, k)
      BY <2>4 DEF Wanted
    <3> QED BY <1>0, <1>a, <2>1, <2>2, <2>4, <3>1, UpdateSteps DEF At
  <2> QED BY <2>3, <2>4
<1>4. ASSUME KubeRBACProxyConfigReconciler
      PROVE  At("KubeRBACProxyConfig") /\ Stepped("KubeRBACProxyConfig")
  <2>1. /\ Wanted(RunSpec, "KubeRBACProxyConfig") <=> EnableRBAC(RunSpec)
        /\ "KubeRBACProxyConfig" \notin OpenShiftOnly
    BY DEF Wanted, OpenShiftOnly
  <2> QED BY <1>0, <1>4, <1>k, <1>a, <2>1, UpdateSteps, DeleteSteps
          DEF KubeRBACProxyConfigReconciler, At
<1>5. ASSUME CABundleConfigReconciler PROVE At("CABundle") /\ Stepped("CABundle")
  <2>1. /\ Wanted(RunSpec, "CABundle") <=> EnableRBAC(RunSpec) /\ EnableUWM(RunSpec)
        /\ "CABundle" \notin OpenShiftOnly
    BY DEF Wanted, OpenShiftOnly
  <2> QED BY <1>0, <1>5, <1>k, <1>a, <2>1, UpdateSteps, DeleteSteps
          DEF CABundleConfigReconciler, At
<1>6. ASSUME UWMSecretTokenReconciler
      PROVE  At("UWMSecretToken") /\ Stepped("UWMSecretToken")
  <2>1. /\ Wanted(RunSpec, "UWMSecretToken") <=> EnableRBAC(RunSpec) /\ EnableUWM(RunSpec)
        /\ "UWMSecretToken" \notin OpenShiftOnly
    BY DEF Wanted, OpenShiftOnly
  <2>2. CASE ~(EnableRBAC(RunSpec) /\ EnableUWM(RunSpec))
    BY <1>0, <1>6, <1>k, <1>a, <2>1, <2>2, DeleteSteps DEF UWMSecretTokenReconciler, At
  <2>3. CASE EnableRBAC(RunSpec) /\ EnableUWM(RunSpec)
    <3>1. InCache("UWMSecretToken") /\ Restored("UWMSecretToken")
            => Settled("UWMSecretToken", run.gen)
      BY <2>1, <2>3 DEF Settled, UpToDate, RunSpec, InCache, Exists, Restored, Watched
    <3>2. \/ \E res \in {Result("Stop", OtherError)} : Return(res) \/ FailRead(res)
          \/ InCache("UWMSecretToken") /\ Return(Ok)
          \/ Update("UWMSecretToken", "Continue")
      BY <1>6, <2>3 DEF UWMSecretTokenReconciler
    <3>3. run.at = "steps" /\ At("UWMSecretToken")
      BY <1>6 DEF UWMSecretTokenReconciler, At
    <3>4. CASE \E res \in {Result("Stop", OtherError)} : Return(res) \/ FailRead(res)
      BY <1>0, <1>r, <3>3, <3>4, ReturnSteps
    <3>5. CASE InCache("UWMSecretToken") /\ Return(Ok)
      BY <1>0, <1>r, <3>1, <3>3, <3>5, ReturnSteps
    <3>6. CASE Update("UWMSecretToken", "Continue")
      BY <1>0, <1>k, <1>a, <2>1, <2>3, <3>3, <3>6, UpdateSteps
    <3> QED BY <3>2, <3>4, <3>5, <3>6
  <2> QED BY <2>2, <2>3
<1>7. ASSUME PowerMonitorDeployer PROVE At("ConfigMap") /\ Stepped("ConfigMap")
  <2>1. Wanted(RunSpec, "ConfigMap") /\ "ConfigMap" \notin OpenShiftOnly
    BY DEF Wanted, OpenShiftOnly
  <2>2. run.at = "steps" /\ At("ConfigMap")
    BY <1>7 DEF PowerMonitorDeployer, At
  <2>3. CASE \E res \in {Result("Stop", OtherError)} : Return(res) \/ FailRead(res)
    BY <1>0, <1>r, <2>2, <2>3, ReturnSteps
  <2>4. CASE Update("ConfigMap", "Continue")
    BY <1>0, <1>k, <1>a, <2>1, <2>2, <2>4, UpdateSteps
  <2> QED BY <1>7, <2>3, <2>4 DEF PowerMonitorDeployer
<1>8. ASSUME KubeRBACProxyObjectsChecker
      PROVE  At("KubeRBACProxyObjectsChecker") /\ Stepped("KubeRBACProxyObjectsChecker")
  BY <1>0, <1>8, <1>k, <1>r, ReturnSteps DEF KubeRBACProxyObjectsChecker
<1>9. ASSUME PowerMonitorServiceMonitorReconciler
      PROVE  At("ServiceMonitor") /\ Stepped("ServiceMonitor")
  <2>1. /\ Wanted(RunSpec, "ServiceMonitor") <=> ~(EnableRBAC(RunSpec) /\ ~EnableUWM(RunSpec))
        /\ "ServiceMonitor" \notin OpenShiftOnly
    BY DEF Wanted, OpenShiftOnly
  <2> QED BY <1>0, <1>9, <1>k, <1>a, <2>1, UpdateSteps, DeleteSteps
          DEF PowerMonitorServiceMonitorReconciler, At
<1>10. ASSUME DeleteResources
       PROVE  \E s \in Kinds : At(s) /\ Stepped(s) /\ s # "Namespace"
  <2>1. PICK k \in {"ClusterRoleBinding", "ClusterRole", "OverviewDashboard",
                    "NamespaceInfoDashboard"} :
          /\ run.deleted /\ At(k)
          /\ IF k \in OpenShiftOnly /\ ~OpenShift THEN Return(Ok)
                                                  ELSE Delete(k, "Continue")
    BY <1>10 DEF DeleteResources
  <2>2. k \in Kinds
    BY DEF Kinds, Cluster
  <2>3. CASE Return(Ok)
    BY <1>0, <1>r, <2>1, <2>2, <2>3, ReturnSteps
  <2>4. CASE Delete(k, "Continue")
    BY <1>0, <1>a, <2>1, <2>2, <2>4, DeleteSteps DEF At
  <2> QED BY <2>1, <2>3, <2>4
<1>11. UpdateNamespace => ~run.deleted
  BY DEF UpdateNamespace
<1>12. CASE UpdateNamespace
  BY <1>1, <1>11, <1>12 DEF SomeStep
<1>13. CASE UpdateResources \/ DeleteResources
  BY <1>k, <1>3, <1>10, <1>13 DEF SomeStep
<1>14. CASE KubeRBACProxyObjectsChecker
  BY <1>8, <1>14 DEF SomeStep
<1>15. CASE \/ SecretMounter \/ KubeRBACProxyConfigReconciler \/ CABundleConfigReconciler
            \/ UWMSecretTokenReconciler \/ PowerMonitorDeployer
            \/ PowerMonitorServiceMonitorReconciler
  <2>1. PICK s \in {"SecretMounter", "KubeRBACProxyConfig", "CABundle", "UWMSecretToken",
                    "ConfigMap", "ServiceMonitor"} : At(s) /\ Stepped(s)
    BY <1>2, <1>4, <1>5, <1>6, <1>7, <1>9, <1>15
  <2>2. s # "Namespace" /\ s # "KubeRBACProxyObjectsChecker"
    OBVIOUS
  <2> QED BY <2>1, <2>2 DEF SomeStep
<1> QED BY <1>12, <1>13, <1>14, <1>15

\* Hence they keep the invariant.
LEMMA SubReconcilersInv ==
  ASSUME Inv,
         \/ UpdateNamespace \/ SecretMounter \/ UpdateResources
         \/ KubeRBACProxyConfigReconciler \/ CABundleConfigReconciler
         \/ UWMSecretTokenReconciler \/ PowerMonitorDeployer
         \/ KubeRBACProxyObjectsChecker \/ PowerMonitorServiceMonitorReconciler
         \/ DeleteResources
  PROVE  Inv'
<1>1. SomeStep
  BY SubReconcilersStep
<1>2. PICK s : At(s) /\ Stepped(s)
  BY <1>1 DEF SomeStep
<1> QED BY <1>2, SteppedInv

(***************************************************************************)
(* The remaining steps of a reconcile.                                     *)
(***************************************************************************)
\* A step of a cleanup run, whatever it does to the cluster, has nothing to keep
\* up but the types.
LEMMA CleanupStepInv ==
  ASSUME Inv, run.at \in {"steps", "wait"}, run.deleted, NEW res \in Results,
         \/ Advance(res) /\ UNCHANGED <<obj, terminating>>
         \/ run' = [run EXCEPT !.at = "wait"] /\ terminating' = TRUE /\ UNCHANGED obj,
         UNCHANGED <<specs, pmi, cache, queued, ext, stale, held, ds>>,
         faults' \in 0 .. MaxFaults
  PROVE  Inv'
<1>1. run \in Runs /\ run.pc \in 1 .. Len(Path) /\ pmi.deleted
  BY DEF Inv, TypeOK, DeletionIsFinal
<1>2. /\ run' \in Runs /\ run'.gen = run.gen /\ run'.deleted
      /\ run'.at \in {"steps", "wait", "status"}
      /\ run'.at \in {"steps", "wait"} => run'.pc \in 1 .. Len(Path)
  <2>1. CASE Advance(res)
    <3>1. Len(Path) \in Nat
      BY UpdatePathFacts, CleanupPathFacts DEF Path
    <3>2. /\ run' \in Runs /\ run'.gen = run.gen /\ run'.deleted = run.deleted
          /\ run'.at \in {"steps", "status"}
          /\ run'.at = "steps" => run'.pc = run.pc + 1 /\ run.pc < Len(Path)
      BY <1>1, <2>1, AdvanceFacts
    <3>3. run'.at \in {"steps", "wait"} => run'.pc \in 1 .. Len(Path)
      BY <1>1, <3>1, <3>2
    <3> QED BY <3>2, <3>3
  <2>2. CASE run' = [run EXCEPT !.at = "wait"]
    BY <1>1, <2>2 DEF Runs
  <2> QED BY <2>1, <2>2
<1>3. Path' = Path
  BY <1>2 DEF Path
<1>4. TypeOK'
  BY <1>1, <1>2, <1>3 DEF Inv, TypeOK
<1>5. DeletionIsFinal' /\ RunIsCurrent' /\ OpenShiftOnlyKinds'
  BY <1>1, <1>2 DEF Inv, DeletionIsFinal, RunIsCurrent, OpenShiftOnlyKinds
<1>6. StepsDone' /\ CleanRunDone' /\ RestSettled'
  BY <1>2 DEF StepsDone, CleanRunDone, RestSettled, AtRest
<1> QED BY <1>4, <1>5, <1>6 DEF Inv

\* The deletion of the namespace and the wait for it.
LEMMA NamespaceDeleterInv ==
  ASSUME Inv, DeleteNamespace \/ AwaitNamespace
  PROVE  Inv'
<1>1. /\ run.at \in {"steps", "wait"} /\ run.deleted
      /\ UNCHANGED <<specs, pmi, cache, queued, ext, stale, held, ds>>
  BY DEF DeleteNamespace, AwaitNamespace, At, Inv, DeletionIsFinal, Return, FailRead,
         request, proxy
<1>2. faults' \in 0 .. MaxFaults
  BY FaultType DEF DeleteNamespace, AwaitNamespace, Return, FailRead, Inv, TypeOK
<1>3. \E res \in Results :
        \/ Advance(res) /\ UNCHANGED <<obj, terminating>>
        \/ run' = [run EXCEPT !.at = "wait"] /\ terminating' = TRUE /\ UNCHANGED obj
  <2>1. "Requeue" \in Actions /\ Ok \in Results
    BY ResultFacts DEF Actions
  <2>2. \A o \in {"gone", "timeout", "error"} : DeleterResult(o, "Requeue") \in Results
    BY <2>1, ResultFacts
  <2>3. CASE \E o \in {"gone", "timeout", "error"} :
               /\ Return(DeleterResult(o, "Requeue")) \/ FailRead(DeleterResult(o, "Requeue"))
    BY <2>2, <2>3 DEF Return, FailRead
  <2>4. CASE run' = [run EXCEPT !.at = "wait"] /\ terminating' = TRUE /\ UNCHANGED obj
    BY <2>1, <2>4
  <2> QED BY <2>3, <2>4 DEF DeleteNamespace, AwaitNamespace
<1> QED BY <1>1, <1>2, <1>3, CleanupStepInv

\* Finalizer, the last step of both paths: it adds or removes the finalizer.
LEMMA FinalizerInv ==
  ASSUME Inv, Finalizer
  PROVE  Inv'
<1>1. At("Finalizer") /\ "Finalizer" \notin Kinds /\ TypeOK /\ OpenShiftOnlyKinds
  BY DEF Finalizer, Kinds, Cluster, Namespaced, Inv
<1>2. /\ Ok \in Results /\ Result("Stop", OtherError) \in Results
      /\ Result("Requeue", OtherError) \in Results
      /\ Result("Stop", NoErr) \in Results /\ Result("Stop", NoErr) # Ok
  BY ResultFacts DEF Actions, Errors, Ok, Result
<1>3. CASE \E res \in {Ok, Result("Stop", OtherError), Result("Requeue", OtherError)} :
             Return(res) \/ FailRead(res)
  BY <1>1, <1>2, <1>3, ReturnSteps, SteppedInv
<1>4. CASE /\ cache = pmi /\ NoFault
           /\ cache.live
           /\ \/ pmi.deleted /\ pmi' = Gone
              \/ ~pmi.deleted /\ pmi' = [pmi EXCEPT !.fin = TRUE]
           /\ Advance(Result("Stop", NoErr))
           /\ UNCHANGED <<specs, cache, queued, obj, terminating, ext, stale, held, ds>>
  <2>1. run \in Runs /\ run.pc \in 1 .. Len(Path) /\ run.at = "steps" /\ pmi \in Pmis
    BY <1>1 DEF TypeOK, At
  <2>2. /\ run' \in Runs /\ run'.gen = run.gen /\ run'.deleted = run.deleted
        /\ run'.at = "status" /\ (run'.err = NoErr => run'.again)
    <3>1. run'.at = "status"
      BY <1>4 DEF Advance, EndsRun, Result, Runs, TypeOK
    <3> QED BY <1>2, <1>4, <2>1, <3>1, AdvanceFacts DEF Runs
  <2>3. pmi' \in Pmis /\ pmi'.deleted = pmi.deleted /\ (pmi'.live => pmi'.gen = pmi.gen)
        /\ (~pmi'.live => pmi'.deleted)
    <3>1. CASE pmi' = Gone /\ pmi.deleted
      BY <3>1, GoneType DEF Gone
    <3>2. CASE ~pmi.deleted /\ pmi' = [pmi EXCEPT !.fin = TRUE]
      BY <1>4, <2>1, <3>2 DEF Pmis, Inv, DeletionIsFinal
    <3> QED BY <1>4, <3>1, <3>2
  <2>4. TypeOK'
    <3>1. run'.gen \in 1 .. Len(specs)
      BY <1>1, <2>1, <2>2 DEF TypeOK
    <3>2. pmi'.live => pmi'.gen = Len(specs')
      BY <1>4, <2>3, <1>1 DEF TypeOK
    <3> QED BY <1>1, <1>4, <2>2, <2>3, <3>1, <3>2 DEF TypeOK, NoFault
  <2>5. DeletionIsFinal' /\ RunIsCurrent' /\ OpenShiftOnlyKinds'
    BY <1>4, <2>1, <2>2, <2>3 DEF Inv, DeletionIsFinal, RunIsCurrent, OpenShiftOnlyKinds
  <2>6. StepsDone' /\ CleanRunDone' /\ RestSettled'
    BY <2>2 DEF StepsDone, CleanRunDone, RestSettled, AtRest
  <2> QED BY <2>4, <2>5, <2>6 DEF Inv
<1> QED BY <1>3, <1>4 DEF Finalizer, proxy

(***************************************************************************)
(* The end of a reconcile.                                                 *)
(***************************************************************************)
\* A run that ends leaves nothing to keep up but RestSettled.
LEMMA EndInv ==
  ASSUME Inv, run' \in {Idle, Skipped},
         UNCHANGED <<specs, cache, obj, terminating, ext, stale, ds>>,
         held' \subseteq ProxySecrets, pmi' \in Pmis, pmi'.live = pmi.live, pmi'.gen = pmi.gen,
         pmi'.deleted = pmi.deleted, queued' \in BOOLEAN, faults' \in 0 .. MaxFaults,
         RestSettled'
  PROVE  Inv'
<1>1. /\ run' \in Runs /\ run'.at = "idle" /\ ~(run'.at \in {"steps", "wait", "status"})
  <2>1. Idle \in Runs /\ Idle.at = "idle"
    BY DEF Idle, Runs, Errors
  <2>2. Skipped \in Runs /\ Skipped.at = "idle"
    BY <2>1 DEF Skipped, Runs, Errors
  <2> QED BY <2>1, <2>2
<1>2. TypeOK'
  <2>1. /\ specs \in Seq(Specs) /\ specs # <<>> /\ cache \in Pmis
        /\ pmi.live => pmi.gen = Len(specs)
        /\ cache.live => cache.gen \in 1 .. Len(specs)
        /\ obj \in [Kinds -> 0 .. Len(specs)] /\ terminating \in BOOLEAN
        /\ ext \in [secrets : SUBSET Secrets, config : BOOLEAN, account : BOOLEAN,
                    tls : BOOLEAN]
        /\ ds \in [status : Counts, synced : BOOLEAN]
        /\ stale \subseteq ProxyObjects
    BY DEF Inv, TypeOK
  <2> QED BY <1>1, <2>1 DEF TypeOK
<1>3. DeletionIsFinal' /\ RunIsCurrent' /\ OpenShiftOnlyKinds'
  BY <1>1 DEF Inv, DeletionIsFinal, RunIsCurrent, OpenShiftOnlyKinds
<1>4. StepsDone' /\ CleanRunDone'
  BY <1>1 DEF StepsDone, CleanRunDone
<1> QED BY <1>2, <1>3, <1>4 DEF Inv

\* The status is written only when it changes, so after a write the cache is behind
\* and the controller will look again; without one the status already says what it
\* would say, for the cached generation.
LEMMA UpdateStatusInv ==
  ASSUME Inv, UpdateStatus
  PROVE  Inv'
<1>1. /\ run.at = "status" /\ run \in Runs /\ cache \in Pmis /\ pmi \in Pmis
      /\ ds.status \in Counts /\ ds.synced \in BOOLEAN /\ queued \in BOOLEAN
      /\ faults \in 0 .. MaxFaults /\ run.err \in Errors /\ run.again \in BOOLEAN
  BY DEF UpdateStatus, Inv, TypeOK, Runs
<1>2. /\ UNCHANGED <<specs, cache, obj, terminating, ext, stale, held, ds>>
      /\ held \subseteq ProxySecrets
  BY DEF UpdateStatus, proxy, Inv, TypeOK
<1>3. CASE ~cache.live \/ cache.deleted
  <2>1. End(FALSE) /\ NoFault /\ UNCHANGED pmi
    BY <1>3 DEF UpdateStatus
  <2>2. queued' \in BOOLEAN /\ run' = Idle /\ faults' \in 0 .. MaxFaults
    BY <1>1, <2>1 DEF End, NoFault
  <2>3. ~AtRest'
    BY <1>2, <1>3, <2>1 DEF AtRest
  <2> QED BY <1>1, <1>2, <2>1, <2>2, <2>3, EndInv DEF RestSettled
<1>4. CASE cache.live /\ ~cache.deleted
  <2> DEFINE rec == ReconciledCondition(cache.gen, run.err)
  <2>1. PICK available \in {AvailableCondition(cache.gen, run.err, obj["DaemonSet"] # 0,
                                               ds.status, ds.synced),
                            DaemonSetGetErrorCondition} :
          /\ IF available = DaemonSetGetErrorCondition THEN Fault ELSE NoFault
          /\ LET new == [cache EXCEPT !.reconciled = rec, !.available = available]
             IN  \/ new = cache /\ End(FALSE) /\ UNCHANGED pmi
                 \/ new # cache /\ cache = pmi /\ End(FALSE) /\ pmi' = new
                 \/ new # cache /\ cache # pmi /\ End(TRUE) /\ UNCHANGED pmi
    BY <1>4 DEF UpdateStatus
  <2> DEFINE new == [cache EXCEPT !.reconciled = rec, !.available = available]
  <2>2. faults' \in 0 .. MaxFaults
    BY <1>1, <2>1, FaultType
  <2>3. rec \in Conditions /\ available \in Conditions
    <3>1. cache.gen \in Nat
      BY <1>1 DEF Pmis
    <3>2. rec \in Conditions
      BY <1>1, <3>1, ReconciledConditionType
    <3>3. (obj["DaemonSet"] # 0) \in BOOLEAN
      OBVIOUS
    <3>4. /\ AvailableCondition(cache.gen, run.err, obj["DaemonSet"] # 0, ds.status,
                                ds.synced) \in Conditions
          /\ DaemonSetGetErrorCondition \in Conditions
      BY <1>1, <3>1, <3>3, AvailableConditionType, Zenon
    <3> QED BY <3>2, <3>4
  <2>4. /\ new \in Pmis /\ new.live = cache.live /\ new.gen = cache.gen
        /\ new.deleted = cache.deleted
        /\ new = cache => cache.reconciled = rec
    BY <1>1, <2>3 DEF Pmis
  <2> HIDE DEF rec
  <2>5. CASE new = cache /\ End(FALSE) /\ UNCHANGED pmi
    <3>1. run' = Idle /\ queued' \in BOOLEAN
      BY <1>1, <2>5 DEF End
    <3>2. ASSUME AtRest'
          PROVE  /\ pmi'.reconciled = ReconciledCondition(pmi'.gen, NoErr)
                 /\ AllSettled(pmi.gen)
      <4>1. /\ ~queued /\ run.err = NoErr /\ ~run.again /\ cache = pmi
            /\ pmi.live /\ ~pmi.deleted
        BY <1>1, <1>2, <2>5, <3>2 DEF End, AtRest
      <4>2. run.gen = cache.gen /\ ~run.deleted
        BY <1>1, <4>1 DEF Inv, RunIsCurrent
      <4>3. AllSettled(pmi.gen)
        BY <1>1, <4>1, <4>2 DEF Inv, CleanRunDone
      <4> QED BY <2>4, <2>5, <4>1, <4>3 DEF rec
    <3>3. RestSettled'
      <4> SUFFICES ASSUME AtRest'
                   PROVE  /\ pmi'.reconciled = ReconciledCondition(pmi'.gen, NoErr)
                          /\ \A k \in Kinds : Restored(k) => Settled(k, pmi.gen)'
        BY <2>5 DEF RestSettled, AllSettled, Restored
      <4> QED BY <1>2, <2>5, <3>2 DEF AllSettled, Settled, UpToDate
    <3> QED BY <1>1, <1>2, <2>2, <2>5, <3>1, <3>3, EndInv
  <2>6. CASE new # cache /\ cache = pmi /\ End(FALSE) /\ pmi' = new
    <3>1. run' = Idle /\ queued' \in BOOLEAN
      BY <1>1, <2>6 DEF End
    <3>2. RestSettled'
      BY <1>2, <2>6 DEF RestSettled, AtRest
    <3> QED BY <1>1, <1>2, <2>2, <2>4, <2>6, <3>1, <3>2, EndInv
  <2>7. CASE new # cache /\ cache # pmi /\ End(TRUE) /\ UNCHANGED pmi
    <3>1. run' = Idle /\ queued' \in BOOLEAN
      BY <1>1, <2>7 DEF End
    <3>2. RestSettled'
      BY <1>2, <2>7 DEF RestSettled, AtRest
    <3> QED BY <1>1, <1>2, <2>2, <2>7, <3>1, <3>2, EndInv
  <2> QED BY <2>1, <2>5, <2>6, <2>7
<1> QED BY <1>3, <1>4

\* A failed status update is retried.
LEMMA UpdateStatusFailsInv ==
  ASSUME Inv, UpdateStatusFails
  PROVE  Inv'
<1>1. /\ UNCHANGED <<specs, pmi, cache, obj, terminating, ext, stale, held, ds>>
      /\ run' = Idle /\ queued' = TRUE /\ pmi \in Pmis /\ held \subseteq ProxySecrets
  BY DEF UpdateStatusFails, End, Inv, TypeOK, proxy
<1>2. faults' \in 0 .. MaxFaults
  BY FaultType DEF UpdateStatusFails, Inv, TypeOK
<1>3. RestSettled'
  BY <1>1 DEF RestSettled, AtRest
<1> QED BY <1>1, <1>2, <1>3, EndInv

\* A status update that cannot read the PMI: the objects are up to date if nothing
\* else is due.
LEMMA StatusReadFailsInv ==
  ASSUME Inv, StatusReadFails
  PROVE  Inv'
<1>1. /\ UNCHANGED <<specs, pmi, cache, obj, terminating, ext, stale, held, ds>>
      /\ run' = Skipped /\ pmi \in Pmis /\ run.at = "status" /\ held \subseteq ProxySecrets
      /\ queued' = (queued \/ run.err # NoErr \/ run.again)
      /\ queued \in BOOLEAN /\ run.again \in BOOLEAN
  BY DEF StatusReadFails, Inv, TypeOK, Runs, proxy
<1>2. queued' \in BOOLEAN
  BY <1>1
<1>3. faults' \in 0 .. MaxFaults
  BY FaultType DEF StatusReadFails, Inv, TypeOK
<1>4. RestSettled'
  <2> SUFFICES ASSUME AtRest'
               PROVE  \A k \in Kinds : Restored(k) => Settled(k, pmi.gen)'
    BY <1>1 DEF RestSettled, AllSettled, Restored
  <2>1. /\ ~queued /\ run.err = NoErr /\ ~run.again /\ cache = pmi
        /\ pmi.live /\ ~pmi.deleted
    BY <1>1 DEF AtRest
  <2>2. run.gen = cache.gen /\ ~run.deleted
    BY <1>1, <2>1 DEF Inv, RunIsCurrent
  <2>3. AllSettled(pmi.gen)
    BY <1>1, <2>1, <2>2 DEF Inv, CleanRunDone
  <2> QED BY <1>1, <2>3 DEF AllSettled, Settled, UpToDate
<1> QED BY <1>1, <1>2, <1>3, <1>4, EndInv

(***************************************************************************)
(* Steps outside a reconcile.                                              *)
(***************************************************************************)
\* A queued request excuses everything the run and the objects have to keep up.
LEMMA QueuedInv ==
  ASSUME Inv, queued' = TRUE, run' \in {run, Idle}, cache' \in {cache, pmi},
         UNCHANGED <<specs, pmi, obj, terminating, ext, ds>>,
         stale' \subseteq ProxyObjects, held' \subseteq ProxySecrets,
         faults' \in 0 .. MaxFaults
  PROVE  Inv'
<1>1. /\ specs \in Seq(Specs) /\ specs # <<>> /\ pmi \in Pmis /\ cache \in Pmis
      /\ pmi.live => pmi.gen = Len(specs)
      /\ cache.live => cache.gen \in 1 .. Len(specs)
      /\ run \in Runs /\ (run.at # "idle" => run.gen \in 1 .. Len(specs))
      /\ run.at \in {"steps", "wait"} => run.pc \in 1 .. Len(Path)
      /\ obj \in [Kinds -> 0 .. Len(specs)] /\ terminating \in BOOLEAN
      /\ ext \in [secrets : SUBSET Secrets, config : BOOLEAN, account : BOOLEAN,
                  tls : BOOLEAN]
      /\ ds \in [status : Counts, synced : BOOLEAN]
  BY DEF Inv, TypeOK
<1>2. Len(specs) \in 1 .. Len(specs)
  BY <1>1
<1>3. Idle \in Runs /\ Idle.at = "idle"
  BY DEF Idle, Runs, Errors
<1>4. run'.at \in {"steps", "wait"} => run'.pc \in 1 .. Len(Path')
  BY <1>1, <1>3 DEF Path
<1>5. TypeOK'
  BY <1>1, <1>2, <1>3, <1>4 DEF TypeOK
<1>6. DeletionIsFinal' /\ RunIsCurrent' /\ OpenShiftOnlyKinds'
  BY <1>3 DEF Inv, DeletionIsFinal, RunIsCurrent, OpenShiftOnlyKinds
<1>7. StepsDone' /\ CleanRunDone' /\ RestSettled'
  BY DEF StepsDone, CleanRunDone, RestSettled, AtRest
<1> QED BY <1>5, <1>6, <1>7 DEF Inv

\* Deliveries of the cache, other requests, and crashes.
LEMMA RequestsInv ==
  ASSUME Inv, SyncCache \/ Wake \/ Crash
  PROVE  Inv'
<1>1. faults' \in 0 .. MaxFaults
  BY FaultType DEF SyncCache, Wake, Crash, Inv, TypeOK, NoFault
<1>2. stale' \subseteq ProxyObjects /\ held' \subseteq ProxySecrets
  BY DEF SyncCache, Wake, Crash, proxy, Inv, TypeOK
<1> QED BY <1>1, <1>2, QueuedInv DEF SyncCache, Wake, Crash

\* A reconcile starts from the cached PMI with nothing done yet.
LEMMA StartInv ==
  ASSUME Inv, Start
  PROVE  Inv'
<1>1. /\ specs \in Seq(Specs) /\ specs # <<>> /\ pmi \in Pmis /\ cache \in Pmis
      /\ pmi.live => pmi.gen = Len(specs)
      /\ cache.live => cache.gen \in 1 .. Len(specs)
      /\ obj \in [Kinds -> 0 .. Len(specs)] /\ terminating \in BOOLEAN
      /\ ext \in [secrets : SUBSET Secrets, config : BOOLEAN, account : BOOLEAN,
                  tls : BOOLEAN]
      /\ ds \in [status : Counts, synced : BOOLEAN] /\ faults \in 0 .. MaxFaults
  BY DEF Inv, TypeOK
<1>2. /\ queued' = FALSE /\ stale \subseteq ProxyObjects /\ held' \subseteq ProxySecrets
      /\ UNCHANGED <<specs, pmi, cache, obj, terminating, ext, stale, ds, faults>>
  BY DEF Start, Inv, TypeOK
<1>3. CASE ~cache.live
  <2>1. run' = Idle
    BY <1>3 DEF Start
  <2>2. RestSettled'
    BY <1>2, <1>3 DEF RestSettled, AtRest
  <2> QED BY <1>1, <1>2, <2>1, <2>2, EndInv
<1>4. CASE cache.live
  <2>1. /\ run' \in Runs /\ run'.at = "steps" /\ run'.pc = 1 /\ run'.gen = cache.gen
        /\ run'.deleted = cache.deleted
    BY <1>1, <1>4 DEF Start, Idle, Runs, Errors, Pmis
  <2>2. run'.pc \in 1 .. Len(Path')
    <3>1. Path' \in {UpdatePath, CleanupPath}
      BY DEF Path
    <3>2. Len(Path') \in {17, 6}
      BY <3>1, UpdatePathFacts, CleanupPathFacts
    <3>3. 1 \in 1 .. Len(Path')
      BY <3>2
    <3> QED BY <2>1, <3>3
  <2>3. TypeOK'
    BY <1>1, <1>2, <1>4, <2>1, <2>2 DEF TypeOK
  <2>4. DeletionIsFinal' /\ RunIsCurrent' /\ OpenShiftOnlyKinds'
    BY <1>2, <1>4, <2>1 DEF Inv, DeletionIsFinal, RunIsCurrent, OpenShiftOnlyKinds
  <2>5. StepsDone' /\ CleanRunDone' /\ RestSettled'
    BY <2>1 DEF StepsDone, CleanRunDone, RestSettled, AtRest
  <2> QED BY <2>3, <2>4, <2>5 DEF Inv
<1> QED BY <1>3, <1>4

\* Events of objects the controller only reads: at most a request is queued.
LEMMA UnrelatedInv ==
  ASSUME Inv, UNCHANGED <<specs, pmi, cache, run, obj>>,
         terminating' \in BOOLEAN, queued' \in BOOLEAN, queued => queued',
         ext' \in [secrets : SUBSET Secrets, config : BOOLEAN, account : BOOLEAN,
                   tls : BOOLEAN],
         stale' \subseteq ProxyObjects, held' \subseteq ProxySecrets,
         \A k \in Kinds : k \in stale => k \in stale',
         ds' \in [status : Counts, synced : BOOLEAN], faults' \in 0 .. MaxFaults
  PROVE  Inv'
<1>1. Path' = Path
  BY DEF Path
<1>2. TypeOK'
  BY <1>1 DEF Inv, TypeOK
<1>3. \A k \in Kinds : \A g : Settled(k, g) => Settled(k, g)'
  BY DEF Settled, UpToDate
<1>4. DeletionIsFinal' /\ RunIsCurrent' /\ OpenShiftOnlyKinds'
  BY DEF Inv, DeletionIsFinal, RunIsCurrent, OpenShiftOnlyKinds
<1>5. StepsDone' /\ CleanRunDone' /\ RestSettled'
  BY <1>3 DEF Inv, StepsDone, NamespaceLost, CleanRunDone, AllSettled, RestSettled,
              AtRest
<1> QED BY <1>2, <1>4, <1>5 DEF Inv

\* Changes of what the operator only reads, and the DaemonSet controller.
LEMMA PlatformInv ==
  ASSUME Inv,
         \/ ChangeSecret \/ ChangeConfig \/ ChangeAccount \/ ServeCertificate
         \/ RemoveCertificate \/ DaemonSetProgress \/ RemoveNamespace
  PROVE  Inv'
<1>1. /\ ext \in [secrets : SUBSET Secrets, config : BOOLEAN, account : BOOLEAN,
                  tls : BOOLEAN]
      /\ ds \in [status : Counts, synced : BOOLEAN] /\ queued \in BOOLEAN
      /\ faults \in 0 .. MaxFaults
  BY DEF Inv, TypeOK
<1>2. UNCHANGED <<specs, pmi, cache, run, obj>> /\ terminating' \in BOOLEAN
  BY DEF ChangeSecret, ChangeConfig, ChangeAccount, ServeCertificate, RemoveCertificate, DaemonSetProgress,
         RemoveNamespace, Inv, TypeOK
<1>3. queued' \in BOOLEAN /\ (queued => queued')
  BY <1>1 DEF ChangeSecret, ChangeConfig, ChangeAccount, ServeCertificate,
              RemoveCertificate, DaemonSetProgress, RemoveNamespace, Notify
<1>4. faults' \in 0 .. MaxFaults
  BY <1>1, FaultType DEF ChangeSecret, ChangeConfig, ChangeAccount, ServeCertificate,
                         RemoveCertificate, DaemonSetProgress, RemoveNamespace, NoFault
<1>5. ext' \in [secrets : SUBSET Secrets, config : BOOLEAN, account : BOOLEAN,
                tls : BOOLEAN]
  <2>1. CASE ChangeSecret
    <3>1. PICK s \in Secrets : ext' = [ext EXCEPT !.secrets = @ \cup {s}]
                                \/ ext' = [ext EXCEPT !.secrets = @ \ {s}]
      BY <2>1 DEF ChangeSecret
    <3> QED BY <1>1, <3>1
  <2>2. CASE ChangeConfig
    BY <1>1, <2>2 DEF ChangeConfig
  <2>3. CASE ChangeAccount
    BY <1>1, <2>3 DEF ChangeAccount
  <2>4. CASE ServeCertificate \/ RemoveCertificate
    BY <1>1, <2>4 DEF ServeCertificate, RemoveCertificate
  <2>5. CASE DaemonSetProgress \/ RemoveNamespace
    BY <1>1, <2>5 DEF DaemonSetProgress, RemoveNamespace
  <2> QED BY <2>1, <2>2, <2>3, <2>4, <2>5
<1>6. ds' \in [status : Counts, synced : BOOLEAN]
  <2>1. CASE DaemonSetProgress
    <3>1. PICK d \in DsStatuses : ds' = [status |-> d, synced |-> TRUE]
      BY <2>1 DEF DaemonSetProgress
    <3>2. d \in Counts
      BY DsStatusesAssumption
    <3> QED BY <3>1, <3>2
  <2>2. CASE ~DaemonSetProgress
    BY <1>1, <2>2 DEF ChangeSecret, ChangeConfig, ChangeAccount, ServeCertificate,
                      RemoveCertificate, RemoveNamespace
  <2> QED BY <2>1, <2>2
<1>7. /\ stale' \subseteq ProxyObjects /\ held' \subseteq ProxySecrets
      /\ \A k \in Kinds : k \in stale => k \in stale'
  <2>1. stale \subseteq ProxyObjects /\ held \subseteq ProxySecrets /\ "TLS" \notin Kinds
    BY DEF Inv, TypeOK, Kinds, Cluster, Namespaced
  <2>2. CASE ServeCertificate
    BY <2>1, <2>2 DEF ServeCertificate, Made
  <2>3. CASE RemoveCertificate
    BY <2>1, <2>3 DEF RemoveCertificate, Lost
  <2>4. CASE ~(ServeCertificate \/ RemoveCertificate)
    BY <2>1, <2>4 DEF ChangeSecret, ChangeConfig, ChangeAccount, DaemonSetProgress,
                      RemoveNamespace, proxy
  <2> QED BY <2>2, <2>3, <2>4
<1> QED BY <1>2, <1>3, <1>4, <1>5, <1>6, <1>7, UnrelatedInv

\* The garbage collector and the request to go.
LEMMA DeletedInv ==
  ASSUME Inv, pmi'.deleted, pmi' \in Pmis, pmi'.live => pmi.live /\ pmi'.gen = pmi.gen,
         UNCHANGED <<specs, cache, queued, run, stale, held, faults>>,
         terminating' \in BOOLEAN,
         \A k \in Kinds : obj'[k] \in {0, obj[k]}, obj' \in [Kinds -> 0 .. Len(specs)],
         ext' \in [secrets : SUBSET Secrets, config : BOOLEAN, account : BOOLEAN,
                   tls : BOOLEAN],
         ds' \in [status : Counts, synced : BOOLEAN]
  PROVE  Inv'
<1>1. Path' = Path
  BY DEF Path
<1>2. /\ specs \in Seq(Specs) /\ specs # <<>> /\ cache \in Pmis
      /\ pmi.live => pmi.gen = Len(specs)
      /\ cache.live => cache.gen \in 1 .. Len(specs)
      /\ run \in Runs /\ (run.at # "idle" => run.gen \in 1 .. Len(specs))
      /\ run.at \in {"steps", "wait"} => run.pc \in 1 .. Len(Path)
      /\ queued \in BOOLEAN /\ faults \in 0 .. MaxFaults
      /\ stale \subseteq ProxyObjects /\ held \subseteq ProxySecrets
  BY DEF Inv, TypeOK
<1>3. TypeOK'
  BY <1>1, <1>2 DEF TypeOK
<1>4. OpenShiftOnlyKinds'
  <2>1. OpenShiftOnly \subseteq Kinds
    BY DEF OpenShiftOnly, Kinds, Cluster
  <2> QED BY <2>1 DEF Inv, OpenShiftOnlyKinds
<1>5. DeletionIsFinal' /\ RunIsCurrent'
  BY DEF Inv, DeletionIsFinal, RunIsCurrent
<1>6. StepsDone' /\ CleanRunDone' /\ RestSettled'
  BY DEF StepsDone, CleanRunDone, RestSettled, AtRest
<1> QED BY <1>3, <1>4, <1>5, <1>6 DEF Inv

\* The PMI is asked to go; the platform removes what is left of it.
LEMMA DeletionInv ==
  ASSUME Inv, RequestDelete \/ GarbageCollect
  PROVE  Inv'
<1>1. /\ pmi \in Pmis /\ obj \in [Kinds -> 0 .. Len(specs)] /\ Len(specs) \in Nat
      /\ terminating \in BOOLEAN
      /\ ext \in [secrets : SUBSET Secrets, config : BOOLEAN, account : BOOLEAN,
                  tls : BOOLEAN]
      /\ ds \in [status : Counts, synced : BOOLEAN]
  BY DEF Inv, TypeOK
<1>2. CASE RequestDelete
  <2>1. UNCHANGED <<specs, cache, queued, run, obj, terminating, ext, stale, held, ds,
                    faults>>
    BY <1>2 DEF RequestDelete, proxy
  <2>2. /\ pmi'.deleted /\ pmi' \in Pmis
        /\ pmi'.live => pmi.live /\ pmi'.gen = pmi.gen
    <3>1. CASE pmi' = Gone
      BY <3>1, GoneType DEF Gone
    <3>2. CASE pmi' = [pmi EXCEPT !.deleted = TRUE] /\ pmi.live
      BY <1>1, <3>2 DEF Pmis
    <3> QED BY <1>2, <3>1, <3>2 DEF RequestDelete
  <2> QED BY <1>1, <2>1, <2>2, DeletedInv
<1>3. CASE GarbageCollect
  <2>1. /\ UNCHANGED <<specs, pmi, cache, queued, run, ext, stale, held, ds, faults>>
        /\ terminating' \in BOOLEAN
    BY <1>3 DEF GarbageCollect, proxy
  <2>2. pmi.deleted
    BY <1>3 DEF GarbageCollect, Inv, DeletionIsFinal
  <2>3. obj' = [k \in Kinds |-> IF k = "Namespace" THEN obj[k] ELSE 0]
    BY <1>3 DEF GarbageCollect
  <2>4. (\A k \in Kinds : obj'[k] \in {0, obj[k]}) /\ obj' \in [Kinds -> 0 .. Len(specs)]
    BY <1>1, <2>3
  <2> QED BY <1>1, <2>1, <2>2, <2>4, DeletedInv
<1> QED BY <1>2, <1>3

\* Objects disappear from under the operator.  Either a request is queued, or nothing
\* the invariant speaks of is missing.
LEMMA RemovedInv ==
  ASSUME Inv, UNCHANGED <<specs, pmi, cache, run>>, terminating' \in BOOLEAN,
         queued' \in BOOLEAN, queued => queued',
         obj' \in [Kinds -> 0 .. Len(specs)], \A k \in Kinds : obj'[k] \in {0, obj[k]},
         ext' \in [secrets : SUBSET Secrets, config : BOOLEAN, account : BOOLEAN,
                   tls : BOOLEAN],
         ds' \in [status : Counts, synced : BOOLEAN], faults' \in 0 .. MaxFaults,
         stale' \subseteq ProxyObjects, held' \subseteq ProxySecrets,
         ~queued' /\ cache.live => StepsDone' /\ CleanRunDone' /\ RestSettled'
  PROVE  Inv'
<1>1. Path' = Path
  BY DEF Path
<1>2. TypeOK'
  BY <1>1 DEF Inv, TypeOK
<1>3. DeletionIsFinal' /\ RunIsCurrent'
  BY DEF Inv, DeletionIsFinal, RunIsCurrent
<1>4. OpenShiftOnlyKinds'
  <2>1. OpenShiftOnly \subseteq Kinds
    BY DEF OpenShiftOnly, Kinds, Cluster
  <2> QED BY <2>1 DEF Inv, OpenShiftOnlyKinds
<1>5. CASE queued'
  BY <1>2, <1>3, <1>4, <1>5 DEF Inv, StepsDone, CleanRunDone, RestSettled, AtRest
<1>6. CASE ~queued' /\ cache.live
  BY <1>2, <1>3, <1>4, <1>6 DEF Inv
<1>7. CASE ~queued' /\ ~cache.live
  <2>1. run.at = "idle"
    BY <1>7 DEF Inv, RunIsCurrent
  <2> QED BY <1>2, <1>3, <1>4, <1>7, <2>1
          DEF Inv, StepsDone, CleanRunDone, RestSettled, AtRest
<1>8. cache.live \in BOOLEAN
  BY DEF Inv, TypeOK, Pmis
<1> QED BY <1>5, <1>6, <1>7, <1>8

\* Others delete an object: a request is queued, or will be when the informers deliver
\* it, or the object is not among those that are restored.
LEMMA RemoveObjectInv ==
  ASSUME Inv, RemoveObject
  PROVE  Inv'
<1>1. PICK k \in Removable \ {"Namespace", "TLS"} :
        /\ obj[k] # 0 /\ obj' = [obj EXCEPT ![k] = 0]
        /\ stale' = stale \cup {o \in {k} \cap ProxyObjects : Exists(o)} /\ held' = held
        /\ ds' = IF k = "DaemonSet" THEN [status |-> NoPods, synced |-> FALSE] ELSE ds
        /\ queued' = (queued \/ (cache.live /\ Watched(k) /\ k \notin ProxyObjects))
        /\ UNCHANGED <<specs, pmi, cache, run, terminating, ext>>
  BY DEF RemoveObject, Notify, Lost
<1>2. k \in Kinds /\ k # "Namespace" /\ k # "TLS" /\ k \in Removable
  BY RemovableAssumption
<1>3. /\ obj \in [Kinds -> 0 .. Len(specs)] /\ Len(specs) \in Nat /\ queued \in BOOLEAN
      /\ cache.live \in BOOLEAN /\ terminating \in BOOLEAN
      /\ ds \in [status : Counts, synced : BOOLEAN]
      /\ ext \in [secrets : SUBSET Secrets, config : BOOLEAN, account : BOOLEAN,
                  tls : BOOLEAN]
  BY DEF Inv, TypeOK, Pmis
<1>4. Watched(k) \in BOOLEAN
  BY DEF Watched
<1>5. /\ queued' \in BOOLEAN /\ (queued => queued')
      /\ cache.live /\ Watched(k) => queued' \/ k \in stale'
      /\ \A j \in Kinds : j \in stale => j \in stale'
      /\ stale' \subseteq ProxyObjects /\ held' \subseteq ProxySecrets
  <2>1. k \in ProxyObjects => k \in stale'
    BY <1>1, <1>2 DEF Exists
  <2>2. stale \subseteq ProxyObjects /\ held \subseteq ProxySecrets
    BY DEF Inv, TypeOK
  <2>3. stale' \subseteq ProxyObjects /\ held' \subseteq ProxySecrets
    BY <1>1, <2>2
  <2> QED BY <1>1, <1>3, <1>4, <2>1, <2>3
<1>6. /\ obj' \in [Kinds -> 0 .. Len(specs)]
      /\ \A j \in Kinds : obj'[j] \in {0, obj[j]}
      /\ \A j \in Kinds : j # k => obj'[j] = obj[j]
  <2>1. 0 \in 0 .. Len(specs)
    BY <1>3
  <2> QED BY <1>1, <1>2, <1>3, <2>1
<1>7. ds' \in [status : Counts, synced : BOOLEAN]
  BY <1>1, <1>3 DEF NoPods, Counts
<1>8. faults' \in 0 .. MaxFaults
  BY FaultType DEF RemoveObject, Inv, TypeOK
<1>9. ASSUME ~queued', cache.live PROVE StepsDone' /\ CleanRunDone' /\ RestSettled'
  <2>1. ~queued /\ (Restored(k) => Watched(k) /\ k \in stale')
    BY <1>2, <1>5, <1>9 DEF Restored
  <2>2. \A j \in Kinds : \A g : Restored(j) /\ Settled(j, g) => Settled(j, g)'
    <3> SUFFICES ASSUME NEW j \in Kinds, NEW g, Restored(j), Settled(j, g)
                 PROVE  Settled(j, g)'
      OBVIOUS
    <3>1. CASE j = k
      BY <2>1, <3>1 DEF Settled, Watched
    <3>2. CASE j # k
      BY <1>1, <1>5, <1>6, <3>2 DEF Settled, UpToDate, Watched
    <3> QED BY <3>1, <3>2
  <2>3. NamespaceLost => NamespaceLost'
    BY <1>1, <1>2, <1>6 DEF NamespaceLost, Kinds, Cluster
  <2>4. StepsDone'
    BY <1>1, <2>1, <2>2, <2>3 DEF Inv, StepsDone, Restored
  <2>5. CleanRunDone'
    BY <1>1, <2>1, <2>2 DEF Inv, CleanRunDone, AllSettled, Restored
  <2>6. RestSettled'
    BY <1>1, <2>1, <2>2 DEF Inv, RestSettled, AtRest, AllSettled, Restored
  <2> QED BY <2>4, <2>5, <2>6
<1> QED BY <1>1, <1>3, <1>5, <1>6, <1>7, <1>8, <1>9, RemovedInv

\* The informers deliver that a proxy object is gone: a request is queued unless no
\* event of the object is one.
LEMMA SyncProxyObjectsInv ==
  ASSUME Inv, SyncProxyObjects
  PROVE  Inv'
<1>1. PICK o \in stale :
        /\ stale' = stale \ {o}
        /\ Notify(IF o = "TLS" THEN OpenShift /\ EnableRBAC(specs[cache.gen]) ELSE Watched(o))
        /\ UNCHANGED <<specs, pmi, cache, run, obj, terminating, ext, held, ds, faults>>
  BY DEF SyncProxyObjects
<1>2. /\ obj \in [Kinds -> 0 .. Len(specs)] /\ queued \in BOOLEAN
      /\ cache.live \in BOOLEAN /\ terminating \in BOOLEAN /\ faults \in 0 .. MaxFaults
      /\ ds \in [status : Counts, synced : BOOLEAN]
      /\ ext \in [secrets : SUBSET Secrets, config : BOOLEAN, account : BOOLEAN,
                  tls : BOOLEAN]
      /\ stale' \subseteq ProxyObjects /\ held' \subseteq ProxySecrets
      /\ "TLS" \notin Kinds
  BY <1>1 DEF Inv, TypeOK, Pmis, Kinds, Cluster, Namespaced
<1>3. /\ queued' \in BOOLEAN /\ (queued => queued')
      /\ cache.live /\ o # "TLS" /\ Watched(o) => queued'
  BY <1>1, <1>2, OpenShiftAssumption DEF Notify, Watched, EnableRBAC
<1>4. ASSUME ~queued', cache.live PROVE StepsDone' /\ CleanRunDone' /\ RestSettled'
  <2>1. \A k \in Kinds : \A g : Settled(k, g) => Settled(k, g)'
    BY <1>1, <1>2, <1>3, <1>4 DEF Settled, UpToDate, Watched
  <2>2. ~queued
    BY <1>3, <1>4
  <2> QED BY <1>1, <2>1, <2>2 DEF Inv, StepsDone, NamespaceLost, CleanRunDone, AllSettled,
                                  RestSettled, AtRest, Restored
<1> QED BY <1>1, <1>2, <1>3, <1>4, RemovedInv

\* The namespace goes with everything in it.  Once the ServiceAccount has been made
\* its deletion is noticed, and before that the run cannot end without an error.
LEMMA NamespaceGoneInv ==
  ASSUME Inv, NamespaceGone
  PROVE  Inv'
<1>1. /\ obj' = [k \in Kinds |-> IF k \in Namespaced \cup {"Namespace"} THEN 0 ELSE obj[k]]
      /\ terminating' = FALSE
      /\ ext' = [ext EXCEPT !.secrets = {}, !.config = FALSE, !.tls = FALSE]
      /\ ds' = [status |-> NoPods, synced |-> FALSE]
      /\ stale' = stale \cup {o \in ProxyObjects : Exists(o)} /\ held' = held
      /\ UNCHANGED <<specs, pmi, cache, run, faults>>
  BY DEF NamespaceGone, Lost
<1>2. /\ obj \in [Kinds -> 0 .. Len(specs)] /\ Len(specs) \in Nat /\ queued \in BOOLEAN
      /\ specs \in Seq(Specs) /\ specs # <<>>
      /\ cache.live \in BOOLEAN /\ faults \in 0 .. MaxFaults
      /\ ext \in [secrets : SUBSET Secrets, config : BOOLEAN, account : BOOLEAN,
                  tls : BOOLEAN]
      /\ pmi.live => pmi.gen = Len(specs)
      /\ run.at # "idle" => run.gen \in 1 .. Len(specs)
      /\ run.at = "steps" => run.pc \in 1 .. Len(Path)
      /\ stale \subseteq ProxyObjects /\ held \subseteq ProxySecrets
  BY DEF Inv, TypeOK, Pmis
<1>3. "ServiceAccount" \in Namespaced /\ "ServiceAccount" \in Kinds /\ "Namespace" \in Kinds
      /\ Watched("ServiceAccount") /\ Restored("ServiceAccount")
      /\ \A s : Wanted(s, "ServiceAccount")
      /\ "ServiceAccount" \notin ProxyObjects
  BY DEF Namespaced, Kinds, Cluster, Watched, Restored, Wanted, OpenShiftOnly, ProxyObjects
<1>4. /\ queued' \in BOOLEAN /\ (queued => queued')
      /\ cache.live /\ obj["ServiceAccount"] # 0 => queued'
  <2>1. PICK c : queued' = (queued \/ (cache.live /\ c))
                 /\ (obj["ServiceAccount"] # 0 => c)
    BY <1>3 DEF NamespaceGone, Notify
  <2> QED BY <1>2, <2>1
<1>5. /\ obj' \in [Kinds -> 0 .. Len(specs)] /\ obj'["Namespace"] = 0
      /\ \A k \in Kinds : obj'[k] \in {0, obj[k]}
  BY <1>1, <1>2, <1>3
<1>6. /\ ext' \in [secrets : SUBSET Secrets, config : BOOLEAN, account : BOOLEAN,
                   tls : BOOLEAN]
      /\ ds' \in [status : Counts, synced : BOOLEAN]
  BY <1>1, <1>2 DEF NoPods, Counts
<1>7. ASSUME ~queued', cache.live PROVE StepsDone' /\ CleanRunDone' /\ RestSettled'
  <2>1. obj["ServiceAccount"] = 0 /\ ~queued
    BY <1>4, <1>7
  <2>2. \A g \in 1 .. Len(specs) : ~Settled("ServiceAccount", g)
    BY <1>2, <1>3, <2>1 DEF Settled, UpToDate
  <2>3. StepsDone'
    <3> SUFFICES ASSUME run.at = "steps", ~run.deleted, run.err = NoErr, ~pmi.deleted,
                        ~(run.pc <= 9)
                 PROVE  FALSE
      BY <1>1, <1>5 DEF StepsDone, NamespaceLost
    <3>0. run.pc \in 1 .. 17
      BY <1>2, UpdatePathFacts DEF Path
    <3>1. 9 \in 1 .. run.pc - 1 /\ ~NamespaceLost
      BY <3>0 DEF NamespaceLost
    <3>2. Settled(UpdatePath[9], run.gen)
      BY <1>3, <2>1, <3>1, UpdatePathFacts DEF Inv, StepsDone
    <3> QED BY <1>2, <2>2, <3>2, UpdatePathFacts
  <2>4. CleanRunDone'
    BY <1>1, <1>2, <1>3, <2>1, <2>2 DEF Inv, CleanRunDone, AllSettled
  <2>5. RestSettled'
    <3>1. Len(specs) \in 1 .. Len(specs)
      BY <1>2
    <3> QED BY <1>1, <1>2, <1>3, <2>1, <2>2, <3>1 DEF Inv, RestSettled, AtRest, AllSettled
  <2> QED BY <2>3, <2>4, <2>5
<1> QED BY <1>1, <1>2, <1>4, <1>5, <1>6, <1>7, RemovedInv

\* A new generation leaves what is up to date for the older ones as it was, and the
\* cache is behind it.
LEMMA EditSpecInv ==
  ASSUME Inv, EditSpec
  PROVE  Inv'
<1>1. PICK s \in Specs : specs' = Append(specs, s)
  BY DEF EditSpec
<1>2. /\ UNCHANGED <<cache, queued, run, obj, terminating, ext, stale, held, ds, faults>>
      /\ pmi' = [pmi EXCEPT !.gen = @ + 1] /\ pmi.live
  BY DEF EditSpec, proxy
<1>3. /\ specs \in Seq(Specs) /\ specs # <<>> /\ pmi \in Pmis /\ cache \in Pmis
      /\ pmi.live => pmi.gen = Len(specs)
      /\ cache.live => cache.gen \in 1 .. Len(specs)
      /\ queued \in BOOLEAN
      /\ run \in Runs /\ (run.at # "idle" => run.gen \in 1 .. Len(specs))
      /\ run.at \in {"steps", "wait"} => run.pc \in 1 .. Len(Path)
      /\ obj \in [Kinds -> 0 .. Len(specs)] /\ terminating \in BOOLEAN
      /\ ext \in [secrets : SUBSET Secrets, config : BOOLEAN, account : BOOLEAN,
                  tls : BOOLEAN]
      /\ ds \in [status : Counts, synced : BOOLEAN] /\ faults \in 0 .. MaxFaults
      /\ stale \subseteq ProxyObjects /\ held \subseteq ProxySecrets
  BY DEF Inv, TypeOK
<1>4. /\ Len(specs) \in Nat /\ specs' \in Seq(Specs) /\ Len(specs') = Len(specs) + 1
      /\ specs' # <<>>
      /\ \A g \in 1 .. Len(specs) : specs'[g] = specs[g]
  BY <1>1, <1>3
<1>5. /\ pmi' \in Pmis /\ pmi'.live = pmi.live /\ pmi'.deleted = pmi.deleted
      /\ pmi'.gen = Len(specs')
  <2>1. pmi.gen \in Nat /\ pmi.gen = Len(specs) /\ pmi.gen + 1 \in Nat
    BY <1>2, <1>3 DEF Pmis
  <2>2. /\ pmi' \in Pmis /\ pmi'.live = pmi.live /\ pmi'.deleted = pmi.deleted
        /\ pmi'.gen = pmi.gen + 1
    BY <1>2, <1>3, <2>1 DEF Pmis
  <2> QED BY <1>4, <2>1, <2>2
<1>6. Path' = Path
  BY <1>2 DEF Path
<1>7. TypeOK'
  <2>1. \A g \in 1 .. Len(specs) : g \in 1 .. Len(specs')
    BY <1>4
  <2>2. obj \in [Kinds -> 0 .. Len(specs')]
    BY <1>3, <1>4
  <2> QED BY <1>2, <1>3, <1>4, <1>5, <1>6, <2>1, <2>2 DEF TypeOK
<1>8. DeletionIsFinal' /\ RunIsCurrent' /\ OpenShiftOnlyKinds'
  BY <1>2, <1>5 DEF Inv, DeletionIsFinal, RunIsCurrent, OpenShiftOnlyKinds
<1>9. \A k \in Kinds : run.at # "idle" /\ Settled(k, run.gen) => Settled(k, run.gen)'
  BY <1>2, <1>3, <1>4 DEF Settled, UpToDate
<1>10. StepsDone' /\ CleanRunDone'
  <2>1. StepsDone'
    BY <1>2, <1>5, <1>9 DEF Inv, StepsDone, NamespaceLost
  <2>2. CleanRunDone'
    BY <1>2, <1>5, <1>9 DEF Inv, CleanRunDone, AllSettled
  <2> QED BY <2>1, <2>2
<1>11. RestSettled'
  <2>1. ASSUME cache = pmi' PROVE FALSE
    <3>1. cache.live /\ cache.gen = Len(specs) + 1
      BY <1>2, <1>4, <1>5, <2>1
    <3> QED BY <1>3, <1>4, <3>1
  <2> QED BY <1>2, <2>1 DEF RestSettled, AtRest
<1> QED BY <1>7, <1>8, <1>10, <1>11 DEF Inv

(***************************************************************************)
(* The theorems.                                                           *)
(***************************************************************************)
LEMMA InitInv ==
  ASSUME Init
  PROVE  Inv
<1>1. PICK s \in Specs : specs = <<s>>
  BY DEF Init
<1>2. /\ pmi = [Gone EXCEPT !.live = TRUE, !.gen = 1, !.deleted = FALSE]
      /\ cache = Gone /\ queued = FALSE /\ run = Idle /\ obj = [k \in Kinds |-> 0]
      /\ terminating = FALSE /\ ds = [status |-> NoPods, synced |-> FALSE] /\ faults = 0
      /\ stale = {} /\ held = {}
  BY DEF Init
<1>3. /\ specs \in Seq(Specs) /\ Len(specs) = 1 /\ specs # <<>>
  BY <1>1
<1>4. /\ pmi \in Pmis /\ pmi.live /\ pmi.gen = 1 /\ ~pmi.deleted
      /\ cache \in Pmis /\ ~cache.live
  BY <1>2, GoneType DEF Pmis, Gone
<1>5. run \in Runs /\ run.at = "idle"
  BY <1>2 DEF Idle, Runs, Errors
<1>6. ext \in [secrets : SUBSET Secrets, config : BOOLEAN, account : BOOLEAN, tls : BOOLEAN]
  BY DEF Init
<1>7. ds \in [status : Counts, synced : BOOLEAN]
  BY <1>2 DEF NoPods, Counts
<1>8. obj \in [Kinds -> 0 .. Len(specs)] /\ faults \in 0 .. MaxFaults
  BY <1>2, <1>3, BoundsAssumption
<1>9. TypeOK
  BY <1>2, <1>3, <1>4, <1>5, <1>6, <1>7, <1>8 DEF TypeOK
<1>10. DeletionIsFinal /\ RunIsCurrent
  BY <1>2, <1>4, <1>5 DEF DeletionIsFinal, RunIsCurrent
<1>11. OpenShiftOnlyKinds
  BY <1>2 DEF OpenShiftOnlyKinds, OpenShiftOnly, Kinds, Cluster
<1>12. StepsDone /\ CleanRunDone /\ RestSettled
  <2>1. cache # pmi
    BY <1>4
  <2> QED BY <1>5, <2>1 DEF StepsDone, CleanRunDone, RestSettled, AtRest
<1> QED BY <1>9, <1>10, <1>11, <1>12 DEF Inv

\* Every step preserves the invariant.
LEMMA NextInv ==
  ASSUME Inv, [Next]_vars
  PROVE  Inv'
<1>1. CASE UNCHANGED vars
  <2>1. UNCHANGED <<specs, pmi, cache, run, obj, terminating, queued, ext, stale, held, ds,
                    faults>>
    BY <1>1 DEF vars
  <2> QED BY <2>1, UnrelatedInv DEF Inv, TypeOK
<1>2. CASE Operator
  BY <1>2, SubReconcilersInv, NamespaceDeleterInv, FinalizerInv, StartInv,
     UpdateStatusInv DEF Operator
<1>3. CASE SyncCache \/ Wake \/ Crash
  BY <1>3, RequestsInv
<1>4. CASE UpdateStatusFails \/ StatusReadFails
  BY <1>4, UpdateStatusFailsInv, StatusReadFailsInv
<1>5. CASE \/ ChangeSecret \/ ChangeConfig \/ ChangeAccount \/ ServeCertificate
           \/ RemoveCertificate \/ DaemonSetProgress \/ RemoveNamespace
  BY <1>5, PlatformInv
<1>6. CASE EditSpec
  BY <1>6, EditSpecInv
<1>7. CASE RequestDelete \/ GarbageCollect
  BY <1>7, DeletionInv
<1>8. CASE RemoveObject \/ SyncProxyObjects \/ NamespaceGone
  BY <1>8, RemoveObjectInv, SyncProxyObjectsInv, NamespaceGoneInv
<1> QED BY <1>1, <1>2, <1>3, <1>4, <1>5, <1>6, <1>7, <1>8 DEF Next

\* The inductive invariant holds of every behaviour of the controller.
THEOREM Invariance == Spec => []Inv
<1>1. Init => Inv
  BY InitInv
<1>2. Inv /\ [Next]_vars => Inv'
  BY NextInv
<1> QED BY <1>1, <1>2, PTL DEF Spec

\* The variables keep the types the code gives them.
THEOREM TypeCorrect == Spec => []TypeOK
<1>1. Inv => TypeOK
  BY DEF Inv
<1> QED BY <1>1, Invariance, PTL

\* The controller loses no work: at rest, everything the current generation calls
\* for is deployed and the status says so, whatever failed on the way.
THEOREM LosesNoWork == Spec => []NoLostWork
<1>1. Inv => NoLostWork
  BY DEF Inv, NoLostWork, Quiescent, RestSettled, AllSettled, Settled
<1> QED BY <1>1, Invariance, PTL
===============================================================================
