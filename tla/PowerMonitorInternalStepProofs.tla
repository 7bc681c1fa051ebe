-------------------- MODULE PowerMonitorInternalStepProofs --------------------
(***************************************************************************)
(* Proofs of what a step of the PMI controller may do, for every set of    *)
(* specs and secrets, on either kind of cluster, and for any number of     *)
(* edits and faults: what is seen of the PMI from outside is what          *)
(* InternalLifecycle promises, a cleanup gives the PMI up only after its   *)
(* namespace, a secured DaemonSet is rolled out only after what it mounts  *)
(* was seen and is not left without it, the Available condition does not   *)
(* go stale, and no object goes back to an older generation.  They rest on *)
(* the inductive invariant of PowerMonitorInternalProofs.                  *)
(***************************************************************************)
EXTENDS PowerMonitorInternalProofs

(***************************************************************************)
(* The PMI seen from outside: PowerMonitorInternal implements              *)
(* InternalLifecycle.                                                      *)
(***************************************************************************)
\* A PMI that is gone is seen as absent.
LEMMA SeenGone ==
  ASSUME pmi' = Gone
  PROVE  seen' = Lifecycle!Absent
  BY DEF seen, Gone, UnsetReconciled, Condition, Lifecycle!Absent

Objects == [live : BOOLEAN, gen : Nat, deleted : BOOLEAN, fin : BOOLEAN, og : Nat,
            ok : BOOLEAN]

\* The PMI has the shape of an object of the lifecycle.
LEMMA SeenType ==
  ASSUME pmi \in Pmis
  PROVE  seen \in Objects
  BY DEF seen, Objects, Pmis, Conditions

\* Two objects that differ in one part only.
LEMMA DifferInOne ==
  ASSUME NEW o \in Objects, NEW n \in Objects, n.live = o.live
  PROVE  /\ /\ n.deleted = o.deleted /\ n.fin = o.fin /\ n.og = o.og /\ n.ok = o.ok
            => n = [o EXCEPT !.gen = n.gen]
         /\ /\ n.gen = o.gen /\ n.fin = o.fin /\ n.og = o.og /\ n.ok = o.ok /\ n.deleted
            => n = [o EXCEPT !.deleted = TRUE]
         /\ /\ n.gen = o.gen /\ n.deleted = o.deleted /\ n.og = o.og /\ n.ok = o.ok /\ n.fin
            => n = [o EXCEPT !.fin = TRUE]
         /\ /\ n.gen = o.gen /\ n.deleted = o.deleted /\ n.fin = o.fin
            => n = [o EXCEPT !.og = n.og, !.ok = n.ok]
  BY DEF Objects

\* The initial PMI is a created object.
LEMMA LifecycleInit ==
  ASSUME Init
  PROVE  Lifecycle!Init
  BY DEF Init, seen, Gone, UnsetReconciled, Condition, Lifecycle!Init, Lifecycle!Created

\* The steps that write the PMI, and the one that writes its spec.
LEMMA PmiWriters ==
  ASSUME [Next]_vars
  PROVE  /\ UNCHANGED pmi \/ EditSpec \/ RequestDelete \/ Finalizer \/ UpdateStatus
         /\ UNCHANGED specs \/ EditSpec
<1>1. CASE UNCHANGED vars
  BY <1>1 DEF vars
<1>2. CASE Operator
  BY <1>2 DEF Operator, Finalizer, UpdateStatus, UpdateNamespace, SecretMounter, UpdateResources,
       KubeRBACProxyConfigReconciler, CABundleConfigReconciler,
       UWMSecretTokenReconciler, PowerMonitorDeployer, KubeRBACProxyObjectsChecker,
       PowerMonitorServiceMonitorReconciler, DeleteResources, DeleteNamespace,
       AwaitNamespace, Start, Update, Delete, Return, FailRead, request
<1>3. CASE SyncCache \/ Wake \/ UpdateStatusFails \/ StatusReadFails \/ Crash
  BY <1>3 DEF SyncCache, Wake, UpdateStatusFails, StatusReadFails, Crash
<1>4. CASE \/ ChangeSecret \/ ChangeConfig \/ ChangeAccount \/ ServeCertificate
           \/ RemoveCertificate \/ RemoveObject \/ SyncProxyObjects \/ RemoveNamespace
           \/ DaemonSetProgress \/ NamespaceGone \/ GarbageCollect \/ RequestDelete
  BY <1>4 DEF RequestDelete, ChangeSecret, ChangeConfig, ChangeAccount, ServeCertificate,
       RemoveCertificate, RemoveObject, SyncProxyObjects, RemoveNamespace,
       DaemonSetProgress, NamespaceGone, GarbageCollect
<1> QED BY <1>1, <1>2, <1>3, <1>4 DEF Next

\* Every step of the controller and of its surroundings is a step of the lifecycle
\* or is not seen: the finalizer and the status are only written while the cache is
\* up to date, so what is written is what the server has but for that one change.
LEMMA LifecycleStep ==
  ASSUME TypeOK, TypeOK', [Next]_vars
  PROVE  [Lifecycle!Next]_seen
<1>0. pmi \in Pmis /\ seen \in Objects /\ seen' \in Objects
  <2>1. pmi \in Pmis /\ pmi' \in Pmis
    BY DEF TypeOK
  <2>2. seen' \in Objects
    BY <2>1 DEF seen, Objects, Pmis, Conditions
  <2> QED BY <2>1, <2>2, SeenType
<1>1. CASE UNCHANGED pmi
  BY <1>1 DEF seen
<1>2. CASE EditSpec
  <2>1. pmi.live /\ pmi' = [pmi EXCEPT !.gen = pmi.gen + 1]
    BY <1>2 DEF EditSpec
  <2>2. /\ seen.live /\ seen'.live = seen.live /\ seen'.gen = seen.gen + 1
        /\ seen'.deleted = seen.deleted /\ seen'.fin = seen.fin /\ seen'.og = seen.og
        /\ seen'.ok = seen.ok
    BY <1>0, <2>1 DEF Pmis, seen
  <2>3. Lifecycle!Edit
    BY <1>0, <2>2, DifferInOne DEF Lifecycle!Edit
  <2> QED BY <2>3 DEF Lifecycle!Next
<1>3. CASE RequestDelete
  <2>1. pmi.live /\ ~pmi.deleted
    BY <1>3 DEF RequestDelete
  <2>2. CASE pmi.fin /\ pmi' = [pmi EXCEPT !.deleted = TRUE]
    <3>1. /\ seen.live /\ ~seen.deleted /\ seen.fin /\ seen'.live = seen.live
          /\ seen'.gen = seen.gen /\ seen'.deleted /\ seen'.fin = seen.fin
          /\ seen'.og = seen.og /\ seen'.ok = seen.ok
      BY <1>0, <2>1, <2>2 DEF Pmis, seen
    <3>2. Lifecycle!Delete
      BY <1>0, <3>1, DifferInOne DEF Lifecycle!Delete
    <3> QED BY <3>2 DEF Lifecycle!Next
  <2>3. CASE ~pmi.fin /\ pmi' = Gone
    <3>1. seen.live /\ ~seen.deleted /\ ~seen.fin
      BY <2>1, <2>3 DEF seen
    <3>2. Lifecycle!Delete
      BY <2>3, <3>1, SeenGone DEF Lifecycle!Delete
    <3> QED BY <3>2 DEF Lifecycle!Next
  <2> QED BY <1>3, <2>2, <2>3 DEF RequestDelete
<1>4. CASE Finalizer
  <2>1. CASE pmi.live /\ pmi.deleted /\ pmi.fin /\ pmi' = Gone
    <3>1. Lifecycle!RemoveFinalizer
      BY <1>0, <2>1, SeenGone DEF Lifecycle!RemoveFinalizer, seen
    <3> QED BY <3>1 DEF Lifecycle!Next, Lifecycle!Controller
  <2>2. CASE pmi.live /\ ~pmi.deleted /\ ~pmi.fin /\ pmi' = [pmi EXCEPT !.fin = TRUE]
    <3>1. /\ seen.live /\ ~seen.deleted /\ ~seen.fin /\ seen'.live = seen.live
          /\ seen'.gen = seen.gen /\ seen'.deleted = seen.deleted /\ seen'.fin
          /\ seen'.og = seen.og /\ seen'.ok = seen.ok
      BY <1>0, <2>2 DEF Pmis, seen
    <3>2. Lifecycle!AddFinalizer
      BY <1>0, <3>1, DifferInOne DEF Lifecycle!AddFinalizer
    <3> QED BY <3>2 DEF Lifecycle!Next, Lifecycle!Controller
  <2> QED BY <1>1, <1>4, <2>1, <2>2 DEF Finalizer, Return, FailRead, request
<1>5. CASE UpdateStatus
  <2>1. CASE /\ pmi.live /\ ~pmi.deleted
             /\ \E a : pmi' = [pmi EXCEPT
                                 !.reconciled = ReconciledCondition(pmi.gen, run.err),
                                 !.available = a]
    <3>1. ReconciledCondition(pmi.gen, run.err).og = pmi.gen
      BY DEF ReconciledCondition, Condition
    <3>2. /\ seen.live /\ ~seen.deleted /\ seen'.live = seen.live
          /\ seen'.gen = seen.gen /\ seen'.deleted = seen.deleted /\ seen'.fin = seen.fin
          /\ seen'.og = seen.gen
      BY <1>0, <2>1, <3>1 DEF Pmis, seen
    <3>3. seen' = [seen EXCEPT !.og = seen.gen, !.ok = seen'.ok] /\ seen'.ok \in BOOLEAN
      BY <1>0, <3>2, DifferInOne DEF Objects
    <3>4. Lifecycle!Report
      BY <3>2, <3>3 DEF Lifecycle!Report
    <3> QED BY <3>4 DEF Lifecycle!Next, Lifecycle!Controller
  <2> QED BY <1>1, <1>5, <2>1 DEF UpdateStatus
<1> QED BY <1>1, <1>2, <1>3, <1>4, <1>5, PmiWriters

\* The controller implements the lifecycle that PowerMonitor relies on: whatever is
\* stale, fails or crashes, the PMI seen from outside is only ever edited, deleted,
\* given its finalizer, reported on, or released.
THEOREM LifecycleImplemented == Spec => ImplementsLifecycle
<1>1. Init => Lifecycle!Init
  BY LifecycleInit
<1>2. TypeOK /\ TypeOK' /\ [Next]_vars => [Lifecycle!Next]_seen
  BY LifecycleStep
<1> QED BY <1>1, <1>2, TypeCorrect, PTL DEF Spec, ImplementsLifecycle, Lifecycle!Spec

(***************************************************************************)
(* A cleanup gives the PMI up only after its namespace.                    *)
(***************************************************************************)
\* A cleanup run that has come to its last step has seen the namespace gone; only an
\* update run would make it again, and there is one worker.
NamespaceFirst ==
  run.at = "steps" /\ run.deleted /\ run.pc = 6 => obj["Namespace"] = 0

\* The fifth step of the cleanup path is the namespace's Deleter.
LEMMA FifthStep ==
  ASSUME run \in Runs, run.deleted, run.at = "steps", run.pc = 5, NEW s, At(s)
  PROVE  s = "Namespace"
  BY DEF At, Path, CleanupPath

\* No step but an Updater's makes an object or changes the run's place in its path.
LEMMA OutsideSteps ==
  ASSUME Inv, [Next]_vars, ~Operator
  PROVE  /\ run' = run \/ run'.at = "idle"
         /\ \A k \in Kinds : obj'[k] \in {0, obj[k]}
<1>0. obj \in [Kinds -> 0 .. Len(specs)] /\ Idle.at = "idle" /\ Skipped.at = "idle"
  BY DEF Inv, TypeOK, Idle, Skipped
<1>1. CASE UNCHANGED vars
  BY <1>1 DEF vars
<1>2. CASE SyncCache \/ Wake \/ UpdateStatusFails \/ StatusReadFails \/ Crash
  BY <1>0, <1>2 DEF SyncCache, Wake, UpdateStatusFails, StatusReadFails, Crash, End
<1>3. CASE \/ EditSpec \/ RequestDelete \/ ChangeSecret \/ ChangeConfig \/ ChangeAccount
           \/ ServeCertificate \/ RemoveCertificate \/ SyncProxyObjects
           \/ RemoveNamespace \/ DaemonSetProgress
  BY <1>3 DEF EditSpec, RequestDelete, ChangeSecret, ChangeConfig, ChangeAccount,
              ServeCertificate, RemoveCertificate, SyncProxyObjects, RemoveNamespace,
              DaemonSetProgress
<1>4. CASE RemoveObject
  <2>1. PICK k \in Removable \ {"Namespace", "TLS"} : obj' = [obj EXCEPT ![k] = 0]
    BY <1>4 DEF RemoveObject
  <2> QED BY <1>0, <1>4, <2>1 DEF RemoveObject
<1>5. CASE NamespaceGone \/ GarbageCollect
  BY <1>5 DEF NamespaceGone, GarbageCollect
<1> QED BY <1>1, <1>2, <1>3, <1>4, <1>5 DEF Next

\* Every step keeps NamespaceFirst.
LEMMA NamespaceFirstStep ==
  ASSUME Inv, NamespaceFirst, [Next]_vars
  PROVE  NamespaceFirst'
<1>0. /\ run \in Runs /\ "Namespace" \in Kinds /\ Idle.at = "idle"
      /\ run.at \in {"steps", "wait"} => run.pc \in 1 .. Len(Path)
  BY DEF Inv, TypeOK, Kinds, Cluster, Idle
<1>a. ASSUME NEW res \in Results, Advance(res), run.at \in {"steps", "wait"}
      PROVE  /\ run'.deleted => run.deleted
             /\ run'.at = "steps" => run'.pc = run.pc + 1 /\ res.action = "Continue"
  BY <1>0, <1>a, AdvanceFacts DEF Advance, EndsRun, Runs
<1>1. CASE ~Operator
  <2>1. /\ run' = run \/ run'.at = "idle"
        /\ obj'["Namespace"] \in {0, obj["Namespace"]}
    BY <1>0, <1>1, OutsideSteps
  <2> QED BY <2>1 DEF NamespaceFirst
<1>2. CASE SomeStep
  <2>1. PICK s : /\ At(s) /\ Stepped(s)
                 /\ s = "Namespace" => ~run.deleted
    BY <1>2 DEF SomeStep
  <2>2. PICK res \in Results : Advance(res)
    BY <2>1 DEF Stepped
  <2>3. run.at = "steps" /\ run.pc \in Nat
    BY <1>0, <2>1 DEF At, Runs
  <2> SUFFICES ASSUME run'.at = "steps", run'.deleted, run'.pc = 6
               PROVE  FALSE
    BY DEF NamespaceFirst
  <2>4. run.deleted /\ run'.pc = run.pc + 1
    BY <1>a, <2>2, <2>3
  <2>5. run.pc = 5
    BY <2>3, <2>4
  <2> QED BY <1>0, <2>1, <2>3, <2>4, <2>5, FifthStep
<1>3. CASE DeleteNamespace \/ AwaitNamespace
  <2>1. \/ run'.at = "wait"
        \/ \E o \in {"gone", "timeout", "error"} :
             /\ Advance(DeleterResult(o, "Requeue"))
             /\ o = "gone" => obj["Namespace"] = 0
             /\ obj' = obj
    BY <1>0, <1>3 DEF DeleteNamespace, AwaitNamespace, Return, FailRead, Runs
  <2>2. \A o \in {"timeout", "error"} : DeleterResult(o, "Requeue").action = "Requeue"
    BY DEF DeleterResult, Result
  <2>3. \A o \in {"gone", "timeout", "error"} : DeleterResult(o, "Requeue") \in Results
    BY ResultFacts DEF Actions
  <2>4. run.at \in {"steps", "wait"}
    BY <1>3 DEF DeleteNamespace, AwaitNamespace, At
  <2> QED BY <1>a, <2>1, <2>2, <2>3, <2>4 DEF NamespaceFirst
<1>4. CASE Finalizer
  <2>1. run.at = "steps" /\ run.pc \in Nat /\ At("Finalizer")
    BY <1>0, <1>4 DEF Finalizer, At, Runs
  <2>2. PICK res \in Results : Advance(res)
    BY <1>4, ResultFacts DEF Finalizer, Return, FailRead, Actions, Errors
  <2> SUFFICES ASSUME run'.at = "steps", run'.deleted, run'.pc = 6
               PROVE  FALSE
    BY DEF NamespaceFirst
  <2>3. run.deleted /\ run'.pc = run.pc + 1
    BY <1>a, <2>1, <2>2
  <2>4. run.pc = 5
    BY <2>1, <2>3
  <2> QED BY <1>0, <2>1, <2>3, <2>4, FifthStep
<1>5. CASE Start \/ UpdateStatus
  <2>1. run' = Idle \/ run'.pc = 1
    BY <1>5 DEF Start, UpdateStatus, End, Idle
  <2> QED BY <1>0, <2>1 DEF NamespaceFirst
<1> QED BY <1>1, <1>2, <1>3, <1>4, <1>5, SubReconcilersStep DEF Operator

\* A cleanup gives the PMI up only when the namespace is gone.
THEOREM CleanupOrder == Spec => FinalizerAfterNamespace
<1>1. Init => NamespaceFirst
  BY DEF Init, Idle, NamespaceFirst
<1>2. Inv /\ NamespaceFirst /\ [Next]_vars => NamespaceFirst'
  BY NamespaceFirstStep
<1>3. ASSUME Inv, NamespaceFirst, [Next]_vars
      PROVE  [pmi.live /\ pmi.fin /\ ~pmi'.live /\ run.deleted => obj["Namespace"] = 0]_vars
  <2> SUFFICES ASSUME pmi.live, pmi.fin, ~pmi'.live, run.deleted, Next
               PROVE  obj["Namespace"] = 0
    BY <1>3
  <2>1. pmi \in Pmis
    BY <1>3 DEF Inv, TypeOK
  <2>2. CASE Finalizer
    <3>1. run.at = "steps" /\ run.pc = 6
      <4>1. run.at = "steps" /\ run.pc \in 1 .. 6 /\ CleanupPath[run.pc] = "Finalizer"
        BY <1>3, <2>2, CleanupPathFacts DEF Finalizer, At, Path, Inv, TypeOK
      <4> QED BY <4>1 DEF CleanupPath
    <3> QED BY <1>3, <3>1 DEF NamespaceFirst
  <2>3. CASE EditSpec \/ RequestDelete \/ UpdateStatus
    BY <2>1, <2>3 DEF EditSpec, RequestDelete, UpdateStatus, Pmis
  <2> QED BY <2>2, <2>3, PmiWriters
<1> QED BY <1>1, <1>2, <1>3, Invariance, PTL DEF Spec, FinalizerAfterNamespace

(***************************************************************************)
(* A secured DaemonSet is rolled out only by a reconcile in which the      *)
(* secrets it mounts were there, as far as the informers knew.             *)
(***************************************************************************)
\* What the informers hold of the proxy's secrets is remembered ...
Recorded == \A o \in ProxySecrets : InCache(o) => o \in held

\* ... so that they were all there when KubeRBACProxyObjectsChecker let the run pass.
ProxyReady ==
  run.at = "steps" /\ ~run.deleted /\ run.pc = 13 /\ EnableRBAC(RunSpec) =>
    ProxySecrets \subseteq held

\* The steps of the update path that matter here.
LEMMA CheckerStep ==
  ASSUME run.at = "steps", run.pc \in 1 .. Len(Path), ~run.deleted, NEW s, At(s)
  PROVE  /\ run.pc = 12 => s = "KubeRBACProxyObjectsChecker"
         /\ s = "DaemonSet" => run.pc = 13
  BY DEF At, Path, UpdatePath

\* The spec a run works from stays.
LEMMA RunSpecStays ==
  ASSUME Inv, [Next]_vars, run' = run, run.at # "idle"
  PROVE  RunSpec' = RunSpec
<1>0. run.gen \in 1 .. Len(specs) /\ specs \in Seq(Specs)
  BY DEF Inv, TypeOK
<1>1. specs'[run.gen] = specs[run.gen]
  <2>1. CASE EditSpec
    <3>1. PICK s \in Specs : specs' = Append(specs, s)
      BY <2>1 DEF EditSpec
    <3> QED BY <1>0, <3>1
  <2>2. CASE UNCHANGED specs
    BY <2>2
  <2> QED BY <2>1, <2>2, PmiWriters
<1> QED BY <1>1 DEF RunSpec

\* Only the start of a reconcile forgets what was held, and nothing gets into the
\* informers' copies unrecorded.
LEMMA ProxyKept ==
  ASSUME Inv, [Next]_vars
  PROVE  \/ Start
         \/ /\ held \subseteq held'
            /\ \A o \in ProxySecrets : InCache(o)' => InCache(o) \/ o \in held'
<1>0. /\ obj \in [Kinds -> 0 .. Len(specs)]
      /\ ext \in [secrets : SUBSET Secrets, config : BOOLEAN, account : BOOLEAN,
                  tls : BOOLEAN]
      /\ \A o \in ProxySecrets : o # "TLS" => o \in Kinds
      /\ "TLS" \in ProxySecrets
  BY DEF Inv, TypeOK, ProxySecrets, Kinds, Namespaced
<1>1. CASE /\ held' = held /\ stale' \subseteq stale
           /\ ext'.tls = ext.tls /\ (\A k \in Kinds : obj'[k] \in {0, obj[k]})
  BY <1>0, <1>1 DEF InCache, Exists
<1>2. CASE /\ held' = held
           /\ \E os : stale' = stale \cup {o \in os \cap ProxyObjects : Exists(o)}
           /\ ext'.tls => ext.tls
           /\ \A k \in Kinds : obj'[k] \in {0, obj[k]}
  BY <1>0, <1>2 DEF InCache, Exists
<1>3. CASE ServeCertificate
  <2>1. /\ stale' = stale \ {"TLS"} /\ held' = held \cup {"TLS"} /\ obj' = obj
    BY <1>0, <1>3 DEF ServeCertificate, Made
  <2> QED BY <2>1 DEF InCache, Exists
<1>4. CASE SomeStep
  BY <1>4 DEF SomeStep, Stepped, ProxyStepped
<1>5. CASE DeleteNamespace \/ AwaitNamespace \/ Finalizer \/ UpdateStatus
  <2>1. UNCHANGED <<obj, ext, stale, held>>
    BY <1>5 DEF DeleteNamespace, AwaitNamespace, Finalizer, UpdateStatus, Return, FailRead,
                proxy
  <2> QED BY <2>1 DEF InCache, Exists
<1>6. CASE ~Operator
  <2>1. \A k \in Kinds : obj'[k] \in {0, obj[k]}
    BY <1>6, OutsideSteps
  <2>2. CASE \/ SyncCache \/ Wake \/ UpdateStatusFails \/ StatusReadFails \/ EditSpec
             \/ RequestDelete \/ RemoveNamespace \/ DaemonSetProgress \/ GarbageCollect
             \/ UNCHANGED vars
    <3>1. UNCHANGED <<ext, stale, held>>
      BY <2>2 DEF SyncCache, Wake, UpdateStatusFails, StatusReadFails, EditSpec,
                  RequestDelete, RemoveNamespace, DaemonSetProgress, GarbageCollect, vars,
                  proxy
    <3> QED BY <1>1, <2>1, <3>1
  <2>3. CASE ChangeSecret \/ ChangeConfig \/ ChangeAccount
    <3>1. UNCHANGED <<stale, held>>
      BY <2>3 DEF ChangeSecret, ChangeConfig, ChangeAccount, proxy
    <3>2. ext'.tls = ext.tls
      BY <1>0, <2>3 DEF ChangeSecret, ChangeConfig, ChangeAccount
    <3> QED BY <1>1, <2>1, <3>1, <3>2
  <2>4. CASE Crash \/ SyncProxyObjects
    <3>1. held' = held /\ ext' = ext /\ stale' \subseteq stale
      BY <2>4 DEF Crash, SyncProxyObjects
    <3> QED BY <1>1, <2>1, <3>1
  <2>5. CASE RemoveCertificate \/ RemoveObject \/ NamespaceGone
    <3>1. held' = held /\ \E os : stale' = stale \cup {o \in os \cap ProxyObjects : Exists(o)}
      BY <2>5 DEF RemoveCertificate, RemoveObject, NamespaceGone, Lost
    <3>2. ext'.tls => ext.tls
      BY <1>0, <2>5 DEF RemoveCertificate, RemoveObject, NamespaceGone
    <3> QED BY <1>2, <2>1, <3>1, <3>2
  <2> QED BY <1>3, <1>6, <2>2, <2>3, <2>4, <2>5 DEF Next
<1> QED BY <1>4, <1>5, <1>6, SubReconcilersStep DEF Operator

\* Every step keeps the record.
LEMMA RecordedStep ==
  ASSUME Inv, Recorded, [Next]_vars
  PROVE  Recorded'
<1>1. CASE Start
  BY <1>1 DEF Start, Recorded, InCache, Exists
<1>2. CASE ~Start
  BY <1>2, ProxyKept DEF Recorded
<1> QED BY <1>1, <1>2

\* What goes on outside a reconcile keeps ProxyReady.
LEMMA ProxyReadyOutside ==
  ASSUME Inv, ProxyReady, [Next]_vars, ~Operator
  PROVE  ProxyReady'
<1>1. run' = run \/ run'.at = "idle"
  BY OutsideSteps
<1>2. held \subseteq held'
  BY ProxyKept DEF Operator
<1>3. CASE run'.at # "steps"
  BY <1>3 DEF ProxyReady
<1>4. CASE run'.at = "steps"
  <2>1. run' = run /\ RunSpec' = RunSpec
    BY <1>1, <1>4, RunSpecStays
  <2> QED BY <1>2, <2>1 DEF ProxyReady
<1> QED BY <1>3, <1>4

\* The steps of a reconcile keep ProxyReady: the DaemonSet's turn comes only after
\* KubeRBACProxyObjectsChecker returned Ok.
LEMMA ProxyReadyOperator ==
  ASSUME Inv, Recorded, ProxyReady, Operator
  PROVE  ProxyReady'
<1>0. /\ run \in Runs /\ Idle.at = "idle" /\ run.deleted \in BOOLEAN
      /\ run.at \in {"steps", "wait"} => run.pc \in 1 .. Len(Path) /\ run.pc \in Nat
      /\ run.at = "wait" => run.deleted
  BY DEF Inv, TypeOK, Idle, DeletionIsFinal, Runs
<1>a. ASSUME NEW res \in Results, Advance(res), run.at \in {"steps", "wait"}
      PROVE  /\ ~run'.deleted => ~run.deleted
             /\ run'.gen = run.gen
             /\ run'.at = "steps" => run'.pc = run.pc + 1 /\ res.action = "Continue"
  BY <1>0, <1>a, AdvanceFacts DEF Advance, EndsRun, Runs
<1>b. ASSUME NEW res \in Results, Advance(res), NEW s, At(s),
             run'.at = "steps", ~run'.deleted, run'.pc = 13
      PROVE  s = "KubeRBACProxyObjectsChecker"
  <2>1. run.at = "steps"
    BY <1>b DEF At
  <2>2. ~run.deleted /\ run'.pc = run.pc + 1
    BY <1>a, <1>b, <2>1
  <2>3. run.pc = 12
    BY <1>0, <1>b, <2>1, <2>2
  <2> QED BY <1>0, <1>b, <2>1, <2>2, <2>3, CheckerStep
<1>1. CASE SomeStep
  <2> SUFFICES ASSUME run'.at = "steps", ~run'.deleted, run'.pc = 13, EnableRBAC(RunSpec)'
               PROVE  ProxySecrets \subseteq held'
    BY DEF ProxyReady
  <2>1. PICK s : /\ At(s) /\ Stepped(s)
                 /\ s = "KubeRBACProxyObjectsChecker" => KubeRBACProxyObjectsChecker
    BY <1>1 DEF SomeStep
  <2>2. PICK res \in Results : Advance(res)
    BY <2>1 DEF Stepped
  <2>3. KubeRBACProxyObjectsChecker
    BY <1>b, <2>1, <2>2
  <2>4. run.at = "steps" /\ specs' = specs /\ held' = held
    BY <2>3 DEF KubeRBACProxyObjectsChecker, At, Return, FailRead, request, proxy
  <2>5. RunSpec' = RunSpec
    BY <1>a, <2>2, <2>4 DEF RunSpec
  <2>6. ~Advance(Result("Stop", OtherError))
    <3>1. Result("Stop", OtherError) \in Results /\ Result("Stop", OtherError).action = "Stop"
      BY ResultFacts DEF Result, Actions, Errors
    <3> QED BY <1>a, <2>4, <3>1
  <2>7. EnableRBAC(RunSpec) /\ ProxyObjectsPresent(RunSpec)
    BY <2>3, <2>5, <2>6 DEF KubeRBACProxyObjectsChecker, Return, FailRead, EnableRBAC
  <2> QED BY <2>4, <2>7 DEF ProxyObjectsPresent, ProxyObjectsOf, Recorded
<1>2. CASE DeleteNamespace \/ AwaitNamespace
  <2>1. run.deleted /\ run.at \in {"steps", "wait"}
    BY <1>0, <1>2 DEF DeleteNamespace, AwaitNamespace, At
  <2>2. \/ run' = [run EXCEPT !.at = "wait"]
        \/ \E o \in {"gone", "timeout", "error"} : Advance(DeleterResult(o, "Requeue"))
    BY <1>2 DEF DeleteNamespace, AwaitNamespace, Return, FailRead
  <2>3. \A o \in {"gone", "timeout", "error"} : DeleterResult(o, "Requeue") \in Results
    BY ResultFacts DEF Actions
  <2>4. run'.at = "wait" \/ run'.deleted
    BY <1>0, <1>a, <2>1, <2>2, <2>3 DEF Runs
  <2> QED BY <2>4 DEF ProxyReady
<1>3. CASE Finalizer
  <2>1. PICK res \in Results : Advance(res)
    BY <1>3, ResultFacts DEF Finalizer, Return, FailRead, Actions, Errors
  <2>2. At("Finalizer")
    BY <1>3 DEF Finalizer
  <2> QED BY <1>b, <2>1, <2>2 DEF ProxyReady
<1>4. CASE Start \/ UpdateStatus
  <2>1. run' = Idle \/ run'.pc = 1
    BY <1>4 DEF Start, UpdateStatus, End, Idle
  <2> QED BY <1>0, <2>1 DEF ProxyReady
<1> QED BY <1>1, <1>2, <1>3, <1>4, SubReconcilersStep DEF Operator

\* A DaemonSet with kube-rbac-proxy is only rolled out by a reconcile during which each
\* secret its pods mount was there as far as the informers knew, whoever deletes what.
THEOREM SecuredRollout == Spec => DaemonSetAfterProxySecrets
<1>1. Init => Recorded /\ ProxyReady
  BY DEF Init, Idle, ProxyReady, Recorded, InCache, Exists, ProxySecrets, Kinds, Namespaced
<1>2. Inv /\ Recorded /\ ProxyReady /\ [Next]_vars => Recorded' /\ ProxyReady'
  BY RecordedStep, ProxyReadyOutside, ProxyReadyOperator
<1>3. ASSUME Inv, ProxyReady, [Next]_vars
      PROVE  [obj'["DaemonSet"] # obj["DaemonSet"] /\ obj'["DaemonSet"] # 0
                /\ EnableRBAC(specs[obj'["DaemonSet"]])
              => ProxySecrets \subseteq held]_vars
  <2> SUFFICES ASSUME obj'["DaemonSet"] # obj["DaemonSet"], obj'["DaemonSet"] # 0,
                      EnableRBAC(specs[obj'["DaemonSet"]])
               PROVE  ProxySecrets \subseteq held
    OBVIOUS
  <2>1. "DaemonSet" \in Kinds /\ "DaemonSet" \in Namespaced
    BY DEF Kinds, Namespaced
  <2>2. Operator
    BY <1>3, <2>1, OutsideSteps
  <2>3. SomeStep
    <3>1. obj' # obj
      OBVIOUS
    <3>2. ~(DeleteNamespace \/ AwaitNamespace \/ Finalizer \/ Start \/ UpdateStatus)
      BY <3>1 DEF DeleteNamespace, AwaitNamespace, Finalizer, Start, UpdateStatus, Return,
                  FailRead
    <3> QED BY <1>3, <2>2, <3>2, SubReconcilersStep DEF Operator
  <2>4. PICK s : At(s) /\ Stepped(s)
    BY <2>3 DEF SomeStep
  <2>5. s = "DaemonSet" /\ CanApply(s) /\ obj'[s] = run.gen
    BY <2>1, <2>4 DEF Stepped
  <2>6. run.at = "steps" /\ run.pc \in 1 .. Len(Path) /\ ~run.deleted
    <3>1. run.at = "steps" /\ run.pc \in 1 .. Len(Path) /\ Path[run.pc] = "DaemonSet"
      BY <1>3, <2>4, <2>5 DEF At, Inv, TypeOK
    <3> QED BY <3>1 DEF Path, CleanupPath
  <2>7. run.pc = 13
    BY <2>4, <2>5, <2>6, CheckerStep
  <2> QED BY <1>3, <2>5, <2>6, <2>7 DEF ProxyReady, RunSpec
<1> QED BY <1>1, <1>2, <1>3, Invariance, PTL DEF Spec, DaemonSetAfterProxySecrets

(***************************************************************************)
(* In the end the secrets of a secured DaemonSet exist.                    *)
(***************************************************************************)
\* A reconcile that got past the checker, or ended, without an error has seen the
\* certificate; once that is gone from the informers' copies too, a request is queued.
CertificateSeen ==
  /\ OpenShift /\ ~queued /\ ~pmi.deleted /\ ~run.deleted /\ run.err = NoErr
       /\ \/ run.at = "steps" /\ run.pc > 12
          \/ run.at = "status" /\ ~run.again
       /\ EnableRBAC(RunSpec)
     => InCache("TLS")
  /\ AtRest /\ OpenShift /\ EnableRBAC(specs[pmi.gen]) => InCache("TLS")

\* No step is that of the certificate.
LEMMA StepNames ==
  ASSUME run.at = "steps", run.pc \in 1 .. Len(Path), NEW s, At(s)
  PROVE  /\ s # "TLS"
         /\ ~run.deleted /\ s = "Finalizer" => run.pc = 17
  BY DEF At, Path, UpdatePath, CleanupPath

\* The steps of a reconcile keep it.
LEMMA CertificateSeenOperator ==
  ASSUME Inv, CertificateSeen, Operator
  PROVE  CertificateSeen'
<1>0. /\ run \in Runs /\ Idle.at = "idle" /\ run.deleted \in BOOLEAN
      /\ run.at \in {"steps", "wait"} => run.pc \in 1 .. Len(Path) /\ run.pc \in Nat
      /\ run.at = "wait" => run.deleted
      /\ queued \in BOOLEAN /\ run.again \in BOOLEAN /\ Len(UpdatePath) = 17
  BY UpdatePathFacts DEF Inv, TypeOK, Idle, DeletionIsFinal, Runs
<1>a. ASSUME NEW res \in Results, Advance(res), run.at \in {"steps", "wait"}
      PROVE  /\ run'.at \in {"steps", "status"}
             /\ run'.gen = run.gen /\ run'.deleted = run.deleted
             /\ run'.at = "steps" => run'.pc = run.pc + 1 /\ res.action = "Continue"
             /\ run'.err = NoErr /\ (run'.at = "steps" \/ ~run'.again)
                  => run.err = NoErr /\ res = Ok /\ (run'.at = "status" => run.pc = Len(Path))
  BY <1>0, <1>a, AdvanceFacts DEF Advance, EndsRun, Runs
<1>1. CASE SomeStep
  <2>1. PICK s : /\ At(s) /\ Stepped(s)
                 /\ s = "KubeRBACProxyObjectsChecker" => KubeRBACProxyObjectsChecker
    BY <1>1 DEF SomeStep
  <2>2. PICK res \in Results : Advance(res)
    BY <2>1 DEF Stepped
  <2>3. run.at = "steps" /\ run.pc \in 1 .. Len(Path) /\ run.pc \in Nat
    BY <1>0, <2>1 DEF At
  <2>4. UNCHANGED <<specs, pmi, queued, ext>> /\ run'.at # "idle"
    BY <1>a, <2>1, <2>2, <2>3 DEF Stepped
  <2>5. InCache("TLS") => InCache("TLS")'
    BY <2>1, <2>3, <2>4, StepNames DEF Stepped, ProxyStepped, InCache, Exists
  <2> SUFFICES ASSUME OpenShift, ~queued', ~pmi'.deleted, ~run'.deleted, run'.err = NoErr,
                      \/ run'.at = "steps" /\ run'.pc > 12
                      \/ run'.at = "status" /\ ~run'.again,
                      EnableRBAC(RunSpec)'
               PROVE  InCache("TLS")
    BY <2>4, <2>5 DEF CertificateSeen, AtRest
  <2>6. /\ ~run.deleted /\ run.err = NoErr /\ run'.gen = run.gen
        /\ run'.at = "steps" => run'.pc = run.pc + 1
        /\ run'.at = "status" => run.pc = 17
    BY <1>0, <1>a, <2>2, <2>3 DEF Path
  <2>7. EnableRBAC(RunSpec)
    BY <2>4, <2>6 DEF RunSpec, EnableRBAC
  <2>8. CASE run.pc > 12
    BY <2>3, <2>4, <2>6, <2>7, <2>8 DEF CertificateSeen
  <2>9. CASE ~(run.pc > 12)
    <3>1. run.pc = 12 /\ run'.at = "steps"
      BY <2>3, <2>6, <2>9
    <3>2. KubeRBACProxyObjectsChecker
      BY <2>1, <2>3, <2>6, <3>1, CheckerStep
    <3>3. ~Advance(Result("Stop", OtherError))
      <4>1. Result("Stop", OtherError) \in Results /\ Result("Stop", OtherError).action = "Stop"
        BY ResultFacts DEF Result, Actions, Errors
      <4> QED BY <1>a, <2>3, <3>1, <4>1
    <3>4. ProxyObjectsPresent(RunSpec)
      BY <2>7, <3>2, <3>3 DEF KubeRBACProxyObjectsChecker, Return, FailRead
    <3> QED BY <3>4 DEF ProxyObjectsPresent, ProxyObjectsOf, ProxySecrets
  <2> QED BY <2>8, <2>9
<1>2. CASE DeleteNamespace \/ AwaitNamespace
  <2>1. run.deleted /\ run.at \in {"steps", "wait"}
    BY <1>0, <1>2 DEF DeleteNamespace, AwaitNamespace, At
  <2>2. \/ run' = [run EXCEPT !.at = "wait"]
        \/ \E o \in {"gone", "timeout", "error"} : Advance(DeleterResult(o, "Requeue"))
    BY <1>2 DEF DeleteNamespace, AwaitNamespace, Return, FailRead
  <2>3. \A o \in {"gone", "timeout", "error"} : DeleterResult(o, "Requeue") \in Results
    BY ResultFacts DEF Actions
  <2>4. run'.at \in {"wait", "steps", "status"} /\ run'.deleted
    BY <1>0, <1>a, <2>1, <2>2, <2>3 DEF Runs
  <2> QED BY <2>4 DEF CertificateSeen, AtRest
<1>3. CASE Finalizer
  <2>1. run.at = "steps" /\ At("Finalizer")
    BY <1>3 DEF Finalizer, At
  <2>2. Result("Stop", NoErr) # Ok
    BY DEF Result, Ok
  <2>3. PICK res \in Results : /\ Advance(res)
                               /\ res = Ok => UNCHANGED <<specs, pmi, queued>>
    BY <1>3, <2>2, ResultFacts DEF Finalizer, Return, FailRead, Actions, Errors, request
  <2>4. UNCHANGED <<obj, ext, stale>> /\ run'.at # "idle"
    BY <1>3, <1>a, <2>1, <2>3 DEF Finalizer, Return, FailRead, proxy
  <2>5. InCache("TLS") => InCache("TLS")'
    BY <2>4 DEF InCache, Exists
  <2> SUFFICES ASSUME OpenShift, ~queued', ~pmi'.deleted, ~run'.deleted, run'.err = NoErr,
                      \/ run'.at = "steps" /\ run'.pc > 12
                      \/ run'.at = "status" /\ ~run'.again,
                      EnableRBAC(RunSpec)'
               PROVE  InCache("TLS")
    BY <2>4, <2>5 DEF CertificateSeen, AtRest
  <2>6. /\ ~run.deleted /\ run.err = NoErr /\ run'.gen = run.gen /\ res = Ok
    BY <1>a, <2>1, <2>3
  <2>7. run.pc = 17
    BY <1>0, <2>1, <2>6, StepNames
  <2>8. EnableRBAC(RunSpec)
    BY <2>3, <2>6 DEF RunSpec, EnableRBAC
  <2> QED BY <2>1, <2>3, <2>6, <2>7, <2>8 DEF CertificateSeen
<1>4. CASE Start
  <2>1. \/ run' = Idle /\ ~cache.live
        \/ run'.at = "steps" /\ run'.pc = 1
    BY <1>4 DEF Start, Idle
  <2>2. UNCHANGED cache
    BY <1>4 DEF Start
  <2> QED BY <1>0, <2>1, <2>2 DEF CertificateSeen, AtRest
<1>5. CASE UpdateStatus
  <2>1. UNCHANGED <<specs, cache, obj, ext, stale>> /\ run' = Idle /\ run.at = "status"
    BY <1>5 DEF UpdateStatus, End, proxy
  <2> SUFFICES ASSUME AtRest', OpenShift, EnableRBAC(specs[pmi.gen])'
               PROVE  InCache("TLS")
    BY <1>0, <2>1 DEF CertificateSeen, InCache, Exists
  <2>2. cache = pmi' /\ cache.live /\ ~cache.deleted /\ ~queued'
    BY <2>1 DEF AtRest
  <2>3. UNCHANGED pmi
    BY <1>5, <2>2 DEF UpdateStatus
  <2>4. ~queued /\ run.err = NoErr /\ ~run.again
    BY <1>5, <2>2 DEF UpdateStatus, End
  <2>5. run.gen = cache.gen /\ ~run.deleted
    BY <2>1, <2>2, <2>4 DEF Inv, RunIsCurrent
  <2>6. EnableRBAC(RunSpec)
    BY <2>1, <2>2, <2>5 DEF RunSpec, EnableRBAC
  <2> QED BY <2>1, <2>2, <2>3, <2>4, <2>5, <2>6 DEF CertificateSeen
<1> QED BY <1>1, <1>2, <1>3, <1>4, <1>5, SubReconcilersStep DEF Operator

\* What happens without a request outside a reconcile: the PMI stays or gets ahead of
\* the cache, and the certificate stays in the informers' copies of a PMI that cares.
LEMMA QuietSteps ==
  ASSUME Inv, [Next]_vars, ~Operator, ~queued'
  PROVE  \/ StatusReadFails
         \/ /\ ~queued /\ UNCHANGED <<cache, run>>
            /\ UNCHANGED <<specs, pmi>> \/ EditSpec \/ RequestDelete
            /\ InCache("TLS") /\ cache.live /\ OpenShift /\ EnableRBAC(specs[cache.gen])
                 => InCache("TLS")'
<1>0. /\ queued \in BOOLEAN
      /\ ext \in [secrets : SUBSET Secrets, config : BOOLEAN, account : BOOLEAN,
                  tls : BOOLEAN]
  BY DEF Inv, TypeOK
<1>1. CASE SyncCache \/ Wake \/ UpdateStatusFails \/ Crash \/ DaemonSetProgress
  BY <1>1 DEF SyncCache, Wake, UpdateStatusFails, Crash, DaemonSetProgress, End
<1>2. CASE EditSpec \/ RequestDelete \/ RemoveNamespace \/ GarbageCollect \/ UNCHANGED vars
  <2>1. /\ UNCHANGED <<cache, run, queued, ext, stale>>
        /\ UNCHANGED <<specs, pmi>> \/ EditSpec \/ RequestDelete
    BY <1>2 DEF EditSpec, RequestDelete, RemoveNamespace, GarbageCollect, vars, proxy
  <2> QED BY <2>1 DEF InCache, Exists
<1>3. CASE ChangeSecret \/ ChangeConfig \/ ChangeAccount
  <2>1. UNCHANGED <<specs, pmi, cache, run, stale>>
    BY <1>3 DEF ChangeSecret, ChangeConfig, ChangeAccount, proxy
  <2>2. ext'.tls = ext.tls
    BY <1>0, <1>3 DEF ChangeSecret, ChangeConfig, ChangeAccount
  <2>3. ~queued
    BY <1>0, <1>3 DEF ChangeSecret, ChangeConfig, ChangeAccount, Notify
  <2> QED BY <2>1, <2>2, <2>3 DEF InCache, Exists
<1>4. CASE ServeCertificate
  <2>1. UNCHANGED <<specs, pmi, cache, run>> /\ ~queued
    BY <1>0, <1>4 DEF ServeCertificate, Notify
  <2>2. ext'.tls
    BY <1>0, <1>4 DEF ServeCertificate
  <2> QED BY <2>1, <2>2 DEF InCache, Exists
<1>5. CASE RemoveCertificate \/ RemoveObject \/ NamespaceGone
  <2>1. UNCHANGED <<specs, pmi, cache, run>> /\ ~queued
    BY <1>0, <1>5 DEF RemoveCertificate, RemoveObject, NamespaceGone, Notify
  <2>2. InCache("TLS") => "TLS" \in stale' \/ ext'.tls
    <3>1. CASE RemoveCertificate
      BY <3>1 DEF RemoveCertificate, Lost, InCache, Exists, ProxyObjects
    <3>2. CASE RemoveObject
      BY <3>2 DEF RemoveObject, Lost, InCache, Exists
    <3>3. CASE NamespaceGone
      BY <3>3 DEF NamespaceGone, Lost, InCache, Exists, ProxyObjects
    <3> QED BY <1>5, <3>1, <3>2, <3>3
  <2> QED BY <2>1, <2>2 DEF InCache, Exists
<1>6. CASE SyncProxyObjects
  <2>1. PICK o \in stale :
          /\ stale' = stale \ {o}
          /\ Notify(IF o = "TLS" THEN OpenShift /\ EnableRBAC(specs[cache.gen]) ELSE Watched(o))
          /\ UNCHANGED <<specs, pmi, cache, run, ext>>
    BY <1>6 DEF SyncProxyObjects
  <2>2. /\ ~queued
        /\ o = "TLS" => ~(cache.live /\ OpenShift /\ EnableRBAC(specs[cache.gen]))
    BY <1>0, <2>1 DEF Notify
  <2> QED BY <2>1, <2>2 DEF InCache, Exists
<1> QED BY <1>1, <1>2, <1>3, <1>4, <1>5, <1>6 DEF Next

\* What goes on outside a reconcile keeps it.
LEMMA CertificateSeenOutside ==
  ASSUME Inv, CertificateSeen, [Next]_vars, ~Operator
  PROVE  CertificateSeen'
<1>0. /\ pmi \in Pmis /\ cache \in Pmis /\ specs \in Seq(Specs)
      /\ pmi.live => pmi.gen = Len(specs)
      /\ cache.live => cache.gen \in 1 .. Len(specs)
      /\ Skipped.at = "idle" /\ Len(specs) \in Nat
  BY DEF Inv, TypeOK, Skipped, Idle
<1>1. CASE queued'
  BY <1>1 DEF CertificateSeen, AtRest
<1>2. CASE ~queued' /\ StatusReadFails
  <2>1. /\ UNCHANGED <<specs, pmi, cache, obj, ext, stale>> /\ run' = Skipped
        /\ run.at = "status" /\ ~queued /\ run.err = NoErr /\ ~run.again
    BY <1>2 DEF StatusReadFails, proxy
  <2> SUFFICES ASSUME AtRest', OpenShift, EnableRBAC(specs[pmi.gen])'
               PROVE  InCache("TLS")
    BY <1>0, <2>1 DEF CertificateSeen, InCache, Exists
  <2>2. cache = pmi /\ cache.live /\ ~cache.deleted
    BY <2>1 DEF AtRest
  <2>3. run.gen = cache.gen /\ ~run.deleted
    BY <2>1, <2>2 DEF Inv, RunIsCurrent
  <2>4. EnableRBAC(RunSpec)
    BY <2>1, <2>2, <2>3 DEF RunSpec, EnableRBAC
  <2> QED BY <2>1, <2>2, <2>3, <2>4 DEF CertificateSeen
<1>3. CASE ~queued' /\ ~StatusReadFails
  <2>1. /\ ~queued /\ UNCHANGED <<cache, run>>
        /\ UNCHANGED <<specs, pmi>> \/ EditSpec \/ RequestDelete
        /\ InCache("TLS") /\ cache.live /\ OpenShift /\ EnableRBAC(specs[cache.gen])
             => InCache("TLS")'
    BY <1>3, QuietSteps
  <2>2. ~pmi'.deleted => ~pmi.deleted
    BY <1>0, <2>1 DEF EditSpec, RequestDelete, Pmis
  <2>3. ASSUME OpenShift, ~pmi'.deleted, ~run.deleted, run.err = NoErr,
               \/ run.at = "steps" /\ run.pc > 12
               \/ run.at = "status" /\ ~run.again,
               EnableRBAC(RunSpec)'
        PROVE  InCache("TLS")'
    <3>1. RunSpec' = RunSpec
      BY <2>1, <2>3, RunSpecStays
    <3>2. InCache("TLS")
      BY <2>1, <2>2, <2>3, <3>1 DEF CertificateSeen, EnableRBAC
    <3>3. cache.live /\ run.gen = cache.gen
      BY <2>1, <2>3 DEF Inv, RunIsCurrent
    <3> QED BY <2>1, <2>3, <3>1, <3>2, <3>3 DEF RunSpec, EnableRBAC
  <2>4. ASSUME AtRest', OpenShift, EnableRBAC(specs[pmi.gen])'
        PROVE  InCache("TLS")'
    <3>1. cache = pmi' /\ cache.live /\ ~cache.deleted /\ run.at = "idle"
      BY <2>1, <2>4 DEF AtRest
    <3>2. ~RequestDelete
      BY <1>0, <3>1 DEF RequestDelete, Gone, Pmis
    <3>3. ~EditSpec
      <4>1. ASSUME EditSpec PROVE pmi'.gen = Len(specs) + 1
        BY <1>0, <4>1 DEF EditSpec, Pmis
      <4> QED BY <1>0, <3>1, <4>1
    <3>4. UNCHANGED <<specs, pmi>>
      BY <2>1, <3>2, <3>3
    <3>5. InCache("TLS")
      BY <2>1, <2>4, <3>1, <3>4 DEF CertificateSeen, AtRest, EnableRBAC
    <3> QED BY <2>1, <2>4, <3>1, <3>4, <3>5 DEF EnableRBAC
  <2> QED BY <2>1, <2>3, <2>4 DEF CertificateSeen
<1> QED BY <1>1, <1>2, <1>3

\* At rest on OpenShift the secrets of a PMI that asks for rbac exist, whoever deleted
\* them and however late the informers were when the checker looked.
THEOREM SecuredInTheEnd == Spec => []SecuredAtRest
<1>1. Init => CertificateSeen
  <2>1. ASSUME Init PROVE pmi.live /\ ~cache.live /\ run.at = "idle"
    BY <2>1 DEF Init, Gone, Idle
  <2> QED BY <2>1 DEF CertificateSeen, AtRest
<1>2. Inv /\ CertificateSeen /\ [Next]_vars => CertificateSeen'
  BY CertificateSeenOperator, CertificateSeenOutside
<1>3. ASSUME Inv, CertificateSeen PROVE SecuredAtRest
  <2> SUFFICES ASSUME Quiescent, OpenShift, EnableRBAC(specs[pmi.gen])
               PROVE  \A o \in ProxySecrets : Exists(o)
    BY DEF SecuredAtRest
  <2>1. Exists("TLS")
    BY <1>3 DEF CertificateSeen, Quiescent, InCache
  <2>2. Exists("KubeRBACProxyConfig")
    <3>1. /\ "KubeRBACProxyConfig" \in Kinds /\ Restored("KubeRBACProxyConfig")
          /\ Wanted(specs[pmi.gen], "KubeRBACProxyConfig")
      BY DEF Kinds, Namespaced, Restored, Watched, Wanted, OpenShiftOnly
    <3>2. UpToDate("KubeRBACProxyConfig", pmi.gen)
      BY <1>3, <3>1 DEF Inv, RestSettled, AllSettled, Settled, Quiescent
    <3>3. pmi.gen = Len(specs) /\ specs \in Seq(Specs) /\ specs # <<>>
      BY <1>3 DEF Inv, TypeOK, Quiescent, AtRest
    <3>4. pmi.gen # 0
      BY <3>3
    <3> QED BY <3>1, <3>2, <3>4 DEF UpToDate, Exists
  <2> QED BY <2>1, <2>2 DEF ProxySecrets
<1> QED BY <1>1, <1>2, <1>3, Invariance, PTL DEF Spec

(***************************************************************************)
(* The Available condition does not go stale.                              *)
(***************************************************************************)
\* The condition is that of the DaemonSet of now.
Tracked ==
  pmi.available \in {AvailableCondition(pmi.gen, NoErr, obj["DaemonSet"] # 0,
                                        ds.status, ds.synced),
                     DaemonSetGetErrorCondition}

\* AvailabilityTracked, while the informers may still be behind.
RestTracked == AtRest /\ run # Skipped => Tracked

\* Nothing happened to the DaemonSet, or there was none and there is none.
LEMMA TrackedStays ==
  ASSUME RestTracked, UNCHANGED <<pmi, cache, run>>, queued => queued',
         \/ obj'["DaemonSet"] = obj["DaemonSet"] /\ ds' = ds
         \/ obj'["DaemonSet"] = 0 /\ obj["DaemonSet"] = 0
  PROVE  RestTracked'
<1> SUFFICES ASSUME AtRest', run' # Skipped PROVE Tracked'
  BY DEF RestTracked
<1>1. Tracked
  BY DEF RestTracked, AtRest
<1>2. CASE obj'["DaemonSet"] = obj["DaemonSet"] /\ ds' = ds
  BY <1>1, <1>2 DEF Tracked
<1>3. CASE obj'["DaemonSet"] = 0 /\ obj["DaemonSet"] = 0
  BY <1>1, <1>3 DEF Tracked, AvailableCondition
<1> QED BY <1>2, <1>3

\* Unless a step of a reconcile is the last one, there is no rest after it.
LEMMA TrackedOperator ==
  ASSUME Inv, Operator
  PROVE  RestTracked'
<1> SUFFICES ASSUME AtRest', run' # Skipped PROVE Tracked'
  BY DEF RestTracked
<1>0. /\ run \in Runs
      /\ run.at \in {"steps", "wait"} => run.pc \in 1 .. Len(Path)
      /\ cache \in Pmis /\ run.again \in BOOLEAN /\ queued \in BOOLEAN
  BY DEF Inv, TypeOK, Runs
<1>a. ASSUME NEW res \in Results, Advance(res), run.at \in {"steps", "wait"}
      PROVE  FALSE
  <2>1. run'.at \in {"steps", "status"}
    BY <1>0, <1>a, AdvanceFacts
  <2> QED BY <2>1 DEF AtRest
<1>1. CASE SomeStep
  BY <1>1, <1>a DEF SomeStep, Stepped, At
<1>2. CASE DeleteNamespace \/ AwaitNamespace
  <2>1. run.at \in {"steps", "wait"}
    BY <1>2 DEF DeleteNamespace, AwaitNamespace, At
  <2>2. \/ run' = [run EXCEPT !.at = "wait"]
        \/ \E o \in {"gone", "timeout", "error"} : Advance(DeleterResult(o, "Requeue"))
    BY <1>2 DEF DeleteNamespace, AwaitNamespace, Return, FailRead
  <2>3. \A o \in {"gone", "timeout", "error"} : DeleterResult(o, "Requeue") \in Results
    BY ResultFacts DEF Actions
  <2> QED BY <1>0, <1>a, <2>1, <2>2, <2>3 DEF AtRest, Runs
<1>3. CASE Finalizer
  <2>1. PICK res \in Results : Advance(res)
    BY <1>3, ResultFacts DEF Finalizer, Return, FailRead, Actions, Errors
  <2> QED BY <1>3, <1>a, <2>1 DEF Finalizer, At
<1>4. CASE Start
  BY <1>4 DEF Start, AtRest, Idle
<1>5. CASE UpdateStatus
  <2>1. /\ UNCHANGED <<cache, obj, ds>> /\ cache = pmi' /\ cache.live /\ ~cache.deleted
    BY <1>5 DEF UpdateStatus, AtRest
  <2>2. PICK available \in {AvailableCondition(cache.gen, run.err, obj["DaemonSet"] # 0,
                                               ds.status, ds.synced),
                            DaemonSetGetErrorCondition} :
          LET new == [cache EXCEPT !.reconciled = ReconciledCondition(cache.gen, run.err),
                                   !.available = available]
          IN  \/ new = cache /\ End(FALSE) /\ UNCHANGED pmi
              \/ new # cache /\ cache = pmi /\ End(FALSE) /\ pmi' = new
              \/ new # cache /\ cache # pmi /\ End(TRUE) /\ UNCHANGED pmi
    BY <1>5, <2>1 DEF UpdateStatus
  <2>3. /\ End(FALSE)
        /\ cache = [cache EXCEPT !.reconciled = ReconciledCondition(cache.gen, run.err),
                                 !.available = available]
    BY <2>1, <2>2
  <2>4. cache.available = available
    BY <1>0, <2>3 DEF Pmis
  <2>5. run.err = NoErr
    BY <2>3 DEF End, AtRest
  <2> QED BY <2>1, <2>2, <2>4, <2>5 DEF Tracked
<1> QED BY <1>1, <1>2, <1>3, <1>4, <1>5, SubReconcilersStep DEF Operator

\* A request is queued for what happens to the DaemonSet.
LEMMA TrackedOutside ==
  ASSUME Inv, RestTracked, [Next]_vars, ~Operator
  PROVE  RestTracked'
<1>0. /\ obj \in [Kinds -> 0 .. Len(specs)] /\ "DaemonSet" \in Kinds
      /\ "DaemonSet" \in Namespaced /\ Watched("DaemonSet") /\ "DaemonSet" # "Namespace"
      /\ "DaemonSet" \notin ProxyObjects /\ cache.live \in BOOLEAN /\ queued \in BOOLEAN
  BY DEF Inv, TypeOK, Kinds, Namespaced, Watched, Pmis, ProxyObjects
<1>1. CASE \/ ChangeSecret \/ ChangeConfig \/ ChangeAccount \/ ServeCertificate
           \/ RemoveCertificate \/ SyncProxyObjects \/ RemoveNamespace \/ UNCHANGED vars
  <2>1. UNCHANGED <<pmi, cache, run, obj, ds>>
    BY <1>1 DEF ChangeSecret, ChangeConfig, ChangeAccount, ServeCertificate,
                RemoveCertificate, SyncProxyObjects, RemoveNamespace, vars
  <2>2. queued => queued'
    BY <1>0, <1>1 DEF ChangeSecret, ChangeConfig, ChangeAccount, ServeCertificate,
                      RemoveCertificate, SyncProxyObjects, RemoveNamespace, Notify, vars
  <2> QED BY <2>1, <2>2, TrackedStays
<1>2. CASE SyncCache \/ Wake \/ UpdateStatusFails \/ Crash \/ DaemonSetProgress
  <2>1. queued'
    BY <1>2 DEF SyncCache, Wake, UpdateStatusFails, Crash, DaemonSetProgress, End
  <2> QED BY <2>1 DEF RestTracked, AtRest
<1>3. CASE StatusReadFails
  BY <1>3 DEF StatusReadFails, RestTracked
<1>4. CASE EditSpec
  <2>1. PICK s \in Specs : specs' = Append(specs, s)
    BY <1>4 DEF EditSpec
  <2>2. /\ pmi \in Pmis /\ pmi.live /\ cache' = cache /\ pmi' = [pmi EXCEPT !.gen = @ + 1]
        /\ pmi.gen = Len(specs) /\ specs \in Seq(Specs)
        /\ cache.live => cache.gen \in 1 .. Len(specs)
    BY <1>4 DEF EditSpec, Inv, TypeOK
  <2>3. pmi'.gen = Len(specs) + 1 /\ pmi'.live
    BY <2>2 DEF Pmis
  <2>4. ASSUME cache = pmi' PROVE FALSE
    <3>1. cache.live /\ cache.gen = Len(specs) + 1
      BY <2>3, <2>4
    <3> QED BY <2>2, <3>1
  <2> QED BY <2>2, <2>4 DEF RestTracked, AtRest
<1>5. CASE RequestDelete \/ GarbageCollect
  <2>1. pmi'.deleted \/ ~pmi'.live
    BY <1>5 DEF RequestDelete, GarbageCollect, Gone, Inv, TypeOK, Pmis
  <2> QED BY <2>1 DEF RestTracked, AtRest
<1>6. CASE RemoveObject
  <2>1. PICK k \in Removable \ {"Namespace", "TLS"} :
          /\ obj' = [obj EXCEPT ![k] = 0]
          /\ ds' = IF k = "DaemonSet" THEN [status |-> NoPods, synced |-> FALSE] ELSE ds
          /\ queued' = (queued \/ (cache.live /\ Watched(k) /\ k \notin ProxyObjects))
          /\ UNCHANGED <<pmi, cache, run>>
    BY <1>6 DEF RemoveObject, Notify
  <2>2. CASE k = "DaemonSet"
    <3>1. ~AtRest'
      BY <1>0, <2>1, <2>2 DEF AtRest
    <3> QED BY <3>1 DEF RestTracked
  <2>3. CASE k # "DaemonSet"
    <3>1. obj'["DaemonSet"] = obj["DaemonSet"] /\ ds' = ds /\ (queued => queued')
      BY <1>0, <2>1, <2>3
    <3> QED BY <2>1, <3>1, TrackedStays
  <2> QED BY <2>2, <2>3
<1>7. CASE NamespaceGone
  <2>1. PICK c : /\ queued' = (queued \/ (cache.live /\ c))
                 /\ obj["DaemonSet"] # 0 => c
    BY <1>0, <1>7 DEF NamespaceGone, Notify
  <2>2. UNCHANGED <<pmi, cache, run>> /\ obj'["DaemonSet"] = 0
    BY <1>0, <1>7 DEF NamespaceGone
  <2>3. CASE obj["DaemonSet"] # 0
    <3>1. ~AtRest'
      BY <1>0, <2>1, <2>2, <2>3 DEF AtRest
    <3> QED BY <3>1 DEF RestTracked
  <2>4. CASE obj["DaemonSet"] = 0
    BY <2>1, <2>2, <2>4, TrackedStays
  <2> QED BY <2>3, <2>4
<1> QED BY <1>1, <1>2, <1>3, <1>4, <1>5, <1>6, <1>7 DEF Next

\* At rest the Available condition is that of the DaemonSet's status of now, unless
\* the DaemonSet or the PMI could not be read.
THEOREM AvailabilityIsTracked == Spec => []AvailabilityTracked
<1>1. Init => RestTracked
  <2>1. ASSUME Init PROVE pmi.live /\ ~cache.live
    BY <2>1 DEF Init, Gone
  <2> QED BY <2>1 DEF RestTracked, AtRest
<1>2. Inv /\ RestTracked /\ [Next]_vars => RestTracked'
  BY TrackedOperator, TrackedOutside
<1>3. RestTracked => AvailabilityTracked
  BY DEF RestTracked, Tracked, AvailabilityTracked, Quiescent
<1> QED BY <1>1, <1>2, <1>3, Invariance, PTL DEF Spec

(***************************************************************************)
(* No object goes back to an older generation.                             *)
(***************************************************************************)
\* What is deployed is not newer than the run's copy of the PMI, and that is not newer
\* than the cached one.
GenerationsInOrder ==
  /\ cache.live => \A k \in Kinds : obj[k] <= cache.gen
  /\ run.at # "idle" => \A k \in Kinds : obj[k] <= run.gen
  /\ run.at # "idle" /\ cache.live => run.gen <= cache.gen

NotRolledBack == \A k \in Kinds : obj'[k] = 0 \/ obj'[k] >= obj[k]

\* A step writes the run's generation, nothing, or removes.
LEMMA ObjectsWritten ==
  ASSUME Inv, [Next]_vars
  PROVE  \/ \A k \in Kinds : obj'[k] \in {0, obj[k]}
         \/ /\ \A k \in Kinds : obj'[k] \in {0, obj[k], run.gen}
            /\ run.at = "steps" /\ UNCHANGED cache
<1>1. CASE ~Operator
  BY <1>1, OutsideSteps
<1>2. CASE SomeStep
  BY <1>2 DEF SomeStep, Stepped, At
<1>3. CASE DeleteNamespace \/ AwaitNamespace \/ Finalizer \/ Start \/ UpdateStatus
  BY <1>3 DEF DeleteNamespace, AwaitNamespace, Finalizer, Start, UpdateStatus, Return, FailRead
<1> QED BY <1>1, <1>2, <1>3, SubReconcilersStep DEF Operator

\* A run keeps its generation until it ends; a new one has the cached PMI's.
LEMMA RunsFollowCache ==
  ASSUME Inv, [Next]_vars
  PROVE  \/ run'.at = "idle"
         \/ run.at # "idle" /\ run'.gen = run.gen
         \/ run'.gen = cache.gen /\ cache.live /\ UNCHANGED <<cache, obj>>
<1>0. run \in Runs /\ Idle.at = "idle"
  BY DEF Inv, TypeOK, Idle
<1>a. ASSUME NEW res \in Results, Advance(res)
      PROVE  run'.gen = run.gen
  BY <1>0, <1>a DEF Advance, Runs
<1>1. CASE ~Operator
  BY <1>1, OutsideSteps
<1>2. CASE SomeStep
  BY <1>a, <1>2 DEF SomeStep, Stepped, At
<1>3. CASE DeleteNamespace \/ AwaitNamespace \/ Finalizer
  <2>1. run.at # "idle"
    BY <1>3 DEF DeleteNamespace, AwaitNamespace, Finalizer, At
  <2>2. \/ run' = [run EXCEPT !.at = "wait"]
        \/ \E res \in Results : Advance(res)
    BY <1>3, ResultFacts DEF DeleteNamespace, AwaitNamespace, Finalizer, Return, FailRead,
                             Actions, Errors
  <2> QED BY <1>0, <1>a, <2>1, <2>2 DEF Runs
<1>4. CASE Start
  BY <1>0, <1>4 DEF Start, Idle
<1>5. CASE UpdateStatus
  BY <1>0, <1>5 DEF UpdateStatus, End
<1> QED BY <1>1, <1>2, <1>3, <1>4, <1>5, SubReconcilersStep DEF Operator

\* The cache is only ever brought up to the server's PMI.
LEMMA CacheFollows ==
  ASSUME [Next]_vars
  PROVE  cache' = cache \/ (cache' = pmi /\ UNCHANGED obj)
<1>1. CASE UNCHANGED vars
  BY <1>1 DEF vars
<1>2. CASE Operator
  BY <1>2 DEF Operator, Finalizer, UpdateStatus, UpdateNamespace, SecretMounter,
       UpdateResources, KubeRBACProxyConfigReconciler, CABundleConfigReconciler,
       UWMSecretTokenReconciler, PowerMonitorDeployer, KubeRBACProxyObjectsChecker,
       PowerMonitorServiceMonitorReconciler, DeleteResources, DeleteNamespace,
       AwaitNamespace, Start, Update, Delete, Return, FailRead, request
<1>3. CASE SyncCache \/ Wake \/ UpdateStatusFails \/ StatusReadFails \/ Crash
  BY <1>3 DEF SyncCache, Wake, UpdateStatusFails, StatusReadFails, Crash
<1>4. CASE \/ EditSpec \/ RequestDelete \/ ChangeSecret \/ ChangeConfig \/ ChangeAccount
           \/ ServeCertificate \/ RemoveCertificate \/ RemoveObject \/ SyncProxyObjects
           \/ RemoveNamespace \/ DaemonSetProgress \/ NamespaceGone \/ GarbageCollect
  BY <1>4 DEF EditSpec, RequestDelete, ChangeSecret, ChangeConfig, ChangeAccount,
       ServeCertificate, RemoveCertificate, RemoveObject, SyncProxyObjects,
       RemoveNamespace, DaemonSetProgress, NamespaceGone, GarbageCollect
<1> QED BY <1>1, <1>2, <1>3, <1>4 DEF Next

\* Every step keeps the generations in order and rolls nothing back.
LEMMA GenerationsStep ==
  ASSUME Inv, GenerationsInOrder, [Next]_vars
  PROVE  NotRolledBack /\ GenerationsInOrder'
<1>1. /\ obj \in [Kinds -> 0 .. Len(specs)] /\ Len(specs) \in Nat /\ run.gen \in Nat
      /\ pmi.live => pmi.gen = Len(specs)
      /\ cache.live => cache.gen \in Nat
      /\ run.at # "idle" => run.gen <= Len(specs)
      /\ pmi.gen \in Nat /\ cache.gen \in Nat
  BY DEF Inv, TypeOK, Runs, Pmis
<1>2. \A k \in Kinds : obj[k] \in Nat /\ obj[k] <= Len(specs)
  BY <1>1
<1>3. NotRolledBack /\ \A k \in Kinds : obj'[k] \in Nat
  BY <1>1, <1>2, ObjectsWritten DEF GenerationsInOrder, NotRolledBack
<1>4. cache'.live => \A k \in Kinds : obj'[k] <= cache'.gen
  <2>1. CASE cache' = cache
    BY <1>1, <1>2, <2>1, ObjectsWritten DEF GenerationsInOrder
  <2>2. CASE cache' = pmi /\ UNCHANGED obj
    BY <1>1, <1>2, <2>2
  <2> QED BY <2>1, <2>2, CacheFollows
<1>5. run'.at # "idle" => \A k \in Kinds : obj'[k] <= run'.gen
  <2>1. CASE run.at # "idle" /\ run'.gen = run.gen
    BY <1>1, <1>2, <2>1, ObjectsWritten DEF GenerationsInOrder
  <2>2. CASE run'.gen = cache.gen /\ cache.live /\ UNCHANGED <<cache, obj>>
    BY <2>2 DEF GenerationsInOrder
  <2> QED BY <2>1, <2>2, RunsFollowCache
<1>6. run'.at # "idle" /\ cache'.live => run'.gen <= cache'.gen
  <2>1. CASE run.at # "idle" /\ run'.gen = run.gen
    <3>1. CASE cache' = cache
      BY <2>1, <3>1 DEF GenerationsInOrder
    <3>2. CASE cache' = pmi
      BY <1>1, <2>1, <3>2
    <3> QED BY <3>1, <3>2, CacheFollows
  <2>2. CASE run'.gen = cache.gen /\ UNCHANGED <<cache, obj>>
    BY <1>1, <2>2
  <2> QED BY <2>1, <2>2, RunsFollowCache
<1> QED BY <1>3, <1>4, <1>5, <1>6 DEF GenerationsInOrder

\* An object the operator manages never goes back to an older generation of the spec:
\* a run that was overtaken by an edit ends before a newer one starts, and a restart
\* works from the PMI of then.
THEOREM NeverRolledBack == Spec => [][NotRolledBack]_vars
<1>1. Init => GenerationsInOrder
  BY DEF Init, GenerationsInOrder, Idle, Gone
<1>2. Inv /\ GenerationsInOrder /\ [Next]_vars => NotRolledBack /\ GenerationsInOrder'
  BY GenerationsStep
<1> QED BY <1>1, <1>2, Invariance, PTL DEF Spec
===============================================================================
