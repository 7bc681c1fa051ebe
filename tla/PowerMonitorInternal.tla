------------------------- MODULE PowerMonitorInternal -------------------------
(***************************************************************************)
(* The PowerMonitorInternal controller: one reconcile request at a time is *)
(* taken from the work queue, the PowerMonitorInternal object (PMI) is     *)
(* read from the informer cache, the list of sub-reconcilers its copy      *)
(* calls for is run one after the other against the API server, and the    *)
(* outcome is written to the PMI's status.  Users edit and delete the PMI, *)
(* other controllers change what the operator reads, calls to the API      *)
(* server fail and the operator crashes at any point in between.           *)
(*                                                                         *)
(* An object the operator applies is represented by the generation of the  *)
(* PMI it was built from; 0 means that it does not exist.                  *)
(***************************************************************************)
EXTENDS Naturals, Sequences, Reconciler

CONSTANTS
  Secrets,      \* names of user secrets a spec may mount
  Specs,        \* the specs users write, a set of records (see SpecsAssumption)
  DsStatuses,   \* the statuses the DaemonSet controller reports
  OpenShift,    \* Config.Cluster = k8s.OpenShift
  Removable,    \* kinds of managed objects that others delete
  MaxGen,       \* bound: spec edits
  MaxFaults     \* bound: failed calls, crashes and withdrawn objects

Counts == [desired : Nat, ready : Nat, updated : Nat, available : Nat,
           unavailable : Nat]

NoPods == [desired |-> 0, ready |-> 0, updated |-> 0, available |-> 0,
           unavailable |-> 0]

ASSUME SpecsAssumption ==
  Specs \subseteq [mode : {"none", "rbac"}, uwm : BOOLEAN,
                   secrets : SUBSET Secrets, extraConfig : BOOLEAN]
ASSUME DsStatusesAssumption == DsStatuses \subseteq Counts
ASSUME OpenShiftAssumption == OpenShift \in BOOLEAN
ASSUME BoundsAssumption == MaxGen \in Nat \ {0} /\ MaxFaults \in Nat

VARIABLES
  specs,        \* history: specs[g] is the spec of generation g of the PMI
  pmi,          \* the PMI as the API server has it
  cache,        \* the PMI as the operator's informer cache has it
  queued,       \* the PMI's request is in the work queue, now or after a delay
  run,          \* the reconcile in progress
  obj,          \* the objects the operator manages
  terminating,  \* the deployment namespace has a deletion timestamp
  ext,          \* objects the operator only reads
  stale,        \* proxy objects that are gone, in the informers' copies still
  held,         \* history: the proxy's secrets that the informers' copies held at
                \* some time since the last reconcile began
  ds,           \* what the DaemonSet controller reports
  faults        \* faults so far

proxy == <<stale, held>>

vars == <<specs, pmi, cache, queued, run, obj, terminating, ext, stale, held, ds, faults>>

(***************************************************************************)
(* The objects, as the constructors of pkg/components/power-monitor make   *)
(* them, and the two lists of sub-reconcilers.                             *)
(***************************************************************************)
Cluster == {"Namespace", "ClusterRole", "ClusterRoleBinding", "SCC",
            "OverviewDashboard", "NamespaceInfoDashboard"}
Namespaced == {"KubeRBACProxyConfig", "CABundle", "UWMSecretToken",
               "ServiceAccount", "Service", "ConfigMap", "DaemonSet",
               "ServiceMonitor"}
Kinds == Cluster \cup Namespaced

OpenShiftOnly == {"SCC", "OverviewDashboard", "NamespaceInfoDashboard"}

\* What kube-rbac-proxy needs, as KubeRBACProxyObjectsChecker looks for it: three
\* managed objects and the certificate, which is made for the operator.
ProxyObjects == {"KubeRBACProxyConfig", "TLS", "CABundle", "UWMSecretToken"}

\* The secrets the DaemonSet's pods mount for it.
ProxySecrets == {"KubeRBACProxyConfig", "TLS"}

ASSUME RemovableAssumption == Removable \subseteq Kinds \cup {"TLS"}

\* The kinds the controller Owns, that is, whose deletion is a request.
Watched(k) ==
  /\ k # "Namespace"
  /\ k \in {"KubeRBACProxyConfig", "UWMSecretToken"} => OpenShift

\* The checker of the kube-rbac-proxy objects listed after the DaemonSet.
UpdatePathCheckedLate ==
  <<"Namespace", "SecretMounter", "ClusterRole", "ClusterRoleBinding", "SCC",
    "KubeRBACProxyConfig", "CABundle", "UWMSecretToken", "ServiceAccount",
    "Service", "ConfigMap", "DaemonSet", "KubeRBACProxyObjectsChecker",
    "ServiceMonitor", "OverviewDashboard", "NamespaceInfoDashboard",
    "Finalizer">>

\* The checker listed before the Service whose annotation makes the platform
\* issue the certificate the checker waits for.
UpdatePathCheckedEarly ==
  <<"Namespace", "SecretMounter", "ClusterRole", "ClusterRoleBinding", "SCC",
    "KubeRBACProxyConfig", "CABundle", "UWMSecretToken", "ServiceAccount",
    "KubeRBACProxyObjectsChecker", "Service", "ConfigMap", "DaemonSet",
    "ServiceMonitor", "OverviewDashboard", "NamespaceInfoDashboard",
    "Finalizer">>

\* reconcilersForPowerMonitor for a PMI that is not being deleted.  The
\* resources of OpenShiftOnly are absent from the list on other clusters,
\* which is the same as a step that does nothing.
UpdatePath ==
  <<"Namespace", "SecretMounter", "ClusterRole", "ClusterRoleBinding", "SCC",
    "KubeRBACProxyConfig", "CABundle", "UWMSecretToken", "ServiceAccount",
    "Service", "ConfigMap", "KubeRBACProxyObjectsChecker", "DaemonSet",
    "ServiceMonitor", "OverviewDashboard", "NamespaceInfoDashboard",
    "Finalizer">>

\* reconcilersForPowerMonitor for a PMI with a deletion timestamp.
CleanupPath ==
  <<"ClusterRoleBinding", "ClusterRole", "OverviewDashboard",
    "NamespaceInfoDashboard", "Namespace", "Finalizer">>

\* enableRBAC and enableUWM of powerMonitorExporters.
EnableRBAC(spec) == spec.mode = "rbac"
EnableUWM(spec) == spec.uwm

\* Whether a spec calls for the object; if not, the update path removes it.
Wanted(spec, k) ==
  /\ k = "KubeRBACProxyConfig" => EnableRBAC(spec)
  /\ k \in {"CABundle", "UWMSecretToken"} => EnableRBAC(spec) /\ EnableUWM(spec)
  /\ k = "ServiceMonitor" => (EnableRBAC(spec) => EnableUWM(spec))
  /\ k \in OpenShiftOnly => OpenShift

(***************************************************************************)
(* Status conditions.  The message is abstracted to what varies in it: the *)
(* error for Reconciled, the pod counts it quotes for Available.           *)
(***************************************************************************)
Condition(status, og, reason, message) ==
  [status |-> status, og |-> og, reason |-> reason, message |-> message]

\* A new PMI has no conditions; sanitizePowerMonitorConditions then adds both
\* types like this before either is looked at.
UnsetReconciled == Condition("False", 0, "", NoErr)
UnsetAvailable == Condition("False", 0, "", <<>>)

\* The condition does not say which generation it is about.
ReconciledConditionUnversioned(gen, err) ==
  IF err = NoErr THEN Condition("True", 0, "ReconcileSuccess", NoErr)
                 ELSE Condition("False", 0, "ReconcileError", err)

\* updatePowerMonitorReconciledStatus
ReconciledCondition(gen, err) ==
  IF err = NoErr THEN Condition("True", gen, "ReconcileSuccess", NoErr)
                 ELSE Condition("False", gen, "ReconcileError", err)

\* availablePowerMonitorCondition: d is the DaemonSet's status, synced says
\* that the status is that of the DaemonSet's current generation.
DaemonSetCondition(d, synced) ==
  IF ~synced THEN Condition("Unknown", 0, "DaemonSetOutOfSync", <<>>)
  ELSE IF d.ready = 0 \/ d.desired = 0
  THEN Condition("False", 0, "DaemonSetPodsNotRunning", <<>>)
  ELSE IF d.updated < d.desired
  THEN Condition("Unknown", 0, "DaemonSetRolloutInProgress",
                 <<d.updated, d.desired>>)
  ELSE IF d.available < d.desired
  THEN Condition("Unknown", 0, "DaemonSetPartiallyAvailable",
                 <<d.available, d.desired>>)
  ELSE IF d.unavailable > 0
  THEN Condition("False", 0, "DaemonSetPartiallyAvailable", <<d.unavailable>>)
  ELSE Condition("True", 0, "DaemonSetReady", <<d.ready, d.desired>>)

\* updatePowerMonitorAvailableStatus
AvailableCondition(gen, err, exists, d, synced) ==
  LET c == DaemonSetCondition(d, synced)
  IN  IF ~exists THEN Condition("False", 0, "DaemonSetNotFound", <<>>)
      ELSE IF err = NoErr THEN [c EXCEPT !.og = gen]
      ELSE IF err = SecretNotFoundError
      THEN Condition("Degraded", 0, "SecretNotFound", <<>>)
      ELSE [c EXCEPT !.status = "Degraded", !.reason = "ReconcileError"]

\* ... and when the DaemonSet cannot be read.
DaemonSetGetErrorCondition == Condition("Unknown", 0, "DaemonSetError", <<>>)

Reasons == {"", "ReconcileSuccess", "ReconcileError", "SecretNotFound",
            "DaemonSetNotFound", "DaemonSetError", "DaemonSetOutOfSync",
            "DaemonSetPodsNotRunning", "DaemonSetRolloutInProgress",
            "DaemonSetPartiallyAvailable", "DaemonSetReady"}

Conditions == [status : {"True", "False", "Unknown", "Degraded"}, og : Nat,
               reason : Reasons, message : Errors \cup Seq(Nat)]

(***************************************************************************)
(* State.                                                                  *)
(***************************************************************************)
Gone == [live |-> FALSE, gen |-> 0, deleted |-> TRUE, fin |-> FALSE,
         reconciled |-> UnsetReconciled, available |-> UnsetAvailable]

Pmis == [live : BOOLEAN, gen : Nat, deleted : BOOLEAN, fin : BOOLEAN,
         reconciled : Conditions, available : Conditions]

Idle == [at |-> "idle", pc |-> 0, gen |-> 0, deleted |-> FALSE,
         err |-> NoErr, again |-> FALSE]

\* No reconcile in progress; the last one skipped its status update.
Skipped == [Idle EXCEPT !.err = OtherError]

Runs == [at : {"idle", "steps", "wait", "status"}, pc : Nat, gen : Nat,
         deleted : BOOLEAN, err : Errors, again : BOOLEAN]

Init ==
  /\ specs \in {<<s>> : s \in Specs}
  /\ pmi = [Gone EXCEPT !.live = TRUE, !.gen = 1, !.deleted = FALSE]
  /\ cache = Gone
  /\ queued = FALSE
  /\ run = Idle
  /\ obj = [k \in Kinds |-> 0]
  /\ terminating = FALSE
  /\ ext = [secrets |-> {}, config |-> FALSE, account |-> FALSE, tls |-> FALSE]
  /\ stale = {} /\ held = {}
  /\ ds = [status |-> NoPods, synced |-> FALSE]
  /\ faults = 0

(***************************************************************************)
(* The Runner.                                                             *)
(***************************************************************************)
\* The spec of the copy of the PMI this reconcile works from.
RunSpec == specs[run.gen]

Path == IF run.deleted THEN CleanupPath ELSE UpdatePath

\* The sub-reconciler s is the next to run.
At(s) == run.at = "steps" /\ Path[run.pc] = s

\* A Runner that looks for a sub-reconciler beyond the last one.
AdvancePastEnd(res) ==
  run' = IF ~EndsRun(res) /\ run.pc <= Len(Path)
         THEN [run EXCEPT !.at = "steps", !.pc = @ + 1, !.err = LastErr(run.err, res)]
         ELSE [run EXCEPT !.at = "status", !.pc = 0, !.err = RunErr(run.err, res),
                          !.again = RunAgain(run.err, res)]

\* The sub-reconciler returned res.
Advance(res) ==
  run' = IF ~EndsRun(res) /\ run.pc < Len(Path)
         THEN [run EXCEPT !.at = "steps", !.pc = @ + 1,
                          !.err = LastErr(run.err, res)]
         ELSE [run EXCEPT !.at = "status", !.pc = 0,
                          !.err = RunErr(run.err, res),
                          !.again = RunAgain(run.err, res)]

NoFault == UNCHANGED faults
Fault == faults < MaxFaults /\ faults' = faults + 1

request == <<specs, pmi, cache, queued>>

\* The sub-reconciler returns res and changes nothing; a read that fails does so
\* at the cost of a fault.
Return(res) == NoFault /\ Advance(res) /\ UNCHANGED <<request, obj, terminating, ext, proxy, ds>>
FailRead(res) == Fault /\ Advance(res) /\ UNCHANGED <<request, obj, terminating, ext, proxy, ds>>

(***************************************************************************)
(* The proxy objects and the informers' copies of them.  A Get of the      *)
(* manager's client is answered from the copy, so that of an object which  *)
(* is gone still succeeds until the deletion is delivered.  (A copy that   *)
(* is late to appear is a read that fails.)                                *)
(***************************************************************************)
Exists(o) == IF o = "TLS" THEN ext.tls ELSE obj[o] # 0

InCache(o) == Exists(o) \/ o \in stale

\* The objects os disappear, or o is made.
Lost(os) == stale' = stale \cup {o \in os \cap ProxyObjects : Exists(o)} /\ UNCHANGED held
Made(o) == stale' = stale \ {o} /\ held' = held \cup ({o} \cap ProxySecrets)

(***************************************************************************)
(* Updater and Deleter (pkg/reconciler) against the API server.            *)
(***************************************************************************)
\* A namespaced object is not created in a namespace that is missing or
\* terminating.
CanApply(k) ==
  k \in Namespaced => obj["Namespace"] # 0 /\ (terminating => obj[k] # 0)

\* The object k as the server has it after applying the run's version: a changed
\* DaemonSet has a generation its controller has yet to observe.
Applied(k) ==
  /\ obj' = [obj EXCEPT ![k] = run.gen]
  /\ Made(k)
  /\ ds' = IF k # "DaemonSet" \/ obj[k] = run.gen THEN ds
           ELSE [status |-> IF obj[k] = 0 THEN NoPods ELSE ds.status,
                 synced |-> FALSE]

\* Updater.Reconcile.  The error of a failed call may hide that the server
\* did apply the object.
Update(k, onError) ==
  /\ \/ CanApply(k) /\ NoFault /\ Applied(k) /\ Advance(UpdaterResult("applied", onError))
     \/ ~CanApply(k) /\ NoFault /\ UNCHANGED <<obj, proxy, ds>>
        /\ Advance(UpdaterResult("error", onError))
     \/ /\ Fault
        /\ UNCHANGED <<obj, proxy, ds>> \/ (CanApply(k) /\ Applied(k))
        /\ Advance(UpdaterResult("error", onError))
     \/ Fault /\ UNCHANGED <<obj, proxy, ds>> /\ Advance(UpdaterResult("conflict", onError))
  /\ UNCHANGED <<request, terminating, ext>>

\* Deleter.Reconcile for objects that disappear at once.  It waits until the
\* informer's copy is gone too.
Delete(k, onError) ==
  /\ \/ /\ NoFault
        /\ obj' = [obj EXCEPT ![k] = 0]
        /\ stale' = stale \ {k} /\ UNCHANGED held
        /\ Advance(DeleterResult("gone", onError))
     \/ /\ Fault
        /\ \/ UNCHANGED <<obj, proxy>>
           \/ obj' = [obj EXCEPT ![k] = 0] /\ Lost({k})
        /\ Advance(DeleterResult("timeout", onError))
  /\ UNCHANGED <<request, terminating, ext, ds>>

(***************************************************************************)
(* The sub-reconcilers, in the order of UpdatePath.                        *)
(***************************************************************************)
UpdateNamespace ==
  ~run.deleted /\ At("Namespace") /\ Update("Namespace", "Requeue")

\* SecretMounter: missing secrets are reported but do not stop the run.
SecretMounter ==
  /\ At("SecretMounter")
  /\ \/ RunSpec.secrets \subseteq ext.secrets /\ Return(Ok)
     \/ ~(RunSpec.secrets \subseteq ext.secrets)
        /\ Return(Result("Continue", SecretNotFoundError))
     \/ RunSpec.secrets # {} /\ FailRead(Result("Stop", OtherError))

\* resourceReconcilers(updateResource, ...)
UpdateResources ==
  \E k \in {"ClusterRole", "ClusterRoleBinding", "SCC", "ServiceAccount", "Service",
            "DaemonSet", "OverviewDashboard", "NamespaceInfoDashboard"} :
    /\ ~run.deleted /\ At(k)
    /\ IF k \in OpenShiftOnly /\ ~OpenShift THEN Return(Ok) ELSE Update(k, "Continue")

KubeRBACProxyConfigReconciler ==
  /\ At("KubeRBACProxyConfig")
  /\ IF EnableRBAC(RunSpec) THEN Update("KubeRBACProxyConfig", "Continue")
                            ELSE Delete("KubeRBACProxyConfig", "Continue")

CABundleConfigReconciler ==
  /\ At("CABundle")
  /\ IF EnableRBAC(RunSpec) /\ EnableUWM(RunSpec)
     THEN Update("CABundle", "Continue") ELSE Delete("CABundle", "Continue")

\* UWMSecretTokenReconciler.  Module Token has the life of the token itself; here
\* a token secret that exists is kept and a missing one is created.
UWMSecretTokenReconciler ==
  /\ At("UWMSecretToken")
  /\ IF ~(EnableRBAC(RunSpec) /\ EnableUWM(RunSpec))
     THEN Delete("UWMSecretToken", "Continue")
     ELSE \/ ~ext.account /\ Return(Result("Stop", OtherError))
          \/ FailRead(Result("Stop", OtherError))
          \/ ext.account /\ InCache("UWMSecretToken") /\ Return(Ok)
          \/ ext.account /\ ~InCache("UWMSecretToken")
             /\ Update("UWMSecretToken", "Continue")

\* The config built from the spec and the ConfigMaps it refers to is valid.
ConfigBuilds(spec) == spec.extraConfig => ext.config

PowerMonitorDeployer ==
  /\ At("ConfigMap")
  /\ \/ ~ConfigBuilds(RunSpec) /\ Return(Result("Stop", OtherError))
     \/ RunSpec.extraConfig /\ FailRead(Result("Stop", OtherError))
     \/ ConfigBuilds(RunSpec) /\ Update("ConfigMap", "Continue")

\* What KubeRBACProxyObjectsChecker waits for, as far as the informers know.
ProxyObjectsOf(spec) ==
  ProxySecrets \cup (IF EnableUWM(spec) THEN {"CABundle", "UWMSecretToken"} ELSE {})

ProxyObjectsPresent(spec) == \A o \in ProxyObjectsOf(spec) : InCache(o)

KubeRBACProxyObjectsChecker ==
  /\ At("KubeRBACProxyObjectsChecker")
  /\ \/ ~EnableRBAC(RunSpec) /\ Return(Ok)
     \/ EnableRBAC(RunSpec) /\ ProxyObjectsPresent(RunSpec) /\ Return(Ok)
     \/ EnableRBAC(RunSpec) /\ ~ProxyObjectsPresent(RunSpec)
        /\ Return(Result("Stop", OtherError))
     \/ EnableRBAC(RunSpec) /\ FailRead(Result("Stop", OtherError))

PowerMonitorServiceMonitorReconciler ==
  /\ At("ServiceMonitor")
  /\ IF EnableRBAC(RunSpec) /\ ~EnableUWM(RunSpec)
     THEN Delete("ServiceMonitor", "Continue") ELSE Update("ServiceMonitor", "Continue")

(***************************************************************************)
(* The sub-reconcilers of CleanupPath.                                     *)
(***************************************************************************)
DeleteResources ==
  \E k \in {"ClusterRoleBinding", "ClusterRole", "OverviewDashboard",
            "NamespaceInfoDashboard"} :
    /\ run.deleted /\ At(k)
    /\ IF k \in OpenShiftOnly /\ ~OpenShift THEN Return(Ok) ELSE Delete(k, "Continue")

\* The namespace's Deleter: the delete call ...
DeleteNamespace ==
  /\ run.deleted /\ At("Namespace")
  /\ \/ obj["Namespace"] = 0 /\ Return(DeleterResult("gone", "Requeue"))
     \/ /\ obj["Namespace"] # 0 /\ NoFault
        /\ terminating' = TRUE
        /\ run' = [run EXCEPT !.at = "wait"]
        /\ UNCHANGED <<request, obj, ext, proxy, ds>>
     \/ FailRead(DeleterResult("error", "Requeue"))

\* ... and the wait for it to be gone, which times out after two minutes, also
\* when the informer is late to say that it is gone.
AwaitNamespace ==
  /\ run.at = "wait"
  /\ \/ Return(DeleterResult(IF obj["Namespace"] = 0 THEN "gone" ELSE "timeout", "Requeue"))
     \/ FailRead(DeleterResult("timeout", "Requeue"))

(***************************************************************************)
(* Finalizer, the last sub-reconciler of both paths.  It reads the PMI     *)
(* again (from the cache); its Update carries the resource version of what *)
(* it read, so it fails unless the cache is up to date.                    *)
(***************************************************************************)
Finalizer ==
  /\ At("Finalizer")
  /\ LET adds    == cache.live /\ ~cache.deleted /\ ~cache.fin
         removes == cache.live /\ cache.deleted /\ cache.fin
     IN  \/ ~adds /\ ~removes /\ Return(Ok)
         \/ /\ adds \/ removes
            /\ cache = pmi /\ NoFault
            /\ pmi' = IF removes THEN Gone ELSE [pmi EXCEPT !.fin = TRUE]
            /\ Advance(Result("Stop", NoErr))
            /\ UNCHANGED <<specs, cache, queued, obj, terminating, ext, proxy, ds>>
         \/ (adds \/ removes) /\ cache # pmi /\ Return(Result("Stop", OtherError))
         \/ (adds \/ removes) /\ FailRead(Result("Stop", OtherError))
         \/ FailRead(Result("Requeue", OtherError))

(***************************************************************************)
(* The reconcile request: queue, start, status update, end.                *)
(***************************************************************************)
\* The informer delivers the PMI's latest version; For(PMI) has no predicate, so
\* every change is a request.
SyncCache ==
  /\ cache # pmi
  /\ cache' = pmi
  /\ queued' = TRUE
  /\ UNCHANGED <<specs, pmi, run, obj, terminating, ext, proxy, ds, faults>>

\* Any other request: an event of an owned object, the periodic resync.  One that
\* comes during a reconcile is taken up after it, like one that comes then.
Wake ==
  /\ ~queued /\ run.at = "idle"
  /\ queued' = TRUE
  /\ UNCHANGED <<specs, pmi, cache, run, obj, terminating, ext, proxy, ds, faults>>

\* Reconcile takes the request; MaxConcurrentReconciles is 1.
Start ==
  /\ queued /\ run.at = "idle"
  /\ queued' = FALSE
  /\ run' = IF cache.live
            THEN [Idle EXCEPT !.at = "steps", !.pc = 1, !.gen = cache.gen,
                              !.deleted = cache.deleted]
            ELSE Idle
  /\ held' = {o \in ProxySecrets : InCache(o)}
  /\ UNCHANGED <<specs, pmi, cache, obj, terminating, ext, stale, ds, faults>>

\* Errors are not returned to controller-runtime.
EndWithoutRetry(updateErr) == run' = Idle /\ queued' = (queued \/ run.again)

\* What Reconcile returns: controller-runtime retries errors with a backoff and
\* honours Requeue and RequeueAfter.
End(updateErr) ==
  /\ run' = Idle
  /\ queued' = (queued \/ run.err # NoErr \/ run.again \/ updateErr)

\* updatePowerMonitorStatus, from the PMI read again (from the cache).  A change
\* is written only if the cache is up to date; otherwise the update is retried on
\* conflict (this action waits for SyncCache) until the retries are used up.
UpdateStatus ==
  /\ run.at = "status"
  /\ UNCHANGED <<specs, cache, obj, terminating, ext, proxy, ds>>
  /\ IF ~cache.live \/ cache.deleted
     THEN End(FALSE) /\ NoFault /\ UNCHANGED pmi
     ELSE \E available \in {AvailableCondition(cache.gen, run.err, obj["DaemonSet"] # 0,
                                                ds.status, ds.synced),
                            DaemonSetGetErrorCondition} :
            LET new == [cache EXCEPT !.reconciled = ReconciledCondition(cache.gen, run.err),
                                     !.available = available]
            IN  /\ IF available = DaemonSetGetErrorCondition THEN Fault ELSE NoFault
                /\ \/ new = cache /\ End(FALSE) /\ UNCHANGED pmi
                   \/ new # cache /\ cache = pmi /\ End(FALSE) /\ pmi' = new
                   \/ new # cache /\ cache # pmi /\ End(TRUE) /\ UNCHANGED pmi

\* The status update fails for another reason than a conflict.
UpdateStatusFails ==
  /\ run.at = "status" /\ cache.live /\ ~cache.deleted
  /\ Fault /\ End(TRUE)
  /\ UNCHANGED <<specs, pmi, cache, obj, terminating, ext, proxy, ds>>

\* The PMI cannot be read for the status update: the error is dropped and the
\* update skipped, as for a PMI that is gone.
StatusReadFails ==
  /\ run.at = "status" /\ Fault
  /\ run' = Skipped
  /\ queued' = (queued \/ run.err # NoErr \/ run.again)
  /\ UNCHANGED <<specs, pmi, cache, obj, terminating, ext, proxy, ds>>

\* The operator dies; the new one lists the objects before it starts.
Crash ==
  /\ Fault
  /\ run' = Idle /\ cache' = pmi /\ queued' = TRUE /\ stale' = {}
  /\ UNCHANGED <<specs, pmi, obj, terminating, ext, held, ds>>

Operator ==
  \/ UpdateNamespace \/ SecretMounter \/ UpdateResources
  \/ KubeRBACProxyConfigReconciler \/ CABundleConfigReconciler
  \/ UWMSecretTokenReconciler \/ PowerMonitorDeployer \/ KubeRBACProxyObjectsChecker
  \/ PowerMonitorServiceMonitorReconciler \/ DeleteResources \/ DeleteNamespace
  \/ AwaitNamespace \/ Finalizer \/ Start \/ UpdateStatus

(***************************************************************************)
(* Users and the rest of the cluster.                                      *)
(***************************************************************************)
\* A new generation is a new spec.
EditSpec ==
  /\ pmi.live /\ pmi.gen < MaxGen
  /\ \E s \in Specs \ {specs[pmi.gen]} : specs' = Append(specs, s)
  /\ pmi' = [pmi EXCEPT !.gen = @ + 1]
  /\ UNCHANGED <<cache, queued, run, obj, terminating, ext, proxy, ds, faults>>

\* An object without finalizers disappears when it is deleted.
RequestDelete ==
  /\ pmi.live /\ ~pmi.deleted
  /\ pmi' = IF pmi.fin THEN [pmi EXCEPT !.deleted = TRUE] ELSE Gone
  /\ UNCHANGED <<specs, cache, queued, run, obj, terminating, ext, proxy, ds, faults>>

NamespaceUsable == obj["Namespace"] # 0 /\ ~terminating

\* The events of a watched object reach the PMI if the watch's map function
\* selects it: by the index of mounted secrets or additional ConfigMaps, or
\* (OpenShift only) because the PMI asks for rbac.
Notify(cond) == queued' = (queued \/ (cache.live /\ cond))

\* A user creates (or, as a fault, withdraws) a secret the PMI may mount.
ChangeSecret ==
  \E s \in Secrets :
    /\ \/ NamespaceUsable /\ s \notin ext.secrets /\ NoFault
          /\ ext' = [ext EXCEPT !.secrets = @ \cup {s}]
       \/ s \in ext.secrets /\ Fault /\ ext' = [ext EXCEPT !.secrets = @ \ {s}]
    /\ Notify(s \in specs[cache.gen].secrets)
    /\ UNCHANGED <<specs, pmi, cache, run, obj, terminating, proxy, ds>>

\* A user creates (or breaks) the additional ConfigMap.
ChangeConfig ==
  /\ \E s \in Specs : s.extraConfig
  /\ \/ NamespaceUsable /\ ~ext.config /\ NoFault /\ ext' = [ext EXCEPT !.config = TRUE]
     \/ ext.config /\ Fault /\ ext' = [ext EXCEPT !.config = FALSE]
  /\ Notify(specs[cache.gen].extraConfig)
  /\ UNCHANGED <<specs, pmi, cache, run, obj, terminating, proxy, ds>>

\* User workload monitoring is enabled (or disabled): its service account.
ChangeAccount ==
  /\ \E s \in Specs : EnableUWM(s)
  /\ \/ ~ext.account /\ NoFault /\ ext' = [ext EXCEPT !.account = TRUE]
     \/ ext.account /\ Fault /\ ext' = [ext EXCEPT !.account = FALSE]
  /\ Notify(OpenShift /\ EnableRBAC(specs[cache.gen]))
  /\ UNCHANGED <<specs, pmi, cache, run, obj, terminating, proxy, ds>>

\* The certificate of kube-rbac-proxy appears: OpenShift issues it when an rbac
\* Service asks for it with an annotation, elsewhere a user provides it.
ServeCertificate ==
  /\ NamespaceUsable /\ ~ext.tls
  /\ OpenShift => obj["Service"] # 0 /\ EnableRBAC(specs[obj["Service"]])
  /\ ext' = [ext EXCEPT !.tls = TRUE]
  /\ Made("TLS")
  /\ Notify(OpenShift /\ EnableRBAC(specs[cache.gen]))
  /\ UNCHANGED <<specs, pmi, cache, run, obj, terminating, ds, faults>>

\* Somebody else deletes the certificate ...
RemoveCertificate ==
  /\ "TLS" \in Removable /\ ext.tls /\ Fault
  /\ ext' = [ext EXCEPT !.tls = FALSE]
  /\ Lost({"TLS"})
  /\ UNCHANGED <<specs, pmi, cache, queued, run, obj, terminating, ds>>

\* ... or an object the operator manages (the TokenExpiry controller the token
\* secret).
RemoveObject ==
  \E k \in Removable \ {"Namespace", "TLS"} :
    /\ obj[k] # 0 /\ Fault
    /\ obj' = [obj EXCEPT ![k] = 0]
    /\ Lost({k})
    /\ ds' = IF k = "DaemonSet" THEN [status |-> NoPods, synced |-> FALSE] ELSE ds
    /\ Notify(Watched(k) /\ k \notin ProxyObjects)
    /\ UNCHANGED <<specs, pmi, cache, run, terminating, ext>>

\* Only the events of owned objects are requests, not those of the certificate.
SyncProxyObjectsOwned ==
  \E o \in stale :
    /\ stale' = stale \ {o}
    /\ Notify(o # "TLS" /\ Watched(o))
    /\ UNCHANGED <<specs, pmi, cache, run, obj, terminating, ext, held, ds, faults>>

\* The informers deliver the deletion of a proxy object, to the PMI that owns it
\* or, for the certificate, to one that asks for rbac (OpenShift only).
SyncProxyObjects ==
  \E o \in stale :
    /\ stale' = stale \ {o}
    /\ Notify(IF o = "TLS" THEN OpenShift /\ EnableRBAC(specs[cache.gen]) ELSE Watched(o))
    /\ UNCHANGED <<specs, pmi, cache, run, obj, terminating, ext, held, ds, faults>>

\* Somebody else deletes the namespace.  No event of the namespace itself is
\* watched.
RemoveNamespace ==
  /\ "Namespace" \in Removable /\ NamespaceUsable /\ Fault
  /\ terminating' = TRUE
  /\ UNCHANGED <<specs, pmi, cache, queued, run, obj, ext, proxy, ds>>

\* The controller does not own (watch) the DaemonSet.
DaemonSetProgressUnwatched ==
  /\ obj["DaemonSet"] # 0
  /\ \E d \in DsStatuses : ds' = [status |-> d, synced |-> TRUE]
  /\ UNCHANGED <<specs, pmi, cache, queued, run, obj, terminating, ext, proxy, faults>>

\* The DaemonSet controller reports progress (a watched status).
DaemonSetProgress ==
  /\ obj["DaemonSet"] # 0
  /\ \E d \in DsStatuses : ds' = [status |-> d, synced |-> TRUE]
  /\ ds' # ds
  /\ queued' = TRUE
  /\ UNCHANGED <<specs, pmi, cache, run, obj, terminating, ext, proxy, faults>>

\* The events of the objects in the namespace are lost on the controller.
NamespaceGoneUnnoticed ==
  /\ terminating
  /\ obj' = [k \in Kinds |-> IF k \in Namespaced \cup {"Namespace"} THEN 0 ELSE obj[k]]
  /\ terminating' = FALSE
  /\ ext' = [ext EXCEPT !.secrets = {}, !.config = FALSE, !.tls = FALSE]
  /\ Lost(ProxyObjects)
  /\ ds' = [status |-> NoPods, synced |-> FALSE]
  /\ UNCHANGED <<specs, pmi, cache, queued, run, faults>>

\* The namespace is finalized with everything in it; the objects that were in it
\* and are watched make themselves heard (the proxy objects in SyncProxyObjects).
NamespaceGone ==
  /\ terminating
  /\ obj' = [k \in Kinds |-> IF k \in Namespaced \cup {"Namespace"} THEN 0 ELSE obj[k]]
  /\ terminating' = FALSE
  /\ ext' = [ext EXCEPT !.secrets = {}, !.config = FALSE, !.tls = FALSE]
  /\ Lost(ProxyObjects)
  /\ ds' = [status |-> NoPods, synced |-> FALSE]
  /\ LET spec == specs[cache.gen]
     IN  Notify(\/ \E k \in Namespaced \ ProxyObjects : obj[k] # 0 /\ Watched(k)
                \/ spec.secrets \cap ext.secrets # {}
                \/ spec.extraConfig /\ ext.config)
  /\ UNCHANGED <<specs, pmi, cache, run, faults>>

\* Every object carries an owner reference to the PMI: the garbage collector
\* removes them once it is gone, the namespace through its own finalization.  (The
\* informers learn of these at once: the PMI they would be read for is gone.)
GarbageCollect ==
  /\ ~pmi.live
  /\ \E k \in Kinds : obj[k] # 0 /\ (k = "Namespace" => ~terminating)
  /\ obj' = [k \in Kinds |-> IF k = "Namespace" THEN obj[k] ELSE 0]
  /\ terminating' = (obj["Namespace"] # 0)
  /\ UNCHANGED <<specs, pmi, cache, queued, run, ext, proxy, ds, faults>>

Next ==
  \/ Operator \/ SyncCache \/ Wake \/ UpdateStatusFails \/ StatusReadFails \/ Crash
  \/ EditSpec \/ RequestDelete \/ ChangeSecret \/ ChangeConfig \/ ChangeAccount
  \/ ServeCertificate \/ RemoveCertificate \/ RemoveObject \/ SyncProxyObjects
  \/ RemoveNamespace \/ DaemonSetProgress
  \/ NamespaceGone \/ GarbageCollect

Spec == Init /\ [][Next]_vars

(***************************************************************************)
(* Fairness.  The operator's worker goes on, informers deliver what they   *)
(* watch, and the platform finishes what it was asked: a terminating       *)
(* namespace, orphaned objects and, on OpenShift, a requested certificate. *)
(* Nothing is assumed of users, of Wake or of what fails.                  *)
(***************************************************************************)
Fairness ==
  /\ WF_vars(Operator) /\ WF_vars(SyncCache) /\ WF_vars(SyncProxyObjects)
  /\ WF_vars(NamespaceGone) /\ WF_vars(GarbageCollect)
  /\ WF_vars(OpenShift /\ ServeCertificate)

FairSpec == Spec /\ Fairness

(***************************************************************************)
(* Properties.                                                             *)
(***************************************************************************)
\* The variables have the shape the code gives them.
TypeOK ==
  /\ specs \in Seq(Specs) /\ specs # <<>>
  /\ pmi \in Pmis /\ cache \in Pmis
  /\ pmi.live => pmi.gen = Len(specs)
  /\ cache.live => cache.gen \in 1 .. Len(specs)
  /\ queued \in BOOLEAN
  /\ run \in Runs
  /\ run.at # "idle" => run.gen \in 1 .. Len(specs)
  /\ run.at \in {"steps", "wait"} => run.pc \in 1 .. Len(Path)
  /\ obj \in [Kinds -> 0 .. Len(specs)]
  /\ terminating \in BOOLEAN
  /\ ext \in [secrets : SUBSET Secrets, config : BOOLEAN, account : BOOLEAN,
              tls : BOOLEAN]
  /\ stale \subseteq ProxyObjects /\ held \subseteq ProxySecrets
  /\ ds \in [status : Counts, synced : BOOLEAN]
  /\ faults \in 0 .. MaxFaults

\* The object k is what generation g of the spec calls for.  A token secret is
\* not rewritten for a new generation.
UpToDate(k, g) ==
  IF ~Wanted(specs[g], k) THEN obj[k] = 0
  ELSE IF k = "UWMSecretToken" THEN obj[k] # 0
  ELSE obj[k] = g

\* Nothing is left that will make the controller look at the PMI again.
AtRest ==
  run.at = "idle" /\ ~queued /\ cache = pmi /\ pmi.live /\ ~pmi.deleted

Quiescent == AtRest /\ stale = {}

\* The objects that are restored when others delete them: the watched ones, and
\* the namespace, whose end is noticed through the objects in it.  Whether there
\* is a token is read from the informer's copy, so a token that goes with its
\* namespace is missed where tokens are not watched.
Restored(k) ==
  /\ k \in Removable => Watched(k) \/ k = "Namespace"
  /\ k = "UWMSecretToken" => OpenShift

\* No lost work: whatever failed, crashed, conflicted, was deleted by others or
\* changed on the way, once nothing will make the controller reconcile the PMI
\* again, every object is what the current generation calls for and the Reconciled
\* condition says so for that generation, unless the last status update was skipped
\* because the PMI could not be read.  (Outside OpenShift the secrets the operator
\* makes are not watched, so nothing is said of one that others delete there.)
NoLostWork ==
  Quiescent =>
    /\ run # Skipped => pmi.reconciled = ReconciledCondition(pmi.gen, NoErr)
    /\ \A k \in Kinds : Restored(k) => UpToDate(k, pmi.gen)

\* At rest the Available condition is that of the DaemonSet's status of now,
\* unless the DaemonSet or the PMI could not be read.
AvailabilityTracked ==
  Quiescent /\ run # Skipped =>
    pmi.available \in {AvailableCondition(pmi.gen, NoErr, obj["DaemonSet"] # 0,
                                          ds.status, ds.synced),
                       DaemonSetGetErrorCondition}

\* A DaemonSet with the kube-rbac-proxy container is only rolled out by a reconcile
\* during which each secret its pods mount was there as far as the operator's
\* informers knew: KubeRBACProxyObjectsChecker stops the run before.  (A secret may
\* be gone by then, with the informers late or between check and rollout: what
\* becomes of that is SecuredAtRest.)
DaemonSetAfterProxySecrets ==
  [][obj'["DaemonSet"] # obj["DaemonSet"] /\ obj'["DaemonSet"] # 0
       /\ EnableRBAC(specs[obj'["DaemonSet"]])
     => ProxySecrets \subseteq held]_vars

\* At rest on OpenShift a PMI that asks for rbac has the secrets its DaemonSet's
\* pods mount, whoever deleted them, with or without their namespace, and however
\* late the informers were when KubeRBACProxyObjectsChecker looked.
SecuredAtRest ==
  Quiescent /\ OpenShift /\ EnableRBAC(specs[pmi.gen])
  => \A o \in ProxySecrets : Exists(o)

\* A reconcile that started as a cleanup gives the PMI up only when the namespace
\* is gone: the namespace's Deleter requeues instead of going on to Finalizer.
FinalizerAfterNamespace ==
  [][pmi.live /\ pmi.fin /\ ~pmi'.live /\ run.deleted => obj["Namespace"] = 0]_vars

\* What has to exist for the current generation to be deployed.
InputsPresent ==
  LET s == specs[pmi.gen] IN
  /\ s.secrets \subseteq ext.secrets
  /\ ConfigBuilds(s)
  /\ EnableRBAC(s) /\ EnableUWM(s) => ext.account
  /\ EnableRBAC(s) /\ ~OpenShift => ext.tls

\* If the PMI stays and what it refers to stays available, its objects end up as
\* the current generation calls for, whatever others delete, and the status says so
\* (unless the last status update was skipped).
Converges ==
  <>[](pmi.live /\ ~pmi.deleted /\ InputsPresent) =>
  <>[](/\ pmi.live
       /\ run # Skipped => pmi.reconciled = ReconciledCondition(pmi.gen, NoErr)
       /\ \A k \in Kinds : Restored(k) => UpToDate(k, pmi.gen))

\* A PMI asked to go is eventually gone and so is every object made for it,
\* whichever path gave up the finalizer.
DeletionCompletes ==
  [](pmi.deleted => <>[](~pmi.live /\ \A k \in Kinds : obj[k] = 0))

\* What is seen of the PMI from outside.
seen == [live |-> pmi.live, gen |-> pmi.gen, deleted |-> pmi.deleted, fin |-> pmi.fin,
         og |-> pmi.reconciled.og, ok |-> pmi.reconciled.status = "True"]

Lifecycle == INSTANCE InternalLifecycle WITH internal <- seen

\* What is seen of the PMI from outside is what InternalLifecycle promises: status
\* writes and finalizer updates of a reconcile that started from an older copy do
\* nothing else to the object.
ImplementsLifecycle == Lifecycle!Spec

(***************************************************************************)
(* A claim of the repository that the code does not keep.                  *)
(***************************************************************************)
\* "Reconciled indicates whether the PowerMonitor has been successfully
\* reconciled": the objects of the generation the condition names exist.
ReconciledMeansDeployed ==
  pmi.live /\ pmi.reconciled.status = "True" =>
    \A k \in Kinds \ {"UWMSecretToken"} :
      Wanted(specs[pmi.reconciled.og], k) => obj[k] # 0
===============================================================================
