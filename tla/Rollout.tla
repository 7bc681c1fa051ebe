-------------------------------- MODULE Rollout --------------------------------
(***************************************************************************)
(* How a change of what the exporter is built from reaches its pods.  A    *)
(* reconcile of a PowerMonitorInternal (PMI) reads the secrets and         *)
(* ConfigMaps the spec refers to, and the objects kube-rbac-proxy needs,   *)
(* from the informer cache, and notes their hashes in the pod template of  *)
(* the DaemonSet and on the ServiceMonitor.  The pods restart when their   *)
(* template changes, so a change reaches them only if an event starts a    *)
(* reconcile that reads the new contents.                                  *)
(*                                                                         *)
(* The contents of an object are a version; a hash is the version it was   *)
(* computed from (no collisions), and version 0 is an object, or an        *)
(* annotation, that does not exist.  Module PowerMonitorInternal has the   *)
(* objects built from the spec alone, the deletion of the PMI and the      *)
(* conditions of its status.                                               *)
(***************************************************************************)
EXTENDS Naturals

CONSTANTS
  Secrets,      \* names in spec.kepler.deployment.secrets
  Configs,      \* names in spec.kepler.config.additionalConfigMaps
  Specs,        \* the specs users write
  OpenShift,    \* Config.Cluster = k8s.OpenShift
  MaxVersion,   \* bound: contents of an object that differ
  MaxEvents     \* bound: edits of the spec and the inputs, failed calls, crashes

\* Objects with fixed names: the config of kube-rbac-proxy, its certificate,
\* the CA bundle and the token of user workload monitoring.
Platform == {"proxyConfig", "tls", "caBundle", "token"}
Inputs == Secrets \cup Configs \cup Platform

Missing == 0
Present == 1 .. MaxVersion
Versions == {Missing} \cup Present

ASSUME InputsAssumption ==
  Secrets \cap Configs = {} /\ (Secrets \cup Configs) \cap Platform = {}
\* level stands for the fields the Kepler config is built from, allowed for
\* allowedSANames, which are all of the config of kube-rbac-proxy.
ASSUME SpecsAssumption ==
  Specs \subseteq [secrets : SUBSET Secrets, configs : SUBSET Configs,
                   level : Present, rbac : BOOLEAN, uwm : BOOLEAN,
                   allowed : Present]
ASSUME OpenShiftAssumption == OpenShift \in BOOLEAN
ASSUME BoundsAssumption ==
  MaxVersion \in Nat /\ MaxVersion > 1 /\ MaxEvents \in Nat

VARIABLES
  pmi,      \* the PMI: generation, spec and what its status reports
  seen,     \* the PMI in the informer cache
  data,     \* the versions of the inputs on the API server
  cache,    \* the versions of the inputs in the informer cache
  queued,   \* a reconcile request is in the work queue, now or after a delay
  run,      \* the reconcile in progress
  cm,       \* the ConfigMap of the exporter
  ds,       \* the pod template of the DaemonSet
  sm,       \* the ServiceMonitor
  events    \* edits and faults so far

vars == <<pmi, seen, data, cache, queued, run, cm, ds, sm, events>>

(***************************************************************************)
(* What a reconcile builds from a spec and the hashes it noted.            *)
(***************************************************************************)
\* What KubeRBACProxyObjectsChecker waits for and hashes.
ProxySecrets(spec) == IF spec.rbac THEN {"proxyConfig", "tls"} ELSE {}
Scraped(spec) == IF spec.rbac /\ spec.uwm THEN {"caBundle", "token"} ELSE {}

\* The inputs users own.
UserInputs(spec) == spec.secrets \cup spec.configs

\* AnnotateWithSecretHash and AnnotateWithConfigMapHash: one annotation per
\* name, and none for what is not read.
Hashes(names, noted) ==
  [i \in Inputs |-> IF i \in names THEN noted[i] ELSE Missing]

NoHashes == [i \in Inputs |-> Missing]

\* NewPowerMonitorConfigMap: the spec merged with the ConfigMaps it refers to.
ConfigMap(spec, noted) ==
  [level |-> spec.level, hashes |-> Hashes(spec.configs, noted)]

\* NewPowerMonitorDaemonSet.  The hash of the built ConfigMap is a hash of
\* what it is built from.
DaemonSet(spec, noted) ==
  [level |-> spec.level, rbac |-> spec.rbac, secrets |-> spec.secrets,
   hashes |-> Hashes(UserInputs(spec) \cup ProxySecrets(spec), noted)]

\* NewPowerMonitorServiceMonitor; with RBAC and without user workload
\* monitoring there is none.
ServiceMonitor(spec, noted) ==
  [exists |-> spec.rbac => spec.uwm, hashes |-> Hashes(Scraped(spec), noted)]

NoConfigMap == [level |-> 0, hashes |-> NoHashes]
NoDaemonSet == [level |-> 0, rbac |-> FALSE, secrets |-> {}, hashes |-> NoHashes]
NoServiceMonitor == [exists |-> FALSE, hashes |-> NoHashes]

(***************************************************************************)
(* State.                                                                  *)
(***************************************************************************)
Stages == {"idle", "proxyConfig", "caBundle", "token", "configMap",
           "checkProxyConfig", "checkTLS", "checkCABundle", "checkToken",
           "daemonSet", "serviceMonitor", "status"}

Idle(spec) == [at |-> "idle", spec |-> spec, todo |-> {}, noted |-> NoHashes,
               err |-> FALSE, again |-> FALSE]

Pmis == [gen : Nat, spec : Specs, status : [gen : Nat, err : BOOLEAN]]
Runs == [at : Stages, spec : Specs, todo : SUBSET (Secrets \cup Configs),
         noted : [Inputs -> Versions], err : BOOLEAN, again : BOOLEAN]
ConfigMaps == [level : Versions, hashes : [Inputs -> Versions]]
DaemonSets == [level : Versions, rbac : BOOLEAN, secrets : SUBSET Secrets,
               hashes : [Inputs -> Versions]]
ServiceMonitors == [exists : BOOLEAN, hashes : [Inputs -> Versions]]

Init ==
  /\ \E spec \in Specs :
       pmi = [gen |-> 1, spec |-> spec, status |-> [gen |-> 0, err |-> FALSE]]
  /\ seen = pmi
  /\ data = [i \in Inputs |-> IF i \in Platform THEN Missing ELSE 1]
  /\ cache = data
  /\ queued = TRUE
  /\ run = Idle(pmi.spec)
  /\ cm = NoConfigMap
  /\ ds = NoDaemonSet
  /\ sm = NoServiceMonitor
  /\ events = 0

\* Every variable has its type: in particular reconciling does not itself keep
\* making new contents of what it hashes (the CA bundle is applied without data),
\* which would rewrite what carries the hash over and over.
TypeOK ==
  /\ pmi \in Pmis /\ seen \in Pmis
  /\ data \in [Inputs -> Versions] /\ cache \in [Inputs -> Versions]
  /\ queued \in BOOLEAN
  /\ run \in Runs
  /\ cm \in ConfigMaps /\ ds \in DaemonSets /\ sm \in ServiceMonitors
  /\ events \in 0 .. MaxEvents

objects == <<cm, ds, sm>>
outside == <<pmi, seen, cache>>

NoEvent == UNCHANGED events
Event == events < MaxEvents /\ events' = events + 1

(***************************************************************************)
(* The watches of SetupWithManager.                                        *)
(***************************************************************************)
\* The watches of the referenced secrets and ConfigMaps filtered by
\* generation, which neither kind has.
NoticedByGeneration(i, old, new) ==
  \/ i \in UserInputs(seen.spec) /\ Missing \in {old, new}
  \/ i = "tls" /\ OpenShift /\ seen.spec.rbac /\ Missing \in {old, new}
  \/ i \in {"proxyConfig", "token"} /\ OpenShift /\ Missing \in {old, new}
  \/ i = "caBundle" /\ Missing \in {old, new}

\* Whether the event of i going from old to new is a reconcile request.  What
\* the cached PMI refers to is watched for every new resource version.  The
\* other watches let creations and deletions through, and no update: secrets
\* and ConfigMaps have no generation, and the predicates of a watch must all
\* agree.
Noticed(i, old, new) ==
  \/ i \in UserInputs(seen.spec)
  \/ i = "tls" /\ OpenShift /\ seen.spec.rbac /\ Missing \in {old, new}
  \/ i \in {"proxyConfig", "token"} /\ OpenShift /\ Missing \in {old, new}
  \/ i = "caBundle" /\ Missing \in {old, new}

\* The informer delivers the latest version of i.
Deliver(i) ==
  /\ cache[i] # data[i]
  /\ cache' = [cache EXCEPT ![i] = data[i]]
  /\ queued' = (queued \/ Noticed(i, cache[i], data[i]))
  /\ UNCHANGED <<pmi, seen, data, run, objects, events>>

\* The informer delivers the PMI: every event of it is a request.
SyncPmi ==
  /\ seen # pmi
  /\ seen' = pmi
  /\ queued' = TRUE
  /\ UNCHANGED <<pmi, data, cache, run, objects, events>>

\* The periodic resync of the PMI, and events of owned objects that say nothing
\* of the inputs.  One that comes during a run has the same effect as one that
\* comes at its end.
Wake ==
  /\ run.at = "idle" /\ ~queued
  /\ queued' = TRUE
  /\ UNCHANGED <<pmi, seen, data, cache, run, objects, events>>

(***************************************************************************)
(* The users, the platform and the operator's process.                     *)
(***************************************************************************)
EditSpec ==
  /\ \E spec \in Specs \ {pmi.spec} :
       pmi' = [pmi EXCEPT !.gen = @ + 1, !.spec = spec]
  /\ Event
  /\ UNCHANGED <<seen, data, cache, queued, run, objects>>

\* What others may turn the contents of i into: users create, edit and delete
\* their secrets and ConfigMaps, the platform issues and renews the certificate
\* and fills the CA bundle, TokenExpiry deletes the token.
Edits(i) ==
  CASE i \in Secrets \cup Configs -> Versions
    [] i = "tls"      -> Present
    [] i = "caBundle" -> IF data[i] = Missing THEN {} ELSE Present
    [] i = "token"    -> {Missing}
    [] OTHER          -> {}

ChangeInput(i) ==
  /\ \E v \in Edits(i) \ {data[i]} : data' = [data EXCEPT ![i] = v]
  /\ Event
  /\ UNCHANGED <<pmi, seen, cache, queued, run, objects>>

\* On OpenShift the annotation of the exporter's Service makes the platform issue
\* the certificate.
IssueCertificate ==
  /\ OpenShift /\ data["tls"] = Missing
  /\ data' = [data EXCEPT !["tls"] = 1]
  /\ UNCHANGED <<pmi, seen, cache, queued, run, objects, events>>

\* The operator restarts: its cache is filled before the first reconcile.
Crash ==
  /\ Event
  /\ seen' = pmi
  /\ cache' = data
  /\ queued' = TRUE
  /\ run' = Idle(pmi.spec)
  /\ UNCHANGED <<pmi, data, objects>>

(***************************************************************************)
(* The reconcile.                                                          *)
(***************************************************************************)
\* What a sub-reconciler has to read before it writes.
Refs(stage) == IF stage = "configMap" THEN run.spec.configs ELSE {}

Goto(stage) == run' = [run EXCEPT !.at = stage, !.todo = Refs(stage)]
\* A sub-reconciler failed and the Runner continues.
Fails(stage) == run' = [run EXCEPT !.at = stage, !.todo = Refs(stage), !.err = TRUE]
\* A sub-reconciler failed and the Runner stops.
Stop == run' = [run EXCEPT !.at = "status", !.todo = {}, !.err = TRUE]
\* A patch met a conflict: the run is repeated and its errors are dropped.
Conflict == run' = [run EXCEPT !.at = "status", !.err = FALSE, !.again = TRUE]

\* A call to the API server; one that fails may have changed the object.
Call(stage, applied, unchanged) ==
  \/ NoEvent /\ applied /\ Goto(stage)
  \/ Event /\ (applied \/ unchanged) /\ Fails(stage)

\* Updater.Reconcile
Update(stage, applied, unchanged) ==
  \/ Call(stage, applied, unchanged)
  \/ Event /\ unchanged /\ Conflict

Start ==
  /\ run.at = "idle" /\ queued
  /\ queued' = FALSE
  /\ run' = [Idle(seen.spec) EXCEPT !.at = "proxyConfig", !.todo = seen.spec.secrets]
  /\ UNCHANGED <<pmi, seen, data, cache, objects, events>>

\* SecretMounter: a missing secret is reported, the others are still noted.
ReadSecret(s) ==
  /\ run.at = "proxyConfig" /\ s \in run.todo
  /\ run' = [run EXCEPT !.todo = @ \ {s}, !.noted[s] = cache[s],
                        !.err = @ \/ cache[s] = Missing]
  /\ UNCHANGED <<outside, data, queued, objects, events>>

\* An Updater for the input i.
Put(i, v, stage) ==
  /\ Update(stage, data' = [data EXCEPT ![i] = v], UNCHANGED data)
  /\ UNCHANGED <<outside, queued, objects>>

\* A Deleter for the input i: it deletes the object, then waits until the cache
\* no longer has it or the wait times out.
Remove(i, stage) ==
  /\ \/ data[i] # Missing /\ NoEvent /\ data' = [data EXCEPT ![i] = Missing]
        /\ UNCHANGED run
     \/ data[i] # Missing /\ Event /\ UNCHANGED data /\ Fails(stage)
     \/ data[i] = Missing /\ cache[i] = Missing /\ NoEvent /\ UNCHANGED data
        /\ Goto(stage)
     \/ data[i] = Missing /\ cache[i] # Missing /\ NoEvent /\ UNCHANGED data
        /\ Fails(stage)
  /\ UNCHANGED <<outside, queued, objects>>

KubeRBACProxyConfigReconciler ==
  /\ run.at = "proxyConfig" /\ run.todo = {}
  /\ IF run.spec.rbac THEN Put("proxyConfig", run.spec.allowed, "caBundle")
                      ELSE Remove("proxyConfig", "caBundle")

\* The operator applies data of its own, new every time.
CABundleConfigReconcilerWithData ==
  /\ run.at = "caBundle"
  /\ IF Scraped(run.spec) = {} THEN Remove("caBundle", "token")
     ELSE Put("caBundle", data["caBundle"] + 1, "token")

\* The operator applies the ConfigMap without its data, which the platform adds.
CABundleConfigReconciler ==
  /\ run.at = "caBundle"
  /\ IF Scraped(run.spec) = {} THEN Remove("caBundle", "token")
     ELSE Put("caBundle", IF data["caBundle"] = Missing THEN 1 ELSE data["caBundle"],
              "token")

\* Module Token has when a token is replaced; here it is missing or kept.
UWMSecretTokenReconciler ==
  /\ run.at = "token"
  /\ IF Scraped(run.spec) = {} THEN Remove("token", "configMap")
     ELSE \/ /\ cache["token"] # Missing /\ NoEvent /\ Goto("configMap")
             /\ UNCHANGED <<outside, data, queued, objects>>
          \/ /\ cache["token"] = Missing
             /\ \E v \in Present \ {data["token"]} : Put("token", v, "configMap")
          \* no service account, no token for it, or a secret that cannot be read
          \/ Event /\ Stop /\ UNCHANGED <<outside, data, queued, objects>>

\* readAdditionalConfigs, one Get at a time.
ReadConfig(c) ==
  /\ run.at = "configMap" /\ c \in run.todo
  /\ IF cache[c] = Missing THEN Stop
     ELSE run' = [run EXCEPT !.todo = @ \ {c}, !.noted[c] = cache[c]]
  /\ UNCHANGED <<outside, data, queued, objects, events>>

\* PowerMonitorDeployer, once the ConfigMaps are read.
PowerMonitorDeployer ==
  /\ run.at = "configMap" /\ run.todo = {}
  /\ Update(IF run.spec.rbac THEN "checkProxyConfig" ELSE "daemonSet",
            cm' = ConfigMap(run.spec, run.noted), UNCHANGED cm)
  /\ UNCHANGED <<outside, data, queued, ds, sm>>

\* The checker waits for the object and notes nothing.
CheckWithoutHash(stage, i, next) ==
  /\ run.at = stage
  /\ IF cache[i] = Missing THEN Stop ELSE Goto(next)
  /\ UNCHANGED <<outside, data, queued, objects, events>>

\* KubeRBACProxyObjectsChecker for one object: it is noted as soon as the cache
\* has it, or the wait for it times out.
Check(stage, i, next) ==
  /\ run.at = stage
  /\ IF cache[i] = Missing THEN Stop
     ELSE run' = [run EXCEPT !.at = next, !.noted[i] = cache[i]]
  /\ UNCHANGED <<outside, data, queued, objects, events>>

CheckProxyConfig == Check("checkProxyConfig", "proxyConfig", "checkTLS")
CheckTLS ==
  Check("checkTLS", "tls", IF run.spec.uwm THEN "checkCABundle" ELSE "daemonSet")
CheckCABundle == Check("checkCABundle", "caBundle", "checkToken")
CheckToken == Check("checkToken", "token", "daemonSet")

\* The Updater of the DaemonSet, every change of which is a request.
UpdateDaemonSet ==
  /\ run.at = "daemonSet"
  /\ Update("serviceMonitor", ds' = DaemonSet(run.spec, run.noted), UNCHANGED ds)
  /\ queued' = (queued \/ ds' # ds)
  /\ UNCHANGED <<outside, data, cm, sm>>

PutServiceMonitor == sm' = ServiceMonitor(run.spec, run.noted)

PowerMonitorServiceMonitorReconciler ==
  /\ run.at = "serviceMonitor"
  /\ IF run.spec.rbac /\ ~run.spec.uwm
     THEN Call("status", PutServiceMonitor, UNCHANGED sm)
     ELSE Update("status", PutServiceMonitor, UNCHANGED sm)
  /\ UNCHANGED <<outside, data, queued, cm, ds>>

\* updatePowerMonitorStatus and the return from Reconcile: an error, also one of
\* the status update, is retried.
End ==
  /\ run.at = "status"
  /\ \/ /\ NoEvent
        /\ pmi' = [pmi EXCEPT !.status = [gen |-> seen.gen, err |-> run.err]]
        /\ queued' = (queued \/ run.err \/ run.again)
     \/ Event /\ UNCHANGED pmi /\ queued' = TRUE
  /\ run' = Idle(pmi.spec)
  /\ UNCHANGED <<seen, data, cache, objects>>

Reconcile ==
  \/ Start
  \/ \E s \in Secrets : ReadSecret(s)
  \/ KubeRBACProxyConfigReconciler
  \/ CABundleConfigReconciler
  \/ UWMSecretTokenReconciler
  \/ \E c \in Configs : ReadConfig(c)
  \/ PowerMonitorDeployer
  \/ CheckProxyConfig \/ CheckTLS \/ CheckCABundle \/ CheckToken
  \/ UpdateDaemonSet
  \/ PowerMonitorServiceMonitorReconciler
  \/ End

Next ==
  \/ Reconcile
  \/ \E i \in Inputs : Deliver(i) \/ ChangeInput(i)
  \/ SyncPmi \/ Wake \/ EditSpec \/ IssueCertificate \/ Crash

Spec == Init /\ [][Next]_vars

\* The informers deliver, the worker runs, and the PMI is resynced (every ten
\* hours, the default of controller-runtime) whatever the events.
Fairness ==
  /\ WF_vars(Reconcile)
  /\ WF_vars(SyncPmi)
  /\ WF_vars(Wake)
  /\ \A i \in Inputs : WF_vars(Deliver(i))

FairSpec == Spec /\ Fairness

(***************************************************************************)
(* Properties.                                                             *)
(***************************************************************************)
\* Nothing is left to do or to hear of.
AtRest == run.at = "idle" /\ ~queued /\ seen = pmi /\ cache = data

\* The pod template is that of the spec, up to the objects of kube-rbac-proxy.
Deployed(spec, versions) ==
  /\ ds.level = spec.level
  /\ ds.rbac = spec.rbac
  /\ ds.secrets = spec.secrets
  /\ \A i \in Secrets \cup Configs :
       ds.hashes[i] = IF i \in UserInputs(spec) THEN versions[i] ELSE Missing

\* Once the operator is at rest, the pods run with the user's latest input: the
\* ConfigMap is the one built from the current spec and the current contents of
\* every ConfigMap it refers to, the pod template has the hash of that config
\* and of the current contents of every secret it mounts, and no hash of a secret
\* it no longer mounts.  (SecretMounter and PowerMonitorDeployer read the cache at
\* different moments of a run and the watches are set up per name in the cached
\* spec: an event between two reads, or before the cached spec refers to the
\* name, must still cause another run.)
UserInputsRolledOut ==
  AtRest => cm = ConfigMap(pmi.spec, data) /\ Deployed(pmi.spec, data)

\* What only others create is there.
Complete ==
  /\ \A c \in pmi.spec.configs : data[c] # Missing
  /\ pmi.spec.rbac => data["tls"] # Missing

\* Once edits stop, and what the spec refers to exists, everything the operator
\* derives is brought up to date and stays so: also the hashes of the
\* certificate, the proxy config, the CA bundle and the token, of which some
\* changes are only found by the periodic resync, after a reconcile read a stale
\* copy right after writing the object itself.
EventuallyRolledOut ==
  <>[]Complete =>
    <>[](/\ cm = ConfigMap(pmi.spec, data)
         /\ ds = DaemonSet(pmi.spec, data)
         /\ sm = ServiceMonitor(pmi.spec, data))

\* "AnnotateWithSecretHash annotates the given ObjectMeta with a hash of the
\* Secret to trigger rollouts on changes" (deployment.go): at rest, the pod
\* template has the hash of the certificate kube-rbac-proxy should serve.
CertificateRolledOut ==
  AtRest /\ pmi.spec.rbac /\ data["tls"] # Missing
    => ds.hashes["tls"] = data["tls"]
================================================================================
