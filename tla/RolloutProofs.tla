---------------------------- MODULE RolloutProofs ----------------------------
(***************************************************************************)
(* Proofs about module Rollout, for every set of secrets, ConfigMaps and   *)
(* specs, on both kinds of cluster, and for any number of versions, edits  *)
(* and faults.                                                             *)
(***************************************************************************)
EXTENDS Rollout, TLAPS

(***************************************************************************)
(* The inductive invariant.  A run is fresh if nothing so far makes the    *)
(* operator run again after it.  What a fresh run has read is what the     *)
(* cache has, and what it has written is built from that.                  *)
(***************************************************************************)
Fresh == run.at # "idle" /\ ~queued /\ ~run.err /\ ~run.again

BeforeConfigs == {"proxyConfig", "caBundle", "token"}
AfterConfigMap == {"checkProxyConfig", "checkTLS", "checkCABundle", "checkToken",
                   "daemonSet", "serviceMonitor", "status"}

SpecRead == Fresh => run.spec = seen.spec

SecretsRead ==
  Fresh => \A s \in run.spec.secrets :
    (run.at = "proxyConfig" /\ s \in run.todo) \/ run.noted[s] = cache[s]

ConfigsRead ==
  Fresh => \A c \in run.spec.configs :
    \/ run.at \in BeforeConfigs
    \/ run.at = "configMap" /\ c \in run.todo
    \/ run.noted[c] = cache[c]

ConfigMapWritten ==
  Fresh /\ run.at \in AfterConfigMap => cm = ConfigMap(seen.spec, cache)

DaemonSetWritten ==
  Fresh /\ run.at \in {"serviceMonitor", "status"} => Deployed(seen.spec, cache)

Settled ==
  run.at = "idle" /\ ~queued
    => cm = ConfigMap(seen.spec, cache) /\ Deployed(seen.spec, cache)

FreshInv ==
  SpecRead /\ SecretsRead /\ ConfigsRead /\ ConfigMapWritten /\ DaemonSetWritten

Inv == TypeOK /\ FreshInv /\ Settled

(***************************************************************************)
(* Types of what a reconcile builds.                                       *)
(***************************************************************************)
LEMMA PlatformInputs ==
  /\ "proxyConfig" \in Inputs /\ "tls" \in Inputs
  /\ "caBundle" \in Inputs /\ "token" \in Inputs
BY DEF Inputs, Platform

LEMMA VersionsAreNat == Versions \subseteq Nat /\ 1 \in Present /\ Present \subseteq Versions
  /\ Missing \in Versions
BY BoundsAssumption DEF Versions, Present, Missing

LEMMA SpecTypes ==
  ASSUME NEW spec \in Specs
  PROVE  /\ spec.secrets \subseteq Secrets /\ spec.configs \subseteq Configs
         /\ spec.level \in Versions /\ spec.allowed \in Versions
         /\ spec.rbac \in BOOLEAN /\ spec.uwm \in BOOLEAN
BY SpecsAssumption, VersionsAreNat

LEMMA HashesType ==
  ASSUME NEW names, NEW noted \in [Inputs -> Versions]
  PROVE  Hashes(names, noted) \in [Inputs -> Versions]
BY VersionsAreNat DEF Hashes

LEMMA NoHashesType == NoHashes \in [Inputs -> Versions]
BY VersionsAreNat DEF NoHashes

LEMMA BuiltTypes ==
  ASSUME NEW spec \in Specs, NEW noted \in [Inputs -> Versions]
  PROVE  /\ ConfigMap(spec, noted) \in ConfigMaps
         /\ DaemonSet(spec, noted) \in DaemonSets
         /\ ServiceMonitor(spec, noted) \in ServiceMonitors
BY SpecTypes, HashesType
   DEF ConfigMap, DaemonSet, ServiceMonitor, ConfigMaps, DaemonSets, ServiceMonitors

LEMMA IdleType == ASSUME NEW spec \in Specs PROVE Idle(spec) \in Runs
BY NoHashesType DEF Idle, Runs, Stages

(***************************************************************************)
(* Type correctness.                                                       *)
(***************************************************************************)
LEMMA InitType == Init => TypeOK
<1> SUFFICES ASSUME Init PROVE TypeOK
  OBVIOUS
<1>1. data \in [Inputs -> Versions]
  BY VersionsAreNat DEF Init
<1>2. pmi \in Pmis
  BY DEF Init, Pmis
<1>3. run \in Runs
  BY <1>2, IdleType DEF Init, Pmis
<1>4. cm \in ConfigMaps /\ ds \in DaemonSets /\ sm \in ServiceMonitors
  BY NoHashesType, VersionsAreNat
     DEF Init, NoConfigMap, NoDaemonSet, NoServiceMonitor, ConfigMaps, DaemonSets,
         ServiceMonitors, Missing
<1>5. events \in 0 .. MaxEvents /\ queued \in BOOLEAN
  BY BoundsAssumption DEF Init
<1> QED
  BY <1>1, <1>2, <1>3, <1>4, <1>5 DEF Init, TypeOK

LEMMA EventType ==
  ASSUME TypeOK, Event \/ NoEvent
  PROVE  events' \in 0 .. MaxEvents
BY BoundsAssumption DEF TypeOK, Event, NoEvent

LEMMA RunTypes ==
  ASSUME TypeOK, NEW stage \in Stages,
         \/ Goto(stage) \/ Fails(stage) \/ Stop \/ Conflict
  PROVE  run' \in Runs
<1>1. run \in Runs /\ run.spec.configs \subseteq Configs
  BY SpecTypes DEF TypeOK, Runs
<1>2. Refs(stage) \subseteq Secrets \cup Configs
  BY <1>1 DEF Refs
<1>3. "status" \in Stages
  BY DEF Stages
<1> QED
  BY <1>1, <1>2, <1>3 DEF Goto, Fails, Stop, Conflict, Runs

LEMMA ReadTypes ==
  ASSUME TypeOK, NEW i \in Inputs
  PROVE  /\ cache[i] \in Versions /\ data[i] \in Versions
         /\ [run.noted EXCEPT ![i] = cache[i]] \in [Inputs -> Versions]
BY DEF TypeOK, Runs

LEMMA PutType ==
  ASSUME TypeOK, NEW i \in Inputs, NEW v \in Versions, NEW stage \in Stages,
         Put(i, v, stage)
  PROVE  TypeOK'
<1>1. data' \in [Inputs -> Versions]
  BY DEF TypeOK, Put, Update, Call
<1>2. run' \in Runs
  BY RunTypes DEF Put, Update, Call
<1>3. events' \in 0 .. MaxEvents
  BY EventType DEF Put, Update, Call
<1> QED
  BY <1>1, <1>2, <1>3 DEF TypeOK, Put, outside, objects

LEMMA RemoveType ==
  ASSUME TypeOK, NEW i \in Inputs, NEW stage \in Stages, Remove(i, stage)
  PROVE  TypeOK'
<1>1. data' \in [Inputs -> Versions]
  BY VersionsAreNat DEF TypeOK, Remove
<1>2. run' \in Runs
  BY RunTypes DEF Remove, TypeOK
<1>3. events' \in 0 .. MaxEvents
  BY EventType DEF Remove
<1> QED
  BY <1>1, <1>2, <1>3 DEF TypeOK, Remove, outside, objects

LEMMA StagesHas ==
  /\ {"idle", "proxyConfig", "caBundle", "token", "configMap"} \subseteq Stages
  /\ AfterConfigMap \subseteq Stages
BY DEF Stages, AfterConfigMap

LEMMA CheckType ==
  ASSUME TypeOK, NEW stage, NEW i \in Inputs, NEW next \in Stages,
         Check(stage, i, next)
  PROVE  TypeOK'
<1>1. run' \in Runs
  <2>1. CASE cache[i] = Missing
    BY <2>1, RunTypes DEF Check
  <2>2. CASE cache[i] # Missing
    BY <2>2, ReadTypes DEF Check, TypeOK, Runs
  <2> QED
    BY <2>1, <2>2
<1> QED
  BY <1>1 DEF TypeOK, Check, outside, objects

LEMMA SecurityTypes ==
  ASSUME TypeOK,
         \/ KubeRBACProxyConfigReconciler \/ CABundleConfigReconciler
         \/ UWMSecretTokenReconciler
  PROVE  TypeOK'
<1>1. run \in Runs /\ run.spec \in Specs
  BY DEF TypeOK, Runs
<1>2. CASE KubeRBACProxyConfigReconciler
  BY <1>1, <1>2, PutType, RemoveType, SpecTypes, PlatformInputs, StagesHas
     DEF KubeRBACProxyConfigReconciler
<1>3. CASE CABundleConfigReconciler
  <2>1. (IF data["caBundle"] = Missing THEN 1 ELSE data["caBundle"]) \in Versions
    BY ReadTypes, PlatformInputs, VersionsAreNat
  <2> QED
    BY <1>3, <2>1, PutType, RemoveType, PlatformInputs, StagesHas
       DEF CABundleConfigReconciler
<1>4. CASE UWMSecretTokenReconciler
  <2>1. CASE Scraped(run.spec) = {}
    BY <1>4, <2>1, RemoveType, PlatformInputs, StagesHas DEF UWMSecretTokenReconciler
  <2>2. CASE /\ NoEvent /\ Goto("configMap")
             /\ UNCHANGED <<outside, data, queued, objects>>
    BY <2>2, RunTypes, EventType, StagesHas DEF TypeOK, outside, objects
  <2>3. CASE \E v \in Present \ {data["token"]} : Put("token", v, "configMap")
    BY <2>3, PutType, PlatformInputs, StagesHas, VersionsAreNat
  <2>4. CASE Event /\ Stop /\ UNCHANGED <<outside, data, queued, objects>>
    BY <2>4, RunTypes, EventType, StagesHas DEF TypeOK, outside, objects
  <2> QED
    BY <1>4, <2>1, <2>2, <2>3, <2>4 DEF UWMSecretTokenReconciler
<1> QED
  BY <1>2, <1>3, <1>4

LEMMA ReadStepTypes ==
  ASSUME TypeOK,
         \/ Start
         \/ \E s \in Secrets : ReadSecret(s)
         \/ \E c \in Configs : ReadConfig(c)
  PROVE  TypeOK'
<1>1. run \in Runs /\ seen.spec \in Specs
  BY DEF TypeOK, Pmis
<1>2. CASE Start
  <2>1. Idle(seen.spec) \in Runs /\ seen.spec.secrets \subseteq Secrets
    BY <1>1, IdleType, SpecTypes
  <2>2. run' \in Runs
    BY <1>2, <2>1, StagesHas DEF Start, Runs
  <2> QED
    BY <1>2, <2>2 DEF Start, TypeOK, objects
<1>3. ASSUME NEW s \in Secrets, ReadSecret(s) PROVE TypeOK'
  <2>1. s \in Inputs
    BY DEF Inputs
  <2>2. run' \in Runs
    BY <1>1, <1>3, <2>1, ReadTypes DEF ReadSecret, Runs
  <2> QED
    BY <1>3, <2>2 DEF ReadSecret, TypeOK, outside, objects
<1>4. ASSUME NEW c \in Configs, ReadConfig(c) PROVE TypeOK'
  <2>1. c \in Inputs
    BY DEF Inputs
  <2>2. run' \in Runs
    <3>1. CASE cache[c] = Missing
      BY <1>4, <3>1, RunTypes, StagesHas DEF ReadConfig
    <3>2. CASE cache[c] # Missing
      <4>1. run' = [run EXCEPT !.todo = run.todo \ {c},
                               !.noted = [run.noted EXCEPT ![c] = cache[c]]]
        BY <1>4, <3>2 DEF ReadConfig
      <4>2. [run.noted EXCEPT ![c] = cache[c]] \in [Inputs -> Versions]
        BY <2>1, ReadTypes
      <4> QED
        BY <1>1, <4>1, <4>2 DEF Runs
    <3> QED
      BY <3>1, <3>2
  <2> QED
    BY <1>4, <2>2 DEF ReadConfig, TypeOK, outside, objects
<1> QED
  BY <1>2, <1>3, <1>4

LEMMA WriteTypes ==
  ASSUME TypeOK,
         \/ PowerMonitorDeployer \/ UpdateDaemonSet
         \/ PowerMonitorServiceMonitorReconciler
  PROVE  TypeOK'
<1>1. run \in Runs /\ run.spec \in Specs /\ run.noted \in [Inputs -> Versions]
  BY DEF TypeOK, Runs
<1>2. CASE PowerMonitorDeployer
  <2>1. cm' \in ConfigMaps
    BY <1>1, <1>2, BuiltTypes DEF PowerMonitorDeployer, Update, Call, TypeOK
  <2>2. (IF run.spec.rbac THEN "checkProxyConfig" ELSE "daemonSet") \in Stages
    BY DEF Stages
  <2>3. run' \in Runs /\ events' \in 0 .. MaxEvents
    BY <1>2, <2>2, RunTypes, EventType DEF PowerMonitorDeployer, Update, Call
  <2> QED
    BY <1>2, <2>1, <2>3 DEF PowerMonitorDeployer, TypeOK, outside
<1>3. CASE UpdateDaemonSet
  <2>1. ds' \in DaemonSets
    BY <1>1, <1>3, BuiltTypes DEF UpdateDaemonSet, Update, Call, TypeOK
  <2>2. run' \in Runs /\ events' \in 0 .. MaxEvents
    BY <1>3, RunTypes, EventType, StagesHas
       DEF UpdateDaemonSet, Update, Call, AfterConfigMap
  <2> QED
    BY <1>3, <2>1, <2>2 DEF UpdateDaemonSet, TypeOK, outside
<1>4. CASE PowerMonitorServiceMonitorReconciler
  <2>1. sm' \in ServiceMonitors
    BY <1>1, <1>4, BuiltTypes
       DEF PowerMonitorServiceMonitorReconciler, PutServiceMonitor, Update, Call, TypeOK
  <2>2. run' \in Runs /\ events' \in 0 .. MaxEvents
    BY <1>4, RunTypes, EventType, StagesHas
       DEF PowerMonitorServiceMonitorReconciler, Update, Call, AfterConfigMap
  <2> QED
    BY <1>4, <2>1, <2>2 DEF PowerMonitorServiceMonitorReconciler, TypeOK, outside
<1> QED
  BY <1>2, <1>3, <1>4

LEMMA EndType == ASSUME TypeOK, End PROVE TypeOK'
<1>1. pmi \in Pmis /\ seen \in Pmis /\ run \in Runs
  BY DEF TypeOK
<1>2. pmi' \in Pmis
  BY <1>1 DEF End, Pmis, Runs
<1>3. run' \in Runs
  BY <1>1, IdleType DEF End, Pmis
<1>4. queued' \in BOOLEAN /\ events' \in 0 .. MaxEvents
  BY <1>1, EventType DEF End, TypeOK, Runs
<1> QED
  BY <1>2, <1>3, <1>4 DEF End, TypeOK, objects

LEMMA OutsideTypes ==
  ASSUME TypeOK,
         \/ \E i \in Inputs : Deliver(i) \/ ChangeInput(i)
         \/ SyncPmi \/ Wake \/ EditSpec \/ IssueCertificate \/ Crash
  PROVE  TypeOK'
<1>1. ASSUME NEW i \in Inputs, Deliver(i) PROVE TypeOK'
  BY <1>1, OpenShiftAssumption DEF Deliver, TypeOK, objects
<1>2. ASSUME NEW i \in Inputs, ChangeInput(i) PROVE TypeOK'
  <2>1. Edits(i) \subseteq Versions
    BY VersionsAreNat DEF Edits
  <2>2. data' \in [Inputs -> Versions]
    BY <1>2, <2>1 DEF ChangeInput, TypeOK
  <2> QED
    BY <1>2, <2>2, EventType DEF ChangeInput, TypeOK, objects
<1>3. CASE SyncPmi
  BY <1>3 DEF SyncPmi, TypeOK, objects
<1>4. CASE Wake
  BY <1>4 DEF Wake, TypeOK, objects
<1>5. CASE EditSpec
  <2>1. PICK spec \in Specs : pmi' = [pmi EXCEPT !.gen = @ + 1, !.spec = spec]
    BY <1>5 DEF EditSpec
  <2>2. pmi \in Pmis
    BY DEF TypeOK
  <2>3. pmi.gen + 1 \in Nat /\ pmi' = [pmi EXCEPT !.gen = pmi.gen + 1, !.spec = spec]
    BY <2>1, <2>2 DEF Pmis
  <2>4. pmi' \in Pmis
    BY <2>2, <2>3 DEF Pmis
  <2> QED
    BY <1>5, <2>4, EventType DEF EditSpec, TypeOK, objects
<1>6. CASE IssueCertificate
  BY <1>6, PlatformInputs, VersionsAreNat DEF IssueCertificate, TypeOK, objects
<1>7. CASE Crash
  <2>1. run' \in Runs
    BY <1>7, IdleType DEF Crash, TypeOK, Pmis
  <2> QED
    BY <1>7, <2>1, EventType DEF Crash, TypeOK, objects
<1> QED
  BY <1>1, <1>2, <1>3, <1>4, <1>5, <1>6, <1>7

LEMMA NextType == TypeOK /\ [Next]_vars => TypeOK'
<1> SUFFICES ASSUME TypeOK, [Next]_vars PROVE TypeOK'
  OBVIOUS
<1>1. CASE UNCHANGED vars
  BY <1>1 DEF vars, TypeOK
<1>2. CASE CheckProxyConfig \/ CheckTLS \/ CheckCABundle \/ CheckToken
  <2>1. (IF run.spec.uwm THEN "checkCABundle" ELSE "daemonSet") \in Stages
    BY DEF Stages
  <2> QED
    BY <1>2, <2>1, CheckType, PlatformInputs, StagesHas
       DEF CheckProxyConfig, CheckTLS, CheckCABundle, CheckToken, AfterConfigMap
<1>3. CASE Reconcile
  <2>1. CASE \/ Start
             \/ \E s \in Secrets : ReadSecret(s)
             \/ \E c \in Configs : ReadConfig(c)
    BY <2>1, ReadStepTypes
  <2>2. CASE \/ KubeRBACProxyConfigReconciler \/ CABundleConfigReconciler
             \/ UWMSecretTokenReconciler
    BY <2>2, SecurityTypes
  <2>3. CASE \/ PowerMonitorDeployer \/ UpdateDaemonSet
             \/ PowerMonitorServiceMonitorReconciler
    BY <2>3, WriteTypes
  <2>4. CASE End
    BY <2>4, EndType
  <2> QED
    BY <1>2, <1>3, <2>1, <2>2, <2>3, <2>4 DEF Reconcile
<1>4. CASE Next /\ ~Reconcile
  BY <1>4, OutsideTypes DEF Next
<1> QED
  BY <1>1, <1>3, <1>4

\* Every variable keeps its type, whatever users, the platform and faults do: in
\* particular the operator only ever notes and applies versions that exist.
THEOREM TypeCorrect == Spec => []TypeOK
BY InitType, NextType, PTL DEF Spec

(***************************************************************************)
(* What is built depends on what the spec refers to, and on nothing else.  *)
(***************************************************************************)
LEMMA ConfigMapSame ==
  ASSUME NEW spec, NEW n, NEW m, \A c \in spec.configs : n[c] = m[c]
  PROVE  ConfigMap(spec, n) = ConfigMap(spec, m)
<1>1. Hashes(spec.configs, n) = Hashes(spec.configs, m)
  BY DEF Hashes
<1> QED
  BY <1>1 DEF ConfigMap

LEMMA DeployedSame ==
  ASSUME NEW spec, NEW n, NEW m, \A i \in UserInputs(spec) : n[i] = m[i],
         ds = DaemonSet(spec, n)
  PROVE  Deployed(spec, m)
<1>1. ASSUME NEW i \in Secrets \cup Configs
      PROVE  ds.hashes[i] = IF i \in UserInputs(spec) THEN m[i] ELSE Missing
  <2>1. i \in Inputs /\ i \notin ProxySecrets(spec)
    BY InputsAssumption DEF Inputs, ProxySecrets, Platform
  <2>2. ds.hashes = Hashes(UserInputs(spec) \cup ProxySecrets(spec), n)
    BY DEF DaemonSet
  <2> QED
    BY <2>1, <2>2 DEF Hashes
<1> QED
  BY <1>1 DEF Deployed, DaemonSet

LEMMA DeployedKept ==
  ASSUME NEW spec, NEW n, NEW m, \A i \in UserInputs(spec) : n[i] = m[i],
         Deployed(spec, n)
  PROVE  Deployed(spec, m)
BY DEF Deployed

(***************************************************************************)
(* The three ways in which a step preserves the invariant without touching *)
(* what it is about.                                                       *)
(***************************************************************************)
\* A request is in the queue.
LEMMA QueuedInv == ASSUME queued' PROVE FreshInv' /\ Settled'
BY DEF FreshInv, SpecRead, SecretsRead, ConfigsRead, ConfigMapWritten,
       DaemonSetWritten, Settled, Fresh

\* The run will be repeated.
LEMMA RepeatedInv ==
  ASSUME run'.at # "idle", run'.err \/ run'.again
  PROVE  FreshInv' /\ Settled'
BY DEF FreshInv, SpecRead, SecretsRead, ConfigsRead, ConfigMapWritten,
       DaemonSetWritten, Settled, Fresh

\* The step is of somebody else.
LEMMA KeptInv ==
  ASSUME FreshInv, Settled, UNCHANGED <<run, seen, cache, queued, cm, ds>>
  PROVE  FreshInv' /\ Settled'
BY DEF FreshInv, SpecRead, SecretsRead, ConfigsRead, ConfigMapWritten,
       DaemonSetWritten, Settled, Fresh, Deployed

\* A failed sub-reconciler, whether or not the Runner goes on.
LEMMA FailedInv ==
  ASSUME TypeOK, NEW stage, stage # "idle", Fails(stage) \/ Stop \/ Conflict
  PROVE  FreshInv' /\ Settled'
<1>1. run \in Runs
  BY DEF TypeOK
<1>2. run'.at # "idle" /\ (run'.err \/ run'.again)
  BY <1>1 DEF Fails, Stop, Conflict, Runs
<1> QED
  BY <1>2, RepeatedInv

\* A sub-reconciler before PowerMonitorDeployer is done.
LEMMA GotoInv ==
  ASSUME TypeOK, FreshInv, Settled, NEW stage,
         \/ run.at = "proxyConfig" /\ run.todo = {} /\ stage = "caBundle"
         \/ run.at = "caBundle" /\ stage = "token"
         \/ run.at = "token" /\ stage = "configMap",
         Goto(stage), UNCHANGED <<seen, cache, queued, cm, ds>>
  PROVE  FreshInv' /\ Settled'
<1>1. run \in Runs
  BY DEF TypeOK
<1>2. /\ run'.at = stage /\ run'.todo = Refs(stage) /\ run'.spec = run.spec
      /\ run'.noted = run.noted /\ run'.err = run.err /\ run'.again = run.again
  BY <1>1 DEF Goto, Runs
<1>3. Fresh' => Fresh
  BY <1>2 DEF Fresh
<1>4. SpecRead' /\ Settled'
  BY <1>2, <1>3 DEF FreshInv, SpecRead, Settled
<1>5. SecretsRead'
  BY <1>2, <1>3 DEF FreshInv, SecretsRead
<1>6. ConfigsRead'
  BY <1>2, <1>3 DEF FreshInv, ConfigsRead, BeforeConfigs, Refs
<1>7. ConfigMapWritten' /\ DaemonSetWritten'
  BY <1>2 DEF ConfigMapWritten, DaemonSetWritten, AfterConfigMap
<1> QED
  BY <1>4, <1>5, <1>6, <1>7 DEF FreshInv

(***************************************************************************)
(* The steps of a reconcile.                                               *)
(***************************************************************************)
LEMMA StartInv == ASSUME TypeOK, Start PROVE FreshInv' /\ Settled'
<1>1. /\ run'.at = "proxyConfig" /\ run'.spec = seen.spec
      /\ run'.todo = seen.spec.secrets /\ seen' = seen
  BY DEF Start, Idle
<1>2. SecretsRead'
  BY <1>1 DEF SecretsRead
<1>3. ConfigsRead'
  BY <1>1 DEF ConfigsRead, BeforeConfigs
<1> QED
  BY <1>1, <1>2, <1>3
     DEF FreshInv, SpecRead, ConfigMapWritten, DaemonSetWritten, Settled,
         AfterConfigMap

LEMMA ReadSecretInv ==
  ASSUME TypeOK, FreshInv, NEW s \in Secrets, ReadSecret(s)
  PROVE  FreshInv' /\ Settled'
<1>1. run \in Runs /\ s \in Inputs
  BY DEF TypeOK, Inputs
<1>2. /\ run'.at = "proxyConfig" /\ run.at = "proxyConfig"
      /\ run'.todo = run.todo \ {s} /\ run'.spec = run.spec
      /\ run'.noted = [run.noted EXCEPT ![s] = cache[s]]
      /\ (run.err => run'.err) /\ run'.again = run.again
  BY <1>1 DEF ReadSecret, Runs
<1>3. UNCHANGED <<seen, cache, queued, cm, ds>>
  BY DEF ReadSecret, outside, objects
<1>4. Fresh' => Fresh
  BY <1>2, <1>3 DEF Fresh
<1>5. run.noted \in [Inputs -> Versions]
  BY <1>1 DEF Runs
<1>6. SecretsRead'
  BY <1>1, <1>2, <1>3, <1>4, <1>5 DEF FreshInv, SecretsRead
<1>7. ConfigsRead'
  BY <1>2 DEF ConfigsRead, BeforeConfigs
<1> QED
  BY <1>2, <1>3, <1>4, <1>6, <1>7
     DEF FreshInv, SpecRead, ConfigMapWritten, DaemonSetWritten, Settled,
         AfterConfigMap

LEMMA PutInv ==
  ASSUME TypeOK, FreshInv, Settled, NEW i, NEW v, NEW stage,
         \/ run.at = "proxyConfig" /\ run.todo = {} /\ stage = "caBundle"
         \/ run.at = "caBundle" /\ stage = "token"
         \/ run.at = "token" /\ stage = "configMap",
         Put(i, v, stage)
  PROVE  FreshInv' /\ Settled'
<1>1. UNCHANGED <<seen, cache, queued, cm, ds>>
  BY DEF Put, outside, objects
<1>2. stage # "idle"
  OBVIOUS
<1>3. CASE Goto(stage)
  BY <1>1, <1>3, GotoInv
<1>4. CASE Fails(stage) \/ Conflict
  BY <1>2, <1>4, FailedInv
<1> QED
  BY <1>3, <1>4 DEF Put, Update, Call

LEMMA RemoveInv ==
  ASSUME TypeOK, FreshInv, Settled, NEW i, NEW stage,
         \/ run.at = "proxyConfig" /\ run.todo = {} /\ stage = "caBundle"
         \/ run.at = "caBundle" /\ stage = "token"
         \/ run.at = "token" /\ stage = "configMap",
         Remove(i, stage)
  PROVE  FreshInv' /\ Settled'
<1>1. UNCHANGED <<seen, cache, queued, cm, ds>>
  BY DEF Remove, outside, objects
<1>2. stage # "idle"
  OBVIOUS
<1>3. CASE Goto(stage)
  BY <1>1, <1>3, GotoInv
<1>4. CASE Fails(stage)
  BY <1>2, <1>4, FailedInv
<1>5. CASE UNCHANGED run
  BY <1>1, <1>5, KeptInv
<1> QED
  BY <1>3, <1>4, <1>5 DEF Remove

LEMMA SecurityInv ==
  ASSUME TypeOK, FreshInv, Settled,
         \/ KubeRBACProxyConfigReconciler \/ CABundleConfigReconciler
         \/ UWMSecretTokenReconciler
  PROVE  FreshInv' /\ Settled'
<1>1. CASE KubeRBACProxyConfigReconciler
  BY <1>1, PutInv, RemoveInv DEF KubeRBACProxyConfigReconciler
<1>2. CASE CABundleConfigReconciler
  BY <1>2, PutInv, RemoveInv DEF CABundleConfigReconciler
<1>3. CASE UWMSecretTokenReconciler
  <2>1. run.at = "token"
    BY <1>3 DEF UWMSecretTokenReconciler
  <2>2. CASE Remove("token", "configMap")
    BY <2>1, <2>2, RemoveInv
  <2>3. CASE \E v \in Present \ {data["token"]} : Put("token", v, "configMap")
    BY <2>1, <2>3, PutInv
  <2>4. CASE Goto("configMap") /\ UNCHANGED <<outside, data, queued, objects>>
    BY <2>1, <2>4, GotoInv DEF outside, objects
  <2>5. CASE Stop
    BY <2>5, FailedInv
  <2> QED
    BY <1>3, <2>2, <2>3, <2>4, <2>5 DEF UWMSecretTokenReconciler
<1> QED
  BY <1>1, <1>2, <1>3

LEMMA ReadConfigInv ==
  ASSUME TypeOK, FreshInv, NEW c \in Configs, ReadConfig(c)
  PROVE  FreshInv' /\ Settled'
<1>1. CASE cache[c] = Missing
  BY <1>1, FailedInv DEF ReadConfig
<1>2. CASE cache[c] # Missing
  <2>1. run \in Runs /\ c \in Inputs /\ c \notin Secrets
    BY InputsAssumption DEF TypeOK, Inputs
  <2>2. /\ run'.at = "configMap" /\ run.at = "configMap"
        /\ run'.todo = run.todo \ {c} /\ run'.spec = run.spec
        /\ run'.noted = [run.noted EXCEPT ![c] = cache[c]]
        /\ run'.err = run.err /\ run'.again = run.again
    BY <1>2, <2>1 DEF ReadConfig, Runs
  <2>3. UNCHANGED <<seen, cache, queued, cm, ds>>
    BY DEF ReadConfig, outside, objects
  <2>4. Fresh' => Fresh
    BY <2>2, <2>3 DEF Fresh
  <2>5. run.noted \in [Inputs -> Versions] /\ run.spec.secrets \subseteq Secrets
    BY <2>1, SpecTypes DEF Runs
  <2>6. SecretsRead'
    BY <2>1, <2>2, <2>3, <2>4, <2>5 DEF FreshInv, SecretsRead
  <2>7. ConfigsRead'
    BY <2>1, <2>2, <2>3, <2>4, <2>5 DEF FreshInv, ConfigsRead, BeforeConfigs
  <2> QED
    BY <2>2, <2>3, <2>4, <2>6, <2>7
       DEF FreshInv, SpecRead, ConfigMapWritten, DaemonSetWritten, Settled,
           AfterConfigMap
<1> QED
  BY <1>1, <1>2

\* What a fresh run has noted when it has read everything is what the cache has.
LEMMA NotedIsCached ==
  ASSUME FreshInv, Fresh,
         run.at \in AfterConfigMap \/ (run.at = "configMap" /\ run.todo = {})
  PROVE  /\ \A c \in run.spec.configs : run.noted[c] = cache[c]
         /\ \A i \in UserInputs(run.spec) : run.noted[i] = cache[i]
         /\ run.spec = seen.spec
BY DEF FreshInv, SpecRead, SecretsRead, ConfigsRead, BeforeConfigs, AfterConfigMap,
       UserInputs

LEMMA DeployerInv ==
  ASSUME TypeOK, FreshInv, PowerMonitorDeployer
  PROVE  FreshInv' /\ Settled'
<1> DEFINE next == IF run.spec.rbac THEN "checkProxyConfig" ELSE "daemonSet"
<1>1. run \in Runs /\ next \in {"checkProxyConfig", "daemonSet"}
  BY DEF TypeOK
<1>2. CASE Fails(next) \/ Conflict
  BY <1>1, <1>2, FailedInv
<1>3. CASE cm' = ConfigMap(run.spec, run.noted) /\ Goto(next)
  <2>1. /\ run'.at = next /\ run'.spec = run.spec /\ run'.noted = run.noted
        /\ run'.err = run.err /\ run'.again = run.again
    BY <1>1, <1>3 DEF Goto, Runs
  <2>2. /\ UNCHANGED <<seen, cache, queued, ds>>
        /\ run.at = "configMap" /\ run.todo = {}
    BY DEF PowerMonitorDeployer, outside
  <2>3. Fresh' => Fresh
    BY <2>1, <2>2 DEF Fresh
  <2>4. Fresh => cm' = ConfigMap(seen.spec, cache)
    BY <1>3, <2>2, NotedIsCached, ConfigMapSame
  <2>5. SecretsRead' /\ ConfigsRead'
    BY <2>1, <2>2, <2>3, NotedIsCached DEF SecretsRead, ConfigsRead, UserInputs
  <2> QED
    BY <1>1, <2>1, <2>2, <2>3, <2>4, <2>5
       DEF FreshInv, SpecRead, ConfigMapWritten, DaemonSetWritten, Settled
<1> QED
  BY <1>2, <1>3 DEF PowerMonitorDeployer, Update, Call

LEMMA CheckInv ==
  ASSUME TypeOK, FreshInv, NEW stage \in AfterConfigMap, NEW i \in Platform,
         NEW next \in AfterConfigMap \ {"serviceMonitor", "status"},
         Check(stage, i, next)
  PROVE  FreshInv' /\ Settled'
<1>1. CASE cache[i] = Missing
  BY <1>1, FailedInv DEF Check
<1>2. CASE cache[i] # Missing
  <2>1. run \in Runs /\ i \in Inputs /\ i \notin Secrets /\ i \notin Configs
    BY InputsAssumption DEF TypeOK, Inputs
  <2>2. /\ run'.at = next /\ run.at = stage /\ run'.spec = run.spec
        /\ run'.noted = [run.noted EXCEPT ![i] = cache[i]]
        /\ run'.err = run.err /\ run'.again = run.again
    BY <1>2, <2>1 DEF Check, Runs
  <2>3. UNCHANGED <<seen, cache, queued, cm, ds>>
    BY DEF Check, outside, objects
  <2>4. Fresh' => Fresh
    BY <2>2, <2>3 DEF Fresh, AfterConfigMap
  <2>5. /\ run.noted \in [Inputs -> Versions]
        /\ run.spec.secrets \subseteq Secrets /\ run.spec.configs \subseteq Configs
    BY <2>1, SpecTypes DEF Runs
  <2>6. SecretsRead' /\ ConfigsRead'
    BY <2>1, <2>2, <2>3, <2>4, <2>5, NotedIsCached
       DEF SecretsRead, ConfigsRead, UserInputs
  <2> QED
    BY <2>2, <2>3, <2>4, <2>6
       DEF FreshInv, SpecRead, ConfigMapWritten, DaemonSetWritten, Settled,
           AfterConfigMap
<1> QED
  BY <1>1, <1>2

LEMMA DaemonSetInv ==
  ASSUME TypeOK, FreshInv, UpdateDaemonSet
  PROVE  FreshInv' /\ Settled'
<1>1. run \in Runs
  BY DEF TypeOK
<1>2. CASE Fails("serviceMonitor") \/ Conflict
  BY <1>2, FailedInv
<1>3. CASE queued'
  BY <1>3, QueuedInv
<1>4. CASE /\ ~queued' /\ Goto("serviceMonitor")
           /\ ds' = DaemonSet(run.spec, run.noted)
  <2>1. /\ run'.at = "serviceMonitor" /\ run'.spec = run.spec
        /\ run'.noted = run.noted /\ run'.err = run.err /\ run'.again = run.again
    BY <1>1, <1>4 DEF Goto, Runs
  <2>2. /\ UNCHANGED <<seen, cache, cm, ds>> /\ ~queued
        /\ run.at = "daemonSet" /\ run.at \in AfterConfigMap
    BY <1>4 DEF UpdateDaemonSet, outside, AfterConfigMap
  <2>3. Fresh' => Fresh
    BY <2>1, <2>2 DEF Fresh
  <2>4. ASSUME Fresh PROVE Deployed(seen.spec, cache)
    <3>1. /\ \A i \in UserInputs(run.spec) : run.noted[i] = cache[i]
          /\ run.spec = seen.spec
      BY <2>2, <2>4, NotedIsCached
    <3>2. ds = DaemonSet(run.spec, run.noted)
      BY <1>4, <2>2
    <3>3. Deployed(run.spec, cache)
      BY <3>1, <3>2, DeployedSame
    <3> QED
      BY <3>1, <3>3
  <2>5. SecretsRead' /\ ConfigsRead'
    BY <2>1, <2>2, <2>3, NotedIsCached DEF SecretsRead, ConfigsRead, UserInputs
  <2>6. DaemonSetWritten'
    BY <2>2, <2>3, <2>4 DEF DaemonSetWritten, Deployed
  <2> QED
    BY <2>1, <2>2, <2>3, <2>5, <2>6
       DEF FreshInv, SpecRead, ConfigMapWritten, Settled, AfterConfigMap
<1> QED
  BY <1>2, <1>3, <1>4 DEF UpdateDaemonSet, Update, Call, TypeOK

LEMMA ServiceMonitorInv ==
  ASSUME TypeOK, FreshInv, PowerMonitorServiceMonitorReconciler
  PROVE  FreshInv' /\ Settled'
<1>1. run \in Runs
  BY DEF TypeOK
<1>2. CASE Fails("status") \/ Conflict
  BY <1>2, FailedInv
<1>3. CASE Goto("status")
  <2>1. /\ run'.at = "status" /\ run'.spec = run.spec
        /\ run'.noted = run.noted /\ run'.err = run.err /\ run'.again = run.again
    BY <1>1, <1>3 DEF Goto, Runs
  <2>2. /\ UNCHANGED <<seen, cache, queued, cm, ds>>
        /\ run.at = "serviceMonitor" /\ run.at \in AfterConfigMap
    BY DEF PowerMonitorServiceMonitorReconciler, outside, AfterConfigMap
  <2>3. Fresh' => Fresh
    BY <2>1, <2>2 DEF Fresh
  <2>4. SecretsRead' /\ ConfigsRead'
    BY <2>1, <2>2, <2>3, NotedIsCached DEF SecretsRead, ConfigsRead, UserInputs
  <2>5. DaemonSetWritten'
    BY <2>2, <2>3 DEF FreshInv, DaemonSetWritten, Deployed
  <2> QED
    BY <2>1, <2>2, <2>3, <2>4, <2>5
       DEF FreshInv, SpecRead, ConfigMapWritten, Settled, AfterConfigMap
<1> QED
  BY <1>2, <1>3 DEF PowerMonitorServiceMonitorReconciler, Update, Call

LEMMA EndInv == ASSUME TypeOK, FreshInv, End PROVE FreshInv' /\ Settled'
<1>1. CASE queued'
  BY <1>1, QueuedInv
<1>2. CASE ~queued'
  <2>1. /\ run.at = "status" /\ ~queued /\ ~run.err /\ ~run.again
        /\ run'.at = "idle" /\ UNCHANGED <<seen, cache, cm, ds>>
    BY <1>2 DEF End, Idle, objects
  <2>2. cm = ConfigMap(seen.spec, cache) /\ Deployed(seen.spec, cache)
    BY <2>1 DEF FreshInv, ConfigMapWritten, DaemonSetWritten, Fresh, AfterConfigMap
  <2> QED
    BY <2>1, <2>2
       DEF FreshInv, SpecRead, SecretsRead, ConfigsRead, ConfigMapWritten,
           DaemonSetWritten, Settled, Fresh, Deployed
<1> QED
  BY <1>1, <1>2

\* An event that is not a request is about something the spec does not refer to.
LEMMA DeliverInv ==
  ASSUME TypeOK, FreshInv, Settled, NEW i \in Inputs, Deliver(i)
  PROVE  FreshInv' /\ Settled'
<1>1. CASE queued'
  BY <1>1, QueuedInv
<1>2. CASE ~queued'
  <2>1. ~queued /\ i \notin UserInputs(seen.spec) /\ UNCHANGED <<run, seen, cm, ds>>
    BY <1>2 DEF Deliver, Noticed, objects
  <2>2. \A j \in UserInputs(seen.spec) : cache'[j] = cache[j]
    BY <2>1, SpecTypes DEF Deliver, TypeOK, UserInputs
  <2>3. ConfigMap(seen.spec, cache') = ConfigMap(seen.spec, cache)
    BY <2>2, ConfigMapSame DEF UserInputs
  <2>4. Deployed(seen.spec, cache) => Deployed(seen.spec, cache')
    BY <2>2, DeployedKept
  <2>5. Deployed(seen.spec, cache) => Deployed(seen.spec, cache)'
    BY <2>1, <2>4 DEF Deployed
  <2>6. Fresh' => Fresh
    BY <2>1 DEF Fresh
  <2>7. SecretsRead' /\ ConfigsRead'
    BY <2>1, <2>2, <2>6
       DEF FreshInv, SpecRead, SecretsRead, ConfigsRead, UserInputs
  <2>8. SpecRead' /\ ConfigMapWritten' /\ DaemonSetWritten'
    BY <2>1, <2>3, <2>5, <2>6
       DEF FreshInv, SpecRead, ConfigMapWritten, DaemonSetWritten
  <2>9. Settled'
    BY <2>1, <2>3, <2>5 DEF Settled
  <2> QED
    BY <2>7, <2>8, <2>9 DEF FreshInv
<1> QED
  BY <1>1, <1>2

LEMMA OutsideInv ==
  ASSUME TypeOK, FreshInv, Settled,
         \/ \E i \in Inputs : Deliver(i) \/ ChangeInput(i)
         \/ SyncPmi \/ Wake \/ EditSpec \/ IssueCertificate \/ Crash
  PROVE  FreshInv' /\ Settled'
<1>1. ASSUME NEW i \in Inputs, Deliver(i) PROVE FreshInv' /\ Settled'
  BY <1>1, DeliverInv
<1>2. ASSUME NEW i \in Inputs, ChangeInput(i) PROVE FreshInv' /\ Settled'
  BY <1>2, KeptInv DEF ChangeInput, objects
<1>3. CASE SyncPmi \/ Wake \/ Crash
  BY <1>3, QueuedInv DEF SyncPmi, Wake, Crash
<1>4. CASE EditSpec \/ IssueCertificate
  BY <1>4, KeptInv DEF EditSpec, IssueCertificate, objects
<1> QED
  BY <1>1, <1>2, <1>3, <1>4

LEMMA NextInv == Inv /\ [Next]_vars => Inv'
<1> SUFFICES ASSUME TypeOK, FreshInv, Settled, [Next]_vars
             PROVE  FreshInv' /\ Settled'
  BY NextType DEF Inv
<1>1. CASE UNCHANGED vars
  BY <1>1, KeptInv DEF vars
<1>2. CASE CheckProxyConfig \/ CheckTLS \/ CheckCABundle \/ CheckToken
  <2>1. (IF run.spec.uwm THEN "checkCABundle" ELSE "daemonSet")
          \in AfterConfigMap \ {"serviceMonitor", "status"}
    BY DEF AfterConfigMap
  <2> QED
    BY <1>2, <2>1, CheckInv
       DEF CheckProxyConfig, CheckTLS, CheckCABundle, CheckToken, AfterConfigMap,
           Platform
<1>3. CASE Reconcile
  <2>1. CASE Start
    BY <2>1, StartInv
  <2>2. CASE \E s \in Secrets : ReadSecret(s)
    BY <2>2, ReadSecretInv
  <2>3. CASE \E c \in Configs : ReadConfig(c)
    BY <2>3, ReadConfigInv
  <2>4. CASE \/ KubeRBACProxyConfigReconciler \/ CABundleConfigReconciler
             \/ UWMSecretTokenReconciler
    BY <2>4, SecurityInv
  <2>5. CASE PowerMonitorDeployer
    BY <2>5, DeployerInv
  <2>6. CASE UpdateDaemonSet
    BY <2>6, DaemonSetInv
  <2>7. CASE PowerMonitorServiceMonitorReconciler
    BY <2>7, ServiceMonitorInv
  <2>8. CASE End
    BY <2>8, EndInv
  <2> QED
    BY <1>2, <1>3, <2>1, <2>2, <2>3, <2>4, <2>5, <2>6, <2>7, <2>8 DEF Reconcile
<1>4. CASE Next /\ ~Reconcile
  BY <1>4, OutsideInv DEF Next
<1> QED
  BY <1>1, <1>3, <1>4

LEMMA InitInv == Init => Inv
<1> SUFFICES ASSUME Init PROVE FreshInv /\ Settled
  BY InitType DEF Inv
<1>1. queued /\ run.at = "idle"
  BY DEF Init, Idle
<1> QED
  BY <1>1 DEF FreshInv, SpecRead, SecretsRead, ConfigsRead, ConfigMapWritten,
              DaemonSetWritten, Settled, Fresh

\* Once the operator is at rest, the ConfigMap and the pod template are those of
\* the current spec and of the current contents of every secret and ConfigMap it
\* refers to: the reads of one reconcile (SecretMounter, PowerMonitorDeployer),
\* the hashes it notes and the watches of SetupWithManager together miss no
\* change, for any number of them, in any order, with failures and restarts.
THEOREM InputsRolledOut == Spec => []UserInputsRolledOut
<1>1. Inv => UserInputsRolledOut
  BY DEF Inv, Settled, UserInputsRolledOut, AtRest
<1> QED
  BY <1>1, InitInv, NextInv, PTL DEF Spec
===============================================================================
