# Verification of the Kepler operator

TLA+ models of the operator that deploys Kepler: its three controllers, the
sub-reconciler framework they share, the objects through which they interact, and the
way of a configuration from the user's objects into a Kepler pod.
TLC checks the models on small instances; TLAPS proves the main invariants for all
instances. Paths below are relative to the repository root.

## 1. The system

A user creates a cluster-scoped **PowerMonitor** (PM). The operator turns it into a
**PowerMonitorInternal** (PMI) of the same name, deploys from that a namespace with a
DaemonSet and everything around it, and reports back through status conditions.

| Component | State it keeps | Operations | Interacts with |
|---|---|---|---|
| PowerMonitor controller, `internal/controller/power_monitor.go` | none of its own: PM, its finalizer and status; the PMI's spec | Reconcile: apply or delete the PMI, finalizer, copy the PMI's status, reject other names | PMI controller, only through the PMI object |
| PMI controller, `internal/controller/power_monitor_internal.go` | the deployed objects, the PMI's finalizer and status | Reconcile: run the list of sub-reconcilers, update two conditions; map functions for watched objects | API server, DaemonSet controller, garbage collector, OpenShift's certificate issuer, TokenExpiry |
| TokenExpiry controller, `internal/controller/token_expiry.go` | a delayed request per secret | delete a token secret two refresh intervals before it expires | PMI controller, through the secret |
| Sub-reconciler framework, `pkg/reconciler/{reconciler,runner,updater,deleter,finalizer}.go` | the last error of a run | `Runner.Run`; `Updater`, `Deleter`, `Finalizer` | used by all three |
| Sub-reconcilers, `pkg/reconciler/{security,power-monitor,service_monitor}.go` | none | secrets, proxy objects, config map, service monitor | the objects above |
| Object builders, `pkg/components/power-monitor/deployment.go` | none | one constructor per object, hash annotations | sub-reconcilers |
| Admission webhook, `api/v1alpha1/power_monitor_webhook.go` | the default security mode, set once from a flag | defaulting, check of the name | API server |
| Kepler configuration, `internal/config` | none | defaults, merge of ConfigMaps, validation, file round trip, flags | config map builder in the operator; the same code in the Kepler pod |
| Entry point, helpers, generated code, tests | - | - | - |

What is hard here is not any single function but the order of things. Every
controller works from an informer cache that lags; a reconcile takes many calls, each
of which may fail, conflict, or fail after it took effect; the object it works for is
edited and deleted meanwhile; the operator may die between any two calls; and two
controllers share an object (the PMI; the token secret) without talking to each other.
What the pods run with is read from the cache in several reads per reconcile, and a
change reaches them only if some watch lets its event through. A configuration passes
through five hands (schema defaults, webhook, merge, override, flags), is validated in
one container and used in another, and Go's zero values mean "absent" to some of them
and a value to others.
`PROJECT.json` lists these hazards at the lines where they bite, with the properties
that would catch them.

What makes each component correct:

* PMI controller: no change, failure or crash is lost (at rest everything is as the
  current generation wants it and the status says so); the rollout order is safe, and
  pods are not left without the secrets they mount; a
  deletion removes everything, and the finalizer is not given up early; it gets there.
* PowerMonitor controller: at rest the PMI mirrors the PM and the PM's status mirrors
  the PMI's, across deletion and re-creation under the same name.
* Token: an expired token is never left in use and a deleted one comes back soon.
* Sub-reconcilers and watches: at rest the pods run with the latest contents of
  everything they are built from.
* Configuration: the pod works with what the PowerMonitor says, otherwise with what the
  last ConfigMap that gives the setting says; a secured pod is not reachable past the proxy; a
  configuration the operator accepts is one the pod starts with.

## 2. Modules

| Module | Models | Uses |
|---|---|---|
| `Reconciler` | `Result`, `Runner.Run`'s treatment of results, the results of `Updater` and `Deleter` | - |
| `PowerMonitorInternal` | the PMI controller, users and platform around it | `Reconciler`, `InternalLifecycle` |
| `InternalLifecycle` | abstract: what the PMI controller promises of the PMI object | - |
| `PowerMonitor` | the PowerMonitor controller over `InternalLifecycle` | `Reconciler`, `InternalLifecycle` |
| `Token` | the token secret shared by the PMI and TokenExpiry controllers, in discrete time | - |
| `Rollout` | contents of secrets and ConfigMaps, what a reconcile reads and hashes, and the watches' predicates | - |
| `KeplerConfig` | webhook, config builder, validation and the start of a Kepler pod | - |
| `MCPowerMonitorInternal`, `MCRollout`, `MCKeplerConfig` | values for TLC | the module each is named after |
| `PowerMonitorInternalProofs`, `PowerMonitorProofs`, `TokenProofs`, `RolloutProofs`, `KeplerConfigProofs` | theorems | the module each is named after |
| `PowerMonitorInternalStepProofs` | theorems about single steps: the refinement and the action properties | `PowerMonitorInternalProofs` |

The composition of the two big controllers is by assume-guarantee: `PowerMonitorInternal`
implements `InternalLifecycle` (property `ImplementsLifecycle`, a refinement mapping that
forgets all but the object's metadata and Reconciled condition; checked in
`PMI_openshift`, proved as `LifecycleImplemented`), and `PowerMonitor` is checked and
proved against that abstract controller only. In the other direction
`LifecycleRespected` shows that the PowerMonitor controller, the only client, edits and
deletes the object as the abstract specification says.

### PowerMonitorInternal

An object the operator applies is represented by the *generation of the PMI it was
built from* (0: it does not exist), because that is what the properties tell apart: an
object is missing, outdated, or up to date. The specs written so far are kept in
`specs`, so that "what generation g calls for" can be asked at any time. A new generation
has another spec than the one before (`EditSpec`), as the API server sees to.

* `pmi` and `cache` are the PMI on the server and in the informer cache. An update
  (finalizer, status) carries the resource version of the copy it was made from and
  succeeds only if `cache = pmi`.
* `queued` stands for the work queue: a request now or after a delay. Events that come
  during a run stay queued until it ends, as in controller-runtime.
* `run` is the reconcile in progress: position in the list (`pc`), the copied
  generation and deletion mark it works from, the Runner's last error, and whether it
  asked for another run. `UpdatePath` and `CleanupPath` are the two lists of
  `reconcilersForPowerMonitor`; each sub-reconciler is one action (the namespace's
  Deleter two: the call and the wait). A list is executed one step at a time, so
  everything else may happen between two steps.
* `Update` has four outcomes: applied, refused by the server (namespace missing or
  terminating), failed with or without effect, conflict. `Delete` likewise.
* `UpdateStatus` computes both conditions from the PMI read again and writes them if
  one changed. Retry on conflict is represented by the choice between waiting for
  `SyncCache` and giving up.
* The map functions of the watches appear where the watched object changes (`Notify`):
  which events reach the PMI depends on the indexes, the security mode and the kind of
  cluster. `Wake` is any other request (resync, events of owned objects) and is never
  relied on: no fairness is assumed of it.
* Others delete what the operator manages: `RemoveObject` for the kinds in `Removable`,
  `RemoveCertificate` for the certificate of kube-rbac-proxy, `RemoveNamespace` for the
  namespace, which takes everything in it along (`NamespaceGone`). `Watched` says whose
  deletion is an event: not the namespace's own, and outside OpenShift not that of the
  secrets the operator makes. `Restored` names the kinds the properties hold for: the
  namespace is among them, because the end of the objects in it is noticed.
* `stale` holds the objects kube-rbac-proxy needs (`ProxyObjects`) that are gone while the
  informers still have their copy. `KubeRBACProxyObjectsChecker` and
  `UWMSecretTokenReconciler` read through the manager's client, that is, from these copies
  (`InCache`): the check may pass for a secret that was deleted with its namespace, and a
  secured DaemonSet is then rolled out without it. `SyncProxyObjects` delivers the deletion
  and, if a watch lets it through, queues a request. So two things are claimed: a secured
  DaemonSet is rolled out only by a reconcile during which the informers had each of its
  secrets (`DaemonSetAfterProxySecrets`, with the history variable `held`), and at rest the
  secrets are really there (`SecuredAtRest`).
* `StatusReadFails`: the PMI cannot be read for the status update; the code drops the
  error together with the update, and nothing retries it. The state `Skipped` remembers
  this, and the properties that speak of conditions exempt it by name.

What the caches are taken to do. The lag of deletions of the proxy's objects is modelled as
above. A copy that is late to *appear* is a read that fails (`FailRead`), for which the code
polls and then stops the run. When the garbage collector removes objects after the PMI is
gone the informers learn of it at once, since no run reads for a PMI that is gone. The
namespace, users' secrets and ConfigMaps, the monitoring account and the DaemonSet are read
as the server has them (`Rollout` has the lag of secrets and ConfigMaps; the wait for the
namespace may also time out although it is gone, which is what a late informer looks like).
`UpdateStatus` reads the DaemonSet and writes the condition in one step; a status that
changes between the two in the code is the same as one that changes right after, since both
end in a queued request.

Left abstract: contents of objects (see `Rollout`), waiting times
inside `retryWithTimeout`, log messages, `LastTransitionTime`, the pod counters that no
condition depends on, conditions other than those the code writes.

### InternalLifecycle and PowerMonitor

`InternalLifecycle` has the client's steps (edit, delete) and the controller's (add
the finalizer, report, remove the finalizer). `PowerMonitor` names a generation by the
PM's uid and number (`Version`), so that a PM re-created under the same name is
another one, and remembers in `made` which version the PMI was last made from and in
`st.from` where a status was copied from. `CollectInternal` is the garbage collector,
which deletes a PMI whose owner is gone. An apply for another version raises the PMI's
generation; when a PM of another uid takes the PMI over it may also stay (`Applied`), since
the new PM may have the old one's spec. Edits of one PM are taken to change its spec.

The two reads of `updatePowerMonitorStatus`, whose errors the code drops
(`power_monitor.go:119` and `:127`), are served by the informer cache and do not fail in this
module. `PowerMonitorInternal` has the failing read of the same pattern (`StatusReadFails`):
were they to fail, the PM's status would stay old until the next event, as the PMI's does
there.

### Token

Time is discrete. Each set of pending work (`te`, `busy`, `pmi`, `sync`) holds the
times since which it is due, and time does not run past a due time by more than `Lag`:
the reaction time of the operator, retries and restarts included. Reading the secret
and deleting it are separate steps of TokenExpiry; the deletion is by name. A restart
forgets delayed requests and lists the secret. A user may remove or damage the
annotation or delete the secret, and turn the feature off and on. The annotation is taken
to be the token's real expiration: the code annotates `now + TokenTTL`
(`pkg/reconciler/security.go:195`), asks the API server for a token of that lifetime, and
does not look at the lifetime it was granted (`security.go:410-424`). Where a server grants
less, `NeverExpired` speaks of the annotation only.

### Rollout

The contents of a secret or ConfigMap are a version, and a hash annotation is the
version it was computed from; `PowerMonitorInternal` has everything that depends on the
spec alone, so the two modules share no variable and each leaves out the other's part.

* `data` and `cache` are the inputs on the server and in the informer cache: the secrets
  and ConfigMaps of users, and four objects with fixed names (proxy config, certificate,
  CA bundle, token). `Deliver` brings the latest version of one into the cache (an
  informer may coalesce versions) and asks for a reconcile if `Noticed`: the watches of
  `SetupWithManager`. The predicates of one watch are ANDed and neither kind has a
  generation, so the watches other than the two with `resVerChanged` let creations and
  deletions through and no update.
* A reconcile reads every secret, ConfigMap and proxy object by itself (`ReadSecret`,
  `ReadConfig`, `Check`) and keeps in `run.noted` what it saw; only then are the ConfigMap,
  the DaemonSet's pod template and the ServiceMonitor written. An object the operator has
  just applied is read back from the cache, possibly in its old version.
* A Deleter waits until the cache no longer has the object, or times out (`Remove`).
* `events` is one budget for edits, failed calls and crashes. `Wake` is the resync.

Left abstract: additional ConfigMaps always build a valid config here (`KeplerConfig` and
`PowerMonitorInternal` have the other case), reads of the cache fail only by not
finding the object, a hash has no collisions.

### KeplerConfig

A configuration maps a setting to the set of values it lists; `{}` is Go's zero value
(an empty list or string, a nil `*bool`, the number 0), and a scalar is a singleton. A
document has, besides the configuration its YAML is parsed into, the set of keys it gives
(`given`): the merge cannot see that set, but the properties can, so that a setting given
as zero and one not given are told apart. The settings behind a pointer (`Pointers`) are
never given as zero. The state machine follows one PowerMonitor:
admission and defaulting (`Create`, `Reject`), one merge per additional ConfigMap
(`Build`), override and validation in the operator (`KeplerConfig`; refused
configurations are retried), then the pod: read the file, sanitize, validate (`Load`),
flags, Redfish node name, sanitize, validate (`ApplyFlags`), running or crashing, restart.
`Validate` is one definition with the files of the container it runs in and the two skips
as arguments, and returns the checks that fail.

Settings nothing else depends on are represented by one of their kind (`pprof` for the
`*bool` switches, `threshold` for the numbers only a ConfigMap sets). Strings are opaque;
`Trimmed` says what `strings.TrimSpace` makes of the padded ones, and `GoodAddresses`
which addresses have a port (" :9001" is one: a blank host passes `SplitHostPort`).
`maxTerminated` has an API default of 0, so the fallback to 500 in `KeplerConfig` is never
taken for an object that went through the API server; the model has both. The webhook is
taken to be served, as it is unless `ENABLE_WEBHOOKS` is `false` (`cmd/main.go:303`); without
it a PowerMonitor that does not say keeps an empty security mode on OpenShift too, and
`SecuredIsLocal` says nothing of that.

## 3. Runs

Passing runs (all definitions are in the module of the run or those it extends):

| Run | Bounds | Properties |
|---|---|---|
| `PMI_openshift` | 2 specs (plain HTTP; rbac with user workload monitoring), 1 edit, 1 fault (others deleting the namespace, DaemonSet, token or certificate included), a DaemonSet that becomes ready; 3.4 million states | `TypeOK`, `NoLostWork`, `AvailabilityTracked`, `SecuredAtRest`, `DaemonSetAfterProxySecrets`, `FinalizerAfterNamespace`, `ImplementsLifecycle` |
| `PMI_kubernetes` | not OpenShift; a spec with a secret and a ConfigMap, one with rbac; 1 fault (others deleting the namespace, the Service or the unwatched proxy config included); fairness | `Converges`, `DeletionCompletes` |
| `PMI_progress` | OpenShift, 1 fault (others deleting the namespace or the certificate included); fairness | `Converges` |
| `PM_status` | 2 PowerMonitors in turn, 2 generations each, 1 fault, both names | `TypeOK`, `StatusMirrored`, `InvalidReported` |
| `PM_progress` | 2 PowerMonitors in turn, 1 fault; fairness | `PMDeletionCompletes`, `StatusConverges` |
| `Token` | half-day steps, two token lifetimes, 2 interventions | `TypeOK`, `NeverExpired`, `RestoredInTime` |
| `Rollout` | OpenShift, 3 specs (user inputs without proxy; proxy with user workload monitoring and a secret; proxy alone), 2 versions per object, 2 edits or faults; fairness | `TypeOK`, `UserInputsRolledOut`, `EventuallyRolledOut` |
| `Config` | OpenShift, 5 PowerMonitors (saying nothing, zero, something else, an invalid level, another name), up to 3 of 18 ConfigMaps, one of which gives a zero, in any order | `TypeOK`, `ExplicitWins`, `SpecWins`, `ExperimentalAsEnabled`, `RedfishNode`, `SecuredIsLocal`, `AcceptedStarts` |

One edit is enough to have a run of an old generation overlap the new one, and to
switch the security mode in either direction; one fault is enough to break any single
step, and the proof of `NoLostWork` removes both bounds. Two PowerMonitors give
re-creation during the removal of the first. Half-day steps keep the ratios of the
real constants (TTL 168 h, refresh 24 h) with a reaction time as long as the refresh
interval, the worst case `TimesAssumption` allows; the proofs remove that bound too.
Two events in `Rollout` are enough for an edit of the spec and a change of what it now
refers to, in either order and around a reconcile in progress, or for one of them and a
failure. Three ConfigMaps allow a setting to be given, taken back and given again with
another in between; the proofs hold for any number.
`CHECK_DEADLOCK FALSE` is set for `PowerMonitor` only, which may stop when the PM is
gone for good.

Runs that expect a violation. Each states what a comment or API document of the
repository says, and TLC shows a behaviour of the code that does not keep it:

| Run | Claim | What TLC shows |
|---|---|---|
| `PMI_requeue` | `ReconciledMeansDeployed`: Reconciled means "successfully reconciled" (`api/v1alpha1/power_monitor_types.go:224`) | the Runner's Requeue returns no error, so a failed namespace apply is reported as success |
| `Rollout_rotation` | `CertificateRolledOut` ("a hash of the Secret to trigger rollouts on changes", `pkg/components/power-monitor/deployment.go:560`) | a renewed certificate passes neither predicate of its watch, so the operator is at rest with the old hash |
| `Config_files` | `PodFilesNotValidated` ("Skip validation of paths and files that only exist in the target Kepler pods", `deployment.go:880`) | `web.configFile` and `kube.config` are still looked for in the operator's container |
| `Config_zero` | `LaterTakesPrecedence` ("the later ConfigMap in the list takes precedence", `docs/user/reference/custom-configmaps.md:204`) | of two values of `minTerminatedEnergyThreshold`, 7 and then 0, the operator writes 7: to mergo a zero is a key that is not there |

The passing properties bound the damage: the wrong status is corrected before the
controller comes to rest (`NoLostWork`, `StatusMirrored`), the certificate is rolled
out with the next reconcile (`EventuallyRolledOut`), and only a zero is lost: every other
last value, an explicit false included, is written (`ExplicitWins`).

Seen while modelling and kept in the models, without a run of their own: the status
update takes the generation from a copy read later than the one the run worked from, and
drops the error when that read fails; a cleanup in which a delete failed still removes the
finalizer, which the code's own comment calls a bug (`power_monitor_internal.go:579`) and
after which the garbage collector removes what is left (`DeletionCompletes`); a Redfish
section without `httpTimeout` gets no default timeout. See the hazards in `PROJECT.json`.

Every property of a passing run has a mutant in `PROJECT.json`: a version of a
modelled definition with a plausible bug (the operator is next to the definition it
replaces), under which TLC finds the property violated.

## 4. Fairness

`FairSpec` of `PowerMonitorInternal` assumes weak fairness of the operator's worker
(`Operator`: controller-runtime keeps taking requests and each call returns), of
informer delivery, and of what the platform was asked to do: finishing a terminating
namespace, collecting orphans and, on OpenShift only, issuing the certificate a
Service asks for. Nothing is assumed of users, of `Wake`, or of failures; a failed
step is covered by the number of faults being finite, which is what `Converges` needs
and what a cluster that comes back provides. `PowerMonitor` assumes the same of its own
worker and of the garbage collector, and of the PMI controller only that an object
that is to go eventually goes and that a new generation is eventually reported on;
the first is `DeletionCompletes`, the second follows from the status update that ends
every run. `Token` has no fairness: its time bound takes that role. `Rollout` assumes
weak fairness of the worker, of informer delivery and of the resync (`Wake`;
controller-runtime resyncs every ten hours by default): `EventuallyRolledOut` needs it,
because some changes have no event, and that is what it says; `UserInputsRolledOut` does
without. `KeplerConfig` is checked for safety only.

## 5. Proofs

`PowerMonitorInternalProofs` proves `TypeOK` and `NoLostWork` for every set of specs
and secrets, both kinds of cluster, and any number of edits and faults. `NoLostWork`
only speaks of states at rest, so it is not inductive. The strengthening is

* `RunIsCurrent`: a run works from the cached PMI unless a request is queued - so a
  run that was overtaken is always followed by another;
* `StepsDone`: in a run without an error so far and with nothing queued, the steps
  before `pc` have left their objects as the run's generation wants them, and no one
  has changed them since without queueing a request;
* `RestSettled`: `NoLostWork` for a state at rest in which informers have yet to deliver
  deletions: an object is up to date or its deletion is still to be delivered (`Settled`), and
  that delivery will queue a request; `StepsDone` and `CleanRunDone` say "settled" likewise;
* `CleanRunDone`: a run that ends without an error and asks for no other has done so
  for every object. This is where the framework's odd corners are excused: Requeue
  drops the error but asks for another run, and `Stop` without an error requeues;
* `DeletionIsFinal`, `OpenShiftOnlyKinds`: only a PMI that was asked to go is gone or cleaned
  up, by the server's word, the cache's and the run's; OpenShift's kinds are never applied
  elsewhere.

The proof has a lemma per kind of step (`UpdateSteps`, `DeleteSteps`, `ReturnSteps`),
one that carries the invariant over any step that advances the run (`SteppedInv`), and
one per remaining action; `NextInv` puts them together.

`PowerMonitorInternalStepProofs` builds on that invariant.

* `LifecycleImplemented` (`ImplementsLifecycle`): only four actions write the PMI
  (`PmiWriters`). The finalizer and the status are written only while the cache equals
  the server's PMI, so what is written is the server's PMI but for one part, which is a
  step of the lifecycle.
* `CleanupOrder` (`FinalizerAfterNamespace`) adds that a cleanup run at its last step has
  seen the namespace gone (`NamespaceFirst`): its Deleter goes on only with "gone", and
  only an update run would make the namespace again.
* `SecuredRollout` (`DaemonSetAfterProxySecrets`) adds that what the informers have is in
  `held` (`Recorded`), and so, past the checker, are both of the DaemonSet's secrets
  (`ProxyReady`).
* `SecuredInTheEnd` (`SecuredAtRest`): a clean run past the checker, and a state at rest, have
  the certificate in the informers' copies (`CertificateSeen`), because its disappearance
  from there queues a request; with no deletion left to deliver the copy is the certificate
  itself. The proxy config is one of the objects of `RestSettled`.
* `AvailabilityIsTracked` (`AvailabilityTracked`): it is inductive on top of the
  invariant, because every change of the DaemonSet or of its status queues a request.
* `NeverRolledBack`: no object goes back to an older generation. What is deployed is not
  newer than the run's copy, nor that than the cached PMI (`GenerationsInOrder`).

`PowerMonitorProofs` proves `TypeOK`, `StatusMirrored` and `InvalidReported` for any number
of PMs one after the other, generations and faults. At rest nothing is known of the way
there, so the invariant says

* what is behind what: the cached PM is an earlier state of the PM (`CacheBehind`), the
  internal is made from versions in order, its cached copy included (`MadeInOrder`);
* what a run knows: it works from the cached PM unless a request is queued
  (`RunIsCurrent`); if it went well so far it has made the internal (`InternalMade`); a
  cleanup is for a PM that is to go for good (`CleanupIsFinal`);
* that a new PM's takeover of an internal that is still being deleted is not the end of
  it: when that internal disappears the cache has yet to say so (`TakeoverNoticed`), and
  its delivery is a request;
* what holds when only news of the internal is outstanding (`RestMirrored`,
  `RestInvalid`), of which the two properties are the case without news.

From the same invariant follows `NeverGoesBack`: neither the internal's spec nor the
version a PM's status was copied from ever goes back to an older one.

`TokenProofs` proves `TypeOK`, `NeverExpired` and `RestoredInTime` for all times that satisfy
`TimesAssumption`: a positive reaction time, no longer than the refresh interval, a
retry delay no longer than that either, and a lifetime of at least a refresh interval
plus the reaction time. The invariant says that some pending item always covers the
token: either its creation has yet to be delivered, or TokenExpiry has a request or a
deletion at least a refresh interval before it expires (`Watched`), that nothing is
overdue (`OnTime`), that a stale read can only be of an older token (`ReadsOlder`), and
that a missing token is known to someone who will act (`Noticed`).

`RolloutProofs` proves `TypeOK` and `UserInputsRolledOut` for all secrets, ConfigMaps and
specs and any number of events. A state at rest says nothing of how it came about, so the
invariant follows a reconcile. A run is `Fresh` while nothing (a queued request, an error,
a conflict) makes the operator run again after it; of a fresh run its spec is the cached
one (`SpecRead`), what it has noted of a user's input is what the cache has
(`SecretsRead`, `ConfigsRead`), and what it has passed is written accordingly
(`ConfigMapWritten`, `DaemonSetWritten`). A delivery that breaks one of these is `Noticed`
and queues a request, so the run is no longer fresh; a fresh run that ends leaves the
operator `Settled`.

`KeplerConfigProofs` proves all properties of the run `Config` for all PowerMonitors,
documents, files and cluster kinds and any number of ConfigMaps. The invariant says what
is known at each stage: while merging, every setting has the latest value the documents so
far give, unless that is Go's zero (`Merging`, `Follows`); what was written is that with
the overrides, and passed the operator's checks (`Accepted`); what a pod loads, runs with or refuses is computed from
the file (`Loaded`, `Running`, `Crashing`). The rest is about the operators the pod applies
to the file:

* `ExplicitWins`, `SpecWins`, `SecuredIsLocal`: the file has every setting, and a log level
  that passed the checks has no blanks to trim.
* `ExperimentalAsEnabled`: there is one latest value (`LatestUnique`), a feature is never
  written without its section (`SectionWritten`), and `sanitize` and the flags enable or
  disable nothing (`SanitizeFeatures`, `FlaggedFeatures`).
* `RedfishNode`: trimming is idempotent (`TrimScalarType`) and only `resolveNodeName` sets
  the name.
* `AcceptedStarts`: what the operator's checks say of the pod's is a predicate (`Sound`)
  that `sanitize` and the flags preserve, and under which the pod's `Validate` can fail four
  checks only.

Its assumptions on constants are facts of the code or of Go's library: the strings of the
code are among `Strings` (`StringsAssumption`; the provers do not know the type of a
literal), a value that is not zero was given and a pointer is not given as zero
(`DocumentsAssumption`), experimental features sit behind one pointer (`SectionAssumption`), trimming is
idempotent and leaves the code's own strings alone (`TrimmedAssumption`), trimming a good
address leaves a good one (`AddressesAssumption`: `Atoi` refuses a port with blanks, so they
precede the host), and the DaemonSet mounts the host's `/sys` and `/proc`
(`PodFilesAssumption`). TLC evaluates them for the instances it checks.

Every invariant, action property and refinement of a passing run is thus proved. Only
model-checked are the liveness properties (`Converges`, `DeletionCompletes`,
`PMDeletionCompletes`, `StatusConverges`, `EventuallyRolledOut`): fairness and ENABLED are
out of the prover's reach. The four runs that expect a violation have no theorem, of
course. The auxiliary invariants of the proofs were checked with TLC on the instances of
the runs before they were proved. `NeverRolledBack`, `NeverGoesBack` and
`LifecycleRespected` are theorems only, without a run in the list.

## 6. Limits

* One PM and one PMI at a time; two PMIs in one namespace are not considered.
* Not said of: a token secret outside OpenShift (its deletion is not watched there, and one
  that went with its namespace may still be seen and not be made again; `Restored` exempts
  it by name), a proxy secret others delete outside OpenShift, a token whose annotation a user damaged (neither
  controller repairs it).
* Not modelled, and why: flags and wiring of the entry point (`cmd/main.go`: no state
  beyond the constants `OpenShift`, `TTL`, `Refresh`); helpers and version (constructors of
  API structs); `internal/config/redfish/config.go` (parses the BMC file, which only Kepler
  reads; nothing in the operator calls it); labels, ports, volumes, RBAC rules and other
  contents of objects that no decision of the code depends on; RAPL and hwmon zones and
  chip rules (lists passed through); generated code and tests. See `components` in
  `PROJECT.json`.

## 7. Plan

In the order of importance:

1. done: `Reconciler`, `PowerMonitorInternal` with its properties and the proof of
   `NoLostWork`; `InternalLifecycle` and the refinement; `PowerMonitor`; `Token` and its
   proofs.
2. done: managed objects deleted by others; `Rollout` and `KeplerConfig` (with the webhook)
   and the proofs of their main invariants.
3. done: the refinement and the action properties of `PowerMonitorInternal`, its last
   invariant, the invariants of `PowerMonitor`, and the remaining ones of `KeplerConfig`
   and `Token`.
4. done: informers that lag behind deletions of what kube-rbac-proxy mounts
   (`SecuredAtRest`), and zeros in additional ConfigMaps (`LaterTakesPrecedence`).
5. Next: safety lemmas that the liveness arguments rest on (what a pending request or a
   fair step cannot undo), and properties for the hazards that have none yet.
