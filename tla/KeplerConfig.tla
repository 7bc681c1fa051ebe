------------------------------ MODULE KeplerConfig ------------------------------
(***************************************************************************)
(* How the configuration of Kepler comes about: a PowerMonitor (PM) is     *)
(* admitted and defaulted, its spec is copied to the PowerMonitorInternal, *)
(* the operator merges the additional ConfigMaps over the defaults, lets   *)
(* the spec override the result, validates it and writes it to the         *)
(* ConfigMap of the exporter; a Kepler pod reads it, applies the flags of  *)
(* its command line and validates it again, with the files of the pod.     *)
(*                                                                         *)
(* A configuration maps a setting to the set of values it lists: {} is     *)
(* Go's zero value (an empty string or list, a nil *bool, the number 0)    *)
(* and a scalar is a singleton.  A document also says which keys its YAML  *)
(* gives: the struct it is parsed into has Go's zero for a key that is     *)
(* given as zero and for one that is not given at all.                     *)
(***************************************************************************)
EXTENDS Naturals, Sequences

CONSTANTS
  Strings,         \* the strings that occur
  PowerMonitors,   \* the PowerMonitors users create
  Documents,       \* the contents of additional ConfigMaps, as parsed
  MaxDocuments,    \* bound: ConfigMaps a spec refers to
  OpenShift,       \* the -openshift flag of the operator
  OperatorFiles,   \* paths the operator's container can read
  PodFiles,        \* paths a Kepler pod can read
  GoodAddresses,   \* listen addresses with a port from 1 to 65535
  Negative,        \* durations and numbers below zero
  Trimmed,         \* what strings.TrimSpace makes of padded strings
  NodeName,        \* spec.nodeName of the pod
  Hostname         \* os.Hostname() in the pod

Levels == {"node", "process", "container", "vm", "pod"}
Experimental == {"experimental", "redfish", "redfishNode", "redfishFile",
                 "redfishTimeout", "hwmon", "gpu"}
Lists == {"host", "listenAddresses", "metricsLevel"}
\* The pointers of Config: nil, Go's zero, is their absence.
Pointers == {"pprof", "kubeEnabled", "experimental", "redfish", "hwmon", "gpu"}
\* host is host.sysfs with host.procfs, pprof stands for the switches that
\* nothing else depends on, and podInformer is kube.podInformer.mode.
Settings ==
  {"logLevel", "logFormat", "interval", "staleness", "maxTerminated", "threshold",
   "pprof", "webConfig", "kubeEnabled", "kubeConfig", "kubeNode", "podInformer"}
    \cup Lists \cup Experimental

\* A scalar has one value at most.
Configs ==
  {c \in [Settings -> SUBSET Strings] :
     \A s \in Settings \ Lists : \A v, w \in c[s] : v = w}
Unset == [s \in Settings |-> {}]

DocumentLists == UNION {[1 .. n -> Documents] : n \in 0 .. MaxDocuments}
Stages == {"new", "merging", "refused", "written", "loaded", "crashing", "running"}

\* The strings of the code: defaults, what the operator writes, flags.
Literals ==
  {"", "info", "text", "/sys", "/proc", "5s", "500ms", "500", "10", ":28282", "0",
   "true", "false", "kubelet", "/host/sys", "/host/proc",
   "127.0.0.1:28282", "0.0.0.0:28282", NodeName, Hostname}
ASSUME StringsAssumption == Literals \cup Levels \subseteq Strings
ASSUME DocumentsAssumption ==
  /\ Documents \subseteq [parses : BOOLEAN, given : SUBSET Settings, settings : Configs]
  /\ \A d \in Documents : /\ \A s \in Settings : d.settings[s] # {} => s \in d.given
                          /\ \A s \in Pointers \cap d.given : d.settings[s] # {}
\* The experimental features are fields behind the pointer Config.Experimental.
ASSUME SectionAssumption ==
  \A d \in Documents : \A s \in Experimental :
    d.settings[s] # {} => d.settings["experimental"] # {}
\* The pattern of staleness and sampleRate allows no negative duration, and
\* metricLevels is an enumeration; logLevel is any string.  mode "" and
\* allowed "unset" are a PM that does not say.
Optional == {{}} \cup {{v} : v \in Strings}
ASSUME PowerMonitorsAssumption ==
  PowerMonitors \subseteq
    [name : Strings, logLevel : Optional, metricLevels : SUBSET Levels,
     staleness : Optional, sampleRate : Optional, maxTerminated : Optional,
     mode : {"", "none", "rbac"}, allowed : {"unset", "uwm", "own"}]
\* Trimming is done once and for all, and leaves alone what has no blanks.
ASSUME TrimmedAssumption ==
  /\ \A v \in DOMAIN Trimmed : Trimmed[v] \in Strings \ DOMAIN Trimmed
  /\ DOMAIN Trimmed \cap (Literals \cup {"debug", "warn", "error", "json"}) = {}
  /\ NodeName # ""
\* The addresses of the command line are good ones; blanks after a port would make
\* it no number, so a good address has them before its host only.
ASSUME AddressesAssumption ==
  /\ {"127.0.0.1:28282", "0.0.0.0:28282"} \subseteq GoodAddresses
  /\ \A v \in GoodAddresses \cap DOMAIN Trimmed : Trimmed[v] \in GoodAddresses
\* The DaemonSet mounts the host's sysfs and procfs into the pods.
ASSUME PodFilesAssumption == {"/host/sys", "/host/proc"} \subseteq PodFiles
ASSUME ConfigBoundsAssumption == MaxDocuments \in Nat /\ OpenShift \in BOOLEAN

VARIABLES
  pm,      \* the PowerMonitor as the user wrote it
  pmi,     \* the spec of the PowerMonitorInternal
  docs,    \* the additional ConfigMaps, in the order of the spec
  merged,  \* the documents merged so far
  failed,  \* a document did not parse
  cfg,     \* the configuration being built, by the operator or in the pod
  file,    \* the configuration in the ConfigMap of the exporter
  errs,    \* the checks the last validation failed
  stage    \* how far the configuration has come

vars == <<pm, pmi, docs, merged, failed, cfg, file, errs, stage>>

-----------------------------------------------------------------------------
\* Admission, and the spec of the PowerMonitorInternal

\* Schema defaults, applied to the PM and to the PMI by the API server.
Defaulted(field, value) == IF field = {} THEN value ELSE field
ApiDefaults(p) ==
  [p EXCEPT !.logLevel = Defaulted(@, {"info"}),
            !.metricLevels = Defaulted(@, {"node", "pod", "vm"}),
            !.staleness = Defaulted(@, {"500ms"}),
            !.sampleRate = Defaulted(@, {"5s"}),
            !.maxTerminated = Defaulted(@, {"0"})]

\* The webhook, which is served unless ENABLE_WEBHOOKS is false:
\* DefaultSecurityConfig depends on the -openshift flag.
Default(p) ==
  [p EXCEPT !.mode = IF @ # "" THEN @ ELSE IF OpenShift THEN "rbac" ELSE "none",
            !.allowed = IF @ = "unset" /\ OpenShift THEN "uwm" ELSE @]
ValidateCreate(p) == p.name = "power-monitor"

\* The PM controller copies the spec of the admitted PM.
Create(d) ==
  /\ stage = "new"
  /\ ValidateCreate(pm)
  /\ pmi' = Default(ApiDefaults(pm))
  /\ docs' = d
  /\ stage' = "merging"
  /\ UNCHANGED <<pm, merged, failed, cfg, file, errs>>

\* The request is refused, and the user sends another.
Reject ==
  /\ stage = "new"
  /\ ~ValidateCreate(pm)
  /\ pm' \in PowerMonitors /\ pmi' = pm'
  /\ UNCHANGED <<docs, merged, failed, cfg, file, errs, stage>>

-----------------------------------------------------------------------------
\* The operator: Builder.Build and KeplerConfig

Defaults ==
  [logLevel |-> {"info"}, logFormat |-> {"text"}, host |-> {"/sys", "/proc"},
   interval |-> {"5s"}, staleness |-> {"500ms"}, maxTerminated |-> {"500"},
   threshold |-> {"10"}, metricsLevel |-> Levels, listenAddresses |-> {":28282"},
   pprof |-> {"false"}, kubeEnabled |-> {"false"}, podInformer |-> {"kubelet"}]
With(c, values) == [s \in Settings |-> IF s \in DOMAIN values THEN values[s] ELSE c[s]]
DefaultConfig == With(Unset, Defaults)

\* A variant of Merge without the transformer.
MergeWithoutTransformer(c, d) ==
  [s \in Settings |->
     IF d[s] = {} \/ (d[s] = {"false"} /\ c[s] # {}) THEN c[s] ELSE d[s]]

\* mergo.Merge with override: a zero value in the document, given or not, leaves
\* the setting alone; the transformer for *bool makes an explicit false count.
Merge(c, d) == [s \in Settings |-> IF d[s] = {} THEN c[s] ELSE d[s]]

\* One turn of the loop of Build; a document that does not parse is skipped.
Build ==
  /\ stage = "merging" /\ merged < Len(docs)
  /\ LET d == docs[merged + 1]
     IN /\ cfg' = IF d.parses THEN Merge(cfg, d.settings) ELSE cfg
        /\ failed' = (failed \/ ~d.parses)
  /\ merged' = merged + 1
  /\ UNCHANGED <<pm, pmi, docs, file, errs, stage>>

\* The schema of the PMI admits no unknown level, the error of ParseLevel.
ParseLevel(levels) == IF levels = {} THEN Levels ELSE levels

\* 0 and 0s are Go's zero values.
Number(field) == field \ {"0", "0s"}

\* The settings KeplerConfig takes from the spec or fixes, whatever was merged.
Overrides ==
  [logLevel |-> pmi.logLevel,
   host |-> {"/host/sys", "/host/proc"},
   metricsLevel |->
     IF pmi.metricLevels # {} THEN ParseLevel(pmi.metricLevels) ELSE {"node", "pod", "vm"},
   staleness |-> IF pmi.staleness # {} THEN Number(pmi.staleness) ELSE {"500ms"},
   interval |-> IF pmi.sampleRate # {} THEN Number(pmi.sampleRate) ELSE {"5s"},
   maxTerminated |->
     IF pmi.maxTerminated # {} THEN Number(pmi.maxTerminated) ELSE {"500"}]

-----------------------------------------------------------------------------
\* Validation, shared by the operator and the pod

Trim(v) == IF v \in DOMAIN Trimmed THEN Trimmed[v] ELSE v
TrimScalar(field) == {Trim(v) : v \in field} \ {""}

\* IsFeatureEnabled for the experimental features.
Enabled(c, feature) == c["experimental"] # {} /\ c[feature] = {"true"}

\* A variant that forgets the newest feature.
experimentalWithoutGPU(c) == \E f \in {"redfish", "hwmon"} : Enabled(c, f)

experimentalFeatureEnabled(c) == \E f \in {"redfish", "hwmon", "gpu"} : Enabled(c, f)

\* Kubernetes' node name and pod informer mode are not trimmed.
sanitize(c) ==
  [s \in Settings |->
     IF s \in Experimental /\ ~experimentalFeatureEnabled(c) THEN {}
     ELSE IF s = "listenAddresses" THEN {Trim(v) : v \in c[s]}
     ELSE IF s \in {"logLevel", "logFormat", "webConfig", "kubeConfig",
                    "redfishNode", "redfishFile"} THEN TrimScalar(c[s])
     ELSE c[s]]

Checks == {"logLevel", "logFormat", "host", "webConfig", "listenAddresses", "monitor",
           "kubeConfig", "kubeNode", "podInformer", "redfishFile"}

\* Of paths: they can be opened and read.
canReadFile(paths, files) == paths \subseteq files
\* Of an address: host and port are split by a colon, the port is a number from
\* 1 to 65535.
validateListenAddress(addr) == addr \in GoodAddresses
validateExperimentalConfig(c, files, skipped) ==
  ~skipped /\ Enabled(c, "redfish") =>
    c["redfishFile"] # {} /\ canReadFile(c["redfishFile"], files)

\* The names of the checks that fail.
Validate(c, files, skipHost, skipExperimental) ==
  LET kube == c["kubeEnabled"] = {"true"}
      passes ==
        [logLevel |-> c["logLevel"] \in {{"debug"}, {"info"}, {"warn"}, {"error"}},
         logFormat |-> c["logFormat"] \in {{"text"}, {"json"}},
         host |-> skipHost \/ canReadFile(c["host"], files),
         webConfig |-> canReadFile(c["webConfig"], files),
         listenAddresses |-> /\ c["listenAddresses"] # {}
                             /\ \A a \in c["listenAddresses"] : validateListenAddress(a),
         monitor |-> (c["interval"] \cup c["staleness"] \cup c["threshold"])
                       \cap Negative = {},
         kubeConfig |-> kube => canReadFile(c["kubeConfig"], files),
         kubeNode |-> kube => c["kubeNode"] # {},
         podInformer |-> kube => c["podInformer"] \in {{"kubelet"}, {"apiserver"}},
         redfishFile |-> validateExperimentalConfig(c, files, skipExperimental)]
  IN {check \in DOMAIN passes : ~passes[check]}

\* A variant without Validate.
KeplerConfigUnvalidated ==
  /\ stage = "merging" /\ merged = Len(docs)
  /\ cfg' = With(cfg, Overrides)
  /\ file' = IF failed THEN file ELSE With(cfg, Overrides)
  /\ stage' = IF failed THEN "refused" ELSE "written"
  /\ UNCHANGED <<pm, pmi, docs, merged, failed, errs>>

\* KeplerConfig after Build.  On an error the ConfigMap is not written.
KeplerConfig ==
  /\ stage = "merging" /\ merged = Len(docs)
  /\ LET c == With(cfg, Overrides)
         e == Validate(c, OperatorFiles, TRUE, TRUE)
     IN \/ /\ failed \/ e # {}
           /\ errs' = IF failed THEN {"parse"} ELSE e
           /\ stage' = "refused"
           /\ UNCHANGED <<cfg, file>>
        \/ /\ ~failed /\ e = {}
           /\ cfg' = c /\ file' = c
           /\ errs' = {}
           /\ stage' = "written"
  /\ UNCHANGED <<pm, pmi, docs, merged, failed>>

\* A variant of Retry with a Builder that outlives the reconcile: its Merge appends
\* the documents to those it already has.
RetrySameBuilder ==
  /\ stage = "refused"
  /\ docs' = docs \o docs /\ merged' = 0 /\ failed' = FALSE
  /\ stage' = "merging"
  /\ UNCHANGED <<pm, pmi, cfg, file, errs>>

\* The reconcile fails and is retried: everything is built anew.
Retry ==
  /\ stage = "refused"
  /\ cfg' = DefaultConfig /\ merged' = 0 /\ failed' = FALSE
  /\ stage' = "merging"
  /\ UNCHANGED <<pm, pmi, docs, file, errs>>

-----------------------------------------------------------------------------
\* The Kepler pod

\* A variant in which a zero value is not written to the file.
UnmarshalOmitted(f) == Merge(DefaultConfig, f)

\* The file has every setting, so it leaves nothing of the defaults; no level
\* at all is an empty list, which reads as every level.
Unmarshal(f) == [f EXCEPT !["metricsLevel"] = ParseLevel(@)]

Load ==
  /\ stage = "written"
  /\ LET c == sanitize(Unmarshal(file))
         e == Validate(c, PodFiles, FALSE, FALSE)
     IN /\ cfg' = c /\ errs' = e
        /\ stage' = IF e = {} THEN "loaded" ELSE "crashing"
  /\ UNCHANGED <<pm, pmi, docs, merged, failed, file>>

\* A variant with the precedence swapped.
resolveKubeFirst(redfishNode, kubeNode) ==
  IF TrimScalar(kubeNode) # {} THEN TrimScalar(kubeNode) ELSE TrimScalar(redfishNode)

resolveNodeName(redfishNode, kubeNode) ==
  IF TrimScalar(redfishNode) # {} THEN TrimScalar(redfishNode)
  ELSE IF TrimScalar(kubeNode) # {} THEN TrimScalar(kubeNode)
  ELSE {Hostname}

\* No redfish flag is on the command line of the pod.
applyRedfishConfig(c) ==
  IF Enabled(c, "redfish")
  THEN [c EXCEPT !["redfishNode"] = resolveNodeName(@, c["kubeNode"])]
  ELSE c

\* A variant without --web.listen-address.
CommandOpen ==
  [kubeEnabled |-> {"true"}, kubeNode |-> {NodeName}]

\* The flags newKeplerContainer puts on the command line.
Command ==
  [kubeEnabled |-> {"true"},
   kubeNode |-> {NodeName},
   listenAddresses |-> IF pmi.mode = "rbac" THEN {"127.0.0.1:28282"} ELSE {"0.0.0.0:28282"}]

ApplyFlags ==
  /\ stage = "loaded"
  /\ LET c == sanitize(applyRedfishConfig(With(cfg, Command)))
         e == Validate(c, PodFiles, FALSE, FALSE)
     IN /\ cfg' = c /\ errs' = e
        /\ stage' = IF e = {} THEN "running" ELSE "crashing"
  /\ UNCHANGED <<pm, pmi, docs, merged, failed, file>>

\* The container ends or is restarted and reads its files again.
Restart ==
  /\ stage \in {"running", "crashing"}
  /\ stage' = "written"
  /\ UNCHANGED <<pm, pmi, docs, merged, failed, cfg, file, errs>>

-----------------------------------------------------------------------------

Init ==
  /\ pm \in PowerMonitors /\ pmi = pm
  /\ docs = <<>> /\ merged = 0 /\ failed = FALSE
  /\ cfg = DefaultConfig /\ file = Unset
  /\ errs = {}
  /\ stage = "new"

Next ==
  \/ \E d \in DocumentLists : Create(d)
  \/ Reject
  \/ Build
  \/ KeplerConfig
  \/ Retry
  \/ Load
  \/ ApplyFlags
  \/ Restart

Spec == Init /\ [][Next]_vars

-----------------------------------------------------------------------------
\* Properties

\* Every variable has its type: the documents merged are those of the spec, once
\* each however often the reconcile is retried, and the metric levels are known
\* ones wherever the spec decides them.
TypeOK ==
  /\ pm \in PowerMonitors
  /\ pmi.metricLevels \subseteq Levels
  /\ {pmi.logLevel, pmi.staleness, pmi.sampleRate, pmi.maxTerminated} \subseteq Optional
  /\ docs \in DocumentLists /\ merged \in 0 .. Len(docs)
  /\ failed \in BOOLEAN
  /\ cfg \in Configs /\ file \in Configs
  /\ errs \subseteq {"parse"} \cup Checks
  /\ stage \in Stages

Written == {"written", "loaded", "crashing", "running"}

\* Document j gives setting s, as zero or otherwise.
Gives(j, s) == docs[j].parses /\ s \in docs[j].given
LastGiven(j, s, n) == Gives(j, s) /\ \A k \in j + 1 .. n : ~Gives(k, s)

\* v is the value of setting s after the first n documents: the last value a
\* document gives, zero included, the default when none gives one.
Latest(s, n, v) ==
  \/ v = DefaultConfig[s] /\ \A j \in 1 .. n : ~Gives(j, s)
  \/ \E j \in 1 .. n : LastGiven(j, s, n) /\ v = docs[j].settings[s]
\* The last value a document gives is Go's zero.
ZeroLast(s, n) == \E j \in 1 .. n : LastGiven(j, s, n) /\ docs[j].settings[s] = {}

\* What the operator writes gives every setting that is not the spec's the
\* value of the last document that gives one, an explicit false included, and
\* no document is left out, but for a setting whose last value is Go's zero
\* (Builder.Build, boolPtrTransformer; for those see LaterTakesPrecedence).
ExplicitWins ==
  stage \in Written =>
    \A s \in Settings \ DOMAIN Overrides :
      Latest(s, Len(docs), file[s]) \/ ZeroLast(s, Len(docs))

\* The documentation of additionalConfigMaps: of conflicting settings the later
\* ConfigMap in the list takes precedence.  A later zero does not, since mergo
\* cannot tell it from a key that is not there (Builder.Build).
LaterTakesPrecedence ==
  stage \in Written =>
    \A s \in Settings \ DOMAIN Overrides :
      (\E i, j \in 1 .. Len(docs) : /\ Gives(i, s) /\ Gives(j, s)
                                    /\ docs[i].settings[s] # docs[j].settings[s])
        => Latest(s, Len(docs), file[s])

\* A running pod works with what the PowerMonitor says, zero included and
\* whatever the additional ConfigMaps say: KeplerConfig overrides the merged
\* configuration, and neither reading the file back nor the flags undo it.
SpecWins ==
  stage = "running" =>
    /\ pm.logLevel # {} => cfg["logLevel"] = pm.logLevel
    /\ pm.metricLevels # {} => cfg["metricsLevel"] = pm.metricLevels
    /\ pm.staleness # {} => cfg["staleness"] = Number(pm.staleness)
    /\ pm.sampleRate # {} => cfg["interval"] = Number(pm.sampleRate)
    /\ pm.maxTerminated # {} => cfg["maxTerminated"] = Number(pm.maxTerminated)
    /\ cfg["host"] = {"/host/sys", "/host/proc"}

\* An experimental feature runs exactly when the last ConfigMap that mentions
\* it enables it, and the section is gone when no feature is left (sanitize,
\* which runs in the pod twice and never in the operator).
ExperimentalAsEnabled ==
  stage = "running" =>
    LET on == {f \in {"redfish", "hwmon", "gpu"} : Latest(f, Len(docs), {"true"})}
    IN /\ \A f \in {"redfish", "hwmon", "gpu"} : Enabled(cfg, f) <=> f \in on
       /\ cfg["experimental"] # {} <=> on # {}

\* Redfish looks up its BMC by the node name a ConfigMap gives, and otherwise,
\* a blank one included, by the node of the pod, never by its host name
\* (resolveNodeName with the --kube.node-name flag).
RedfishNode ==
  stage = "running" /\ Enabled(cfg, "redfish") =>
    \/ /\ TrimScalar(file["redfishNode"]) # {}
       /\ cfg["redfishNode"] = TrimScalar(file["redfishNode"])
    \/ /\ TrimScalar(file["redfishNode"]) = {}
       /\ cfg["redfishNode"] = {NodeName}

\* With kube-rbac-proxy in front, asked for or by the webhook on OpenShift,
\* Kepler listens on the loopback interface only, whatever addresses the
\* ConfigMaps add, and the default lets user workload monitoring in.
SecuredIsLocal ==
  stage = "running" /\ (pm.mode = "rbac" \/ (pm.mode = "" /\ OpenShift)) =>
    /\ cfg["listenAddresses"] = {"127.0.0.1:28282"}
    /\ pm.allowed = "unset" /\ OpenShift => pmi.allowed = "uwm"

\* A pod that refuses what the operator accepted does so for a file, or for
\* what the operator does not look at: the pod informer mode while Kubernetes
\* is off, and the Redfish file (KeplerConfig's Validate, and the pod's).
AcceptedStarts ==
  stage = "crashing" =>
    errs \subseteq {"webConfig", "kubeConfig", "podInformer", "redfishFile"}

\* The comment above the operator's Validate: paths and files that only exist
\* in the Kepler pods are not validated.  So nothing is refused only because
\* of files that the pods can read.
PodFilesNotValidated ==
  stage = "refused" =>
    ~(/\ errs \subseteq {"webConfig", "kubeConfig"}
      /\ cfg["webConfig"] \cup cfg["kubeConfig"] \subseteq PodFiles)
=============================================================================
