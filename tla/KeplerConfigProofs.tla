--------------------------- MODULE KeplerConfigProofs ---------------------------
(***************************************************************************)
(* Proofs about KeplerConfig, for every set of PowerMonitors and documents *)
(* and any number of ConfigMaps.  The inductive invariant says what the    *)
(* configuration is at every stage: while documents are merged it holds    *)
(* the latest values given so far, but for those that are Go's zero; what  *)
(* is written is that with the spec on top, and was valid; what a pod      *)
(* loads and runs is computed from what was written.                       *)
(***************************************************************************)
EXTENDS KeplerConfig, TLAPS

\* The settings of the spec are settings, and only those.
LEMMA OverridesDomain ==
  DOMAIN Overrides =
    {"logLevel", "host", "metricsLevel", "staleness", "interval", "maxTerminated"}
  BY DEF Overrides

\* Merging a document keeps the type: scalars stay scalars.
LEMMA MergeType ==
  ASSUME NEW c \in Configs, NEW d \in Configs
  PROVE Merge(c, d) \in Configs
  BY DEF Merge, Configs

\* Settings given on top of a configuration keep its type.
LEMMA WithType ==
  ASSUME NEW c \in Configs, NEW values,
         \A s \in DOMAIN values : values[s] \subseteq Strings,
         \A s \in DOMAIN values \ Lists : \A v, w \in values[s] : v = w
  PROVE With(c, values) \in Configs
  BY DEF With, Configs

LEMMA DefaultType == DefaultConfig \in Configs /\ Unset \in Configs
  <1>1. Unset \in Configs
    BY DEF Unset, Configs
  <1>2. ASSUME NEW s \in DOMAIN Defaults PROVE Defaults[s] \subseteq Strings
    <2>1. Defaults[s] \in {{"info"}, {"text"}, {"/sys", "/proc"}, {"5s"}, {"500ms"}, {"500"},
                           {"10"}, {":28282"}, {"false"}, {"kubelet"}, Levels}
      BY DEF Defaults
    <2>2. /\ {"info"} \subseteq Literals /\ {"text"} \subseteq Literals
          /\ {"/sys", "/proc"} \subseteq Literals /\ {"5s"} \subseteq Literals
          /\ {"500ms"} \subseteq Literals /\ {"500"} \subseteq Literals
          /\ {"10"} \subseteq Literals /\ {":28282"} \subseteq Literals
          /\ {"false"} \subseteq Literals /\ {"kubelet"} \subseteq Literals
      BY DEF Literals
    <2> QED BY <2>1, <2>2, StringsAssumption
  <1>3. \A s \in DOMAIN Defaults \ Lists : \A v, w \in Defaults[s] : v = w
    BY DEF Defaults, Lists
  <1> QED BY <1>1, <1>2, <1>3, WithType DEF DefaultConfig

\* Lists of documents are sequences.
LEMMA ListsAreSequences ==
  ASSUME NEW d \in DocumentLists
  PROVE /\ d \in Seq(Documents) /\ Len(d) \in Nat
        /\ \A j \in 1 .. Len(d) : /\ d[j] \in Documents
                                  /\ d[j].parses \in BOOLEAN /\ d[j].settings \in Configs
                                  /\ \A s \in Settings : d[j].settings[s] # {} => s \in d[j].given
                                  /\ \A s \in Pointers \cap d[j].given : d[j].settings[s] # {}
  <1> PICK n \in 0 .. MaxDocuments : d \in [1 .. n -> Documents]
    BY DEF DocumentLists
  <1>1. n \in Nat
    BY ConfigBoundsAssumption
  <1>2. d \in Seq(Documents) /\ Len(d) = n
    BY <1>1
  <1>3. \A e \in Documents : e.parses \in BOOLEAN /\ e.settings \in Configs
    BY DocumentsAssumption
  <1>4. \A j \in 1 .. Len(d) : d[j] \in Documents
    BY <1>1, <1>2
  <1>5. ASSUME NEW j \in 1 .. Len(d)
        PROVE  /\ d[j].parses \in BOOLEAN /\ d[j].settings \in Configs
               /\ \A s \in Settings : d[j].settings[s] # {} => s \in d[j].given
               /\ \A s \in Pointers \cap d[j].given : d[j].settings[s] # {}
    BY <1>3, <1>4, DocumentsAssumption, Zenon
  <1> QED BY <1>1, <1>2, <1>4, <1>5

\* v is what the first n documents make of setting s.
Follows(s, n, v) == Latest(s, n, v) \/ ZeroLast(s, n)

\* A document that does not give the setting changes nothing about the last that does.
LEMMA LastGivenKept ==
  ASSUME NEW s, NEW n \in Nat, NEW j \in 1 .. n, ~Gives(n + 1, s), LastGiven(j, s, n)
  PROVE j \in 1 .. n + 1 /\ LastGiven(j, s, n + 1)
  <1>1. \A k \in j + 1 .. n + 1 : ~Gives(k, s)
    <2> TAKE k \in j + 1 .. n + 1
    <2>1. k \in j + 1 .. n \/ k = n + 1
      OBVIOUS
    <2> QED BY <2>1 DEF LastGiven
  <1> QED BY <1>1 DEF LastGiven

\* A merge step brings the latest values one document further.
LEMMA FollowsStep ==
  ASSUME NEW s \in Settings, NEW c \in Configs, docs \in DocumentLists,
         merged \in 0 .. Len(docs), merged < Len(docs), Follows(s, merged, c[s]),
         NEW m,
         m = IF docs[merged + 1].parses THEN Merge(c, docs[merged + 1].settings) ELSE c
  PROVE Follows(s, merged + 1, m[s])
  <1>0. /\ merged \in Nat /\ merged + 1 \in 1 .. Len(docs) /\ merged + 1 \in 1 .. merged + 1
        /\ docs[merged + 1].settings[s] # {} => s \in docs[merged + 1].given
    BY ListsAreSequences
  <1>1. CASE Gives(merged + 1, s)
    <2>1. LastGiven(merged + 1, s, merged + 1)
      BY <1>0, <1>1 DEF LastGiven
    <2>2. docs[merged + 1].settings[s] # {} => m[s] = docs[merged + 1].settings[s]
      BY <1>1 DEF Merge, Gives
    <2> QED BY <1>0, <2>1, <2>2 DEF Follows, Latest, ZeroLast
  <1>2. CASE ~Gives(merged + 1, s)
    <2>1. m[s] = c[s]
      BY <1>0, <1>2 DEF Merge, Gives
    <2>2. CASE c[s] = DefaultConfig[s] /\ \A j \in 1 .. merged : ~Gives(j, s)
      <3>1. \A j \in 1 .. merged + 1 : ~Gives(j, s)
        <4> TAKE j \in 1 .. merged + 1
        <4>1. j \in 1 .. merged \/ j = merged + 1
          BY <1>0
        <4> QED BY <4>1, <2>2, <1>2
      <3> QED BY <3>1, <2>1, <2>2 DEF Follows, Latest
    <2>3. ASSUME NEW j \in 1 .. merged, LastGiven(j, s, merged),
                 c[s] = docs[j].settings[s] \/ docs[j].settings[s] = {}
          PROVE Follows(s, merged + 1, m[s])
      BY <1>0, <1>2, <2>1, <2>3, LastGivenKept DEF Follows, Latest, ZeroLast
    <2> QED BY <2>2, <2>3 DEF Follows, Latest, ZeroLast
  <1> QED BY <1>1, <1>2

\* A pointer is never given as zero, so that it has its latest value.
LEMMA PointerLatest ==
  ASSUME NEW s \in Pointers, NEW v, docs \in DocumentLists, Follows(s, Len(docs), v)
  PROVE Latest(s, Len(docs), v)
  <1>1. ~ZeroLast(s, Len(docs))
    BY ListsAreSequences DEF ZeroLast, LastGiven, Gives
  <1> QED BY <1>1 DEF Follows

-----------------------------------------------------------------------------
\* Types of the operators

LEMMA TrimType ==
  /\ \A v \in Strings : Trim(v) \in Strings
  /\ \A v \in Strings : Trim(Trim(v)) = Trim(v)
  /\ \A v \in Literals \cup {"debug", "warn", "error", "json"} : Trim(v) = v
  BY TrimmedAssumption DEF Trim

LEMMA ScalarType ==
  ASSUME NEW c \in Configs, NEW s \in Settings
  PROVE c[s] \subseteq Strings /\ (s \notin Lists => \A v, w \in c[s] : v = w)
  BY DEF Configs

\* Trimming keeps a scalar a scalar.
LEMMA TrimScalarType ==
  ASSUME NEW field \in SUBSET Strings
  PROVE /\ TrimScalar(field) \subseteq Strings
        /\ (\A v, w \in field : v = w) => \A v, w \in TrimScalar(field) : v = w
        /\ TrimScalar(TrimScalar(field)) = TrimScalar(field)
  <1>1. /\ TrimScalar(field) \subseteq Strings
        /\ (\A v, w \in field : v = w) => \A v, w \in TrimScalar(field) : v = w
    BY TrimType DEF TrimScalar
  <1>2. TrimScalar(TrimScalar(field)) = TrimScalar(field)
    <2>1. \A v \in TrimScalar(field) : Trim(v) = v /\ v # ""
      BY TrimType DEF TrimScalar
    <2> QED BY <2>1 DEF TrimScalar
  <1> QED BY <1>1, <1>2

LEMMA SanitizeType ==
  ASSUME NEW c \in Configs
  PROVE sanitize(c) \in Configs
  <1>1. ASSUME NEW s \in Settings
        PROVE /\ sanitize(c)[s] \subseteq Strings
              /\ s \notin Lists => \A v, w \in sanitize(c)[s] : v = w
    <2>1. c[s] \in SUBSET Strings /\ (s \notin Lists => \A v, w \in c[s] : v = w)
      BY ScalarType
    <2>2. \/ s = "listenAddresses" /\ sanitize(c)[s] = {Trim(v) : v \in c[s]}
          \/ sanitize(c)[s] \in {{}, c[s], TrimScalar(c[s])}
      BY DEF sanitize
    <2>3. "listenAddresses" \in Lists
      BY DEF Lists
    <2>4. {Trim(v) : v \in c[s]} \subseteq Strings
      BY <2>1, TrimType
    <2>5. /\ TrimScalar(c[s]) \subseteq Strings
          /\ (\A v, w \in c[s] : v = w) => \A v, w \in TrimScalar(c[s]) : v = w
      BY <2>1, TrimScalarType
    <2> QED BY <2>1, <2>2, <2>3, <2>4, <2>5
  <1>2. sanitize(c) = [s \in Settings |-> sanitize(c)[s]]
    BY DEF sanitize
  <1> QED BY <1>1, <1>2 DEF Configs

LEMMA UnmarshalType ==
  ASSUME NEW c \in Configs
  PROVE Unmarshal(c) \in Configs
  <1>1. "metricsLevel" \in Lists /\ Levels \subseteq Strings
    BY StringsAssumption DEF Lists
  <1> QED BY <1>1 DEF Unmarshal, ParseLevel, Configs

LEMMA ApplyRedfishType ==
  ASSUME NEW c \in Configs
  PROVE applyRedfishConfig(c) \in Configs
  <1> DEFINE n == resolveNodeName(c["redfishNode"], c["kubeNode"])
  <1>1. "redfishNode" \in Settings \ Lists /\ "kubeNode" \in Settings \ Lists
    BY DEF Settings, Lists, Experimental
  <1>2. Hostname \in Strings
    BY StringsAssumption DEF Literals
  <1>3. n \subseteq Strings /\ \A v, w \in n : v = w
    <2>1. n \in {TrimScalar(c["redfishNode"]), TrimScalar(c["kubeNode"]), {Hostname}}
      BY DEF resolveNodeName
    <2> QED BY <2>1, <1>1, <1>2, ScalarType, TrimScalarType
  <1>4. CASE Enabled(c, "redfish")
    <2> HIDE DEF n
    <2>1. [c EXCEPT !["redfishNode"] = n] \in Configs
      BY <1>1, <1>3 DEF Configs
    <2> QED BY <1>4, <2>1 DEF applyRedfishConfig, n
  <1> QED BY <1>4 DEF applyRedfishConfig

LEMMA CommandType ==
  /\ DOMAIN Command = {"kubeEnabled", "kubeNode", "listenAddresses"}
  /\ \A s \in DOMAIN Command : Command[s] \subseteq Strings
  /\ \A s \in DOMAIN Command \ Lists : \A v, w \in Command[s] : v = w
  <1>1. {"true"} \subseteq Strings /\ {NodeName} \subseteq Strings
        /\ {"127.0.0.1:28282"} \subseteq Strings /\ {"0.0.0.0:28282"} \subseteq Strings
    BY StringsAssumption DEF Literals
  <1> QED BY <1>1 DEF Command, Lists

LEMMA OverridesType ==
  ASSUME pmi.metricLevels \subseteq Levels,
         {pmi.logLevel, pmi.staleness, pmi.sampleRate, pmi.maxTerminated} \subseteq Optional
  PROVE /\ \A s \in DOMAIN Overrides : Overrides[s] \subseteq Strings
        /\ \A s \in DOMAIN Overrides \ Lists : \A v, w \in Overrides[s] : v = w
  <1>1. \A o \in Optional : /\ o \subseteq Strings /\ \A v, w \in o : v = w
                            /\ Number(o) \subseteq Strings /\ \A v, w \in Number(o) : v = w
    BY DEF Optional, Number
  <1>2. /\ {"/host/sys", "/host/proc"} \subseteq Strings /\ {"500ms"} \subseteq Strings
        /\ {"5s"} \subseteq Strings /\ {"500"} \subseteq Strings
    BY StringsAssumption DEF Literals
  <1>3. /\ {"node", "pod", "vm"} \subseteq Levels
        /\ ParseLevel(pmi.metricLevels) \subseteq Levels
        /\ Levels \subseteq Strings
    BY StringsAssumption DEF ParseLevel, Levels
  <1>4. \A s \in DOMAIN Overrides :
          \/ s \in {"host", "metricsLevel"}
             /\ Overrides[s] \in {{"/host/sys", "/host/proc"}, {"node", "pod", "vm"},
                                 ParseLevel(pmi.metricLevels)}
          \/ Overrides[s] \in {pmi.logLevel, Number(pmi.staleness), Number(pmi.sampleRate),
                               Number(pmi.maxTerminated), {"500ms"}, {"5s"}, {"500"}}
    BY DEF Overrides
  <1>5. \A s \in {"host", "metricsLevel"} : s \in Lists
    BY DEF Lists
  <1> QED BY <1>1, <1>2, <1>3, <1>4, <1>5

LEMMA ValidateType ==
  ASSUME NEW c, NEW files, NEW h, NEW x
  PROVE Validate(c, files, h, x) \subseteq Checks
  BY DEF Validate, Checks

-----------------------------------------------------------------------------
\* The inductive invariant, one part per stage

New == stage = "new" => merged = 0 /\ cfg = DefaultConfig
Admitted == stage # "new" => pmi = Default(ApiDefaults(pm))
Merging ==
  stage \in {"new", "merging"} => \A s \in Settings : Follows(s, merged, cfg[s])
Accepted ==
  stage \in Written =>
    /\ \A s \in Settings \ DOMAIN Overrides : Follows(s, Len(docs), file[s])
    /\ \A s \in DOMAIN Overrides : file[s] = Overrides[s]
    /\ Validate(file, OperatorFiles, TRUE, TRUE) = {}
Loaded == stage = "loaded" => cfg = sanitize(Unmarshal(file))
Running ==
  stage = "running" =>
    cfg = sanitize(applyRedfishConfig(With(sanitize(Unmarshal(file)), Command)))
Crashing ==
  stage = "crashing" =>
    \/ errs = Validate(sanitize(Unmarshal(file)), PodFiles, FALSE, FALSE)
    \/ errs = Validate(sanitize(applyRedfishConfig(With(sanitize(Unmarshal(file)), Command))),
                       PodFiles, FALSE, FALSE)

Inv ==
  TypeOK /\ New /\ Admitted /\ Merging /\ Accepted /\ Loaded /\ Running /\ Crashing

\* With no document every setting has its default.
LEMMA FollowsDefault ==
  ASSUME NEW s \in Settings
  PROVE Follows(s, 0, DefaultConfig[s])
  BY DEF Follows, Latest

LEMMA FollowsUnchanged ==
  ASSUME docs' = docs
  PROVE \A s, n, v : Follows(s, n, v)' <=> Follows(s, n, v)
  BY DEF Follows, Latest, ZeroLast, LastGiven, Gives

LEMMA InitInv == Init => Inv
  <1> SUFFICES ASSUME Init PROVE Inv
    OBVIOUS
  <1>1. docs \in DocumentLists /\ Len(docs) = 0
    <2>1. docs \in [1 .. 0 -> Documents] /\ 0 \in 0 .. MaxDocuments
      BY ConfigBoundsAssumption DEF Init
    <2> QED BY <2>1 DEF Init, DocumentLists
  <1>2. pm.metricLevels \subseteq Levels
        /\ {pm.logLevel, pm.staleness, pm.sampleRate, pm.maxTerminated} \subseteq Optional
    BY PowerMonitorsAssumption DEF Init
  <1>3. TypeOK
    <2>1. merged \in 0 .. Len(docs)
      BY <1>1 DEF Init
    <2>2. pmi.metricLevels \subseteq Levels
          /\ {pmi.logLevel, pmi.staleness, pmi.sampleRate, pmi.maxTerminated} \subseteq Optional
      BY <1>2 DEF Init
    <2> QED BY <1>1, <2>1, <2>2, DefaultType DEF Init, TypeOK, Stages
  <1>4. Merging
    BY FollowsDefault DEF Init, Merging
  <1> QED BY <1>3, <1>4
          DEF Init, Inv, New, Admitted, Accepted, Written, Loaded, Running, Crashing

\* The admitted spec is complete and typed.
LEMMA AdmittedType ==
  ASSUME pm \in PowerMonitors, NEW q, q = Default(ApiDefaults(pm))
  PROVE /\ q.metricLevels \subseteq Levels
        /\ {q.logLevel, q.staleness, q.sampleRate, q.maxTerminated} \subseteq Optional
        /\ q.logLevel = Defaulted(pm.logLevel, {"info"})
        /\ q.metricLevels = Defaulted(pm.metricLevels, {"node", "pod", "vm"})
        /\ q.staleness = Defaulted(pm.staleness, {"500ms"})
        /\ q.sampleRate = Defaulted(pm.sampleRate, {"5s"})
        /\ q.maxTerminated = Defaulted(pm.maxTerminated, {"0"})
        /\ q.mode = IF pm.mode # "" THEN pm.mode ELSE IF OpenShift THEN "rbac" ELSE "none"
        /\ q.allowed = IF pm.allowed = "unset" /\ OpenShift THEN "uwm" ELSE pm.allowed
  <1>1. pm \in [name : Strings, logLevel : Optional, metricLevels : SUBSET Levels,
                staleness : Optional, sampleRate : Optional, maxTerminated : Optional,
                mode : {"", "none", "rbac"}, allowed : {"unset", "uwm", "own"}]
    BY PowerMonitorsAssumption
  <1>2. /\ q.logLevel = Defaulted(pm.logLevel, {"info"})
        /\ q.metricLevels = Defaulted(pm.metricLevels, {"node", "pod", "vm"})
        /\ q.staleness = Defaulted(pm.staleness, {"500ms"})
        /\ q.sampleRate = Defaulted(pm.sampleRate, {"5s"})
        /\ q.maxTerminated = Defaulted(pm.maxTerminated, {"0"})
        /\ q.mode = IF pm.mode # "" THEN pm.mode ELSE IF OpenShift THEN "rbac" ELSE "none"
        /\ q.allowed = IF pm.allowed = "unset" /\ OpenShift THEN "uwm" ELSE pm.allowed
    BY <1>1 DEF Default, ApiDefaults
  <1>3. /\ {"node", "pod", "vm"} \subseteq Levels
        /\ {{"info"}, {"500ms"}, {"5s"}, {"0"}} \subseteq Optional
    BY StringsAssumption DEF Levels, Optional, Literals
  <1>4. /\ pm.logLevel \in Optional /\ pm.staleness \in Optional
        /\ pm.sampleRate \in Optional /\ pm.maxTerminated \in Optional
        /\ pm.metricLevels \subseteq Levels
    BY <1>1
  <1>5. /\ q.logLevel \in Optional /\ q.staleness \in Optional
        /\ q.sampleRate \in Optional /\ q.maxTerminated \in Optional
        /\ q.metricLevels \subseteq Levels
    BY <1>2, <1>3, <1>4 DEF Defaulted
  <1> QED BY <1>2, <1>5

LEMMA CreateInv ==
  ASSUME Inv, NEW d \in DocumentLists, Create(d)
  PROVE Inv'
  <1> USE DEF Inv, Create
  <1>1. TypeOK'
    <2>1. 0 \in 0 .. Len(d)
      BY ListsAreSequences
    <2> QED BY <2>1, AdmittedType DEF TypeOK, New, Stages
  <1>2. Merging'
    BY FollowsDefault DEF New, Merging, Follows, Latest, ZeroLast
  <1> QED BY <1>1, <1>2 DEF New, Admitted, Accepted, Written, Loaded, Running, Crashing

LEMMA RejectInv ==
  ASSUME Inv, Reject
  PROVE Inv'
  <1> USE DEF Inv, Reject
  <1>1. TypeOK'
    BY PowerMonitorsAssumption DEF TypeOK
  <1>2. Merging'
    BY DEF Merging, Follows, Latest, ZeroLast, LastGiven, Gives
  <1> QED BY <1>1, <1>2 DEF New, Admitted, Accepted, Written, Loaded, Running, Crashing

LEMMA BuildInv ==
  ASSUME Inv, Build
  PROVE Inv'
  <1> DEFINE d == docs[merged + 1]
  <1> USE DEF Inv, Build
  <1>1. d.parses \in BOOLEAN /\ d.settings \in Configs /\ merged + 1 \in 0 .. Len(docs)
    BY ListsAreSequences DEF TypeOK
  <1>2. TypeOK'
    BY <1>1, MergeType DEF TypeOK
  <1>3. Merging'
    <2>1. \A s \in Settings : Follows(s, merged + 1, cfg'[s])
      BY FollowsStep DEF Merging, TypeOK
    <2> QED BY <2>1 DEF Merging, Follows, Latest, ZeroLast, LastGiven, Gives
  <1> QED BY <1>2, <1>3 DEF New, Admitted, Accepted, Written, Loaded, Running, Crashing

LEMMA KeplerConfigInv ==
  ASSUME Inv, KeplerConfig
  PROVE Inv'
  <1> DEFINE c == With(cfg, Overrides)
             e == Validate(c, OperatorFiles, TRUE, TRUE)
  <1>1. c \in Configs /\ e \subseteq Checks
    BY OverridesType, WithType, ValidateType DEF Inv, TypeOK
  <1>2. CASE stage' = "refused"
    <2>1. /\ (errs' = {"parse"} \/ errs' = e)
          /\ UNCHANGED <<pm, pmi, docs, merged, failed, cfg, file>> /\ stage = "merging"
      BY <1>2 DEF KeplerConfig
    <2> QED BY <1>1, <1>2, <2>1
            DEF Inv, TypeOK, Stages, New, Admitted, Merging, Accepted, Written, Loaded, Running,
                Crashing
  <1>3. CASE stage' = "written"
    <2>1. /\ e = {} /\ cfg' = c /\ file' = c /\ errs' = {}
          /\ UNCHANGED <<pm, pmi, docs, merged, failed>>
          /\ stage = "merging" /\ merged = Len(docs)
      BY <1>3 DEF KeplerConfig
    <2>2. TypeOK'
      BY <1>1, <1>3, <2>1 DEF Inv, TypeOK, Stages
    <2>3. Accepted'
      <3>1. DOMAIN Overrides \subseteq Settings /\ DOMAIN Overrides = (DOMAIN Overrides)'
            /\ Overrides' = Overrides
        BY <2>1, OverridesDomain DEF Overrides, Settings, Lists
      <3>2. /\ \A s \in Settings \ DOMAIN Overrides : c[s] = cfg[s]
            /\ \A s \in DOMAIN Overrides : c[s] = Overrides[s]
        BY <3>1 DEF With
      <3>3. \A s \in Settings : Follows(s, Len(docs), cfg[s])
        BY <2>1 DEF Inv, Merging
      <3>4. \A s \in Settings \ DOMAIN Overrides : Follows(s, Len(docs), file[s])'
        BY <2>1, <3>2, <3>3, FollowsUnchanged
      <3>5. Validate(file', OperatorFiles, TRUE, TRUE) = {}
        BY <2>1
      <3> HIDE DEF c, e
      <3> QED BY <2>1, <3>1, <3>2, <3>4, <3>5 DEF Accepted
    <2> QED BY <1>3, <2>1, <2>2, <2>3
            DEF Inv, New, Admitted, Merging, Loaded, Running, Crashing
  <1> QED BY <1>2, <1>3 DEF KeplerConfig

LEMMA RetryInv ==
  ASSUME Inv, Retry
  PROVE Inv'
  <1> USE DEF Inv, Retry
  <1>1. TypeOK'
    <2>1. 0 \in 0 .. Len(docs)
      BY ListsAreSequences DEF TypeOK
    <2> QED BY <2>1, DefaultType DEF TypeOK, Stages
  <1>2. Merging'
    BY FollowsDefault DEF Merging, Follows, Latest, ZeroLast, LastGiven, Gives
  <1> QED BY <1>1, <1>2 DEF New, Admitted, Accepted, Written, Loaded, Running, Crashing

\* Once written, a step that leaves what was written and its inputs alone
\* leaves it accepted.
LEMMA AcceptedKept ==
  ASSUME Accepted, stage \in Written, UNCHANGED <<pm, pmi, docs, file>>
  PROVE Accepted'
  <1>1. Overrides' = Overrides
    BY DEF Overrides
  <1>2. \A s \in Settings \ DOMAIN Overrides : Follows(s, Len(docs), file[s])'
    BY FollowsUnchanged DEF Accepted
  <1> QED BY <1>1, <1>2 DEF Accepted, Validate

LEMMA LoadInv ==
  ASSUME Inv, Load
  PROVE Inv'
  <1> DEFINE c == sanitize(Unmarshal(file))
             e == Validate(c, PodFiles, FALSE, FALSE)
  <1>1. c \in Configs /\ e \subseteq Checks
    BY UnmarshalType, SanitizeType, ValidateType DEF Inv, TypeOK
  <1>2. /\ cfg' = c /\ errs' = e /\ stage' \in {"loaded", "crashing"} /\ stage = "written"
        /\ UNCHANGED <<pm, pmi, docs, merged, failed, file>>
    BY DEF Load
  <1> HIDE DEF e
  <1>3. TypeOK'
    BY <1>1, <1>2 DEF Inv, TypeOK, Stages
  <1>4. Accepted'
    BY <1>2, AcceptedKept DEF Inv, Written
  <1>5. Crashing'
    BY <1>2 DEF Crashing, e
  <1> QED BY <1>2, <1>3, <1>4, <1>5 DEF Inv, New, Admitted, Merging, Loaded, Running

LEMMA ApplyFlagsInv ==
  ASSUME Inv, ApplyFlags
  PROVE Inv'
  <1> DEFINE c == sanitize(applyRedfishConfig(With(cfg, Command)))
             e == Validate(c, PodFiles, FALSE, FALSE)
  <1>1. c \in Configs /\ e \subseteq Checks
    BY CommandType, WithType, ApplyRedfishType, SanitizeType, ValidateType DEF Inv, TypeOK
  <1>2. /\ cfg' = c /\ errs' = e /\ stage' \in {"running", "crashing"} /\ stage = "loaded"
        /\ UNCHANGED <<pm, pmi, docs, merged, failed, file>>
    BY DEF ApplyFlags
  <1> HIDE DEF e
  <1>3. TypeOK'
    BY <1>1, <1>2 DEF Inv, TypeOK, Stages
  <1>4. Accepted'
    BY <1>2, AcceptedKept DEF Inv, Written
  <1>5. cfg = sanitize(Unmarshal(file)) /\ Command' = Command
    BY <1>2 DEF Inv, Loaded, Command
  <1>6. Running' /\ Crashing'
    BY <1>2, <1>5 DEF Running, Crashing, e
  <1> QED BY <1>2, <1>3, <1>4, <1>6 DEF Inv, New, Admitted, Merging, Loaded

LEMMA RestartInv ==
  ASSUME Inv, Restart
  PROVE Inv'
  <1>1. Accepted'
    BY AcceptedKept DEF Inv, Restart, Written
  <1> QED BY <1>1
          DEF Inv, Restart, TypeOK, Stages, New, Admitted, Merging, Loaded, Running, Crashing

LEMMA StutterInv ==
  ASSUME Inv, UNCHANGED vars
  PROVE Inv'
  <1> USE DEF Inv, vars
  <1>1. Accepted'
    BY AcceptedKept DEF Accepted
  <1>2. Merging'
    BY FollowsUnchanged DEF Merging
  <1> QED BY <1>1, <1>2 DEF TypeOK, New, Admitted, Loaded, Running, Crashing, Command

LEMMA NextInv == Inv /\ [Next]_vars => Inv'
  BY CreateInv, RejectInv, BuildInv, KeplerConfigInv, RetryInv, LoadInv, ApplyFlagsInv,
     RestartInv, StutterInv DEF Next

LEMMA Invariance == Spec => []Inv
  BY InitInv, NextInv, PTL DEF Spec

-----------------------------------------------------------------------------
\* The theorems

\* The configuration and the rest of the state keep their types, for any
\* documents (Builder.Build, KeplerConfig, sanitize, the flags).
THEOREM TypeCorrect == Spec => []TypeOK
  BY Invariance, PTL DEF Inv

\* Whatever the ConfigMaps, the written configuration has the last value given of
\* every setting the spec does not decide, but where that is Go's zero
\* (Builder.Build).
THEOREM ExplicitSettingsWin == Spec => []ExplicitWins
  <1>1. Inv => ExplicitWins
    BY DEF Inv, Accepted, ExplicitWins, Follows
  <1> QED BY <1>1, Invariance, PTL

\* What sanitize and the flags leave of the settings the spec decides.
LEMMA PodSettings ==
  ASSUME Inv, stage = "running"
  PROVE /\ \A s \in {"host", "metricsLevel", "staleness", "interval", "maxTerminated"} :
             cfg[s] = Unmarshal(file)[s]
        /\ cfg["logLevel"] = TrimScalar(TrimScalar(file["logLevel"]))
        /\ cfg["listenAddresses"] = {Trim(v) : v \in Command["listenAddresses"]}
  <1> DEFINE u == Unmarshal(file)
             l == sanitize(u)
             w == With(l, Command)
             r == applyRedfishConfig(w)
  <1>0. cfg = sanitize(r) /\ file \in Configs
    BY DEF Inv, Running, TypeOK
  <1>1. /\ u \in Configs /\ l \in Configs /\ w \in Configs /\ r \in Configs
    BY <1>0, UnmarshalType, SanitizeType, CommandType, WithType, ApplyRedfishType
  <1>2. ASSUME NEW s \in {"host", "metricsLevel", "staleness", "interval", "maxTerminated"}
        PROVE cfg[s] = u[s]
    <2>1. s \in Settings /\ s \notin Experimental
      BY DEF Settings, Lists, Experimental
    <2>2. /\ s \notin {"logLevel", "logFormat", "webConfig", "kubeConfig"}
          /\ s \notin {"redfishNode", "redfishFile"} /\ s # "listenAddresses"
          /\ s \notin {"kubeEnabled", "kubeNode", "listenAddresses"}
      OBVIOUS
    <2>3. l[s] = u[s]
      BY <2>1, <2>2 DEF sanitize
    <2>4. w[s] = l[s]
      BY <2>1, <2>2, CommandType DEF With
    <2>5. r[s] = w[s]
      BY <2>1, <2>2, <1>1 DEF applyRedfishConfig, Configs
    <2>6. sanitize(r)[s] = r[s]
      BY <2>1, <2>2 DEF sanitize
    <2> QED BY <1>0, <2>3, <2>4, <2>5, <2>6
  <1>3. cfg["logLevel"] = TrimScalar(TrimScalar(file["logLevel"]))
    <2>1. "logLevel" \in Settings
      BY DEF Settings
    <2>2. u["logLevel"] = file["logLevel"]
      BY <2>1, <1>0 DEF Unmarshal, Configs
    <2>3. l["logLevel"] = TrimScalar(u["logLevel"])
      BY <2>1 DEF sanitize, Experimental
    <2>4. w["logLevel"] = l["logLevel"]
      BY <2>1, CommandType DEF With
    <2>5. r["logLevel"] = w["logLevel"]
      BY <2>1, <1>1 DEF applyRedfishConfig, Configs
    <2>6. sanitize(r)["logLevel"] = TrimScalar(r["logLevel"])
      BY <2>1 DEF sanitize, Experimental
    <2> QED BY <1>0, <2>2, <2>3, <2>4, <2>5, <2>6
  <1>4. cfg["listenAddresses"] = {Trim(v) : v \in Command["listenAddresses"]}
    <2>1. "listenAddresses" \in Settings
      BY DEF Settings, Lists
    <2>2. w["listenAddresses"] = Command["listenAddresses"]
      BY <2>1, CommandType DEF With
    <2>3. r["listenAddresses"] = w["listenAddresses"]
      BY <2>1, <1>1 DEF applyRedfishConfig, Configs
    <2>4. sanitize(r)["listenAddresses"] = {Trim(v) : v \in r["listenAddresses"]}
      BY <2>1 DEF sanitize, Experimental
    <2> QED BY <1>0, <2>2, <2>3, <2>4
  <1> HIDE DEF u, l, w, r
  <1> QED BY <1>2, <1>3, <1>4 DEF u

\* A log level the operator accepted is one of the four, which trimming
\* leaves alone.
LEMMA LogLevelKept ==
  ASSUME Inv, stage \in Written
  PROVE TrimScalar(TrimScalar(file["logLevel"])) = file["logLevel"]
  <1>1. Validate(file, OperatorFiles, TRUE, TRUE) = {}
    BY DEF Inv, Accepted
  <1>2. file["logLevel"] \in {{"debug"}, {"info"}, {"warn"}, {"error"}}
    <2>1. SUFFICES ASSUME file["logLevel"] \notin {{"debug"}, {"info"}, {"warn"}, {"error"}}
                   PROVE "logLevel" \in Validate(file, OperatorFiles, TRUE, TRUE)
      BY <1>1
    <2> QED BY <2>1 DEF Validate
  <1>3. \A x \in {{"debug"}, {"info"}, {"warn"}, {"error"}} : TrimScalar(x) = x
    <2>1. \A v \in {"debug", "info", "warn", "error"} : Trim(v) = v /\ v # ""
      BY TrimType DEF Literals
    <2> QED BY <2>1 DEF TrimScalar
  <1> QED BY <1>2, <1>3

\* A running pod works with the spec of the PowerMonitor, whatever the
\* ConfigMaps hold (KeplerConfig, Load, the flags).
THEOREM SpecSettingsWin == Spec => []SpecWins
  <1>1. ASSUME Inv, stage = "running" PROVE SpecWins
    <2>1. /\ stage \in Written /\ pm \in PowerMonitors
          /\ pmi = Default(ApiDefaults(pm)) /\ file \in Configs
          /\ \A s \in DOMAIN Overrides : file[s] = Overrides[s]
      BY <1>1 DEF Inv, Written, TypeOK, Admitted, Accepted
    <2>2. /\ file["logLevel"] = pmi.logLevel
          /\ file["host"] = {"/host/sys", "/host/proc"}
          /\ pmi.metricLevels # {} => file["metricsLevel"] = pmi.metricLevels
          /\ pmi.staleness # {} => file["staleness"] = Number(pmi.staleness)
          /\ pmi.sampleRate # {} => file["interval"] = Number(pmi.sampleRate)
          /\ pmi.maxTerminated # {} => file["maxTerminated"] = Number(pmi.maxTerminated)
      BY <2>1, OverridesDomain DEF Overrides, ParseLevel
    <2>3. /\ Unmarshal(file)["host"] = file["host"]
          /\ Unmarshal(file)["staleness"] = file["staleness"]
          /\ Unmarshal(file)["interval"] = file["interval"]
          /\ Unmarshal(file)["maxTerminated"] = file["maxTerminated"]
          /\ file["metricsLevel"] # {} => Unmarshal(file)["metricsLevel"] = file["metricsLevel"]
      BY <2>1 DEF Unmarshal, ParseLevel, Configs, Settings, Lists
    <2>4. /\ cfg["logLevel"] = file["logLevel"]
          /\ cfg["host"] = file["host"]
          /\ cfg["staleness"] = file["staleness"]
          /\ cfg["interval"] = file["interval"]
          /\ cfg["maxTerminated"] = file["maxTerminated"]
          /\ file["metricsLevel"] # {} => cfg["metricsLevel"] = file["metricsLevel"]
      BY <1>1, <2>1, <2>3, PodSettings, LogLevelKept
    <2>5. /\ pm.logLevel # {} => pmi.logLevel = pm.logLevel
          /\ pm.metricLevels # {} => pmi.metricLevels = pm.metricLevels
          /\ pm.staleness # {} => pmi.staleness = pm.staleness
          /\ pm.sampleRate # {} => pmi.sampleRate = pm.sampleRate
          /\ pm.maxTerminated # {} => pmi.maxTerminated = pm.maxTerminated
      BY <2>1, AdmittedType DEF Defaulted
    <2> QED BY <2>2, <2>4, <2>5 DEF SpecWins
  <1>2. Inv => SpecWins
    BY <1>1 DEF SpecWins
  <1> QED BY <1>2, Invariance, PTL

\* Behind kube-rbac-proxy a running Kepler listens on the loopback interface
\* only, for any ConfigMaps (newKeplerContainer, the webhook's Default).
THEOREM SecuredListensLocally == Spec => []SecuredIsLocal
  <1>1. ASSUME Inv, stage = "running", pm.mode = "rbac" \/ (pm.mode = "" /\ OpenShift)
        PROVE /\ cfg["listenAddresses"] = {"127.0.0.1:28282"}
              /\ pm.allowed = "unset" /\ OpenShift => pmi.allowed = "uwm"
    <2>1. pm \in PowerMonitors /\ pmi = Default(ApiDefaults(pm))
      BY <1>1 DEF Inv, TypeOK, Admitted
    <2>2. pmi.mode = "rbac" /\ (pm.allowed = "unset" /\ OpenShift => pmi.allowed = "uwm")
      BY <1>1, <2>1, AdmittedType
    <2>3. Command["listenAddresses"] = {"127.0.0.1:28282"}
      BY <2>2 DEF Command
    <2>4. Trim("127.0.0.1:28282") = "127.0.0.1:28282"
      BY TrimType DEF Literals
    <2> QED BY <1>1, <2>2, <2>3, <2>4, PodSettings
  <1>2. Inv => SecuredIsLocal
    BY <1>1 DEF SecuredIsLocal
  <1> QED BY <1>2, Invariance, PTL

-----------------------------------------------------------------------------
\* Experimental features

Features == {"redfish", "hwmon", "gpu"}
\* The configuration with the flags of the command line, before it is sanitized.
Flagged(c) == applyRedfishConfig(With(c, Command))

\* sanitize leaves every enabled feature enabled, and the section if there is one.
LEMMA SanitizeFeatures ==
  ASSUME NEW c \in Configs
  PROVE /\ \A f \in Features : Enabled(sanitize(c), f) <=> Enabled(c, f)
        /\ sanitize(c)["experimental"] # {} <=> \E f \in Features : Enabled(c, f)
  <1>1. \A s \in Features \cup {"experimental"} :
          /\ s \in Settings /\ s \in Experimental /\ s # "listenAddresses"
          /\ s \notin {"logLevel", "logFormat", "webConfig", "kubeConfig",
                      "redfishNode", "redfishFile"}
    BY DEF Features, Settings, Experimental
  <1>2. experimentalFeatureEnabled(c) <=> \E f \in Features : Enabled(c, f)
    BY DEF experimentalFeatureEnabled, Features
  <1>3. \A s \in Features \cup {"experimental"} :
          sanitize(c)[s] = IF experimentalFeatureEnabled(c) THEN c[s] ELSE {}
    BY <1>1 DEF sanitize
  <1>4. \A f \in Features : Enabled(c, f) => c["experimental"] # {}
    BY DEF Enabled
  <1> QED BY <1>2, <1>3, <1>4 DEF Enabled

\* The flags leave alone what they do not set; of the rest applyRedfishConfig only
\* sets the node name.
LEMMA FlaggedSettings ==
  ASSUME NEW c \in Configs
  PROVE /\ Flagged(c) \in Configs
        /\ \A s \in Settings \ (DOMAIN Command \cup {"redfishNode"}) : Flagged(c)[s] = c[s]
        /\ \A s \in DOMAIN Command : Flagged(c)[s] = Command[s]
        /\ Flagged(c)["redfishNode"] =
             IF Enabled(c, "redfish")
             THEN resolveNodeName(c["redfishNode"], {NodeName}) ELSE c["redfishNode"]
  <1> DEFINE w == With(c, Command)
  <1>1. /\ DOMAIN Command = {"kubeEnabled", "kubeNode", "listenAddresses"}
        /\ Command["kubeNode"] = {NodeName}
    BY CommandType DEF Command
  <1>2. DOMAIN Command \subseteq Settings /\ "redfishNode" \in Settings
        /\ "experimental" \in Settings /\ "redfish" \in Settings
    BY <1>1 DEF Settings, Lists, Experimental
  <1>3. /\ w \in Configs /\ Flagged(c) \in Configs
    BY CommandType, WithType, ApplyRedfishType DEF Flagged
  <1>4. \A s \in Settings : w[s] = IF s \in DOMAIN Command THEN Command[s] ELSE c[s]
    BY DEF With
  <1>5. /\ w["kubeNode"] = {NodeName} /\ w["redfishNode"] = c["redfishNode"]
        /\ w["experimental"] = c["experimental"] /\ w["redfish"] = c["redfish"]
    BY <1>1, <1>2, <1>4
  <1>6. Enabled(w, "redfish") <=> Enabled(c, "redfish")
    BY <1>5 DEF Enabled
  <1> HIDE DEF w
  <1>7. Flagged(c) = IF Enabled(c, "redfish")
                     THEN [w EXCEPT !["redfishNode"] =
                             resolveNodeName(c["redfishNode"], {NodeName})]
                     ELSE w
    BY <1>3, <1>5, <1>6 DEF Flagged, applyRedfishConfig, Configs, w
  <1>8. \A s \in Settings \ {"redfishNode"} : Flagged(c)[s] = w[s]
    BY <1>3, <1>7 DEF Configs
  <1>9. Flagged(c)["redfishNode"] =
          IF Enabled(c, "redfish")
          THEN resolveNodeName(c["redfishNode"], {NodeName}) ELSE c["redfishNode"]
    BY <1>2, <1>3, <1>5, <1>7 DEF Configs
  <1>10. "redfishNode" \notin DOMAIN Command
    BY <1>1
  <1> QED BY <1>2, <1>3, <1>4, <1>8, <1>9, <1>10

\* The flags enable no feature and disable none.
LEMMA FlaggedFeatures ==
  ASSUME NEW c \in Configs
  PROVE \A f \in Features : Enabled(Flagged(c), f) <=> Enabled(c, f)
  <1>1. \A s \in Features \cup {"experimental"} :
          s \in Settings \ (DOMAIN Command \cup {"redfishNode"})
    BY CommandType DEF Features, Settings, Experimental
  <1> QED BY <1>1, FlaggedSettings DEF Enabled

\* There is one latest value.
LEMMA LatestUnique ==
  ASSUME docs \in DocumentLists, NEW s, NEW v, NEW w,
         Latest(s, Len(docs), v), Latest(s, Len(docs), w)
  PROVE v = w
  <1> DEFINE n == Len(docs)
  <1>1. n \in Nat
    BY ListsAreSequences
  <1>2. ASSUME NEW j \in 1 .. n, NEW k \in 1 .. n, LastGiven(j, s, n), LastGiven(k, s, n)
        PROVE j = k
    <2>1. j \notin k + 1 .. n /\ k \notin j + 1 .. n
      BY <1>2 DEF LastGiven
    <2> QED BY <1>1, <2>1
  <1> QED BY <1>2 DEF Latest, LastGiven

\* A written feature is written with its section: the document it comes from has one,
\* and no document takes it away.
LEMMA SectionWritten ==
  ASSUME Inv, stage \in Written, NEW f \in Features, file[f] # {}
  PROVE file["experimental"] # {}
  <1>0. f \in Pointers /\ "experimental" \in Pointers
    BY DEF Features, Pointers
  <1>1. /\ docs \in DocumentLists
        /\ Latest(f, Len(docs), file[f])
        /\ Latest("experimental", Len(docs), file["experimental"])
    <2>1. /\ docs \in DocumentLists
          /\ Follows(f, Len(docs), file[f])
          /\ Follows("experimental", Len(docs), file["experimental"])
      BY OverridesDomain DEF Inv, TypeOK, Accepted, Features, Settings, Experimental
    <2> QED BY <1>0, <2>1, PointerLatest
  <1>2. DefaultConfig[f] = {}
    <2>1. f \in Settings /\ f \notin DOMAIN Defaults
      BY DEF Features, Settings, Experimental, Defaults
    <2> QED BY <2>1 DEF DefaultConfig, With, Unset
  <1>3. PICK j \in 1 .. Len(docs) : docs[j].parses /\ docs[j].settings[f] # {}
    BY <1>1, <1>2 DEF Latest, LastGiven, Gives
  <1>4. Gives(j, "experimental")
    <2>1. docs[j].settings["experimental"] # {}
      BY <1>1, <1>3, ListsAreSequences, SectionAssumption DEF Features, Experimental
    <2> QED BY <1>1, <1>3, <2>1, ListsAreSequences DEF Gives, Settings, Experimental
  <1>5. \A k \in 1 .. Len(docs) :
          Gives(k, "experimental") => docs[k].settings["experimental"] # {}
    BY <1>0, <1>1, ListsAreSequences DEF Gives
  <1> QED BY <1>1, <1>4, <1>5 DEF Latest, LastGiven

\* Reading the file back changes the metric levels only.
LEMMA UnmarshalSettings ==
  ASSUME NEW c \in Configs
  PROVE \A s \in Settings \ {"metricsLevel"} : Unmarshal(c)[s] = c[s]
  BY DEF Unmarshal, Configs

\* The stages of a running configuration.
LEMMA RunningStages ==
  ASSUME Inv, stage = "running"
  PROVE /\ file \in Configs /\ Unmarshal(file) \in Configs
        /\ sanitize(Unmarshal(file)) \in Configs
        /\ Flagged(sanitize(Unmarshal(file))) \in Configs
        /\ cfg = sanitize(Flagged(sanitize(Unmarshal(file))))
  <1>1. /\ file \in Configs
        /\ cfg = sanitize(Flagged(sanitize(Unmarshal(file))))
    BY DEF Inv, TypeOK, Running, Flagged
  <1> QED BY <1>1, UnmarshalType, SanitizeType, FlaggedSettings

\* The features of a running pod are those of the file.
LEMMA RunningFeatures ==
  ASSUME Inv, stage = "running"
  PROVE /\ \A f \in Features : Enabled(cfg, f) <=> Enabled(file, f)
        /\ cfg["experimental"] # {} <=> \E f \in Features : Enabled(file, f)
  <1> DEFINE u == Unmarshal(file)
             l == sanitize(u)
             r == Flagged(l)
  <1>1. u \in Configs /\ l \in Configs /\ r \in Configs /\ cfg = sanitize(r)
        /\ file \in Configs
    BY RunningStages
  <1>2. \A f \in Features : Enabled(u, f) <=> Enabled(file, f)
    <2>1. \A s \in Features \cup {"experimental"} : s \in Settings \ {"metricsLevel"}
      BY DEF Features, Settings, Experimental
    <2> QED BY <1>1, <2>1, UnmarshalSettings DEF Enabled
  <1> HIDE DEF u
  <1>3. \A f \in Features : Enabled(l, f) <=> Enabled(u, f)
    BY <1>1, SanitizeFeatures
  <1> HIDE DEF l
  <1>4. \A f \in Features : Enabled(r, f) <=> Enabled(l, f)
    BY <1>1, FlaggedFeatures
  <1> HIDE DEF r
  <1>5. /\ \A f \in Features : Enabled(cfg, f) <=> Enabled(r, f)
        /\ cfg["experimental"] # {} <=> \E f \in Features : Enabled(r, f)
    BY <1>1, SanitizeFeatures
  <1> QED BY <1>2, <1>3, <1>4, <1>5

\* An experimental feature runs exactly when the last ConfigMap that mentions it
\* enables it, for any ConfigMaps in any order (Builder.Build, sanitize, the flags).
THEOREM ExperimentalIsAsEnabled == Spec => []ExperimentalAsEnabled
  <1>1. ASSUME Inv, stage = "running", NEW f \in Features
        PROVE Enabled(file, f) <=> Latest(f, Len(docs), {"true"})
    <2>0. docs \in DocumentLists /\ stage \in Written /\ Follows(f, Len(docs), file[f])
      BY <1>1, OverridesDomain
         DEF Inv, TypeOK, Accepted, Written, Features, Settings, Experimental
    <2>1. docs \in DocumentLists /\ stage \in Written /\ Latest(f, Len(docs), file[f])
      BY <2>0, PointerLatest DEF Features, Pointers
    <2>2. Latest(f, Len(docs), {"true"}) <=> file[f] = {"true"}
      BY <2>1, LatestUnique
    <2>3. file[f] = {"true"} => file["experimental"] # {}
      BY <1>1, <2>1, SectionWritten
    <2> QED BY <2>2, <2>3 DEF Enabled
  <1>2. ASSUME Inv, stage = "running"
        PROVE LET on == {f \in Features : Latest(f, Len(docs), {"true"})}
              IN /\ \A f \in Features : Enabled(cfg, f) <=> f \in on
                 /\ cfg["experimental"] # {} <=> on # {}
    BY <1>1, <1>2, RunningFeatures
  <1>3. Inv => ExperimentalAsEnabled
    BY <1>2 DEF ExperimentalAsEnabled, Features
  <1> QED BY <1>3, Invariance, PTL

\* Redfish in a running pod has the node name of the file, trimmed, or that of the pod.
THEOREM RedfishNodeName == Spec => []RedfishNode
  <1>1. ASSUME Inv, stage = "running", Enabled(cfg, "redfish")
        PROVE cfg["redfishNode"] = IF TrimScalar(file["redfishNode"]) # {}
                                   THEN TrimScalar(file["redfishNode"]) ELSE {NodeName}
    <2> DEFINE u == Unmarshal(file)
               l == sanitize(u)
               r == Flagged(l)
               name == TrimScalar(file["redfishNode"])
    <2>1. u \in Configs /\ l \in Configs /\ r \in Configs /\ cfg = sanitize(r)
          /\ file \in Configs
      BY <1>1, RunningStages
    <2>2. Enabled(r, "redfish") /\ Enabled(l, "redfish") /\ Enabled(u, "redfish")
      BY <1>1, <2>1, SanitizeFeatures, FlaggedFeatures DEF Features
    <2>3. "redfishNode" \in Settings /\ file["redfishNode"] \in SUBSET Strings
      BY <2>1, ScalarType DEF Settings, Experimental
    <2>4. u["redfishNode"] = file["redfishNode"]
      BY <2>1, <2>3, UnmarshalSettings
    <2> HIDE DEF u
    <2>5. l["redfishNode"] = name
      BY <2>2, <2>3, <2>4 DEF sanitize, experimentalFeatureEnabled
    <2> HIDE DEF l
    <2>6. r["redfishNode"] = resolveNodeName(name, {NodeName})
      BY <2>1, <2>2, <2>5, FlaggedSettings
    <2> HIDE DEF r
    <2>7. cfg["redfishNode"] = TrimScalar(r["redfishNode"])
      BY <2>1, <2>2, <2>3 DEF sanitize, experimentalFeatureEnabled
    <2>8. TrimScalar(name) = name
      BY <2>3, TrimScalarType
    <2>9. TrimScalar({NodeName}) = {NodeName}
      <3>1. Trim(NodeName) = NodeName /\ NodeName # ""
        BY TrimType, TrimmedAssumption DEF Literals
      <3> QED BY <3>1 DEF TrimScalar
    <2> HIDE DEF name
    <2>10. r["redfishNode"] = IF name # {} THEN name ELSE {NodeName}
      BY <2>6, <2>8, <2>9 DEF resolveNodeName
    <2>11. cfg["redfishNode"] = IF name # {} THEN name ELSE {NodeName}
      BY <2>7, <2>8, <2>9, <2>10
    <2> QED BY <2>11 DEF name
  <1>2. Inv => RedfishNode
    BY <1>1 DEF RedfishNode
  <1> QED BY <1>2, Invariance, PTL

-----------------------------------------------------------------------------
\* The pod's validation

LogLevels == {{"debug"}, {"info"}, {"warn"}, {"error"}}
LogFormats == {{"text"}, {"json"}}

\* What the operator's validation says about the pod's.
Sound(c) ==
  /\ c["logLevel"] \in LogLevels /\ c["logFormat"] \in LogFormats
  /\ c["host"] \subseteq PodFiles
  /\ c["listenAddresses"] # {} /\ c["listenAddresses"] \subseteq GoodAddresses
  /\ (c["interval"] \cup c["staleness"] \cup c["threshold"]) \cap Negative = {}
  /\ c["kubeEnabled"] = {"true"} => c["kubeNode"] # {}

\* A sound configuration fails no other check.
LEMMA SoundValidates ==
  ASSUME NEW c, Sound(c)
  PROVE Validate(c, PodFiles, FALSE, FALSE) \subseteq
          {"webConfig", "kubeConfig", "podInformer", "redfishFile"}
  <1> DEFINE V == Validate(c, PodFiles, FALSE, FALSE)
  <1>1. V \subseteq Checks
    BY ValidateType
  <1>2. "logLevel" \notin V /\ "logFormat" \notin V
    BY DEF Sound, Validate, LogLevels, LogFormats
  <1>3. "host" \notin V /\ "monitor" \notin V
    BY DEF Sound, Validate, canReadFile
  <1>4. "listenAddresses" \notin V /\ "kubeNode" \notin V
    BY DEF Sound, Validate, validateListenAddress
  <1> HIDE DEF V
  <1>5. V \subseteq {"webConfig", "kubeConfig", "podInformer", "redfishFile"}
    BY <1>1, <1>2, <1>3, <1>4 DEF Checks
  <1> QED BY <1>5 DEF V

\* sanitize keeps a configuration sound: only trimming touches these settings.
LEMMA SanitizeSound ==
  ASSUME NEW c \in Configs, Sound(c)
  PROVE Sound(sanitize(c))
  <1>1. \A s \in {"host", "interval", "staleness", "threshold", "kubeEnabled", "kubeNode"} :
          sanitize(c)[s] = c[s]
    <2>1. \A s \in {"host", "interval", "staleness", "threshold", "kubeEnabled", "kubeNode"} :
            /\ s \in Settings /\ s \notin Experimental /\ s # "listenAddresses"
            /\ s \notin {"logLevel", "logFormat", "webConfig", "kubeConfig",
                         "redfishNode", "redfishFile"}
      BY DEF Settings, Lists, Experimental
    <2> QED BY <2>1 DEF sanitize
  <1>2. /\ sanitize(c)["logLevel"] = TrimScalar(c["logLevel"])
        /\ sanitize(c)["logFormat"] = TrimScalar(c["logFormat"])
    BY DEF sanitize, Settings, Experimental
  <1>3. sanitize(c)["listenAddresses"] = {Trim(v) : v \in c["listenAddresses"]}
    BY DEF sanitize, Settings, Lists, Experimental
  <1>4. \A x \in LogLevels \cup LogFormats : TrimScalar(x) = x
    <2>1. \A v \in {"debug", "info", "warn", "error", "text", "json"} : Trim(v) = v /\ v # ""
      BY TrimType DEF Literals
    <2> QED BY <2>1 DEF TrimScalar, LogLevels, LogFormats
  <1>5. \A v \in GoodAddresses : Trim(v) \in GoodAddresses
    BY AddressesAssumption DEF Trim
  <1> QED BY <1>1, <1>2, <1>3, <1>4, <1>5 DEF Sound

\* So do the flags, whose own settings are sound.
LEMMA FlaggedSound ==
  ASSUME NEW c \in Configs, Sound(c)
  PROVE Sound(Flagged(c))
  <1>1. \A s \in {"logLevel", "logFormat", "host", "interval", "staleness", "threshold"} :
          Flagged(c)[s] = c[s]
    <2>1. \A s \in {"logLevel", "logFormat", "host", "interval", "staleness", "threshold"} :
            s \in Settings \ (DOMAIN Command \cup {"redfishNode"})
      BY CommandType DEF Settings, Lists
    <2> QED BY <2>1, FlaggedSettings
  <1>2. /\ Flagged(c)["kubeNode"] = {NodeName}
        /\ Flagged(c)["listenAddresses"] \in {{"127.0.0.1:28282"}, {"0.0.0.0:28282"}}
    BY CommandType, FlaggedSettings DEF Command
  <1> QED BY <1>1, <1>2, AddressesAssumption DEF Sound

\* What the operator writes is sound: it validated it, and the spec fixes the paths.
LEMMA WrittenSound ==
  ASSUME Inv, stage \in Written
  PROVE Unmarshal(file) \in Configs /\ Sound(Unmarshal(file))
  <1>1. /\ file \in Configs /\ Validate(file, OperatorFiles, TRUE, TRUE) = {}
        /\ file["host"] = {"/host/sys", "/host/proc"}
    BY OverridesDomain DEF Inv, TypeOK, Accepted, Overrides
  <1>2. /\ file["logLevel"] \in LogLevels /\ file["logFormat"] \in LogFormats
        /\ file["listenAddresses"] # {} /\ file["listenAddresses"] \subseteq GoodAddresses
        /\ (file["interval"] \cup file["staleness"] \cup file["threshold"])
             \cap Negative = {}
        /\ file["kubeEnabled"] = {"true"} => file["kubeNode"] # {}
    <2>1. \A check \in {"logLevel", "logFormat", "listenAddresses", "monitor", "kubeNode"} :
            check \notin Validate(file, OperatorFiles, TRUE, TRUE)
      BY <1>1
    <2> QED BY <2>1 DEF Validate, LogLevels, LogFormats, validateListenAddress
  <1>3. \A s \in {"logLevel", "logFormat", "host", "listenAddresses", "interval",
                  "staleness", "threshold", "kubeEnabled", "kubeNode"} :
          Unmarshal(file)[s] = file[s]
    <2>1. \A s \in {"logLevel", "logFormat", "host", "listenAddresses", "interval",
                    "staleness", "threshold", "kubeEnabled", "kubeNode"} :
            s \in Settings \ {"metricsLevel"}
      BY DEF Settings, Lists
    <2> QED BY <1>1, <2>1, UnmarshalSettings
  <1> QED BY <1>1, <1>2, <1>3, UnmarshalType, PodFilesAssumption DEF Sound

\* A pod that refuses what the operator accepted does so for a file, the pod informer
\* mode or Redfish, whatever the ConfigMaps (the two calls of Validate in the pod).
THEOREM AcceptedConfigurationStarts == Spec => []AcceptedStarts
  <1>1. ASSUME Inv, stage = "crashing"
        PROVE errs \subseteq {"webConfig", "kubeConfig", "podInformer", "redfishFile"}
    <2> DEFINE l == sanitize(Unmarshal(file))
               r == Flagged(l)
    <2>1. l \in Configs /\ Sound(l)
      BY <1>1, WrittenSound, SanitizeType, SanitizeSound DEF Written
    <2> HIDE DEF l
    <2>2. r \in Configs /\ Sound(r)
      BY <2>1, FlaggedSettings, FlaggedSound
    <2> HIDE DEF r
    <2>3. Sound(sanitize(r))
      BY <2>2, SanitizeSound
    <2>4. \/ errs = Validate(l, PodFiles, FALSE, FALSE)
          \/ errs = Validate(sanitize(r), PodFiles, FALSE, FALSE)
      BY <1>1 DEF Inv, Crashing, l, r, Flagged
    <2> QED BY <2>1, <2>3, <2>4, SoundValidates
  <1>2. Inv => AcceptedStarts
    BY <1>1 DEF AcceptedStarts
  <1> QED BY <1>2, Invariance, PTL
=============================================================================
