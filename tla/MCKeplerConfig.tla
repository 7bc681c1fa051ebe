---------------------------- MODULE MCKeplerConfig ----------------------------
(* A small instance of KeplerConfig: PowerMonitors that say nothing, zero, or   *)
(* something else, and ConfigMaps that set one thing each, some of it blank,    *)
(* false, invalid or the spec's to decide.                                      *)
EXTENDS KeplerConfig, TLC

MCStrings ==
  Levels \cup Literals \cup
  {"power-monitor", "other", "debug", "loud", "error", "json", " text", "0s", "1s", "-1",
   "7", "0.0.0.0:9000", " :9001", ":9001", ":9002 ", ":9002", "/pod/web.yaml", "/operator/web.yaml",
   "mine", "/pod/kube", "watch", "section", "/pod/bmc.yaml", " /pod/bmc.yaml",
   "rack1", "rack1 ", " "}
Blank == [name |-> "power-monitor", logLevel |-> {}, metricLevels |-> {},
          staleness |-> {}, sampleRate |-> {}, maxTerminated |-> {},
          mode |-> "", allowed |-> "unset"]
MCPowerMonitors ==
  {Blank,
   [Blank EXCEPT !.name = "other"],
   [Blank EXCEPT !.mode = "none", !.logLevel = {"debug"}, !.metricLevels = {"process"},
                 !.sampleRate = {"0s"}, !.maxTerminated = {"0"}],
   [Blank EXCEPT !.mode = "rbac", !.allowed = "own", !.staleness = {"1s"},
                 !.maxTerminated = {"-1"}],
   [Blank EXCEPT !.logLevel = {"loud"}]}

Doc(values) == [parses |-> TRUE, given |-> DOMAIN values, settings |-> values @@ Unset]
Zero(s) == [parses |-> TRUE, given |-> {s}, settings |-> Unset]
Section == "experimental" :> {"section"}
MCDocuments ==
  {[parses |-> FALSE, given |-> {}, settings |-> Unset],
   Doc("logLevel" :> {"error"} @@ "maxTerminated" :> {"7"} @@ "metricsLevel" :> {"vm"}
         @@ "threshold" :> {"7"}),
   Zero("threshold"),
   Doc("pprof" :> {"true"}),
   Doc("pprof" :> {"false"} @@ "logFormat" :> {"json"}),
   Doc("logFormat" :> {" text"}),
   Doc("threshold" :> {"-1"}),
   Doc("listenAddresses" :> {"0.0.0.0:9000", " :9001"}),
   Doc("listenAddresses" :> {":9002 "}),
   Doc("webConfig" :> {"/pod/web.yaml"}),
   Doc("webConfig" :> {"/operator/web.yaml"}),
   Doc("kubeEnabled" :> {"true"} @@ "kubeNode" :> {"mine"} @@ "kubeConfig" :> {"/pod/kube"}),
   Doc("kubeEnabled" :> {"false"} @@ "podInformer" :> {"watch"}),
   Doc(Section @@ "redfish" :> {"true"} @@ "redfishFile" :> {" /pod/bmc.yaml"}),
   Doc(Section @@ "redfish" :> {"false"} @@ "redfishNode" :> {"rack1 "}),
   Doc(Section @@ "redfish" :> {"true"} @@ "redfishNode" :> {" "}),
   Doc(Section @@ "hwmon" :> {"true"} @@ "gpu" :> {"false"}),
   Doc(Section @@ "hwmon" :> {"false"} @@ "gpu" :> {"true"})}

MCOperatorFiles == {"/operator/web.yaml"}
MCPodFiles == {"/host/sys", "/host/proc", "/pod/web.yaml", "/pod/kube", "/pod/bmc.yaml"}
MCGoodAddresses == {":28282", "0.0.0.0:28282", "127.0.0.1:28282", "0.0.0.0:9000",
                    ":9001", " :9001", ":9002"}
MCNegative == {"-1"}
MCTrimmed == " text" :> "text" @@ " :9001" :> ":9001" @@ ":9002 " :> ":9002" @@ " " :> ""
               @@ "rack1 " :> "rack1" @@ " /pod/bmc.yaml" :> "/pod/bmc.yaml"
===============================================================================
