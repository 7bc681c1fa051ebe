------------------------------- MODULE MCRollout -------------------------------
EXTENDS Rollout

MCSecrets == {"bmc"}
MCConfigs == {"extra"}

SpecOf(secrets, configs, rbac, uwm, allowed) ==
  [secrets |-> secrets, configs |-> configs, level |-> 1, rbac |-> rbac,
   uwm |-> uwm, allowed |-> allowed]

\* Without kube-rbac-proxy and with the user's inputs; with kube-rbac-proxy and
\* user workload monitoring; with kube-rbac-proxy alone.
MCSpecs == {SpecOf({"bmc"}, {"extra"}, FALSE, FALSE, 1),
            SpecOf({"bmc"}, {}, TRUE, TRUE, 2),
            SpecOf({}, {}, TRUE, FALSE, 1)}
================================================================================
