------------------------ MODULE MCPowerMonitorInternal ------------------------
(* Instances of PowerMonitorInternal for TLC. *)
EXTENDS PowerMonitorInternal

MCSpec(mode, uwm, secrets, extra) ==
  [mode |-> mode, uwm |-> uwm, secrets |-> secrets, extraConfig |-> extra]

\* Switching between plain HTTP and the proxy with user workload monitoring.
MCSecuredSpecs == {MCSpec("none", FALSE, {}, FALSE), MCSpec("rbac", TRUE, {}, FALSE)}

\* Plain HTTP with a mounted secret and an additional ConfigMap, and the proxy
\* without user workload monitoring.
MCReferringSpecs == {MCSpec("none", FALSE, Secrets, TRUE),
                     MCSpec("rbac", FALSE, {}, FALSE)}

MCPods(desired, n) ==
  [desired |-> desired, ready |-> n, updated |-> n, available |-> n,
   unavailable |-> desired - n]

MCRollout == {MCPods(1, 1)}
===============================================================================
