\* Progress of the PMI controller on plain Kubernetes, where the spec refers to a
\* secret and a ConfigMap that users create and withdraw.
CONSTANTS
  Secrets = {s1}
  Specs <- MCReferringSpecs
  DsStatuses = {}
  OpenShift = FALSE
  Removable = {"Namespace", "KubeRBACProxyConfig", "Service"}
  MaxGen = 1
  MaxFaults = 1
SPECIFICATION FairSpec
PROPERTIES Converges DeletionCompletes
