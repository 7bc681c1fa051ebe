\* Progress of the PMI controller on OpenShift: the certificate that the reconcile
\* waits for is issued for a Service which the same reconcile creates.
CONSTANTS
  Secrets = {}
  Specs <- MCSecuredSpecs
  DsStatuses = {}
  OpenShift = TRUE
  Removable = {"Namespace", "TLS"}
  MaxGen = 1
  MaxFaults = 1
SPECIFICATION FairSpec
PROPERTY Converges
