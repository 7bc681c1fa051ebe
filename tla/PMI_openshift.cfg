\* The PMI controller on OpenShift: the security mode is edited once; one call
\* fails, the operator crashes, or a managed object is deleted by others, once.
CONSTANTS
  Secrets = {}
  Specs <- MCSecuredSpecs
  DsStatuses <- MCRollout
  OpenShift = TRUE
  Removable = {"Namespace", "UWMSecretToken", "DaemonSet", "TLS"}
  MaxGen = 2
  MaxFaults = 1
SPECIFICATION Spec
INVARIANTS TypeOK NoLostWork AvailabilityTracked SecuredAtRest
PROPERTIES DaemonSetAfterProxySecrets FinalizerAfterNamespace ImplementsLifecycle
