\* The namespace cannot be applied once.
CONSTANTS
  Secrets = {}
  Specs <- MCSecuredSpecs
  DsStatuses = {}
  OpenShift = TRUE
  Removable = {}
  MaxGen = 1
  MaxFaults = 1
SPECIFICATION Spec
INVARIANT ReconciledMeansDeployed
