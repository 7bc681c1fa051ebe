CONSTANTS
  Secrets <- MCSecrets
  Configs <- MCConfigs
  Specs <- MCSpecs
  OpenShift = TRUE
  MaxVersion = 2
  MaxEvents = 2
SPECIFICATION Spec
INVARIANT CertificateRolledOut
