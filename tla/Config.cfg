CONSTANTS
  Strings <- MCStrings
  PowerMonitors <- MCPowerMonitors
  Documents <- MCDocuments
  MaxDocuments = 3
  OpenShift = TRUE
  OperatorFiles <- MCOperatorFiles
  PodFiles <- MCPodFiles
  GoodAddresses <- MCGoodAddresses
  Negative <- MCNegative
  Trimmed <- MCTrimmed
  NodeName = "node1"
  Hostname = "pod1"
SPECIFICATION Spec
INVARIANTS
  TypeOK ExplicitWins SpecWins ExperimentalAsEnabled RedfishNode SecuredIsLocal AcceptedStarts
