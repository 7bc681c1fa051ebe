\* Progress of the PowerMonitor controller.
CONSTANTS
  MaxUid = 2
  MaxGen = 1
  MaxFaults = 1
SPECIFICATION FairSpec
PROPERTIES PMDeletionCompletes StatusConverges
CHECK_DEADLOCK FALSE
