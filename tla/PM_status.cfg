\* The PowerMonitor controller at rest: two PowerMonitors one after the other, one
\* edit, one fault.
CONSTANTS
  MaxUid = 2
  MaxGen = 2
  MaxFaults = 1
SPECIFICATION Spec
INVARIANTS TypeOK StatusMirrored InvalidReported
CHECK_DEADLOCK FALSE
