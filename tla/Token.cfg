\* Half days: a token lives a week, is checked daily, the operator may take a day
\* to react; two lifetimes, two interventions.
CONSTANTS
  TTL = 14
  Refresh = 2
  Buffer = 1
  Retry = 1
  Lag = 2
  OpenShift = TRUE
  MaxTime = 30
  MaxMeddling = 2
SPECIFICATION Spec
INVARIANTS TypeOK NeverExpired RestoredInTime
