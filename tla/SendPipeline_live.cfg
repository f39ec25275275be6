SPECIFICATION FairSpec
CONSTANTS
  Messages = {m1, m2}
  Workers = {w1, w2}
  Requests = {r1, r2}
  RequestOps = {"launch"}
  ButtonsOnly = FALSE
  Audiences = {{m1}, {m1, m2}}
  MaxRetries = 1
  TaskRetries = 1
  Faults = {"redeliver", "lostReply"}
  MaxFaults = 1
  None = None
PROPERTIES EveryMessageSettles LaunchedCompletes
CHECK_DEADLOCK FALSE
