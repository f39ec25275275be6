SPECIFICATION Spec
CONSTANTS
  Messages = {m1}
  Workers = {w1, w2}
  Requests = {r1}
  RequestOps = {"launch"}
  ButtonsOnly = FALSE
  Audiences = {{m1}}
  MaxRetries = 3
  TaskRetries = 3
  Faults = {"throttle"}
  MaxFaults = 4
  None = None
INVARIANTS NothingStranded
CHECK_DEADLOCK FALSE
