SPECIFICATION Spec
CONSTANTS
  Messages = {m1, m2}
  Workers = {w1, w2}
  Requests = {r1}
  RequestOps = {"launch"}
  ButtonsOnly = FALSE
  Audiences = {{m1}, {m2}, {m1, m2}}
  MaxRetries = 1
  TaskRetries = 1
  Faults = {"crash"}
  MaxFaults = 1
  None = None
INVARIANTS NothingStranded
CHECK_DEADLOCK FALSE
