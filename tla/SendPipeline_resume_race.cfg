SPECIFICATION Spec
CONSTANTS
  Messages = {m1, m2}
  Workers = {w1, w2}
  Requests = {r1, r2, r3}
  RequestOps = {"launch", "pause", "resume"}
  ButtonsOnly = TRUE
  Audiences = {{m1}, {m2}, {m1, m2}}
  MaxRetries = 1
  TaskRetries = 1
  Faults = {}
  MaxFaults = 0
  None = None
INVARIANTS NothingStranded
CHECK_DEADLOCK FALSE
