SPECIFICATION Spec
CONSTANTS
  Messages = {m1, m2}
  Workers = {w1, w2}
  Requests = {r1, r2, r3}
  RequestOps = {"launch", "pause", "resume"}
  ButtonsOnly = TRUE
  Audiences = {{m1, m2}}
  MaxRetries = 1
  TaskRetries = 1
  Faults = {"crash", "redeliver", "throttle", "unconfigured", "lostReply", "broker"}
  MaxFaults = 1
  None = None
SYMMETRY Symmetry
INVARIANTS CompletedIsSettled PauseTakesHold StrandedHasCause
CHECK_DEADLOCK FALSE
