SPECIFICATION Spec
CONSTANTS
  Messages = {m1, m2}
  Workers = {w1, w2}
  Requests = {r1, r2}
  RequestOps = {"launch", "pause", "resume", "cancel"}
  ButtonsOnly = FALSE
  Audiences = {{m1}, {m2}, {m1, m2}}
  MaxRetries = 1
  TaskRetries = 1
  Faults = {"crash", "redeliver", "throttle", "unconfigured", "lostReply", "broker"}
  MaxFaults = 1
  None = None
SYMMETRY Symmetry
INVARIANTS TypeOK ClaimExclusive OneCopy CallsBounded ClaimInv
PROPERTIES ImplementsClaims
CHECK_DEADLOCK FALSE
