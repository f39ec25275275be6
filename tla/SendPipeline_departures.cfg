SPECIFICATION Spec
CONSTANTS
  Messages = {m1, m2}
  Workers = {w1, w2}
  Requests = {r1, r2}
  RequestOps = {"launch", "cancel", "resume"}
  ButtonsOnly = FALSE
  Audiences = {{m1}, {m2}, {m1, m2}}
  MaxRetries = 1
  TaskRetries = 1
  Faults = {}
  MaxFaults = 0
  None = None
\* Each of these is refuted; check them one at a time (see the README).
INVARIANTS
  StartedHasRecipients
PROPERTIES
  LegalMovesOnly
  CancelSparesSending
  FailedIsTerminal
CHECK_DEADLOCK FALSE
