SPECIFICATION Spec
CONSTANTS
  m1 = m1
  m2 = m2
  Messages = {m1, m2}
  Handlers = {h1, h2}
  Events = {e1, e2}
  Payloads <- TwoMessages
  NoStamp = NoStamp
  Faults = {"broker", "crash", "exception", "senderLost"}
  MaxFaults = 1
  MaxTasks = 1
  None = None
SYMMETRY Symmetry
INVARIANTS TypeOK AppliedOnce CompletedIsSettled RowCoversLog
CHECK_DEADLOCK FALSE
