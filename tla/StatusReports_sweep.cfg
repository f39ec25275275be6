SPECIFICATION FairSpec
CONSTANTS
  m1 = m1
  m2 = m2
  Messages = {m1}
  Handlers = {h1}
  Events = {e1, e2}
  Payloads <- OneMessage
  NoStamp = NoStamp
  Faults = {"broker", "crash", "exception"}
  MaxFaults = 2
  MaxTasks = 1
  None = None
PROPERTIES EveryEventIsRead
CHECK_DEADLOCK FALSE
