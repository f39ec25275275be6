SPECIFICATION FairSpec
CONSTANTS
  m1 = m1
  m2 = m2
  Messages = {m1}
  Handlers = {h1, h2}
  Events = {e1, e2}
  Payloads <- OneMessage
  NoStamp = NoStamp
  Faults = {"exception"}
  MaxFaults = 1
  MaxTasks = 1
  None = None
\* Each of these is refuted; check them one at a time (see the README).
INVARIANTS
  OursAreRecorded
PROPERTIES
  NeverBackwards
  FailuresAreSwept
CHECK_DEADLOCK FALSE
