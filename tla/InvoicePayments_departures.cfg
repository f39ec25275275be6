SPECIFICATION FairSpec
CONSTANTS
  Collectors = {c1}
  Handlers = {h1, h2}
  Operators = {o1}
  Free = {FALSE}
  MaxAttempts = 2
  Kinds = {"succeeded", "failed", "refunded"}
  Faults = {"broker"}
  MaxFaults = 1
  Nobody = Nobody
\* Each of these is refuted; check them one at a time (see the README).
INVARIANTS
  DeclineIsPastDue
  CreditedOnce
PROPERTIES
  PaidIsNotVoided
  StoredIsProcessed
CHECK_DEADLOCK FALSE
