SPECIFICATION FairSpec
CONSTANTS
  Collectors = {c1}
  Handlers = {h1}
  Operators = {}
  Free = {FALSE}
  MaxAttempts = 3
  Kinds = {"succeeded", "failed", "refunded"}
  Faults = {"sweepLost", "answerLost"}
  MaxFaults = 2
  Nobody = Nobody
PROPERTIES TakenIsRecorded
CHECK_DEADLOCK FALSE
