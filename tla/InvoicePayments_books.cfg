SPECIFICATION Spec
CONSTANTS
  Collectors = {c1, c2}
  Handlers = {h1, h2}
  Operators = {o1}
  Free = {FALSE, TRUE}
  MaxAttempts = 2
  Kinds = {"succeeded", "refunded"}
  Faults = {"sweepLost", "handlerLost", "answerLost", "broker", "exception"}
  MaxFaults = 1
  Nobody = Nobody
SYMMETRY Symmetry
INVARIANTS TypeOK BooksBalance PaidIsSettled RefundIsCovered ChargedOnce
CHECK_DEADLOCK FALSE
