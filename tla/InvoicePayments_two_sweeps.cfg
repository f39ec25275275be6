SPECIFICATION Spec
CONSTANTS
  Collectors = {c1, c2}
  Handlers = {h1}
  Operators = {}
  Free = {FALSE}
  MaxAttempts = 2
  Kinds = {}
  Faults = {}
  MaxFaults = 0
  Nobody = Nobody
INVARIANTS NeverChargedTwice
CHECK_DEADLOCK FALSE
