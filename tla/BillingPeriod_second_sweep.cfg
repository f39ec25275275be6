SPECIFICATION Spec
CONSTANTS
  monthly = monthly
  yearly = yearly
  NoPlan = NoPlan
  Sweeps = {w1, w2}
  Requests = {r1, r2}
  Ops = {"change", "cancel", "resume", "decline", "settle"}
  Plans = {monthly, yearly}
  Priced = {monthly, yearly}
  Length <- Interval
  MaxCatchUp = 2
  MaxNow = 3
  Faults = {}
  MaxFaults = 0
PROPERTIES PeriodsAdvance
CHECK_DEADLOCK FALSE
