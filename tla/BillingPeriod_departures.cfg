SPECIFICATION Spec
CONSTANTS
  monthly = monthly
  yearly = yearly
  NoPlan = NoPlan
  Sweeps = {w1}
  Requests = {r1, r2}
  Ops = {"change", "cancel", "resume", "decline", "settle"}
  Plans = {monthly, yearly}
  Priced = {monthly, yearly}
  Length <- Interval
  MaxCatchUp = 2
  MaxNow = 3
  Faults = {"sweepLost"}
  MaxFaults = 1
\* Each of these is refuted; check them one at a time (see the README).
INVARIANTS
  InvoiceFollowsSnapshot
PROPERTIES
  CancelEndsThePeriod
  ResumedContinues
CHECK_DEADLOCK FALSE
