SPECIFICATION FairSpec
CONSTANTS
  monthly = monthly
  yearly = yearly
  NoPlan = NoPlan
  Sweeps = {w1}
  Requests = {r1, r2}
  Ops = {"change", "cancel", "resume", "decline", "settle"}
  Plans = {monthly, yearly}
  Priced = {monthly, yearly}
  Length <- Interval
  MaxCatchUp = 2
  MaxNow = 3
  Faults = {"sweepLost", "invoiceFails"}
  MaxFaults = 1
INVARIANTS TypeOK ClosedPeriodsTile BilledBeforeRolled
PROPERTIES PeriodsAdvance PeriodsCatchUp
CHECK_DEADLOCK FALSE
