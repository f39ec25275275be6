SPECIFICATION Spec
CONSTANTS
  People = {f, a, b}
  Founder = f
  Invitations = {i1, i2}
  Pages = {p1, p2}
  SeatLimits = {1, 3}
  MaxVisits = 4
  Visitors = {v1, v2, v3}
  Limit = 2
  Window = 2
  Senders = {s1, s2}
  Rate = 2
  Token = 3
  Second = 2
  Slack = 1
  MaxLag = 2
  MaxTime = 7
  u1 = u1
  u2 = u2
  Users = {u1, u2}
  Roll <- Order
  AdminRoll <- Order
  Finishes = {c1}
  Reporters = {w1, w2}
  Quota = 2
  MaxDay = 1
  MaxReports = 3
  Accounts <- Numbers
  Texts <- Versions
  Rows = {r1, r2}
  Blank = {r2}
  MaxChanges = 5
  Billers = {b1, b2}
  Periods = {q1, q2}
  Years = {25, 26}
  Price = 5
  MaxAsked = 3
  MaxEdits = 2
  MaxLines = 2
  Typed = {0, 2}
\* Each of these is refuted; check them one at a time (see the README).
INVARIANTS
  SeatsNeverOver
  NothingIsOverwritten
  BlocksAreDated
  RateIsKept
  NothingSentTwice
  QuotaKept
  SentAsRendered
  LocalIsNeverLive
  OneNumberPerCampaign
  IssuedIsNumbered
  VoidedIsReissued
  TotalIsItsLines
  BilledSegments
PROPERTIES
  OwnerRemains
  ActedOnStays
  ToldOncePerEvent
  PassedOverOnlyIfTold
  VoidedStaysVoid
CHECK_DEADLOCK FALSE
