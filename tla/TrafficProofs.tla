-------------------------- MODULE TrafficProofs ---------------------------
(***************************************************************************)
(* What comes in and what goes out of an installation, proved for any      *)
(* limits, clocks and workers: the doors that are throttled, the rate of   *)
(* sending, and what the messages sent look like.                          *)
(***************************************************************************)
EXTENDS Office, FiniteSetTheorems, TLAPS

-----------------------------------------------------------------------------
(***************************************************************************)
(* The token bucket.  A reading that arrives late sets the bucket's time   *)
(* back, so what it will refill again has to be counted: the level is      *)
(* what a script that came now could find.                                 *)
(***************************************************************************)

Grains(t) == Rate * t
Spent(n) == n * Token

\* What the bucket holds for a reading of the time it is.
Level ==
  IF Present
  THEN Smaller(Capacity, bucket.tokens + Grains(now - bucket.updated))
  ELSE Capacity

RateTypes ==
  /\ now \in Nat /\ since \in Nat /\ taken \in Nat /\ late \in Nat
  /\ bucket \in [tokens : Nat, updated : Nat, expires : Int]
  /\ sender \in [Senders -> [stage : {"ready", "read", "waits"}, at : Int]]

\* Readings are of the past, and a bucket outlives its refill.
Timely ==
  /\ \A s \in Senders : sender[s].stage = "read" => sender[s].at \in 0 .. now
  /\ bucket.updated <= now
  /\ Present => bucket.expires >= bucket.updated + Lifetime
  /\ since <= now

\* What was taken and what is there came from one bucket and the rate.
NothingFromNowhere ==
  Spent(taken) + Level <= Capacity + Grains(now - since + late)

RateInv == RateTypes /\ Timely /\ NothingFromNowhere

-----------------------------------------------------------------------------
(* Arithmetic *)

LEMMA GrainsAdd ==
  /\ \A t \in Int : Grains(t) \in Int
  /\ \A s, t \in Int : Grains(s + t) = Grains(s) + Grains(t)
  /\ \A t \in Nat : Grains(t) \in Nat
  /\ Grains(0) = 0
<1>1. Rate \in Nat
  BY SendRateAssumption
<1>2. \A t \in Int : Grains(t) \in Int
  BY <1>1 DEF Grains
<1>3. \A s, t \in Int : Grains(s + t) = Grains(s) + Grains(t)
  BY <1>1 DEF Grains
<1>4. \A t \in Nat : Grains(t) \in Nat
  BY <1>1 DEF Grains
<1> QED BY <1>1, <1>2, <1>3, <1>4 DEF Grains

LEMMA GrainsGrow == \A s, t \in Int : s <= t => Grains(s) <= Grains(t)
<1> SUFFICES ASSUME NEW s \in Int, NEW t \in Int, s <= t PROVE Grains(s) <= Grains(t)
  OBVIOUS
<1>1. t - s \in Nat /\ t - s \in Int /\ s + (t - s) = t
  OBVIOUS
<1>2. Grains(s + (t - s)) = Grains(s) + Grains(t - s)
  BY <1>1, GrainsAdd
<1>3. Grains(t - s) \in Nat /\ Grains(s) \in Int
  BY <1>1, GrainsAdd
<1> QED BY <1>1, <1>2, <1>3

LEMMA SpentAdds ==
  /\ \A n \in Nat : Spent(n) \in Nat /\ Spent(n + 1) = Spent(n) + Token
  /\ Spent(0) = 0
  /\ Token \in Nat
BY SendRateAssumption DEF Spent

LEMMA CapacityIsPositive == Capacity \in Nat
<1>1. Token \in Nat /\ Rate * Second \in Nat
  BY SendRateAssumption
<1> QED BY <1>1 DEF Capacity, Larger

LEMMA CeilingCovers ==
  ASSUME NEW a \in Nat, NEW d \in Nat \ {0}
  PROVE  CeilingDiv(a, d) \in Nat /\ d * CeilingDiv(a, d) >= a
<1> DEFINE q == (a + d - 1) \div d
           r == (a + d - 1) % d
<1>1. q \in Int /\ r \in 0 .. d - 1 /\ a + d - 1 = d * q + r
  OBVIOUS
<1>2. q >= 0
  <2>1. SUFFICES ASSUME q <= -1 PROVE FALSE
    BY <1>1
  <2> HIDE DEF q, r
  <2>2. d * q <= d * (-1)
    BY <1>1, <2>1
  <2> QED BY <1>1, <2>2
<1> HIDE DEF q, r
<1>3. d * q \in Int
  BY <1>1
<1>4. d * q >= a
  BY <1>1, <1>3
<1> QED BY <1>1, <1>2, <1>4 DEF q, CeilingDiv

\* An entry lives until it would have been full again.
LEMMA LifetimeRefills == Lifetime \in Nat /\ Grains(Lifetime) >= Capacity
<1> DEFINE d == Rate * Second
           q == CeilingDiv(Capacity, d)
<1>1. d \in Nat \ {0} /\ Second \in Nat /\ Slack \in Nat /\ Rate \in Nat
  BY SendRateAssumption
<1> HIDE DEF d
<1>2. q \in Nat /\ d * q >= Capacity
  BY <1>1, CapacityIsPositive, CeilingCovers
<1> HIDE DEF q
<1>3. Lifetime = Second * (q + Slack)
  BY DEF Lifetime, q, d
<1>4. Lifetime \in Nat
  BY <1>1, <1>2, <1>3
<1>5. Grains(Lifetime) = d * q + d * Slack
  <2>1. Rate * (Second * (q + Slack)) = (Rate * Second) * q + (Rate * Second) * Slack
    BY <1>1, <1>2
  <2> QED BY <1>3, <2>1 DEF Grains, d
<1>6. d * Slack \in Nat /\ d * q \in Nat
  BY <1>1, <1>2
<1> QED BY <1>2, <1>4, <1>5, <1>6, CapacityIsPositive

LEMMA LevelIsBounded ==
  ASSUME RateTypes, bucket.updated <= now
  PROVE  /\ Level \in Nat /\ Level <= Capacity
         /\ Present => Level <= bucket.tokens + Grains(now - bucket.updated)
<1>1. now - bucket.updated \in Nat /\ bucket.tokens \in Nat
  BY DEF RateTypes
<1>2. Grains(now - bucket.updated) \in Nat
  BY <1>1, GrainsAdd
<1> QED BY <1>1, <1>2, CapacityIsPositive DEF Level, Smaller

LEMMA LevelStaysBounded ==
  ASSUME RateTypes', bucket'.updated <= now'
  PROVE  /\ Level' \in Nat
         /\ Present' => Level' <= bucket'.tokens + Grains(now' - bucket'.updated)
<1>1. now' - bucket'.updated \in Nat /\ bucket'.tokens \in Nat
  BY DEF RateTypes
<1>2. Grains(now' - bucket'.updated) \in Nat
  BY <1>1, GrainsAdd
<1> QED BY <1>1, <1>2, CapacityIsPositive DEF Level, Smaller

-----------------------------------------------------------------------------
(* Steps *)

\* A sender that reads its clock, is let through or waits leaves the bucket.
LEMMA SendersKeep ==
  ASSUME RateInv, NEW s \in Senders, NEW held \in [stage : {"ready", "read", "waits"}, at : Int],
         sender' = [sender EXCEPT ![s] = held], held.stage = "read" => held.at = now,
         UNCHANGED <<now, bucket, since, taken, late>>
  PROVE  RateInv'
<1>1. \A r \in Senders : sender'[r] = IF r = s THEN held ELSE sender[r]
  BY DEF RateInv, RateTypes
<1>2. RateTypes'
  BY DEF RateInv, RateTypes
<1>3. now \in 0 .. now
  BY DEF RateInv, RateTypes
<1>4. Timely'
  BY <1>1, <1>3 DEF RateInv, Timely, Present
<1>5. NothingFromNowhere'
  BY DEF RateInv, NothingFromNowhere, Level, Present
<1> QED BY <1>2, <1>4, <1>5 DEF RateInv

\* What a script finds, and how much of it can be refilled again.
LEMMA RefillIsThere ==
  ASSUME RateInv, NEW read \in 0 .. now
  PROVE  Refill(read) \in Nat /\ Refill(read) <= Level
<1>1. CASE ~Present
  BY <1>1, CapacityIsPositive DEF Refill, Level
<1>2. CASE Present
  <2> DEFINE past == Larger(0, read - bucket.updated)
  <2>1. bucket.tokens \in Nat /\ past \in Nat /\ now - bucket.updated \in Nat
        /\ past <= now - bucket.updated /\ past \in Int /\ now - bucket.updated \in Int
    BY DEF RateInv, RateTypes, Timely, Larger
  <2>2. Refill(read) = Smaller(Capacity, bucket.tokens + Grains(past))
    <3>1. past * Rate = Grains(past)
      BY <2>1, SendRateAssumption DEF Grains
    <3> QED BY <1>2, <3>1 DEF Refill
  <2> HIDE DEF past
  <2>3. Grains(past) \in Nat /\ Grains(past) <= Grains(now - bucket.updated)
        /\ Grains(now - bucket.updated) \in Nat
    BY <2>1, GrainsAdd, GrainsGrow
  <2> QED BY <1>2, <2>1, <2>2, <2>3, CapacityIsPositive DEF Level, Smaller
<1> QED BY <1>1, <1>2

LEMMA ScriptKeeps ==
  ASSUME RateInv, NEW s \in Senders, RunScript(s)
  PROVE  RateInv'
<1>1. PICK read \in 0 .. now, tokens \in Nat : read = sender[s].at /\ tokens = Refill(read)
  <2>1. sender[s].at \in 0 .. now
    BY DEF RunScript, RateInv, Timely
  <2>2. ASSUME NEW read \in 0 .. now PROVE Refill(read) \in Nat
    BY RefillIsThere
  <2>3. Refill(sender[s].at) \in Nat
    BY <2>1, <2>2
  <2> QED BY <2>1, <2>3
<1>2. PICK left \in Nat : left = IF tokens >= Token THEN tokens - Token ELSE tokens
  <2>1. (IF tokens >= Token THEN tokens - Token ELSE tokens) \in Nat
    BY <1>1, SpentAdds
  <2> QED BY <2>1
<1>3. /\ bucket' = [tokens |-> left, updated |-> read, expires |-> now + Lifetime]
      /\ taken' = IF tokens >= Token THEN taken + 1 ELSE taken
      /\ late' = late + (now - read)
      /\ UNCHANGED <<now, since>>
  BY <1>1, <1>2 DEF RunScript
<1>4. PICK held \in [stage : {"ready", "read", "waits"}, at : Int] :
        sender' = [sender EXCEPT ![s] = held] /\ held.stage # "read"
  <2>1. RetryAfter(left) \in Int
    <3>1. Token - left \in Int /\ Rate * Second \in Nat \ {0}
      BY <1>2, SendRateAssumption
    <3>2. CeilingDiv(Token - left, Rate * Second) \in Int
      BY <3>1 DEF CeilingDiv
    <3> QED BY <3>2 DEF RetryAfter, Larger
  <2>2. now + Second * RetryAfter(left) \in Int
    BY <2>1, SendRateAssumption DEF RateInv, RateTypes
  <2> DEFINE held == IF tokens >= Token THEN Ready
                    ELSE [stage |-> "waits", at |-> now + Second * RetryAfter(left)]
  <2>3. sender' = [sender EXCEPT ![s] = held]
    BY <1>1, <1>2 DEF RunScript
  <2>4. held \in [stage : {"ready", "read", "waits"}, at : Int] /\ held.stage # "read"
    BY <2>2 DEF Ready
  <2> QED BY <2>3, <2>4
<1>5. RateTypes'
  BY <1>1, <1>2, <1>3, <1>4, LifetimeRefills DEF RateInv, RateTypes
<1>6. Timely'
  <2>1. \A r \in Senders : sender'[r] = IF r = s THEN held ELSE sender[r]
    BY <1>4 DEF RateInv, RateTypes
  <2>2. \A r \in Senders : sender'[r].stage = "read" => sender'[r].at \in 0 .. now'
    BY <1>3, <1>4, <2>1 DEF RateInv, Timely
  <2>3. bucket'.updated <= now' /\ bucket'.expires >= bucket'.updated + Lifetime /\ since' <= now'
    BY <1>3, LifetimeRefills DEF RateInv, RateTypes, Timely
  <2> QED BY <2>2, <2>3 DEF Timely
<1>7. NothingFromNowhere'
  <2>1. tokens <= Level
    BY <1>1, RefillIsThere
  <2>2. Present' /\ bucket'.tokens = left /\ bucket'.updated = read
    <3>1. Lifetime >= 1
      <4>1. Capacity >= 1
        BY SendRateAssumption DEF Capacity, Larger
      <4>2. Lifetime # 0
        BY <4>1, LifetimeRefills, GrainsAdd, CapacityIsPositive
      <4> QED BY <4>2, LifetimeRefills
    <3> QED BY <1>3, <3>1, LifetimeRefills DEF Present, RateInv, RateTypes
  <2>3. Level' <= left + Grains(now - read)
    BY <1>3, <1>5, <1>6, <2>2, LevelStaysBounded DEF Timely
  <2>4. Spent(taken') + left = Spent(taken) + tokens
    BY <1>1, <1>2, <1>3, SpentAdds DEF RateInv, RateTypes
  <2>5. Grains(now' - since' + late') = Grains(now - since + late) + Grains(now - read)
    <3>1. now - since + late \in Int /\ now - read \in Int
          /\ now' - since' + late' = (now - since + late) + (now - read)
      BY <1>3 DEF RateInv, RateTypes
    <3> QED BY <3>1, GrainsAdd
  <2>6. /\ Spent(taken) \in Nat /\ Spent(taken') \in Nat /\ Level \in Nat /\ Level' \in Nat
        /\ Grains(now - read) \in Nat /\ Grains(now - since + late) \in Int
    <3>1. taken \in Nat /\ taken' \in Nat /\ now - read \in Nat /\ now - since + late \in Int
      BY <1>3 DEF RateInv, RateTypes
    <3>2. Level \in Nat /\ Level' \in Nat
      BY <1>5, <1>6, LevelIsBounded, LevelStaysBounded DEF RateInv, Timely
    <3> QED BY <3>1, <3>2, GrainsAdd, SpentAdds
  <2> QED BY <1>2, <2>1, <2>3, <2>4, <2>5, <2>6, CapacityIsPositive
          DEF RateInv, NothingFromNowhere
<1> QED BY <1>5, <1>6, <1>7 DEF RateInv

\* A tick adds at most its rate to the level: a bucket that expires was full.
LEMMA TickFillsByTheRate ==
  ASSUME RateInv, Pass
  PROVE  Level' <= Level + Grains(1)
<1>1. now \in Nat /\ now' = now + 1 /\ bucket.updated <= now /\ bucket.updated \in Nat
      /\ bucket.tokens \in Nat /\ bucket.expires \in Int
  BY DEF Pass, RateInv, RateTypes, Timely
<1>2. Grains(1) \in Nat /\ Level \in Nat /\ Level <= Capacity
  BY LevelIsBounded, GrainsAdd DEF RateInv, Timely
<1> DEFINE age == now - bucket.updated
<1>6. age \in Nat /\ age \in Int /\ age + 1 \in Int
  BY <1>1
<1> HIDE DEF age
<1>7. Grains(age) \in Nat /\ Grains(age + 1) = Grains(age) + Grains(1)
  BY <1>6, GrainsAdd
<1>3. CASE Present' /\ Present
  <2>1. bucket' = bucket
    BY <1>1, <1>3 DEF Pass, Present, Empty
  <2>2. now' - bucket'.updated = age + 1
    BY <1>1, <2>1 DEF age
  <2>3. Level' = Smaller(Capacity, bucket.tokens + Grains(age + 1))
    BY <1>3, <2>1, <2>2 DEF Level
  <2>4. Level = Smaller(Capacity, bucket.tokens + Grains(age))
    BY <1>3 DEF Level, age
  <2> QED BY <1>1, <1>2, <1>7, <2>3, <2>4, CapacityIsPositive DEF Smaller
<1>4. CASE ~Present
  <2>1. ~Present'
    BY <1>1, <1>4 DEF Pass, Present, Empty
  <2> QED BY <1>2, <1>4, <2>1, CapacityIsPositive DEF Level
<1>5. CASE Present /\ ~Present'
  <2>1. bucket.expires = now + 1
    BY <1>1, <1>5 DEF Pass, Present, Empty
  <2>2. age + 1 >= Lifetime
    BY <1>1, <1>5, <2>1, LifetimeRefills DEF RateInv, Timely, age
  <2>3. Level' = Capacity
    BY <1>5 DEF Level
  <2>4. Level = Smaller(Capacity, bucket.tokens + Grains(age))
    BY <1>5 DEF Level, age
  <2>5. Grains(Lifetime) <= Grains(age + 1) /\ Grains(Lifetime) \in Int
    BY <1>6, <2>2, LifetimeRefills, GrainsGrow, GrainsAdd
  <2>6. Grains(age) + Grains(1) >= Capacity
    BY <1>2, <1>7, <2>5, LifetimeRefills, CapacityIsPositive
  <2> QED BY <1>1, <1>2, <1>7, <2>3, <2>4, <2>6, CapacityIsPositive DEF Smaller
<1> QED BY <1>3, <1>4, <1>5

LEMMA PassKeeps ==
  ASSUME RateInv, Pass
  PROVE  RateInv'
<1>1. now \in Nat /\ now' = now + 1 /\ UNCHANGED <<sender, since, taken, late>>
      /\ (bucket' = Empty \/ bucket' = bucket)
  BY DEF Pass, RateInv, RateTypes
<1>2. Empty \in [tokens : Nat, updated : Nat, expires : Int] /\ Empty.updated = 0
      /\ Empty.expires = -1
  BY DEF Empty
<1>3. RateTypes'
  BY <1>1, <1>2 DEF RateInv, RateTypes
<1>4. Timely'
  <2>1. bucket'.updated <= now' /\ (Present' => bucket'.expires >= bucket'.updated + Lifetime)
    BY <1>1, <1>2 DEF RateInv, RateTypes, Timely, Present
  <2>2. \A s \in Senders : sender'[s].stage = "read" => sender'[s].at \in 0 .. now'
    BY <1>1 DEF RateInv, Timely
  <2>3. since' <= now'
    BY <1>1 DEF RateInv, RateTypes, Timely
  <2> QED BY <2>1, <2>2, <2>3 DEF Timely
<1>5. NothingFromNowhere'
  <2>1. Grains(now' - since' + late') = Grains(now - since + late) + Grains(1)
    <3>1. now - since + late \in Int /\ now' - since' + late' = (now - since + late) + 1
      BY <1>1 DEF RateInv, RateTypes
    <3> QED BY <3>1, GrainsAdd
  <2>2. /\ Spent(taken) \in Nat /\ Level \in Nat /\ Level' \in Nat /\ Grains(1) \in Nat
        /\ Grains(now - since + late) \in Int
    <3>1. now - since + late \in Int /\ taken \in Nat
      BY DEF RateInv, RateTypes
    <3>2. Level \in Nat /\ Level' \in Nat
      BY <1>3, <1>4, LevelIsBounded, LevelStaysBounded DEF RateInv, Timely
    <3> QED BY <3>1, <3>2, GrainsAdd, SpentAdds
  <2> QED BY <1>1, <2>1, <2>2, TickFillsByTheRate, CapacityIsPositive
          DEF RateInv, NothingFromNowhere
<1> QED BY <1>3, <1>4, <1>5 DEF RateInv

\* Counting may begin at any moment: one bucket covers whatever there is.
LEMMA MarkKeeps ==
  ASSUME RateInv, Mark
  PROVE  RateInv'
<1>1. since' = now /\ taken' = 0 /\ late' = 0 /\ UNCHANGED <<now, bucket, sender>> /\ now \in Nat
  BY DEF Mark, RateInv, RateTypes
<1>2. RateTypes'
  BY <1>1 DEF RateInv, RateTypes
<1>3. Timely'
  BY <1>1 DEF RateInv, Timely, Present
<1>4. NothingFromNowhere'
  <2>1. Level' = Level /\ Level \in Nat /\ Level <= Capacity
    BY <1>1, LevelIsBounded DEF Level, Present, RateInv, Timely
  <2>2. now' - since' + late' = 0
    BY <1>1
  <2> QED BY <1>1, <2>1, <2>2, SpentAdds, GrainsAdd, CapacityIsPositive DEF NothingFromNowhere
<1> QED BY <1>2, <1>3, <1>4 DEF RateInv

LEMMA SendRateNextKeeps ==
  ASSUME RateInv, SendRateNext
  PROVE  RateInv'
<1>1. ASSUME NEW s \in Senders, ReadClock(s) PROVE RateInv'
  <2> DEFINE held == [stage |-> "read", at |-> now]
  <2>1. held \in [stage : {"ready", "read", "waits"}, at : Int] /\ held.at = now
    BY DEF RateInv, RateTypes
  <2> QED BY <1>1, <2>1, SendersKeep DEF ReadClock
<1>2. ASSUME NEW s \in Senders, Unavailable(s) PROVE RateInv'
  <2>1. Ready \in [stage : {"ready", "read", "waits"}, at : Int] /\ Ready.stage # "read"
    BY DEF Ready
  <2> QED BY <1>2, <2>1, SendersKeep DEF Unavailable
<1>3. ASSUME NEW s \in Senders, RunScript(s) PROVE RateInv'
  BY <1>3, ScriptKeeps
<1> QED BY <1>1, <1>2, <1>3, PassKeeps, MarkKeeps DEF SendRateNext

-----------------------------------------------------------------------------
LEMMA RateInitially == Init => RateInv
<1> SUFFICES ASSUME Init PROVE RateInv
  OBVIOUS
<1>1. /\ now = 0 /\ bucket = Empty /\ sender = [s \in Senders |-> Ready]
      /\ since = 0 /\ taken = 0 /\ late = 0
  BY DEF Init, SendRateInit
<1>2. RateTypes /\ Timely /\ ~Present
  BY <1>1 DEF RateTypes, Timely, Present, Empty, Ready
<1>3. NothingFromNowhere
  <2>1. now - since + late = 0
    BY <1>1
  <2> QED BY <1>1, <1>2, <2>1, SpentAdds, GrainsAdd, CapacityIsPositive
          DEF NothingFromNowhere, Level
<1> QED BY <1>2, <1>3 DEF RateInv

LEMMA RateStep ==
  ASSUME RateInv, [Next]_vars
  PROVE  RateInv'
<1>1. CASE SendRateMoves
  BY <1>1, SendRateNextKeeps DEF SendRateMoves
<1>2. CASE UNCHANGED sendRateVars
  BY <1>2 DEF sendRateVars, RateInv, RateTypes, Timely, NothingFromNowhere, Level, Present
<1> QED BY <1>1, <1>2 DEF Next, TeamMoves, DoorsMove, NoticesMove, SendersMove, LedgerMoves, vars

LEMMA BoundFollows == RateInv => SendsBounded
<1> SUFFICES ASSUME RateInv
             PROVE  taken * Token <= Capacity + Rate * (now - since + late)
  BY DEF SendsBounded
<1>1. Level \in Nat
  BY LevelIsBounded DEF RateInv, Timely
<1>2. Spent(taken) \in Nat /\ Grains(now - since + late) \in Int
  <2>1. taken \in Nat /\ now - since + late \in Int
    BY DEF RateInv, RateTypes
  <2> QED BY <2>1, SpentAdds, GrainsAdd
<1>3. Spent(taken) <= Capacity + Grains(now - since + late)
  BY <1>1, <1>2, CapacityIsPositive DEF RateInv, NothingFromNowhere
<1> QED BY <1>3 DEF Spent, Grains

\* rate_limiter.py, BUCKET_SCRIPT_LUA: in any stretch of time the workers take no
\* more than a bucket, the rate, and what late readings refill twice.
THEOREM SendsKeepToTheRate == Spec => []SendsBounded
<1>1. RateInv /\ [Next]_vars => RateInv'
  BY RateStep
<1> QED BY <1>1, RateInitially, BoundFollows, PTL DEF Spec

-----------------------------------------------------------------------------
(***************************************************************************)
(* The doors, for any number of visitors, limit and window.  Below the     *)
(* limit every event of the window is counted or about to be; at the       *)
(* limit nobody else is let in, so only those already in can still add to  *)
(* it.                                                                     *)
(***************************************************************************)

Counting == {"counting", "added", "found", "expired"}
AboutToCount == {v \in Visitors : visitor[v] \in Counting}
Admitted == {v \in Visitors : visitor[v] = "admitted"}

VisitorStages == {"outside", "admitted"} \cup Counting

DoorTypes ==
  /\ visitor \in [Visitors -> VisitorStages]
  /\ entry \in [count : Nat, left : Int]
  /\ entry.left = 0 => entry.count = 0
  /\ Limit > 0 => entry.count <= Limit
  /\ done \in Nat
  /\ lost \in BOOLEAN

EventsAreCounted ==
  Limit > 0 /\ ~lost =>
    /\ entry.count < Limit => done <= entry.count + Cardinality(AboutToCount)
    /\ entry.count = Limit =>
         done + Cardinality(Admitted) <= Limit + Cardinality(Visitors) - 1

DoorInv == DoorTypes /\ EventsAreCounted

\* Who is about to count and who is admitted are different visitors.
LEMMA VisitorsAreFew ==
  /\ IsFiniteSet(AboutToCount) /\ IsFiniteSet(Admitted)
  /\ Cardinality(AboutToCount) \in Nat /\ Cardinality(Admitted) \in Nat
  /\ Cardinality(Visitors) \in Nat
  /\ Cardinality(AboutToCount) + Cardinality(Admitted) <= Cardinality(Visitors)
<1>1. IsFiniteSet(Visitors) /\ Cardinality(Visitors) \in Nat
  BY DoorsAssumption, FS_CardinalityType
<1>2. IsFiniteSet(AboutToCount) /\ IsFiniteSet(Admitted)
  BY <1>1, FS_Subset DEF AboutToCount, Admitted
<1>3. Cardinality(AboutToCount) \in Nat /\ Cardinality(Admitted) \in Nat
  BY <1>2, FS_CardinalityType
<1>4. AboutToCount \cap Admitted = {} /\ AboutToCount \cup Admitted \in SUBSET Visitors
  BY DEF AboutToCount, Admitted, Counting
<1>5. Cardinality(AboutToCount \cup Admitted)
        = Cardinality(AboutToCount) + Cardinality(Admitted)
  <2>1. Cardinality(AboutToCount \cap Admitted) = 0
    BY <1>4, FS_EmptySet
  <2>2. Cardinality(AboutToCount \cup Admitted)
          = Cardinality(AboutToCount) + Cardinality(Admitted)
              - Cardinality(AboutToCount \cap Admitted)
    BY <1>2, FS_Union
  <2>. QED
    BY <1>3, <2>1, <2>2
<1>6. Cardinality(AboutToCount \cup Admitted) <= Cardinality(Visitors)
  BY <1>1, <1>4, FS_Subset
<1>. QED
  BY <1>1, <1>2, <1>3, <1>5, <1>6

\* One visitor goes on: how the two sets change.
LEMMA VisitorGoes ==
  ASSUME DoorTypes, NEW v \in Visitors, NEW stage \in VisitorStages, Goes(v, stage)
  PROVE  /\ visitor' \in [Visitors -> VisitorStages]
         /\ Cardinality(AboutToCount') =
              Cardinality(AboutToCount)
                - (IF visitor[v] \in Counting THEN 1 ELSE 0)
                + (IF stage \in Counting THEN 1 ELSE 0)
         /\ Cardinality(Admitted') =
              Cardinality(Admitted)
                - (IF visitor[v] = "admitted" THEN 1 ELSE 0)
                + (IF stage = "admitted" THEN 1 ELSE 0)
<1>1. visitor' = [visitor EXCEPT ![v] = stage] /\ visitor \in [Visitors -> VisitorStages]
  BY DEF Goes, DoorTypes
<1>2. AboutToCount' = IF stage \in Counting
                      THEN AboutToCount \cup {v} ELSE AboutToCount \ {v}
  BY <1>1 DEF AboutToCount, DoorTypes
<1>3. Admitted' = IF stage = "admitted" THEN Admitted \cup {v} ELSE Admitted \ {v}
  BY <1>1 DEF Admitted
<1>4. /\ v \in AboutToCount <=> visitor[v] \in Counting
      /\ v \in Admitted <=> visitor[v] = "admitted"
  BY DEF AboutToCount, Admitted
<1>5. ASSUME NEW S, IsFiniteSet(S), Cardinality(S) \in Nat
      PROVE  /\ Cardinality(S \cup {v}) = IF v \in S THEN Cardinality(S) ELSE Cardinality(S) + 1
             /\ Cardinality(S \ {v}) = IF v \in S THEN Cardinality(S) - 1 ELSE Cardinality(S)
  BY <1>5, FS_AddElement, FS_RemoveElement
<1>6. /\ Cardinality(AboutToCount \cup {v})
           = IF v \in AboutToCount THEN Cardinality(AboutToCount) ELSE Cardinality(AboutToCount) + 1
      /\ Cardinality(AboutToCount \ {v})
           = IF v \in AboutToCount THEN Cardinality(AboutToCount) - 1 ELSE Cardinality(AboutToCount)
      /\ Cardinality(Admitted \cup {v})
           = IF v \in Admitted THEN Cardinality(Admitted) ELSE Cardinality(Admitted) + 1
      /\ Cardinality(Admitted \ {v})
           = IF v \in Admitted THEN Cardinality(Admitted) - 1 ELSE Cardinality(Admitted)
  BY <1>5, VisitorsAreFew
<1>7. Cardinality(AboutToCount) \in Nat /\ Cardinality(Admitted) \in Nat
  BY VisitorsAreFew
<1>. QED
  BY <1>1, <1>2, <1>3, <1>4, <1>6, <1>7

LEMMA EnterKeeps ==
  ASSUME DoorInv, NEW v \in Visitors, Enter(v)
  PROVE  DoorInv'
<1>1. DoorTypes /\ EventsAreCounted /\ UNCHANGED <<entry, done, lost>> /\ At(v, "outside")
      /\ Limit \in Nat
  BY DoorsAssumption DEF DoorInv, Enter
<1>2. visitor[v] = "outside"
  BY <1>1 DEF At
<1>3. CASE ~IsExceeded /\ Goes(v, "admitted")
  <2>1. /\ visitor' \in [Visitors -> VisitorStages]
        /\ Cardinality(AboutToCount') = Cardinality(AboutToCount)
    BY <1>1, <1>2, <1>3, VisitorGoes, VisitorsAreFew DEF VisitorStages, Counting
  <2>2. Limit > 0 => entry.count < Limit
    BY <1>1, <1>3 DEF IsExceeded, DoorTypes
  <2>. QED
    BY <1>1, <2>1, <2>2 DEF DoorInv, DoorTypes, EventsAreCounted
<1>4. CASE IsExceeded /\ Goes(v, "counting")
  <2>1. /\ visitor' \in [Visitors -> VisitorStages]
        /\ Cardinality(Admitted') = Cardinality(Admitted)
    BY <1>1, <1>2, <1>4, VisitorGoes, VisitorsAreFew DEF VisitorStages, Counting
  <2>2. ~(entry.count < Limit)
    BY <1>1, <1>4 DEF IsExceeded, DoorTypes
  <2>. QED
    BY <1>1, <2>1, <2>2 DEF DoorInv, DoorTypes, EventsAreCounted
<1>. QED
  BY <1>3, <1>4 DEF Enter

LEMMA EventKeeps ==
  ASSUME DoorInv, NEW v \in Visitors, Event(v)
  PROVE  DoorInv'
<1>1. /\ DoorTypes /\ EventsAreCounted /\ UNCHANGED <<entry, lost>>
      /\ visitor[v] = "admitted" /\ Goes(v, "counting")
      /\ Limit \in Nat
  BY DoorsAssumption DEF DoorInv, Event, At
<1>2. /\ visitor' \in [Visitors -> VisitorStages]
      /\ Cardinality(AboutToCount') = Cardinality(AboutToCount) + 1
      /\ Cardinality(Admitted') = Cardinality(Admitted) - 1
  BY <1>1, VisitorGoes, VisitorsAreFew DEF VisitorStages, Counting
<1>3. done' \in Nat /\ done' <= done + 1
  BY <1>1 DEF Event, DoorTypes
<1>4. EventsAreCounted'
  BY <1>1, <1>2, <1>3, VisitorsAreFew DEF EventsAreCounted, DoorTypes
<1>. QED
  BY <1>1, <1>2, <1>3, <1>4 DEF DoorInv, DoorTypes

\* A success resets the counter and forgets the events; a rejected form leaves
\* both alone.
LEMMA LeavingKeeps ==
  ASSUME DoorInv, NEW v \in Visitors, SignsIn(v) \/ FormRejected(v)
  PROVE  DoorInv'
<1>1. /\ DoorTypes /\ EventsAreCounted /\ lost' = lost
      /\ visitor[v] = "admitted" /\ Goes(v, "outside")
      /\ Limit \in Nat
  BY DoorsAssumption DEF DoorInv, SignsIn, FormRejected, At
<1>2. /\ visitor' \in [Visitors -> VisitorStages]
      /\ Cardinality(AboutToCount') = Cardinality(AboutToCount)
      /\ Cardinality(Admitted') = Cardinality(Admitted) - 1
  BY <1>1, VisitorGoes, VisitorsAreFew DEF VisitorStages, Counting
<1>3. CASE SignsIn(v)
  <2>1. entry' = [count |-> 0, left |-> 0] /\ done' = 0
    BY <1>3 DEF SignsIn, Gone
  <2>. QED
    BY <1>1, <1>2, <2>1, VisitorsAreFew DEF DoorInv, DoorTypes, EventsAreCounted
<1>4. CASE FormRejected(v)
  <2>1. UNCHANGED <<entry, done>>
    BY <1>4 DEF FormRejected
  <2>2. EventsAreCounted'
    BY <1>1, <1>2, <2>1, VisitorsAreFew DEF EventsAreCounted, DoorTypes
  <2>. QED
    BY <1>1, <1>2, <2>1, <2>2 DEF DoorInv, DoorTypes
<1>. QED
  BY <1>3, <1>4

\* record's first calls: the count stays what it is.
LEMMA AddKeeps ==
  ASSUME DoorInv, NEW v \in Visitors, Add(v) \/ Exists(v)
  PROVE  DoorInv'
<1>1. /\ DoorTypes /\ EventsAreCounted /\ UNCHANGED <<lost, done>>
      /\ visitor[v] \in {"counting", "added"}
      /\ Goes(v, "added") \/ Goes(v, "found") \/ Goes(v, "expired")
      /\ Limit \in Nat
  BY DoorsAssumption DEF DoorInv, Add, Exists, At
<1>2. /\ visitor' \in [Visitors -> VisitorStages]
      /\ Cardinality(AboutToCount') = Cardinality(AboutToCount)
      /\ Cardinality(Admitted') = Cardinality(Admitted)
  BY <1>1, VisitorGoes, VisitorsAreFew DEF VisitorStages, Counting
<1>3. /\ entry' \in [count : Nat, left : Int]
      /\ entry'.count = entry.count
      /\ entry'.left = 0 => entry'.count = 0
  BY <1>1, DoorsAssumption DEF Add, Exists, DoorTypes
<1>4. EventsAreCounted'
  BY <1>1, <1>2, <1>3 DEF EventsAreCounted
<1>. QED
  BY <1>1, <1>2, <1>3, <1>4 DEF DoorInv, DoorTypes

\* The count that meets the limit, in an entry made anew as in one that was
\* there: whoever is neither counting nor admitted stays outside, and the one
\* who counted is not counted twice.
LEMMA IncrKeeps ==
  ASSUME DoorInv, NEW v \in Visitors, Incr(v)
  PROVE  DoorInv'
<1>1. /\ DoorTypes /\ EventsAreCounted /\ UNCHANGED <<lost, done>>
      /\ visitor[v] = "found" /\ Goes(v, "outside")
      /\ entry' = IF entry.left = 0 THEN [count |-> 1, left |-> Endless]
                  ELSE [entry EXCEPT !.count = Counted(@)]
      /\ Limit \in Nat
  BY DoorsAssumption DEF DoorInv, Incr, At
<1>2. /\ visitor' \in [Visitors -> VisitorStages]
      /\ Cardinality(AboutToCount') = Cardinality(AboutToCount) - 1
      /\ Cardinality(Admitted') = Cardinality(Admitted)
  BY <1>1, VisitorGoes, VisitorsAreFew DEF VisitorStages, Counting
<1>3. /\ entry' \in [count : Nat, left : Int] /\ entry'.left # 0
      /\ Limit > 0 =>
           entry'.count = IF entry.count < Limit THEN entry.count + 1 ELSE entry.count
      /\ Limit > 0 => entry'.count <= Limit
  <2>1. CASE entry.left = 0
    BY <1>1, <2>1 DEF Endless, DoorTypes
  <2>2. CASE entry.left # 0
    BY <1>1, <2>2 DEF Counted, DoorTypes
  <2>. QED
    BY <2>1, <2>2
<1>4. EventsAreCounted'
  BY <1>1, <1>2, <1>3, VisitorsAreFew DEF EventsAreCounted, DoorTypes
<1>. QED
  BY <1>1, <1>2, <1>3, <1>4 DEF DoorInv, DoorTypes

\* cache.set over an entry nobody has counted in meanwhile.
LEMMA SetOneKeeps ==
  ASSUME DoorInv, NEW v \in Visitors, SetOne(v)
  PROVE  DoorInv'
<1>1. /\ DoorTypes /\ EventsAreCounted /\ done' = done
      /\ visitor[v] = "expired" /\ Goes(v, "outside")
      /\ entry' = [count |-> 1, left |-> Window]
      /\ lost' = (lost \/ entry.count > 0)
      /\ Limit \in Nat /\ Window \in Nat /\ Window # 0
  BY DoorsAssumption DEF DoorInv, SetOne, At
<1>2. /\ visitor' \in [Visitors -> VisitorStages]
      /\ Cardinality(AboutToCount') = Cardinality(AboutToCount) - 1
      /\ Cardinality(Admitted') = Cardinality(Admitted)
  BY <1>1, VisitorGoes, VisitorsAreFew DEF VisitorStages, Counting
<1>3. lost' \in BOOLEAN /\ (~lost' => ~lost /\ entry.count = 0)
  <2>1. lost' \in BOOLEAN
    BY <1>1, Zenon
  <2>2. ~lost' => ~lost /\ ~(entry.count > 0)
    BY <1>1, Zenon
  <2>3. entry.count \in Nat
    BY <1>1 DEF DoorTypes
  <2>. QED
    BY <2>1, <2>2, <2>3
<1>4. EventsAreCounted'
  <2> SUFFICES ASSUME Limit > 0, ~lost'
               PROVE  /\ 1 < Limit => done <= 1 + Cardinality(AboutToCount')
                      /\ 1 = Limit => done + Cardinality(Admitted') <= Limit + Cardinality(Visitors) - 1
    BY <1>1 DEF EventsAreCounted
  <2>1. done <= Cardinality(AboutToCount)
    BY <1>1, <1>3, VisitorsAreFew DEF EventsAreCounted
  <2>. QED
    BY <1>1, <1>2, <2>1, VisitorsAreFew DEF DoorTypes
<1>. QED
  BY <1>1, <1>2, <1>3, <1>4 DEF DoorInv, DoorTypes

\* The window ends: entry and events go together.
LEMMA TickKeeps ==
  ASSUME DoorInv, Tick
  PROVE  DoorInv'
<1>1. DoorTypes /\ EventsAreCounted /\ UNCHANGED <<visitor, lost>> /\ entry.left > 0
      /\ Limit \in Nat
  BY DoorsAssumption DEF DoorInv, Tick
<1>2. AboutToCount' = AboutToCount /\ Admitted' = Admitted
  BY <1>1 DEF AboutToCount, Admitted
<1>3. CASE entry.left = 1
  <2>1. entry' = [count |-> 0, left |-> 0] /\ done' = 0
    BY <1>3 DEF Tick, Gone
  <2>. QED
    BY <1>1, <1>2, <2>1, VisitorsAreFew DEF DoorInv, DoorTypes, EventsAreCounted
<1>4. CASE entry.left # 1
  <2>1. /\ entry' \in [count : Nat, left : Int] /\ entry'.count = entry.count
        /\ entry'.left # 0 /\ done' = done
    BY <1>1, <1>4 DEF Tick, DoorTypes
  <2>. QED
    BY <1>1, <1>2, <2>1 DEF DoorInv, DoorTypes, EventsAreCounted
<1>. QED
  BY <1>3, <1>4

LEMMA DoorsNextKeeps ==
  ASSUME DoorInv, DoorsNext
  PROVE  DoorInv'
BY EnterKeeps, EventKeeps, LeavingKeeps, AddKeeps, IncrKeeps, SetOneKeeps, TickKeeps
   DEF DoorsNext, SignInFails, Registers, AsksForLink, AsksForReset

LEMMA DoorInitially == Init => DoorInv
<1> SUFFICES ASSUME Init PROVE DoorInv
  OBVIOUS
<1>1. /\ entry = [count |-> 0, left |-> 0] /\ done = 0 /\ lost = FALSE
      /\ visitor = [v \in Visitors |-> "outside"]
  BY DEF Init, DoorsInit, Gone
<1>2. Limit \in Nat
  BY DoorsAssumption
<1>3. DoorTypes
  <2>1. visitor \in [Visitors -> VisitorStages]
    BY <1>1 DEF VisitorStages, Counting
  <2>2. /\ entry \in [count : Nat, left : Int] /\ entry.count = 0 /\ done \in Nat
        /\ Limit > 0 => entry.count <= Limit
    BY <1>1, <1>2
  <2>3. lost \in BOOLEAN
    BY <1>1, Zenon
  <2>. QED
    BY <2>1, <2>2, <2>3 DEF DoorTypes
<1>4. EventsAreCounted
  BY <1>1, <1>2, VisitorsAreFew DEF EventsAreCounted
<1>. QED
  BY <1>3, <1>4 DEF DoorInv

LEMMA DoorStep ==
  ASSUME DoorInv, [Next]_vars
  PROVE  DoorInv'
<1>1. CASE DoorsMove
  BY <1>1, DoorsNextKeeps DEF DoorsMove
<1>2. CASE UNCHANGED doorsVars
  BY <1>2 DEF doorsVars, DoorInv, DoorTypes, EventsAreCounted, AboutToCount, Admitted
<1>. QED
  BY <1>1, <1>2 DEF Next, TeamMoves, SendRateMoves, NoticesMove, SendersMove, LedgerMoves, vars

\* throttling.py, RateLimit: however the reads, the three cache calls and the
\* clock fall between each other, one window lets through the limit and at most
\* the requests admitted beside the last, unless a late set overwrote a count.
THEOREM WindowsAreBounded == Spec => []EventsBounded
<1>1. DoorInv /\ [Next]_vars => DoorInv'
  BY DoorStep
<1>2. DoorInv => EventsBounded
  <2> SUFFICES ASSUME DoorInv, Limit > 0, ~lost
               PROVE  done <= Limit + Cardinality(Visitors) - 1
    BY DEF EventsBounded
  <2>1. /\ entry.count \in Nat /\ entry.count <= Limit /\ done \in Nat /\ Limit \in Nat
        /\ entry.count < Limit => done <= entry.count + Cardinality(AboutToCount)
        /\ entry.count = Limit =>
             done + Cardinality(Admitted) <= Limit + Cardinality(Visitors) - 1
    BY DoorsAssumption DEF DoorInv, DoorTypes, EventsAreCounted
  <2>. QED
    BY <2>1, VisitorsAreFew
<1>. QED
  BY <1>1, <1>2, DoorInitially, PTL DEF Spec
-----------------------------------------------------------------------------
(***************************************************************************)
(* Senders: a row was rendered with a value for each placeholder of the    *)
(* template the launch had loaded, because the launch itself compared the  *)
(* two; the send task reads the placeholders of today's template, and what *)
(* it finds for them are those values as long as the text is the same.     *)
(* How the placeholders of a text are found plays no part.                 *)
(***************************************************************************)

RowFields == {"status", "values", "text", "from", "live", "sent", "read"}
AfterLaunch == {"queued", "sending", "sent", "failed"}

\* What is mirrored, read or loaded, if anything is, has a text.
TemplatesHaveTexts ==
  /\ registry # NoTemplate => registry.text \in Texts
  /\ fetched # NoTemplate => fetched.text \in Texts
  /\ template # NoTemplate => template.text \in Texts
  /\ campaign.chosen => template # NoTemplate
  /\ campaign.status = "launching" => campaign.loaded.text \in Texts

CampaignRow ==
  /\ DOMAIN campaign = {"status", "mapping", "chosen", "loaded"}
  /\ DOMAIN row = Rows
  /\ \A r \in Rows : DOMAIN row[r] = RowFields

\* What a placeholder may stand for in row r.
ValueFor(r, token, value) == value = token \/ (value = "" /\ r \in Blank)

RowsAreRendered ==
  \A r \in Rows :
    row[r].status \in AfterLaunch =>
      /\ row[r].text \in Texts
      /\ \A token \in Tokens[row[r].text] :
           token \in DOMAIN row[r].values /\ ValueFor(r, token, row[r].values[token])

\* What was handed over follows the text that was read for it.
SentFollowsTheRead ==
  \A r \in Handed :
    LET variables == Variables[row[r].read.text]
    IN /\ DOMAIN row[r].sent = DOMAIN variables
       /\ \A i \in DOMAIN variables :
            variables[i] \in DOMAIN row[r].values =>
              row[r].sent[i] = row[r].values[variables[i]]

SenderInv == TemplatesHaveTexts /\ CampaignRow /\ RowsAreRendered /\ SentFollowsTheRead

-----------------------------------------------------------------------------
LEMMA TokensAreVariables ==
  ASSUME NEW text \in Texts
  PROVE  \A i \in DOMAIN Variables[text] : Variables[text][i] \in Tokens[text]
<1> DEFINE variables == Variables[text]
<1>1. Tokens[text] = {variables[i] : i \in DOMAIN variables}
  BY DEF Tokens, ToSet
<1> HIDE DEF variables
<1> QED BY <1>1 DEF variables

\* Rows, and what was handed over, depend on nothing but the rows.
LEMMA RowsStay ==
  ASSUME SenderInv, UNCHANGED row
  PROVE  /\ DOMAIN row' = Rows /\ \A r \in Rows : DOMAIN row'[r] = RowFields
         /\ RowsAreRendered' /\ SentFollowsTheRead'
BY DEF SenderInv, CampaignRow, RowsAreRendered, SentFollowsTheRead, Handed

\* Requests and staff change accounts and templates.
LEMMA ChangesKeep ==
  ASSUME SenderInv, UNCHANGED row, DOMAIN campaign' = DOMAIN campaign, TemplatesHaveTexts'
  PROVE  SenderInv'
BY RowsStay DEF SenderInv, CampaignRow

LEMMA TemplateWritten ==
  ASSUME SenderInv, NEW text \in Texts, NEW source \in {"local", "synced"}, NEW status,
         template' = [source |-> source, status |-> status, text |-> text],
         UNCHANGED <<registry, fetched, campaign, row>>
  PROVE  SenderInv'
<1>1. template' # NoTemplate /\ template'.text \in Texts
  BY DEF NoTemplate
<1>2. TemplatesHaveTexts'
  BY <1>1 DEF SenderInv, TemplatesHaveTexts
<1> QED BY <1>2, ChangesKeep

LEMMA CommitLaunchKeeps ==
  ASSUME SenderInv, CommitLaunch
  PROVE  SenderInv'
<1> DEFINE text == campaign.loaded.text
<1>1. /\ UNCHANGED <<registry, template, fetched>>
      /\ campaign.status = "launching" /\ text \in Texts
  BY DEF CommitLaunch, SenderInv, TemplatesHaveTexts
<1>2. /\ DOMAIN campaign' = DOMAIN campaign
      /\ campaign'.status # "launching" /\ campaign'.chosen = campaign.chosen
  BY DEF CommitLaunch, SenderInv, CampaignRow
<1>3. TemplatesHaveTexts'
  BY <1>1, <1>2 DEF SenderInv, TemplatesHaveTexts
<1>4. CASE UNCHANGED row
  BY <1>2, <1>3, <1>4, ChangesKeep
<1>5. CASE /\ ReadyToSend(campaign.loaded)
           /\ row' = [r \in Rows |-> [NoRow EXCEPT !.status = "queued",
                        !.values = ResolveValues(r), !.text = text]]
  <2>1. \A r \in Rows :
          /\ DOMAIN row'[r] = RowFields /\ row'[r].status = "queued"
          /\ row'[r].values = ResolveValues(r) /\ row'[r].text = text
    BY <1>5 DEF NoRow, RowFields
  <2>2. DOMAIN row' = Rows
    BY <1>5
  <2>3. \A r \in Rows : \A token \in Tokens[text] :
          token \in DOMAIN ResolveValues(r) /\ ValueFor(r, token, ResolveValues(r)[token])
    BY <1>5 DEF ReadyToSend, ResolveValues, ValueFor
  <2>4. RowsAreRendered'
    <3> SUFFICES ASSUME NEW r \in Rows
                 PROVE  /\ row'[r].text \in Texts
                        /\ \A token \in Tokens[row'[r].text] :
                             /\ token \in DOMAIN row'[r].values
                             /\ ValueFor(r, token, row'[r].values[token])
      BY DEF RowsAreRendered
    <3>1. row'[r].text = text /\ row'[r].values = ResolveValues(r)
      BY <2>1
    <3> HIDE DEF text
    <3> QED BY <1>1, <2>3, <3>1
  <2>5. Handed' = {}
    BY <2>1 DEF Handed
  <2>6. SentFollowsTheRead'
    BY <2>5 DEF SentFollowsTheRead
  <2> QED BY <1>2, <1>3, <2>1, <2>2, <2>4, <2>6 DEF SenderInv, CampaignRow
<1> QED BY <1>4, <1>5 DEF CommitLaunch

\* A worker writes one row it has loaded: what was rendered stays.
LEMMA RowWritten ==
  ASSUME SenderInv, NEW r \in Rows, NEW written,
         row[r].status \in AfterLaunch, row' = [row EXCEPT ![r] = written],
         DOMAIN written = RowFields,
         written.values = row[r].values, written.text = row[r].text,
         \/ written.status = "sending"
         \/ written.sent = BodyVariables(r) /\ written.read = template,
         UNCHANGED <<registry, template, fetched, campaign>>
  PROVE  SenderInv'
<1>1. \A q \in Rows : row'[q] = IF q = r THEN written ELSE row[q]
  BY DEF SenderInv, CampaignRow
<1>2. CampaignRow' /\ TemplatesHaveTexts'
  BY <1>1 DEF SenderInv, CampaignRow, TemplatesHaveTexts
<1>3. RowsAreRendered'
  <2> SUFFICES ASSUME NEW q \in Rows, row'[q].status \in AfterLaunch
               PROVE  /\ row'[q].text \in Texts
                      /\ \A token \in Tokens[row'[q].text] :
                           /\ token \in DOMAIN row'[q].values
                           /\ ValueFor(q, token, row'[q].values[token])
    BY DEF RowsAreRendered
  <2>1. /\ row'[q].text = row[q].text /\ row'[q].values = row[q].values
        /\ row[q].status \in AfterLaunch
    BY <1>1
  <2>2. /\ row[q].text \in Texts
        /\ \A token \in Tokens[row[q].text] :
             token \in DOMAIN row[q].values /\ ValueFor(q, token, row[q].values[token])
    BY <2>1 DEF SenderInv, RowsAreRendered
  <2> QED BY <2>1, <2>2
<1>4. SentFollowsTheRead'
  <2> SUFFICES ASSUME NEW q \in Handed', NEW variables, variables = Variables[row'[q].read.text]
               PROVE  /\ DOMAIN row'[q].sent = DOMAIN variables
                      /\ \A i \in DOMAIN variables :
                           variables[i] \in DOMAIN row'[q].values =>
                             row'[q].sent[i] = row'[q].values[variables[i]]
    BY DEF SentFollowsTheRead
  <2>1. q \in Rows /\ row'[q].status \in {"sent", "failed"}
    BY DEF Handed
  <2>2. CASE q = r
    <3>1. /\ row'[q].sent = BodyVariables(r) /\ variables = Variables[template.text]
          /\ row'[q].values = row[r].values
      BY <1>1, <2>1, <2>2
    <3>2. BodyVariables(r) =
            [i \in DOMAIN variables |->
               IF variables[i] \in DOMAIN row[r].values THEN row[r].values[variables[i]] ELSE ""]
      BY <3>1 DEF BodyVariables
    <3> QED BY <3>1, <3>2
  <2>3. CASE q # r
    <3>1. row'[q] = row[q] /\ q \in Handed
      BY <1>1, <2>1, <2>3 DEF Handed
    <3> QED BY <3>1 DEF SenderInv, SentFollowsTheRead
  <2> QED BY <2>2, <2>3
<1> QED BY <1>2, <1>3, <1>4 DEF SenderInv

LEMMA SenderForKeeps ==
  ASSUME SenderInv, NEW r \in Rows, SenderFor(r)
  PROVE  SenderInv'
<1>1. row[r].status \in AfterLaunch /\ UNCHANGED <<registry, template, fetched, campaign>>
  BY DEF SenderFor, AfterLaunch
<1>2. DOMAIN row = Rows /\ DOMAIN row[r] = RowFields
  BY DEF SenderInv, CampaignRow
<1>3. PICK from, live :
        row' = [row EXCEPT ![r].status = "sending", ![r].from = from, ![r].live = live]
  BY DEF SenderFor
<1> DEFINE written == [row[r] EXCEPT !.status = "sending", !.from = from, !.live = live]
<1>4. row' = [row EXCEPT ![r] = written]
  BY <1>2, <1>3
<1>5. /\ DOMAIN written = RowFields /\ written.status = "sending"
      /\ written.values = row[r].values /\ written.text = row[r].text
  BY <1>2 DEF RowFields
<1> HIDE DEF written
<1> QED BY <1>1, <1>4, <1>5, RowWritten

LEMMA SendTemplateKeeps ==
  ASSUME SenderInv, NEW r \in Rows, SendTemplate(r)
  PROVE  SenderInv'
<1>1. row[r].status \in AfterLaunch /\ UNCHANGED <<registry, template, fetched, campaign>>
  BY DEF SendTemplate, AfterLaunch
<1>2. DOMAIN row = Rows /\ DOMAIN row[r] = RowFields
  BY DEF SenderInv, CampaignRow
<1>3. PICK outcome :
        row' = [row EXCEPT ![r].status = outcome, ![r].sent = BodyVariables(r),
                           ![r].read = template]
  BY DEF SendTemplate
<1> DEFINE written == [row[r] EXCEPT !.status = outcome, !.sent = BodyVariables(r), !.read = template]
<1>4. row' = [row EXCEPT ![r] = written]
  BY <1>2, <1>3
<1>5. /\ DOMAIN written = RowFields
      /\ written.sent = BodyVariables(r) /\ written.read = template
      /\ written.values = row[r].values /\ written.text = row[r].text
  BY <1>2 DEF RowFields
<1> HIDE DEF written
<1> QED BY <1>1, <1>4, <1>5, RowWritten

LEMMA SendersNextKeeps ==
  ASSUME SenderInv, SendersNext
  PROVE  SenderInv'
<1>1. ASSUME NEW a \in Names, NEW provider \in {"mock", "meta"},
             NEW default \in BOOLEAN, NEW entered \in BOOLEAN,
             NEW status \in {"unverified", "active", "disabled"},
             SaveAccount(a, provider, status, default, entered)
      PROVE  SenderInv'
  <2>1. UNCHANGED <<registry, template, fetched, campaign, row>>
    BY <1>1 DEF SaveAccount
  <2> QED BY <2>1, ChangesKeep DEF SenderInv, TemplatesHaveTexts
<1>2. ASSUME NEW text \in Texts, NEW status \in {"approved", "rejected"}, MetaDecides(status, text)
      PROVE  SenderInv'
  <2>1. registry'.text \in Texts /\ UNCHANGED <<template, fetched, campaign, row>>
    BY <1>2 DEF MetaDecides
  <2>2. TemplatesHaveTexts'
    BY <2>1 DEF SenderInv, TemplatesHaveTexts
  <2> QED BY <2>1, <2>2, ChangesKeep
<1>3. ASSUME NEW text \in Texts, NEW status \in {"approved", "rejected"},
             EditTemplate("synced", status, text)
      PROVE  SenderInv'
  BY <1>3, TemplateWritten DEF EditTemplate
<1>4. ASSUME NEW text \in Texts,
             CreateLocal(text) \/ EditTemplate("local", "not submitted", text)
      PROVE  SenderInv'
  BY <1>4, TemplateWritten DEF CreateLocal, EditTemplate
<1>5. CASE FetchTemplates \/ ApplyTemplate
  <2>1. TemplatesHaveTexts' /\ UNCHANGED <<campaign, row>>
    BY <1>5 DEF FetchTemplates, ApplyTemplate, SenderInv, TemplatesHaveTexts
  <2> QED BY <2>1, ChangesKeep
<1>6. ASSUME NEW mapping \in Mappings, SetMessage(mapping) PROVE SenderInv'
  <2>1. /\ DOMAIN campaign' = DOMAIN campaign /\ campaign'.status = "draft"
        /\ template # NoTemplate /\ UNCHANGED <<registry, template, fetched, row>>
    BY <1>6 DEF SetMessage, SenderInv, CampaignRow
  <2>2. TemplatesHaveTexts'
    BY <2>1 DEF SenderInv, TemplatesHaveTexts
  <2> QED BY <2>1, <2>2, ChangesKeep
<1>7. CASE OpenLaunch
  <2>1. /\ DOMAIN campaign' = DOMAIN campaign /\ campaign'.chosen = campaign.chosen
        /\ campaign'.loaded = template /\ campaign.chosen
        /\ UNCHANGED <<registry, template, fetched, row>>
    BY <1>7 DEF OpenLaunch, SenderInv, CampaignRow
  <2>2. TemplatesHaveTexts'
    BY <2>1 DEF SenderInv, TemplatesHaveTexts
  <2> QED BY <2>1, <2>2, ChangesKeep
<1>8. CASE CommitLaunch
  BY <1>8, CommitLaunchKeeps
<1>9. ASSUME NEW r \in Rows, SenderFor(r) \/ SendTemplate(r) PROVE SenderInv'
  BY <1>9, SenderForKeeps, SendTemplateKeeps
<1> QED BY <1>1, <1>2, <1>3, <1>4, <1>5, <1>6, <1>7, <1>8, <1>9 DEF SendersNext

LEMMA SendersInitially == Init => SenderInv
<1> SUFFICES ASSUME Init PROVE SenderInv
  OBVIOUS
<1>1. /\ registry = NoTemplate /\ template = NoTemplate /\ fetched = NoTemplate
      /\ campaign = [status |-> "draft", mapping |-> <<>>, chosen |-> FALSE, loaded |-> NoTemplate]
      /\ row = [r \in Rows |-> NoRow]
  BY DEF Init, SendersInit
<1>2. DOMAIN NoRow = RowFields /\ NoRow.status = "none"
  BY DEF NoRow, RowFields
<1>3. ~campaign.chosen /\ campaign.status = "draft"
      /\ DOMAIN campaign = {"status", "mapping", "chosen", "loaded"}
  BY <1>1
<1>4. TemplatesHaveTexts
  BY <1>1, <1>3 DEF TemplatesHaveTexts
<1>5. CampaignRow /\ RowsAreRendered /\ SentFollowsTheRead
  BY <1>1, <1>2, <1>3 DEF CampaignRow, RowsAreRendered, SentFollowsTheRead, Handed, AfterLaunch
<1> QED BY <1>4, <1>5 DEF SenderInv

LEMMA SendersStep ==
  ASSUME SenderInv, [Next]_vars
  PROVE  SenderInv'
<1>1. CASE SendersMove
  BY <1>1, SendersNextKeeps DEF SendersMove
<1>2. CASE UNCHANGED sendersVars
  <2>1. UNCHANGED <<registry, template, fetched, campaign, row>>
    BY <1>2 DEF sendersVars
  <2> QED BY <2>1, ChangesKeep DEF SenderInv, TemplatesHaveTexts
<1> QED BY <1>1, <1>2 DEF Next, TeamMoves, DoorsMove, SendRateMoves, NoticesMove, LedgerMoves, vars

\* campaigns/services.py, validation_blockers and resolve_values, and the send
\* task: whatever was synced, edited or chosen in between, a message handed
\* over under the text it was rendered for has a value for every placeholder.
THEOREM NoPlaceholderIsLeftOpen == Spec => []ValuesFollowTheText
<1>1. SenderInv /\ [Next]_vars => SenderInv'
  BY SendersStep
<1>2. SenderInv => ValuesFollowTheText
  <2> SUFFICES ASSUME SenderInv, NEW r \in Handed, row[r].read.text = row[r].text
               PROVE  /\ DOMAIN row[r].sent = DOMAIN Variables[row[r].text]
                      /\ \A i \in DOMAIN row[r].sent :
                           \/ row[r].sent[i] = Variables[row[r].text][i]
                           \/ row[r].sent[i] = "" /\ r \in Blank
    BY DEF ValuesFollowTheText
  <2> DEFINE text == row[r].text
  <2>1. /\ text \in Texts
        /\ \A token \in Tokens[text] :
             token \in DOMAIN row[r].values /\ ValueFor(r, token, row[r].values[token])
    BY DEF SenderInv, RowsAreRendered, Handed, AfterLaunch
  <2>2. /\ DOMAIN row[r].sent = DOMAIN Variables[text]
        /\ \A i \in DOMAIN Variables[text] :
             Variables[text][i] \in DOMAIN row[r].values =>
               row[r].sent[i] = row[r].values[Variables[text][i]]
    BY DEF SenderInv, SentFollowsTheRead
  <2>3. \A i \in DOMAIN Variables[text] : Variables[text][i] \in Tokens[text]
    BY <2>1, TokensAreVariables
  <2> HIDE DEF text
  <2>4. \A i \in DOMAIN row[r].sent : ValueFor(r, Variables[text][i], row[r].sent[i])
    BY <2>1, <2>2, <2>3
  <2> QED BY <2>2, <2>4 DEF ValueFor, text
<1> QED BY <1>1, <1>2, SendersInitially, PTL DEF Spec

=============================================================================
