------------------------------ MODULE SendRate ------------------------------
(***************************************************************************)
(* The token bucket that send tasks share through Redis.  A worker reads   *)
(* its own clock, then the script refills and takes in one step; in        *)
(* between other workers' scripts run, so clock readings reach the bucket  *)
(* late and out of order.                                                  *)
(*                                                                         *)
(* Time is in ticks and tokens in grains, so that rates below one token a  *)
(* second stay integers: Rate grains a tick, Token grains a send.          *)
(***************************************************************************)
EXTENDS Integers, FiniteSets

CONSTANTS
  Senders,      \* send tasks
  Rate, Token,  \* WHATSAPP_SEND_RATE_PER_SECOND is Rate * Second / Token
  Second,       \* ticks in a second
  Slack,        \* the seconds EXPIRE adds (60 in the code)
  MaxLag,       \* bound: ticks between reading the clock and the script
  MaxTime       \* bound: ticks in a behaviour

ASSUME SendRateAssumption ==
  /\ {Rate, Token, Second} \subseteq Nat \ {0}
  /\ {Slack, MaxLag, MaxTime} \subseteq Nat

CeilingDiv(a, b) == (a + b - 1) \div b
Larger(a, b) == IF a > b THEN a ELSE b
Smaller(a, b) == IF a < b THEN a ELSE b

\* capacity = max(1.0, rate_per_second), and EXPIRE key ceil(capacity/rate)+60.
Capacity == Larger(Token, Rate * Second)
Lifetime == Second * (CeilingDiv(Capacity, Rate * Second) + Slack)

VARIABLES
  now,      \* the time
  bucket,   \* the hash in Redis: tokens, updated, and when it expires
  sender,   \* the clock reading a task holds, or when it will try again
  since,    \* history: when the counting of sends began, at any moment
  taken,    \* history: sends the bucket has allowed since
  late      \* history: ticks by which scripts came after their readings since

sendRateVars == <<now, bucket, sender, since, taken, late>>

Empty == [tokens |-> 0, updated |-> 0, expires |-> -1]
Ready == [stage |-> "ready", at |-> 0]
Present == bucket.expires > now

\* retry_after: whole seconds, rounded up, at least one.
RetryAfter(tokens) == Larger(1, CeilingDiv(Token - tokens, Rate * Second))

-----------------------------------------------------------------------------
\* acquire: time.time(), sent as an argument of the script.
ReadClock(s) ==
  /\ sender[s].stage = "ready" \/ (sender[s].stage = "waits" /\ sender[s].at <= now)
  /\ sender' = [sender EXCEPT ![s] = [stage |-> "read", at |-> now]]
  /\ UNCHANGED <<now, bucket, since, taken, late>>

\* Faulty: the bucket may hold any number of tokens.
RefillWithoutCap(read) ==
  IF Present THEN bucket.tokens + Larger(0, read - bucket.updated) * Rate ELSE Capacity

\* The script's refill: a missing bucket is a full one.
Refill(read) ==
  IF Present
  THEN Smaller(Capacity, bucket.tokens + Larger(0, read - bucket.updated) * Rate)
  ELSE Capacity

\* BUCKET_SCRIPT_LUA: updated becomes the caller's reading, be it the older.
RunScript(s) ==
  LET read == sender[s].at
      tokens == Refill(read)
      allowed == tokens >= Token
      left == IF allowed THEN tokens - Token ELSE tokens
  IN /\ sender[s].stage = "read"
     /\ bucket' = [tokens |-> left, updated |-> read, expires |-> now + Lifetime]
     /\ taken' = IF allowed THEN taken + 1 ELSE taken
     /\ late' = late + (now - read)
     /\ sender' = [sender EXCEPT ![s] =
                     IF allowed THEN Ready
                     ELSE [stage |-> "waits", at |-> now + Second * RetryAfter(left)]]
     /\ UNCHANGED <<now, since>>

\* Redis does not answer: the send goes through, uncounted.
Unavailable(s) ==
  /\ sender[s].stage = "read"
  /\ sender' = [sender EXCEPT ![s] = Ready]
  /\ UNCHANGED <<now, bucket, since, taken, late>>

\* Time passes, but no script is later than MaxLag; Redis drops what expired.
Pass ==
  /\ now < MaxTime
  /\ \A s \in Senders : sender[s].stage = "read" => now - sender[s].at < MaxLag
  /\ now' = now + 1
  /\ bucket' = IF bucket.expires = now + 1 THEN Empty ELSE bucket
  /\ UNCHANGED <<sender, since, taken, late>>

\* The window the properties look at may begin at any time, once.
Mark ==
  /\ since = 0 /\ now > 0
  /\ since' = now
  /\ taken' = 0
  /\ late' = 0
  /\ UNCHANGED <<now, bucket, sender>>

-----------------------------------------------------------------------------
SendRateInit ==
  /\ now = 0
  /\ bucket = Empty
  /\ sender = [s \in Senders |-> Ready]
  /\ since = 0
  /\ taken = 0
  /\ late = 0

SendRateNext ==
  \/ \E s \in Senders : ReadClock(s) \/ RunScript(s) \/ Unavailable(s)
  \/ Pass
  \/ Mark

SendRateTypeOK ==
  /\ now \in 0 .. MaxTime
  /\ bucket.tokens \in 0 .. Capacity
  /\ \A s \in Senders : sender[s].stage \in {"ready", "read", "waits"}
  /\ taken \in Nat
  /\ late \in Nat

-----------------------------------------------------------------------------
\* In any stretch of time all workers together are allowed one bucket and the
\* rate, however late their readings arrive and whenever the bucket expires,
\* but for the time readings were late by, which may be refilled twice.
SendsBounded ==
  taken * Token <= Capacity + Rate * (now - since + late)

\* rate_limiter.py:11, the limit is "shared across every worker process": they
\* keep to the rate together.  Late readings break it (see the README).
RateIsKept ==
  taken * Token <= Capacity + Rate * (now - since)

=============================================================================
