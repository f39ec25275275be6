------------------------------- MODULE Doors --------------------------------
(***************************************************************************)
(* One unauthenticated door and the counter that throttles it: sign-in,    *)
(* sign-up, or the requests that mail somebody.  The three are the same    *)
(* RateLimit; they differ in what is counted and what resets it.           *)
(*                                                                         *)
(* The counter is a cache entry with a time to live.  A request reads it,  *)
(* does its work, and counts it in up to three calls of the cache, beside  *)
(* the other requests from the same address.                               *)
(***************************************************************************)
EXTENDS Integers, FiniteSets

CONSTANTS
  Visitors,  \* requests from one client address
  Limit,     \* LOGIN_ATTEMPT_LIMIT, SIGNUP_LIMIT, OUTBOUND_EMAIL_LIMIT
  Window     \* their windows, in ticks of the clock

ASSUME DoorsAssumption ==
  /\ IsFiniteSet(Visitors)
  /\ Limit \in Nat
  /\ Window \in Nat \ {0}

VARIABLES
  door,     \* which of the three
  entry,    \* the cache entry: its count and time to live, no entry when left = 0
  visitor,  \* how far each request is
  done,     \* history: events of the entry's window
  lost      \* history: a late cache.set overwrote a count

doorsVars == <<door, entry, visitor, done, lost>>

Gone == [count |-> 0, left |-> 0]

\* TTL of a key that does not expire.
Endless == -1

\* A count above Limit is treated like Limit, and kept there.
Counted(n) == IF n < Limit THEN n + 1 ELSE n

\* is_exceeded; a limit of 0 disables it.
IsExceeded == Limit > 0 /\ entry.count >= Limit

At(v, stage) == visitor[v] = stage
Goes(v, stage) == visitor' = [visitor EXCEPT ![v] = stage]
Underway == {v \in Visitors : visitor[v] \in {"admitted", "counting", "added", "found", "expired"}}

-----------------------------------------------------------------------------
(* The doors *)

\* The check at the top of post(); a blocked sign-in is an invalid form, and
\* LoginView.form_invalid counts every invalid form.
Enter(v) ==
  /\ At(v, "outside")
  /\ \/ ~IsExceeded /\ Goes(v, "admitted")
     \/ IsExceeded /\ door = "login" /\ Goes(v, "counting")
  /\ UNCHANGED <<door, entry, done, lost>>

\* Work that counts: a failed sign-in, an account created, a mail asked for.
Event(v) ==
  /\ At(v, "admitted")
  /\ Goes(v, "counting")
  /\ done' = IF done < Limit + Cardinality(Visitors) THEN done + 1 ELSE done
  /\ UNCHANGED <<door, entry, lost>>

SignInFails(v) == door = "login" /\ Event(v)
Registers(v) == door = "signup" /\ Event(v)
AsksForLink(v) == door = "email" /\ Event(v)    \* ResendVerificationView
AsksForReset(v) == door = "email" /\ Event(v)   \* ThrottledPasswordResetView

\* LoginView.form_valid: reset, cache.delete.
SignsIn(v) ==
  /\ door = "login"
  /\ At(v, "admitted")
  /\ Goes(v, "outside")
  /\ entry' = Gone
  /\ done' = 0
  /\ UNCHANGED <<door, lost>>

\* RegisterView: a rejected form costs nothing.
FormRejected(v) ==
  /\ door = "signup"
  /\ At(v, "admitted")
  /\ Goes(v, "outside")
  /\ UNCHANGED <<door, entry, done, lost>>

-----------------------------------------------------------------------------
(* RateLimit.record, one cache call at a time *)

\* Faulty: every event starts the window again.
AddAfresh(v) ==
  /\ At(v, "counting")
  /\ Goes(v, "added")
  /\ entry' = [entry EXCEPT !.left = Window]
  /\ UNCHANGED <<door, done, lost>>

\* cache.add(key, 0, window): only when there is no entry.
Add(v) ==
  /\ At(v, "counting")
  /\ Goes(v, "added")
  /\ entry' = IF entry.left = 0 THEN [count |-> 0, left |-> Window] ELSE entry
  /\ UNCHANGED <<door, done, lost>>

\* cache.incr asks first whether there is an entry.
Exists(v) ==
  /\ At(v, "added")
  /\ Goes(v, IF entry.left = 0 THEN "expired" ELSE "found")
  /\ UNCHANGED <<door, entry, done, lost>>

\* Faulty: nobody is counted beside somebody else.
IncrOnce(v) ==
  /\ At(v, "found")
  /\ Goes(v, "outside")
  /\ entry.left # 0
  /\ entry' = IF \E w \in Visitors \ {v} : At(w, "found") THEN entry
              ELSE [entry EXCEPT !.count = Counted(@)]
  /\ UNCHANGED <<door, done, lost>>

\* Then INCR: a time to live is kept, and an entry that has gone since is made
\* anew without one.
Incr(v) ==
  /\ At(v, "found")
  /\ Goes(v, "outside")
  /\ entry' = IF entry.left = 0 THEN [count |-> 1, left |-> Endless]
              ELSE [entry EXCEPT !.count = Counted(@)]
  /\ UNCHANGED <<door, done, lost>>

\* cache.set(key, 1, window), over whatever others have counted by now.
SetOne(v) ==
  /\ At(v, "expired")
  /\ Goes(v, "outside")
  /\ entry' = [count |-> 1, left |-> Window]
  /\ lost' = (lost \/ entry.count > 0)
  /\ UNCHANGED <<door, done>>

\* The clock; the entry goes when its time has come.
Tick ==
  /\ entry.left > 0
  /\ entry' = IF entry.left = 1 THEN Gone ELSE [entry EXCEPT !.left = @ - 1]
  /\ done' = IF entry.left = 1 THEN 0 ELSE done
  /\ UNCHANGED <<door, visitor, lost>>

-----------------------------------------------------------------------------
DoorsInit ==
  /\ door \in {"login", "signup", "email"}
  /\ entry = Gone
  /\ visitor = [v \in Visitors |-> "outside"]
  /\ done = 0
  /\ lost = FALSE

DoorsNext ==
  \/ \E v \in Visitors :
       \/ Enter(v)
       \/ SignInFails(v)
       \/ Registers(v)
       \/ AsksForLink(v)
       \/ AsksForReset(v)
       \/ SignsIn(v)
       \/ FormRejected(v)
       \/ Add(v)
       \/ Exists(v)
       \/ Incr(v)
       \/ SetOne(v)
  \/ Tick

DoorsTypeOK ==
  /\ door \in {"login", "signup", "email"}
  /\ entry \in [count : Nat, left : {Endless} \cup 0 .. Window]
  /\ visitor \in [Visitors -> {"outside", "admitted", "counting", "added", "found", "expired"}]
  /\ done \in 0 .. Limit + Cardinality(Visitors)
  /\ lost \in BOOLEAN

-----------------------------------------------------------------------------
\* However the cache calls of several requests fall between each other, one
\* window lets through the limit and at most the requests that had been
\* admitted beside the last one; a set that overwrites a count aside.
EventsBounded ==
  Limit > 0 /\ ~lost => done <= Limit + Cardinality(Visitors) - 1

\* A block ends by itself however many keep knocking, because counting leaves
\* the time to live alone: while the entry has one.
DatedBlocksExpire == []<>(IsExceeded => entry.left = Endless)

-----------------------------------------------------------------------------
\* throttling.py:112 accepts "One lost event": a count is never set back.
\* The code does not keep this (see the README).
NothingIsOverwritten == ~lost

\* throttling.py:9, "every block expires on its own": none is without an end.
BlocksAreDated == IsExceeded => entry.left > 0

=============================================================================
