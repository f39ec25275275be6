----------------------------- MODULE SendClaims -----------------------------
(***************************************************************************)
(* What the claim protocol promises about a message, without workers,      *)
(* rows, queues or campaigns: somebody claims it, makes at most one        *)
(* provider call under that claim, and then hands it back or closes it.    *)
(* A message the provider is known to have taken is only ever closed, a    *)
(* closed message is never opened again, and the number of calls is        *)
(* bounded.                                                                *)
(***************************************************************************)
EXTENDS Naturals

CONSTANTS Messages,   \* recipients of the campaign
          MaxCalls    \* provider calls allowed per message

VARIABLES phase,   \* where each message stands
          called   \* provider calls made for each message

\* Phases: "absent", "open", "claimed", "taken", "failed", "closed".
Move(S, from, to) ==
  /\ \A m \in S : phase[m] \in from
  /\ phase' = [m \in Messages |-> IF m \in S THEN to ELSE phase[m]]

Init == /\ phase = [m \in Messages |-> "absent"]
        /\ called = [m \in Messages |-> 0]

\* A launch opens any number of messages, a cancel closes every open one.
Materialize(S) == Move(S, {"absent"}, "open") /\ UNCHANGED called
Abandon(S)     == Move(S, {"open"}, "closed") /\ UNCHANGED called

Claim(m) == Move({m}, {"open"}, "claimed") /\ UNCHANGED called

\* The one call of a claim, answered by an acceptance or by a failure.
Call(m) ==
  /\ called[m] < MaxCalls
  /\ called' = [called EXCEPT ![m] = @ + 1]
  /\ Move({m}, {"claimed"}, "taken") \/ Move({m}, {"claimed"}, "failed")

HandBack(m) == Move({m}, {"claimed", "failed"}, "open") /\ UNCHANGED called

\* An outcome is recorded, or the claim dies with its worker.
Close(m) == Move({m}, {"claimed", "taken", "failed"}, "closed") /\ UNCHANGED called

Next ==
  \/ \E S \in SUBSET Messages : Materialize(S) \/ Abandon(S)
  \/ \E m \in Messages : Claim(m) \/ Call(m) \/ HandBack(m) \/ Close(m)

Spec == Init /\ [][Next]_<<phase, called>>

=============================================================================
