------------------------------- MODULE Office --------------------------------
(***************************************************************************)
(* The small protocols of an installation next to each other: seats, doors, *)
(* the send rate, notices, senders and invoice numbers.  They run in the   *)
(* same processes but share no row and no cache entry, so every behaviour  *)
(* of them together is an interleaving of behaviours of each, and a        *)
(* property of one can be judged while the others rest.  `part` is the one *)
(* that moves.                                                             *)
(***************************************************************************)
EXTENDS Team, Doors, SendRate, Notices, Senders, Ledger

VARIABLE part

vars == <<part, teamVars, doorsVars, sendRateVars, noticesVars, sendersVars,
          ledgerVars>>

Parts == {"team", "doors", "rate", "notices", "senders", "ledger"}

\* The parts that rest do so in one of their initial states.
Init ==
  /\ part \in Parts
  /\ TeamInit /\ DoorsInit /\ SendRateInit /\ NoticesInit /\ SendersInit
  /\ LedgerInit
  /\ part # "team" => seats = CHOOSE n \in SeatLimits : TRUE
  /\ part # "doors" => door = "login"
  /\ part # "senders" => settings = [provider |-> "mock", require |-> FALSE]

TeamMoves ==
  /\ part = "team" /\ TeamNext
  /\ UNCHANGED <<part, doorsVars, sendRateVars, noticesVars, sendersVars, ledgerVars>>

DoorsMove ==
  /\ part = "doors" /\ DoorsNext
  /\ UNCHANGED <<part, teamVars, sendRateVars, noticesVars, sendersVars, ledgerVars>>

SendRateMoves ==
  /\ part = "rate" /\ SendRateNext
  /\ UNCHANGED <<part, teamVars, doorsVars, noticesVars, sendersVars, ledgerVars>>

NoticesMove ==
  /\ part = "notices" /\ NoticesNext
  /\ UNCHANGED <<part, teamVars, doorsVars, sendRateVars, sendersVars, ledgerVars>>

SendersMove ==
  /\ part = "senders" /\ SendersNext
  /\ UNCHANGED <<part, teamVars, doorsVars, sendRateVars, noticesVars, ledgerVars>>

LedgerMoves ==
  /\ part = "ledger" /\ LedgerNext
  /\ UNCHANGED <<part, teamVars, doorsVars, sendRateVars, noticesVars, sendersVars>>

Next == TeamMoves \/ DoorsMove \/ SendRateMoves \/ NoticesMove \/ SendersMove
        \/ LedgerMoves

\* Only the clock is owed anything: entries of the cache expire by themselves.
ClockTicks ==
  /\ part = "doors" /\ Tick
  /\ UNCHANGED <<part, teamVars, sendRateVars, noticesVars, sendersVars, ledgerVars>>

Spec == Init /\ [][Next]_vars /\ WF_vars(ClockTicks)

\* The values each part can have.
TypeOK ==
  /\ part \in Parts
  /\ TeamTypeOK
  /\ DoorsTypeOK
  /\ SendRateTypeOK
  /\ NoticesTypeOK
  /\ SendersTypeOK
  /\ LedgerTypeOK

=============================================================================
