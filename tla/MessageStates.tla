--------------------------- MODULE MessageStates ---------------------------
(***************************************************************************)
(* The statuses of a messaging.models.Message row and the sets and the     *)
(* order the rest of the code asks about.  A row that does not exist yet   *)
(* has the status "absent".                                                *)
(***************************************************************************)
EXTENDS Naturals

\* MessageStatus
MessageStatus ==
  {"pending", "queued", "sending", "sent", "delivered", "read", "failed"}

\* STATUS_RANK: a report is applied only if it ranks above the row.
StatusRank ==
  [pending |-> 0, queued |-> 1, sending |-> 2, sent |-> 3,
   delivered |-> 4, read |-> 5, failed |-> 6]

\* IN_FLIGHT_STATUSES: a worker is still expected to act on the row.
InFlight == {"pending", "queued", "sending"}

\* TERMINAL_STATUSES
Terminal == {"sent", "delivered", "read", "failed"}

\* CLAIMABLE_STATUSES: a send may be attempted.
Claimable == {"pending", "queued"}

\* Message.outranks: a row (or a stale copy of it) with status `have` is
\* already at or beyond the reported status.
Outranks(have, report) == StatusRank[have] >= StatusRank[report]

=============================================================================
