--------------------------- MODULE CampaignStates ---------------------------
(***************************************************************************)
(* The statuses of a campaigns.models.Campaign row and its transition      *)
(* table.                                                                  *)
(***************************************************************************)

\* CampaignStatus
CampaignStatus ==
  {"draft", "scheduled", "processing", "paused", "completed", "failed",
   "cancelled"}

\* ALLOWED_TRANSITIONS
AllowedTransitions ==
  [draft      |-> {"scheduled", "processing", "cancelled"},
   scheduled  |-> {"draft", "processing", "cancelled"},
   processing |-> {"paused", "completed", "failed", "cancelled"},
   paused     |-> {"processing", "cancelled", "completed"},
   completed  |-> {},
   failed     |-> {"cancelled"},
   cancelled  |-> {}]

\* EDITABLE_STATUSES, which Campaign.can_launch also asks for.
Editable == {"draft", "scheduled"}

\* HALTED_STATUSES of whatsapp/tasks.py: workers stop doing anything.
Halted == {"paused", "cancelled", "failed"}

=============================================================================
