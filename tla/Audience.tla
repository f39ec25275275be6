------------------------------ MODULE Audience ------------------------------
(***************************************************************************)
(* One campaign from its draft to its message rows, beside the contacts it *)
(* may reach: the wizard and API requests that fill the draft in, and the  *)
(* launch that resolves the audience by consent and makes one row for each *)
(* recipient.  What happens to the rows then is SendPipeline's.            *)
(*                                                                         *)
(* Every request loads the campaign first and acts on that copy; the       *)
(* launch is one transaction of two statements that matter, the query that *)
(* lists the recipients and the insert of their rows.                      *)
(***************************************************************************)
EXTENDS Contacts

CONSTANTS
  Sender,         \* the organization of the campaign
  Requests,       \* dashboard and API requests on the campaign
  MaxRecipients,  \* CAMPAIGN_MAX_RECIPIENTS
  MaxSteps        \* bound: requests on the campaign in a behaviour

ASSUME AudienceAssumption ==
  /\ Sender \in Orgs
  /\ MaxRecipients \in Nat
  /\ MaxSteps \in Nat

NoCampaign == [status |-> "none", channel |-> "whatsapp", all |-> FALSE, message |-> FALSE]
Editable == {"draft", "scheduled"}
Free == [stage |-> "free", copy |-> NoCampaign]

VARIABLES
  campaign,  \* status, channel, target_all_eligible, whether it has a message
  target,    \* the CampaignAudience rows
  request,   \* the campaign each request loaded, the recipients a launch listed
  recipient, \* the Message rows: contact and channel
  steps

campaignVars == <<campaign, target, request, recipient, steps>>
vars == <<contactVars, campaignVars>>

\* create_campaign.
CreateCampaign(channel) ==
  /\ campaign = NoCampaign
  /\ campaign' = [NoCampaign EXCEPT !.status = "draft", !.channel = channel]
  /\ UNCHANGED <<contactVars, target, request, recipient, steps>>

\* CampaignCreateView, step 1 of the wizard, asks for the channel.
CreateOnWizard == \E channel \in Channels : CreateCampaign(channel)

\* CampaignViewSet.perform_create passes none: the default is WhatsApp.
CreateByApiClient == CreateCampaign("whatsapp")

\* get_object, in every view and API action.
Load(r) ==
  /\ steps < MaxSteps
  /\ request[r] = Free
  /\ campaign # NoCampaign
  /\ request' = [request EXCEPT ![r] = [stage |-> "loaded", copy |-> campaign]]
  /\ steps' = steps + 1
  /\ UNCHANGED <<contactVars, campaign, target, recipient>>

\* A request whose campaign has been deleted meanwhile changes nothing: its
\* UPDATE matches no row, or its rows have nothing to refer to.
Loaded(r) == request[r].stage = "loaded" /\ campaign # NoCampaign
Answer(r) == request' = [request EXCEPT ![r] = Free]

Refuse(r) ==
  /\ request[r] # Free
  /\ Answer(r)
  /\ UNCHANGED <<contactVars, campaign, target, recipient, steps>>

-----------------------------------------------------------------------------
(* The wizard *)

\* CampaignDetailsUpdateView.form_valid: form.save() writes every column of
\* the copy, the status and the audience flag among them.
SaveDetails(r, channel) ==
  /\ Loaded(r)
  /\ request[r].copy.status \in Editable
  /\ campaign' = [request[r].copy EXCEPT !.channel = channel]
  /\ Answer(r)
  /\ UNCHANGED <<contactVars, target, recipient, steps>>

\* CampaignViewSet.perform_update: the same without the channel; the flag and
\* the message are fields of the serializer.
SaveByApi(r) ==
  /\ Loaded(r)
  /\ request[r].copy.status \in Editable
  /\ \E all, message \in BOOLEAN :
       campaign' = [request[r].copy EXCEPT !.all = all, !.message = message]
  /\ Answer(r)
  /\ UNCHANGED <<contactVars, target, recipient, steps>>

\* set_audience: the flag is saved, the entries are replaced.
SetAudience(r, groups, all) ==
  /\ Loaded(r)
  /\ request[r].copy.status \in Editable
  /\ campaign' = [campaign EXCEPT !.all = all]
  /\ target' = IF all THEN {} ELSE groups
  /\ Answer(r)
  /\ UNCHANGED <<contactVars, recipient, steps>>

\* CampaignAudienceForm: a group, or everyone; the groups on offer, and those
\* the API accepts, are every organization's.
AudienceOffer == {a \in (SUBSET group) \X BOOLEAN : a[1] # {} \/ a[2]}

ChooseAudience(r) == \E a \in AudienceOffer : SetAudience(r, a[1], a[2])

\* set_message.
SetMessage(r) ==
  /\ Loaded(r)
  /\ request[r].copy.status \in Editable
  /\ campaign' = [campaign EXCEPT !.message = TRUE]
  /\ Answer(r)
  /\ UNCHANGED <<contactVars, target, recipient, steps>>

\* CampaignDeleteView and perform_destroy: entries and rows go with it.
DeleteCampaign(r) ==
  /\ Loaded(r)
  /\ request[r].copy.status # "processing"
  /\ campaign' = NoCampaign
  /\ target' = {}
  /\ recipient' = {}
  /\ Answer(r)
  /\ UNCHANGED <<contactVars, steps>>

-----------------------------------------------------------------------------
(* The launch *)

\* audience_queryset: everyone means everyone, in whichever organization.
AudienceQueryset(copy) ==
  {k \in Contacts :
     Exists(k) /\ (copy.all \/ \E g \in target : <<k, g>> \in member)}

\* resolve_audience: the campaign's channel decides whose consent counts.
ResolveAudience(copy) == AudienceQueryset(copy) \cap Eligible(copy.channel)

\* audience_breakdown: what the preview says, counted by WhatsApp consent.
AudienceBreakdown(copy) ==
  LET inAudience == AudienceQueryset(copy)
      optedIn == {k \in inAudience : contact[k].optedIn}
  IN [total |-> Cardinality(inAudience),
      eligible |-> Cardinality({k \in optedIn : contact[k].active}),
      notOptedIn |-> Cardinality(inAudience \ optedIn),
      inactive |-> Cardinality({k \in optedIn : ~contact[k].active})]

\* validation_blockers, for the blockers that are about state.
Ready(copy) ==
  LET eligible == Cardinality(ResolveAudience(copy))
  IN /\ copy.all \/ target # {}
     /\ copy.message
     /\ eligible \in 1 .. MaxRecipients

\* launch_campaign up to its list of recipients; nothing is written yet.
Resolve(r) ==
  /\ Loaded(r)
  /\ request[r].copy.status \in Editable
  /\ Ready(request[r].copy)
  /\ request' = [request EXCEPT ![r] = [stage |-> "listed", copy |-> request[r].copy,
                                        contacts |-> ResolveAudience(request[r].copy)]]
  /\ UNCHANGED <<contactVars, campaign, target, recipient, steps>>

\* materialize_messages: rows that exist already are left as they are.
Materialize(copy, contacts) ==
  recipient \cup {<<k, copy.channel>> : k \in {k \in contacts :
                                         \A m \in recipient : m[1] # k}}

\* The rows and the campaign commit together; a contact deleted meanwhile
\* fails the insert, and the launch with it.
CommitLaunch(r) ==
  /\ request[r].stage = "listed"
  /\ campaign # NoCampaign
  /\ \A k \in request[r].contacts : Exists(k)
  /\ recipient' = Materialize(request[r].copy, request[r].contacts)
  /\ campaign' = [campaign EXCEPT !.status = "processing"]
  /\ Answer(r)
  /\ UNCHANGED <<contactVars, target, steps>>

-----------------------------------------------------------------------------
Init ==
  /\ ContactsInit
  /\ campaign = NoCampaign
  /\ target = {}
  /\ request = [r \in Requests |-> Free]
  /\ recipient = {}
  /\ steps = 0

\* Contacts change beside the campaign; deleting one takes its message rows,
\* and a group an audience names is protected.
ContactsStep ==
  \/ /\ \/ ContactsNext
        \/ \E g \in Groups \ target : DeleteGroup(g)
     /\ UNCHANGED campaignVars
  \/ \E k \in Contacts :
       /\ Delete(k)
       /\ recipient' = {m \in recipient : m[1] # k}
       /\ UNCHANGED <<campaign, target, request, steps>>

CampaignStep ==
  \/ CreateOnWizard
  \/ CreateByApiClient
  \/ \E r \in Requests :
       \/ Load(r)
       \/ Refuse(r)
       \/ \E channel \in Channels : SaveDetails(r, channel)
       \/ SaveByApi(r)
       \/ ChooseAudience(r)
       \/ SetMessage(r)
       \/ DeleteCampaign(r)
       \/ Resolve(r)
       \/ CommitLaunch(r)

Next == ContactsStep \/ CampaignStep

Spec == Init /\ [][Next]_vars

-----------------------------------------------------------------------------
CampaignRow ==
  [status : {"none", "draft", "processing"}, channel : Channels,
   all : BOOLEAN, message : BOOLEAN]

TypeOK ==
  /\ ContactsTypeOK
  /\ campaign \in CampaignRow
  /\ target \subseteq group
  /\ recipient \subseteq Contacts \X Channels
  /\ steps \in 0 .. MaxSteps

\* A message row goes to somebody who at some time agreed to be reached on the
\* channel of the row, whatever the draft, the groups or the contact have been
\* turned into between the query and the insert, or by a launch before.
RecipientsHadConsented ==
  recipient \subseteq given

-----------------------------------------------------------------------------
(* What the documentation says and the code does not keep (see the README) *)

\* organizations/scoping.py:4, "a query for customer data must always be
\* filtered by organization": a campaign reaches its organization's contacts.
RecipientsAreOwn ==
  \A m \in recipient : Home[m[1]] = Sender

\* campaigns/views.py:363, "exactly what will be sent, and to how many people".
PreviewIsExact ==
  campaign # NoCampaign =>
    AudienceBreakdown(campaign).eligible = Cardinality(ResolveAudience(campaign))

\* contacts/views.py:172, "Contact updated.": the row has what the form asked.
EditIsSaved ==
  [][\A k \in Contacts, number \in Numbers, active \in BOOLEAN :
       EditOnPage(k, number, active) =>
         contact'[k].number = number /\ contact'[k].active = active]_vars

\* contacts/services.py:158: a general update leaves consent alone.
EditKeepsConsent ==
  [][\A e \in Editors : editor[e] # Idle /\ editor'[e] = Idle =>
       \A k \in Contacts : contact'[k].optedIn = contact[k].optedIn]_vars

\* contacts/importers.py:324, "never silently revokes consent".
FileNeverRevokes ==
  [][upload # Idle /\ upload' = Idle =>
       \A k \in Contacts : contact[k].optedIn => contact'[k].optedIn]_vars

\* organizations/scoping.py:4 again: an import touches its own contacts only.
FileStaysHome ==
  [][upload # Idle /\ upload' = Idle =>
       \A k \in Contacts : contact'[k] # contact[k] => Home[k] = upload.org]_vars

\* campaigns/models.py:33: a processing campaign is never a draft again.
LaunchedStaysLaunched ==
  [][campaign.status = "processing" => campaign'.status # "draft"]_vars

=============================================================================
