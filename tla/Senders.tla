------------------------------- MODULE Senders -------------------------------
(***************************************************************************)
(* What a message looks like and whose number it leaves from.              *)
(*                                                                         *)
(* A template is written in Meta's registry and mirrored here by a sync;   *)
(* a campaign maps its placeholders; the launch renders a row per          *)
(* recipient; the send task reads the mapped values from the row but the   *)
(* order of the placeholders, and the sending account, from what the       *)
(* database holds by then.  Each of these is a separate request, and staff *)
(* change accounts and templates in the admin site between any two.        *)
(*                                                                         *)
(* A text is the placeholders of its header and its body in order; a value *)
(* is known by the placeholder it was mapped for.                          *)
(***************************************************************************)
EXTENDS Integers, Sequences, FiniteSets, SequencesExt

CONSTANTS
  Accounts,    \* MessagingAccount rows of the organization, first created first
  Texts,       \* [header, body] of the template, in Meta's registry and here
  Rows,        \* message rows, one per recipient
  Blank,       \* rows whose contact leaves the mapped field empty
  MaxChanges   \* bound: changes of accounts, templates and the campaign

ASSUME SendersAssumption ==
  /\ Accounts \in Seq(STRING)
  /\ Blank \subseteq Rows
  /\ MaxChanges \in Nat

VARIABLES
  settings,  \* WHATSAPP_PROVIDER and WHATSAPP_REQUIRE_MESSAGING_ACCOUNT
  account,   \* the rows
  registry,  \* Meta's template
  template,  \* its mirror, or a local one
  fetched,   \* what a sync has read and not yet written
  campaign,  \* status, mapping of placeholders, the template a launch read
  row,       \* the message rows
  changes

sendersVars == <<settings, account, registry, template, fetched, campaign, row, changes>>

Names == ToSet(Accounts)
NoAccount == [status |-> "none", default |-> FALSE, provider |-> "mock", token |-> FALSE]
NoTemplate == [source |-> "none", status |-> "none", text |-> [header |-> <<>>, body |-> <<>>]]
NoRow == [status |-> "none", values |-> <<>>, text |-> NoTemplate.text, from |-> "nobody",
          live |-> FALSE, sent |-> <<>>, read |-> NoTemplate]

\* MessageTemplate.save: the placeholders of header and body, each once.
Variables ==
  [text \in Texts |->
     FoldLeft(LAMBDA seen, token : IF Contains(seen, token) THEN seen ELSE Append(seen, token),
              <<>>, text.header \o text.body)]

Tokens == [text \in Texts |-> ToSet(Variables[text])]

\* usability: what the installation's provider, not the account's, can send.
Usable(t) ==
  \/ t.source = "synced" /\ t.status = "approved"
  \/ t.source = "local" /\ settings.provider = "mock"

Change == changes < MaxChanges /\ changes' = changes + 1

-----------------------------------------------------------------------------
(* Accounts *)

\* default_for: active ones, the default first, then in order of creation.
DefaultFor ==
  LET active == SelectSeq(Accounts, LAMBDA a : account[a].status = "active")
      default == SelectSeq(active, LAMBDA a : account[a].default)
  IN default \o active

\* provider_for: an account, the environment, or ProviderNotConfigured.
ProviderFor ==
  IF DefaultFor # <<>> THEN {Head(DefaultFor)}
  ELSE IF settings.require THEN {}
  ELSE {"environment"}

IsLive(from) ==
  IF from = "environment" THEN settings.provider = "meta" ELSE account[from].provider = "meta"

\* check_configuration: a live account has a token; the environment has one.
Configured(from) ==
  from # "environment" /\ IsLive(from) => account[from].token

\* MessagingAccountAdmin: the constraint allows one default, and clean() looks
\* for a token before the form has stored the one that was entered.
SaveAccount(a, provider, status, default, entered) ==
  /\ Change
  /\ provider = "meta" => account[a].token
  /\ default => \A b \in Names \ {a} : ~account[b].default
  /\ account' = [account EXCEPT ![a] = [status |-> status, default |-> default,
                     provider |-> provider, token |-> entered \/ account[a].token]]
  /\ UNCHANGED <<settings, registry, template, fetched, campaign, row>>

-----------------------------------------------------------------------------
(* Templates *)

\* Meta reviews a template, or its owner changes it there.
MetaDecides(status, text) ==
  /\ Change
  /\ registry' = [source |-> "synced", status |-> status, text |-> text]
  /\ UNCHANGED <<settings, account, template, fetched, campaign, row>>

\* LocalTemplateCreateView and the API: under the mock provider only.
CreateLocal(text) ==
  /\ Change
  /\ settings.provider = "mock"
  /\ template = NoTemplate
  /\ template' = [source |-> "local", status |-> "not submitted", text |-> text]
  /\ UNCHANGED <<settings, account, registry, fetched, campaign, row>>

\* sync_templates_from_provider: asks the environment's provider, page by page.
FetchTemplates ==
  /\ Change
  /\ settings.provider = "meta"
  /\ fetched = NoTemplate /\ registry # NoTemplate
  /\ fetched' = registry
  /\ UNCHANGED <<settings, account, registry, template, campaign, row>>

\* _apply_template, and the commit: converts a local template of the name.
ApplyTemplate ==
  /\ fetched # NoTemplate
  /\ template' = fetched
  /\ fetched' = NoTemplate
  /\ UNCHANGED <<settings, account, registry, campaign, row, changes>>

\* MessageTemplateAdmin: text, source and status.
EditTemplate(source, status, text) ==
  /\ Change
  /\ template # NoTemplate
  /\ template' = [source |-> source, status |-> status, text |-> text]
  /\ UNCHANGED <<settings, account, registry, fetched, campaign, row>>

-----------------------------------------------------------------------------
(* The campaign *)

\* CampaignMessageForm and set_message: a usable template, each of its
\* placeholders mapped to a fixed text or to a field of the contact.
SetMessage(mapping) ==
  /\ Change
  /\ campaign.status = "draft"
  /\ template # NoTemplate /\ Usable(template)
  /\ DOMAIN mapping = Tokens[template.text]
  /\ campaign' = [campaign EXCEPT !.mapping = mapping, !.chosen = TRUE]
  /\ UNCHANGED <<settings, account, registry, template, fetched, row>>

\* launch_campaign loads the template with the campaign.
OpenLaunch ==
  /\ campaign.status = "draft" /\ campaign.chosen
  /\ campaign' = [campaign EXCEPT !.status = "launching", !.loaded = template]
  /\ UNCHANGED <<settings, account, registry, template, fetched, row, changes>>

\* Faulty: set_message has checked the mapping already.
ReadyOnceMapped(loaded) == Usable(loaded)

\* validation_blockers, as far as the template goes.
ReadyToSend(loaded) ==
  /\ Usable(loaded)
  /\ Tokens[loaded.text] \subseteq DOMAIN campaign.mapping

\* resolve_values: an empty field is an empty value.
ResolveValues(r) ==
  [t \in DOMAIN campaign.mapping |->
     IF campaign.mapping[t] = "field" /\ r \in Blank THEN "" ELSE t]

\* The rest of launch_campaign: refused, or a rendered row per recipient.
CommitLaunch ==
  LET loaded == campaign.loaded
  IN /\ campaign.status = "launching"
     /\ IF ReadyToSend(loaded) /\ \E from \in ProviderFor : Configured(from)
        THEN /\ campaign' = [campaign EXCEPT !.status = "processing", !.loaded = NoTemplate]
             /\ row' = [r \in Rows |-> [NoRow EXCEPT !.status = "queued",
                          !.values = ResolveValues(r), !.text = loaded.text]]
        ELSE /\ campaign' = [campaign EXCEPT !.status = "draft", !.loaded = NoTemplate]
             /\ UNCHANGED row
     /\ UNCHANGED <<settings, account, registry, template, fetched, changes>>

-----------------------------------------------------------------------------
(* The send task *)

\* sender_for: the provider is built with the account's credentials.  Without
\* one the claim is released (see SendPipeline).
SenderFor(r) ==
  /\ row[r].status = "queued"
  /\ \E from \in ProviderFor :
       /\ Configured(from)
       /\ row' = [row EXCEPT ![r].status = "sending", ![r].from = from, ![r].live = IsLive(from)]
  /\ UNCHANGED <<settings, account, registry, template, fetched, campaign, changes>>

\* _send_whatsapp: the values of the row in the order of today's template, all
\* of them as parameters of the body.
BodyVariables(r) ==
  [i \in DOMAIN Variables[template.text] |->
     LET t == Variables[template.text][i]
     IN IF t \in DOMAIN row[r].values THEN row[r].values[t] ELSE ""]

\* The mock takes everything; Meta may reject.
SendTemplate(r) ==
  /\ row[r].status = "sending"
  /\ \E outcome \in IF row[r].live THEN {"sent", "failed"} ELSE {"sent"} :
       row' = [row EXCEPT ![r].status = outcome, ![r].sent = BodyVariables(r),
                          ![r].read = template]
  /\ UNCHANGED <<settings, account, registry, template, fetched, campaign, changes>>

-----------------------------------------------------------------------------
SendersInit ==
  /\ settings \in [provider : {"mock", "meta"}, require : BOOLEAN]
  /\ account = [a \in Names |-> NoAccount]
  /\ registry = NoTemplate
  /\ template = NoTemplate
  /\ fetched = NoTemplate
  /\ campaign = [status |-> "draft", mapping |-> <<>>, chosen |-> FALSE, loaded |-> NoTemplate]
  /\ row = [r \in Rows |-> NoRow]
  /\ changes = 0

Mappings == UNION {[Tokens[text] -> {"fixed", "field"}] : text \in Texts}

SendersNext ==
  \/ \E a \in Names, provider \in {"mock", "meta"}, default, entered \in BOOLEAN :
       \E status \in {"unverified", "active", "disabled"} :
         SaveAccount(a, provider, status, default, entered)
  \/ \E text \in Texts : \E status \in {"approved", "rejected"} :
       \/ MetaDecides(status, text)
       \/ EditTemplate("synced", status, text)
  \/ \E text \in Texts : CreateLocal(text) \/ EditTemplate("local", "not submitted", text)
  \/ FetchTemplates
  \/ ApplyTemplate
  \/ \E mapping \in Mappings : SetMessage(mapping)
  \/ OpenLaunch
  \/ CommitLaunch
  \/ \E r \in Rows : SenderFor(r) \/ SendTemplate(r)

SendersTypeOK ==
  /\ \A a \in Names : account[a].status \in {"none", "unverified", "active", "disabled"}
  /\ \A t \in {registry, template, fetched} :
       t.source \in {"none", "local", "synced"} /\ t.text \in Texts \cup {NoTemplate.text}
  /\ campaign.status \in {"draft", "launching", "processing"}
  /\ \A r \in Rows : row[r].status \in {"none", "queued", "sending", "sent", "failed"}

-----------------------------------------------------------------------------
Handed == {r \in Rows : row[r].status \in {"sent", "failed"}}

\* Whatever was synced or edited between choosing the message and launching it,
\* a message handed over before its template's text changes again has, for
\* every placeholder in order, what the row was rendered with: the value, and
\* none only where the contact has none.
ValuesFollowTheText ==
  \A r \in Handed :
    row[r].read.text = row[r].text =>
      /\ DOMAIN row[r].sent = DOMAIN Variables[row[r].text]
      /\ \A i \in DOMAIN row[r].sent :
           \/ row[r].sent[i] = Variables[row[r].text][i]
           \/ row[r].sent[i] = "" /\ r \in Blank

-----------------------------------------------------------------------------
(* What the code does not keep (see the README) *)

\* models.py:150, "a preview can never disagree with what will actually be
\* sent": the body gets the placeholders of the body as it was rendered.
SentAsRendered ==
  \A r \in Handed \ Blank : row[r].sent = row[r].text.body

\* models.py:182, only approved templates "can be sent through the live" API.
LocalIsNeverLive ==
  \A r \in Handed : row[r].read.source = "local" => ~row[r].live

\* accounts.py:7: a customer's messages leave "from *their* number", as long as
\* the first of the campaign did.
OneNumberPerCampaign ==
  \A q, r \in Handed : row[q].from \in Names => row[r].from \in Names

=============================================================================
