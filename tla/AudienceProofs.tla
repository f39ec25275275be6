--------------------------- MODULE AudienceProofs ---------------------------
(***************************************************************************)
(* Consent, for any organizations, contacts, groups, requests and bounds:  *)
(* whoever is opted in was opted in by somebody, and only they are sent to.*)
(* Copies are what makes it hard: an edit, an import and a launch act on   *)
(* rows read earlier, so the invariant speaks of what they hold, too.      *)
(***************************************************************************)
EXTENDS Audience, TLAPS

Columns == [number : Numbers \cup {"none"}, active : BOOLEAN, optedIn : BOOLEAN]
Edit == [of : {"edit"}, contact : Contacts, copy : Columns]

\* What an edit or an import holds carries no consent that was not given.
CopiesWereGiven ==
  /\ \A e \in Editors :
       editor[e] # Idle /\ editor[e].copy.optedIn => <<editor[e].contact, "whatsapp">> \in given
  /\ upload # Idle =>
       \A k \in Contacts : upload.copy[k].optedIn => <<k, "whatsapp">> \in given

ContactsTypes ==
  /\ contact \in [Contacts -> Columns]
  /\ texting \in [Contacts -> {"none", "granted", "withdrawn"}]
  /\ editor \in [Editors -> {Idle} \cup Edit]

\* The rows of an import are numbers, each with an answer.
UploadTyped ==
  upload # Idle =>
    \E numbers \in SUBSET Numbers : upload.rows \in [numbers -> BOOLEAN]

ContactsInv == ContactsTypes /\ UploadTyped /\ ConsentWasGiven /\ CopiesWereGiven

\* What a launch has listed are contacts that agreed, on the channel of its copy.
ListsWereGiven ==
  \A r \in Requests :
    request[r].stage = "listed" =>
      \A k \in request[r].contacts : <<k, request[r].copy.channel>> \in given

Listings == [stage : {"free", "loaded"}, copy : CampaignRow]
            \cup [stage : {"listed"}, copy : CampaignRow, contacts : SUBSET Contacts]

CampaignTypes ==
  /\ campaign \in CampaignRow
  /\ request \in [Requests -> Listings]

CampaignInv == CampaignTypes /\ ListsWereGiven /\ RecipientsHadConsented

ConsentInv == ContactsInv /\ CampaignInv

-----------------------------------------------------------------------------
(* Contacts *)

LEMMA AbsentHasColumns == Absent \in Columns
  BY DEF Absent, Columns

LEMMA IdleIsNoEdit == \A x \in Edit : x # Idle
  BY DEF Edit, Idle

\* A decision is written together with its record.
LEMMA ConsentIsRecorded ==
  ASSUME ContactsInv, NEW k \in Contacts, NEW channel \in Channels, NEW yes \in BOOLEAN,
         SetConsent(k, channel, yes)
  PROVE  ContactsInv' /\ given \subseteq given'
<1>1. given \subseteq given' /\ UNCHANGED <<editor, upload>>
  BY DEF SetConsent
<1>2. CopiesWereGiven'
  BY <1>1 DEF ContactsInv, CopiesWereGiven
<1>3. CASE channel = "whatsapp"
  <2>1. contact' = [contact EXCEPT ![k].optedIn = yes] /\ UNCHANGED texting
        /\ (yes => <<k, "whatsapp">> \in given')
    BY <1>3 DEF SetConsent
  <2>2. ContactsTypes'
    BY <1>1, <2>1 DEF ContactsInv, ContactsTypes, Columns
  <2>3. ConsentWasGiven'
    BY <1>1, <2>1 DEF ContactsInv, ContactsTypes, Columns, ConsentWasGiven
  <2> QED BY <1>1, <1>2, <2>2, <2>3 DEF ContactsInv, UploadTyped
<1>4. CASE channel # "whatsapp"
  <2>1. texting' = [texting EXCEPT ![k] = IF yes THEN "granted" ELSE "withdrawn"]
        /\ UNCHANGED contact /\ (yes => <<k, "sms">> \in given')
    BY <1>4 DEF SetConsent, Channels
  <2>2. ContactsTypes'
    BY <1>1, <2>1 DEF ContactsInv, ContactsTypes
  <2>3. ConsentWasGiven'
    BY <1>1, <2>1 DEF ContactsInv, ContactsTypes, ConsentWasGiven
  <2> QED BY <1>1, <1>2, <2>2, <2>3 DEF ContactsInv, UploadTyped
<1> QED BY <1>3, <1>4

LEMMA CreateKeeps ==
  ASSUME ContactsInv, NEW k \in Contacts, NEW number \in Numbers, NEW yes \in BOOLEAN,
         NEW groups, Create(k, number, yes, groups)
  PROVE  ContactsInv' /\ given \subseteq given'
<1>1. /\ contact' = [contact EXCEPT ![k] = [number |-> number, active |-> TRUE, optedIn |-> yes]]
      /\ given \subseteq given' /\ (yes => <<k, "whatsapp">> \in given')
      /\ UNCHANGED <<texting, editor, upload>>
  BY DEF Create
<1>2. CopiesWereGiven'
  BY <1>1 DEF ContactsInv, CopiesWereGiven
<1>3. ContactsTypes'
  BY <1>1 DEF ContactsInv, ContactsTypes, Columns
<1>4. ConsentWasGiven'
  BY <1>1 DEF ContactsInv, ContactsTypes, Columns, ConsentWasGiven
<1> QED BY <1>1, <1>2, <1>3, <1>4 DEF ContactsInv, UploadTyped

LEMMA DeleteKeeps ==
  ASSUME ContactsInv, NEW k \in Contacts, Delete(k)
  PROVE  ContactsInv' /\ given' = given
<1>1. /\ contact' = [contact EXCEPT ![k] = Absent]
      /\ texting' = [texting EXCEPT ![k] = "none"]
      /\ UNCHANGED <<editor, upload, given>>
  BY DEF Delete
<1>2. CopiesWereGiven'
  BY <1>1 DEF ContactsInv, CopiesWereGiven
<1>3. ContactsTypes'
  BY <1>1, AbsentHasColumns DEF ContactsInv, ContactsTypes
<1>4. ConsentWasGiven'
  BY <1>1 DEF ContactsInv, ContactsTypes, Absent, ConsentWasGiven
<1> QED BY <1>1, <1>2, <1>3, <1>4 DEF ContactsInv, UploadTyped

LEMMA LoadForEditKeeps ==
  ASSUME ContactsInv, NEW e \in Editors, NEW k \in Contacts, LoadForEdit(e, k)
  PROVE  ContactsInv' /\ given' = given
<1> DEFINE load == [of |-> "edit", contact |-> k, copy |-> contact[k]]
<1>1. editor' = [editor EXCEPT ![e] = load] /\ UNCHANGED <<contact, texting, upload, given>>
  BY DEF LoadForEdit
<1>2. load \in Edit
  BY DEF ContactsInv, ContactsTypes, Edit
<1>3. ContactsTypes'
  BY <1>1, <1>2 DEF ContactsInv, ContactsTypes
<1>4. load.copy.optedIn => <<load.contact, "whatsapp">> \in given
  BY DEF ContactsInv, ConsentWasGiven
<1>5. \A d \in Editors : editor'[d] = IF d = e THEN load ELSE editor[d]
  BY <1>1 DEF ContactsInv, ContactsTypes
<1> HIDE DEF load
<1>6. CopiesWereGiven' /\ ConsentWasGiven'
  BY <1>1, <1>4, <1>5 DEF ContactsInv, CopiesWereGiven, ConsentWasGiven
<1> QED BY <1>1, <1>3, <1>6 DEF ContactsInv, UploadTyped

LEMMA SaveEditKeeps ==
  ASSUME ContactsInv, NEW e \in Editors, NEW number \in Numbers, NEW active \in BOOLEAN,
         SaveEdit(e, number, active)
  PROVE  ContactsInv' /\ given' = given
<1> DEFINE k == editor[e].contact
           edited == [editor[e].copy EXCEPT !.number = number, !.active = active]
<1>1. editor[e] \in Edit /\ editor[e] # Idle
  BY DEF SaveEdit, ContactsInv, ContactsTypes
<1>2. k \in Contacts /\ edited \in Columns /\ edited.optedIn = editor[e].copy.optedIn
  BY <1>1 DEF Edit, Columns
<1>3. edited.optedIn => <<k, "whatsapp">> \in given
  BY <1>1, <1>2 DEF ContactsInv, CopiesWereGiven
<1>4. /\ contact' = contact \/ contact' = [contact EXCEPT ![k] = edited]
      /\ editor' = [editor EXCEPT ![e] = Idle]
      /\ UNCHANGED <<texting, upload, given>>
  BY DEF SaveEdit
<1> HIDE DEF k, edited
<1>5. ContactsTypes'
  BY <1>2, <1>4 DEF ContactsInv, ContactsTypes
<1>6. \A j \in Contacts : contact'[j].optedIn => <<j, "whatsapp">> \in given
  BY <1>2, <1>3, <1>4 DEF ContactsInv, ContactsTypes, ConsentWasGiven
<1>7. ConsentWasGiven'
  BY <1>4, <1>6 DEF ContactsInv, ConsentWasGiven
<1>8. \A d \in Editors : editor'[d] = IF d = e THEN Idle ELSE editor[d]
  BY <1>4 DEF ContactsInv, ContactsTypes
<1>9. CopiesWereGiven'
  BY <1>4, <1>8 DEF ContactsInv, CopiesWereGiven
<1> QED BY <1>4, <1>5, <1>7, <1>9 DEF ContactsInv, UploadTyped

LEMMA ReadFileKeeps ==
  ASSUME ContactsInv, NEW org, NEW numbers \in SUBSET Numbers,
         NEW rows \in [numbers -> BOOLEAN], NEW update, NEW files, ReadFile(org, rows, update, files)
  PROVE  ContactsInv' /\ given' = given
<1>1. upload'.copy = contact /\ UNCHANGED <<contact, texting, editor, given>>
  BY DEF ReadFile
<1>2. CopiesWereGiven'
  BY <1>1 DEF ContactsInv, CopiesWereGiven, ConsentWasGiven
<1>3. UploadTyped'
  BY DEF ReadFile, UploadTyped
<1> QED BY <1>1, <1>2, <1>3 DEF ContactsInv, ContactsTypes, ConsentWasGiven

\* A file only adds consent: its own rows', or what its copies had of it.
LEMMA WriteFileKeeps ==
  ASSUME ContactsInv, WriteFile
  PROVE  ContactsInv' /\ given \subseteq given'
<1> DEFINE known == {n \in DOMAIN upload.rows : upload.found[n] # "nobody"}
           fresh == DOMAIN upload.rows \ known
           updated == IF upload.update THEN {upload.found[n] : n \in known} ELSE {}
           Says(k) == upload.rows[upload.copy[k].number]
<1>1. PICK row \in [fresh -> {k \in Contacts : ~Exists(k) /\ Home[k] = upload.org}] :
        /\ contact' = [k \in Contacts |->
               CASE \E n \in fresh : row[n] = k ->
                      LET n == CHOOSE n \in fresh : row[n] = k
                      IN [number |-> n, active |-> TRUE, optedIn |-> upload.rows[n]]
                 [] k \in updated /\ Exists(k) ->
                      [contact[k] EXCEPT !.optedIn = upload.copy[k].optedIn \/ Says(k)]
                 [] OTHER -> contact[k]]
        /\ given' = given
               \cup {<<row[n], "whatsapp">> : n \in {n \in fresh : upload.rows[n]}}
               \cup {<<k, "whatsapp">> : k \in {k \in updated : Says(k)}}
  BY DEF WriteFile
<1>2. upload # Idle /\ upload' = Idle /\ UNCHANGED <<texting, editor>>
  BY DEF WriteFile
<1>3. fresh \subseteq Numbers /\ \A n \in fresh : upload.rows[n] \in BOOLEAN
  BY <1>2 DEF ContactsInv, UploadTyped
<1>4. given \subseteq given'
  BY <1>1
<1>5. \A k \in Contacts :
        contact'[k] \in Columns /\ (contact'[k].optedIn => <<k, "whatsapp">> \in given')
  <2> SUFFICES ASSUME NEW k \in Contacts
               PROVE  contact'[k] \in Columns
                      /\ (contact'[k].optedIn => <<k, "whatsapp">> \in given')
    OBVIOUS
  <2>1. CASE \E n \in fresh : row[n] = k
    <3> DEFINE n == CHOOSE n \in fresh : row[n] = k
    <3>1. n \in fresh /\ row[n] = k
      BY <2>1
    <3>2. contact'[k] = [number |-> n, active |-> TRUE, optedIn |-> upload.rows[n]]
      BY <1>1, <2>1
    <3> HIDE DEF n, fresh
    <3>3. upload.rows[n] => <<k, "whatsapp">> \in given'
      BY <1>1, <3>1
    <3> QED BY <1>3, <3>1, <3>2, <3>3 DEF Columns
  <2>2. CASE ~(\E n \in fresh : row[n] = k) /\ k \in updated /\ Exists(k)
    <3>1. contact'[k] = [contact[k] EXCEPT !.optedIn = upload.copy[k].optedIn \/ Says(k)]
      BY <1>1, <2>2
    <3>2. upload.copy[k].optedIn => <<k, "whatsapp">> \in given'
      BY <1>2, <1>4 DEF ContactsInv, CopiesWereGiven
    <3>3. Says(k) => <<k, "whatsapp">> \in given'
      BY <1>1, <2>2
    <3>4. contact[k] \in Columns
      BY DEF ContactsInv, ContactsTypes
    <3> HIDE DEF Says
    <3>5. contact'[k] \in Columns
          /\ (contact'[k].optedIn <=> (upload.copy[k].optedIn \/ Says(k)))
      BY <3>1, <3>4 DEF Columns
    <3> QED BY <3>2, <3>3, <3>5
  <2>3. CASE ~(\E n \in fresh : row[n] = k) /\ ~(k \in updated /\ Exists(k))
    <3>1. contact'[k] = contact[k]
      BY <1>1, <2>3
    <3> QED BY <1>4, <3>1 DEF ContactsInv, ContactsTypes, ConsentWasGiven
  <2> QED BY <2>1, <2>2, <2>3
<1>6. ContactsTypes'
  <2>1. DOMAIN contact' = Contacts /\ contact' = [k \in Contacts |-> contact'[k]]
    BY <1>1
  <2> QED BY <1>2, <1>5, <2>1 DEF ContactsInv, ContactsTypes
<1>7. ConsentWasGiven'
  BY <1>2, <1>4, <1>5 DEF ContactsInv, ConsentWasGiven
<1>8. CopiesWereGiven'
  BY <1>2, <1>4 DEF ContactsInv, CopiesWereGiven
<1> QED BY <1>2, <1>4, <1>6, <1>7, <1>8 DEF ContactsInv, UploadTyped

\* Groups and memberships carry no consent, nor does dropping an import.
LEMMA OthersKeep ==
  ASSUME ContactsInv, UNCHANGED <<contact, texting, editor, given>>,
         upload' = upload \/ upload' = Idle
  PROVE  ContactsInv' /\ given \subseteq given'
BY DEF ContactsInv, ContactsTypes, UploadTyped, ConsentWasGiven, CopiesWereGiven

LEMMA ContactsNextKeeps ==
  ASSUME ContactsInv, ContactsNext
  PROVE  ContactsInv' /\ given \subseteq given'
<1>1. ASSUME NEW k \in Contacts, CreateOnPage(k) \/ CreateByApi(k)
      PROVE  ContactsInv' /\ given \subseteq given'
  BY <1>1, CreateKeeps DEF CreateOnPage, CreateByApi
<1>2. ASSUME NEW k \in Contacts, NEW number \in Numbers, NEW active \in BOOLEAN,
             EditOnPage(k, number, active)
      PROVE  ContactsInv' /\ given \subseteq given'
  BY <1>2, OthersKeep DEF EditOnPage
<1>3. ASSUME NEW k \in Contacts, NEW yes \in BOOLEAN,
             ToggleConsent(k, yes) \/ RecordChannelConsent(k, yes)
      PROVE  ContactsInv' /\ given \subseteq given'
  BY <1>3, ConsentIsRecorded DEF ToggleConsent, RecordChannelConsent, Channels
<1>4. ASSUME NEW e \in Editors, NEW k \in Contacts, LoadForEdit(e, k)
      PROVE  ContactsInv' /\ given \subseteq given'
  BY <1>4, LoadForEditKeeps
<1>5. ASSUME NEW e \in Editors, NEW number \in Numbers, NEW active \in BOOLEAN,
             SaveEdit(e, number, active)
      PROVE  ContactsInv' /\ given \subseteq given'
  BY <1>5, SaveEditKeeps
<1>6. ASSUME NEW number \in Numbers, NEW org \in Orgs \cup {"unknown"}, Stop(number, org)
      PROVE  ContactsInv' /\ given \subseteq given'
  BY <1>6, ConsentIsRecorded DEF Stop, FindContact, Channels
<1>7. ASSUME NEW g \in Groups, CreateGroup(g) \/ ChangeMembers(g)
      PROVE  ContactsInv' /\ given \subseteq given'
  BY <1>7, OthersKeep DEF CreateGroup, ChangeMembers, AddMembers, RemoveMembers
<1>8. ASSUME NEW org \in Orgs, NEW numbers \in SUBSET Numbers, NEW update \in BOOLEAN,
             NEW files, NEW rows \in [numbers -> BOOLEAN], ReadFile(org, rows, update, files)
      PROVE  ContactsInv' /\ given \subseteq given'
  BY <1>8, ReadFileKeeps
<1>9. CASE WriteFile
  BY <1>9, WriteFileKeeps
<1>10. CASE AbandonFile
  BY <1>10, OthersKeep DEF AbandonFile
<1> QED BY <1>1, <1>2, <1>3, <1>4, <1>5, <1>6, <1>7, <1>8, <1>9, <1>10 DEF ContactsNext

\* What contacts do to a campaign: consent given stays on record, and a deleted
\* contact takes its rows.
LEMMA ContactsStepKeeps ==
  ASSUME ConsentInv, ContactsStep
  PROVE  ConsentInv'
<1>1. ContactsInv' /\ given \subseteq given' /\ UNCHANGED <<campaign, request>>
      /\ recipient' \subseteq recipient
  <2>1. CASE ContactsNext /\ UNCHANGED campaignVars
    BY <2>1, ContactsNextKeeps DEF ConsentInv, campaignVars
  <2>2. ASSUME NEW g \in Groups, DeleteGroup(g), UNCHANGED campaignVars
        PROVE  ContactsInv' /\ given \subseteq given' /\ UNCHANGED <<campaign, request>>
               /\ recipient' \subseteq recipient
    BY <2>2, OthersKeep DEF ConsentInv, DeleteGroup, campaignVars
  <2>3. ASSUME NEW k \in Contacts, Delete(k), recipient' = {m \in recipient : m[1] # k},
               UNCHANGED <<campaign, target, request, steps>>
        PROVE  ContactsInv' /\ given \subseteq given' /\ UNCHANGED <<campaign, request>>
               /\ recipient' \subseteq recipient
    BY <2>3, DeleteKeeps DEF ConsentInv
  <2> QED BY <2>1, <2>2, <2>3 DEF ContactsStep
<1>2. CampaignInv'
  BY <1>1 DEF ConsentInv, CampaignInv, CampaignTypes, ListsWereGiven, RecipientsHadConsented
<1> QED BY <1>1, <1>2 DEF ConsentInv

-----------------------------------------------------------------------------
(* The campaign *)

\* A request answers without touching the rows.
LEMMA AnswersKeep ==
  ASSUME ConsentInv, NEW r \in Requests, Answer(r), UNCHANGED contactVars,
         campaign' \in CampaignRow, recipient' \subseteq recipient
  PROVE  ConsentInv'
<1>1. Free \in Listings
  BY DEF Free, Listings, CampaignRow, NoCampaign, Channels
<1>2. request' = [request EXCEPT ![r] = Free]
  BY DEF Answer
<1>3. CampaignTypes'
  BY <1>1, <1>2 DEF ConsentInv, CampaignInv, CampaignTypes
<1>4. \A q \in Requests : request'[q] = IF q = r THEN Free ELSE request[q]
  BY <1>2 DEF ConsentInv, CampaignInv, CampaignTypes
<1>5. given' = given /\ ContactsInv'
  BY DEF ConsentInv, ContactsInv, ContactsTypes, UploadTyped, ConsentWasGiven, CopiesWereGiven,
         contactVars
<1>6. ListsWereGiven'
  BY <1>4, <1>5 DEF ConsentInv, CampaignInv, ListsWereGiven, Free
<1>7. RecipientsHadConsented'
  BY <1>5 DEF ConsentInv, CampaignInv, RecipientsHadConsented
<1> QED BY <1>3, <1>5, <1>6, <1>7 DEF ConsentInv, CampaignInv

LEMMA CreateCampaignKeeps ==
  ASSUME ConsentInv, NEW channel \in Channels, CreateCampaign(channel)
  PROVE  ConsentInv'
<1>1. campaign' \in CampaignRow
  BY DEF CreateCampaign, NoCampaign, CampaignRow
<1> QED BY <1>1 DEF CreateCampaign, ConsentInv, CampaignInv, CampaignTypes, ListsWereGiven,
            RecipientsHadConsented, ContactsInv, ContactsTypes, UploadTyped, ConsentWasGiven,
            CopiesWereGiven, contactVars

LEMMA LoadKeeps ==
  ASSUME ConsentInv, NEW r \in Requests, Load(r)
  PROVE  ConsentInv'
<1> DEFINE load == [stage |-> "loaded", copy |-> campaign]
<1>1. request' = [request EXCEPT ![r] = load] /\ UNCHANGED <<contactVars, campaign, recipient>>
  BY DEF Load
<1>2. load \in Listings
  BY DEF ConsentInv, CampaignInv, CampaignTypes, Listings
<1>3. CampaignTypes'
  BY <1>1, <1>2 DEF ConsentInv, CampaignInv, CampaignTypes
<1>4. \A q \in Requests : request'[q] = IF q = r THEN load ELSE request[q]
  BY <1>1 DEF ConsentInv, CampaignInv, CampaignTypes
<1>5. given' = given /\ ContactsInv'
  BY <1>1 DEF ConsentInv, ContactsInv, ContactsTypes, UploadTyped, ConsentWasGiven,
         CopiesWereGiven, contactVars
<1>6. ListsWereGiven'
  BY <1>4, <1>5 DEF ConsentInv, CampaignInv, ListsWereGiven
<1>7. RecipientsHadConsented'
  BY <1>1, <1>5 DEF ConsentInv, CampaignInv, RecipientsHadConsented
<1> QED BY <1>3, <1>5, <1>6, <1>7 DEF ConsentInv, CampaignInv

\* Whoever the query lists has agreed on the channel of the copy it was made by.
LEMMA ResolveKeeps ==
  ASSUME ConsentInv, NEW r \in Requests, Resolve(r)
  PROVE  ConsentInv'
<1> DEFINE copy == request[r].copy
           list == [stage |-> "listed", copy |-> copy, contacts |-> ResolveAudience(copy)]
<1>1. request' = [request EXCEPT ![r] = list] /\ UNCHANGED <<contactVars, campaign, recipient>>
  BY DEF Resolve
<1>2. copy \in CampaignRow
  BY DEF ConsentInv, CampaignInv, CampaignTypes, Listings
<1>3. list \in Listings
  BY <1>2 DEF Listings, ResolveAudience, AudienceQueryset
<1>4. \A k \in list.contacts : <<k, copy.channel>> \in given
  <2>1. copy.channel \in {"whatsapp", "sms"}
    BY <1>2 DEF CampaignRow, Channels
  <2>2. \A k \in ResolveAudience(copy) : k \in Eligible(copy.channel)
    BY DEF ResolveAudience
  <2> HIDE DEF copy
  <2>3. \A k \in Eligible(copy.channel) : <<k, copy.channel>> \in given
    BY <2>1 DEF Eligible, ConsentInv, ContactsInv, ConsentWasGiven
  <2> QED BY <2>2, <2>3
<1> HIDE DEF list
<1>5. CampaignTypes'
  BY <1>1, <1>3 DEF ConsentInv, CampaignInv, CampaignTypes
<1>6. \A q \in Requests : request'[q] = IF q = r THEN list ELSE request[q]
  BY <1>1 DEF ConsentInv, CampaignInv, CampaignTypes
<1>7. given' = given /\ ContactsInv'
  BY <1>1 DEF ConsentInv, ContactsInv, ContactsTypes, UploadTyped, ConsentWasGiven,
         CopiesWereGiven, contactVars
<1>8. list.copy = copy
  BY DEF list
<1>9. ListsWereGiven'
  BY <1>4, <1>6, <1>7, <1>8 DEF ConsentInv, CampaignInv, ListsWereGiven
<1>10. RecipientsHadConsented'
  BY <1>1, <1>7 DEF ConsentInv, CampaignInv, RecipientsHadConsented
<1> QED BY <1>5, <1>7, <1>9, <1>10 DEF ConsentInv, CampaignInv

LEMMA CommitLaunchKeeps ==
  ASSUME ConsentInv, NEW r \in Requests, CommitLaunch(r)
  PROVE  ConsentInv'
<1>1. \A m \in recipient' : m \in given
  BY DEF CommitLaunch, Materialize, ConsentInv, CampaignInv, ListsWereGiven, RecipientsHadConsented
<1>2. campaign' \in CampaignRow
  BY DEF CommitLaunch, ConsentInv, CampaignInv, CampaignTypes, CampaignRow
<1>3. Free \in Listings
  BY DEF Free, Listings, CampaignRow, NoCampaign, Channels
<1>4. request' = [request EXCEPT ![r] = Free] /\ UNCHANGED contactVars
  BY DEF CommitLaunch, Answer
<1>5. CampaignTypes'
  BY <1>2, <1>3, <1>4 DEF ConsentInv, CampaignInv, CampaignTypes
<1>6. \A q \in Requests : request'[q] = IF q = r THEN Free ELSE request[q]
  BY <1>4 DEF ConsentInv, CampaignInv, CampaignTypes
<1>7. given' = given /\ ContactsInv'
  BY <1>4 DEF ConsentInv, ContactsInv, ContactsTypes, UploadTyped, ConsentWasGiven,
         CopiesWereGiven, contactVars
<1>8. ListsWereGiven'
  BY <1>6, <1>7 DEF ConsentInv, CampaignInv, ListsWereGiven, Free
<1>9. RecipientsHadConsented'
  BY <1>1, <1>7 DEF RecipientsHadConsented
<1> QED BY <1>5, <1>7, <1>8, <1>9 DEF ConsentInv, CampaignInv

LEMMA CampaignStepKeeps ==
  ASSUME ConsentInv, CampaignStep
  PROVE  ConsentInv'
<1> DEFINE Saved == /\ campaign' \in CampaignRow /\ recipient' \subseteq recipient
                    /\ UNCHANGED contactVars
<1>1. CASE CreateOnWizard \/ CreateByApiClient
  BY <1>1, CreateCampaignKeeps DEF CreateOnWizard, CreateByApiClient, Channels
<1>2. ASSUME NEW r \in Requests,
             \/ Refuse(r) \/ SaveByApi(r) \/ ChooseAudience(r)
             \/ SetMessage(r) \/ DeleteCampaign(r)
             \/ \E channel \in Channels : SaveDetails(r, channel)
      PROVE  ConsentInv'
  <2>1. campaign \in CampaignRow /\ request[r].copy \in CampaignRow
    BY DEF ConsentInv, CampaignInv, CampaignTypes, Listings
  <2>2. CASE Refuse(r)
    BY <2>1, <2>2, AnswersKeep DEF Refuse
  <2>3. CASE SaveByApi(r)
    <3>1. campaign' \in CampaignRow
      BY <2>1, <2>3 DEF SaveByApi, CampaignRow
    <3> QED BY <2>3, <3>1, AnswersKeep DEF SaveByApi
  <2>4. CASE ChooseAudience(r)
    <3>1. PICK a \in AudienceOffer : SetAudience(r, a[1], a[2])
      BY <2>4 DEF ChooseAudience
    <3>2. campaign' \in CampaignRow
      BY <2>1, <3>1 DEF SetAudience, CampaignRow, AudienceOffer
    <3> QED BY <3>1, <3>2, AnswersKeep DEF SetAudience
  <2>5. CASE SetMessage(r)
    <3>1. campaign' \in CampaignRow
      BY <2>1, <2>5 DEF SetMessage, CampaignRow
    <3> QED BY <2>5, <3>1, AnswersKeep DEF SetMessage
  <2>6. CASE DeleteCampaign(r)
    <3>1. campaign' \in CampaignRow
      BY <2>6 DEF DeleteCampaign, CampaignRow, NoCampaign, Channels
    <3> QED BY <2>6, <3>1, AnswersKeep DEF DeleteCampaign
  <2>7. CASE \E channel \in Channels : SaveDetails(r, channel)
    <3>1. PICK channel \in Channels : SaveDetails(r, channel)
      BY <2>7
    <3>2. campaign' \in CampaignRow
      BY <2>1, <3>1 DEF SaveDetails, CampaignRow
    <3> QED BY <3>1, <3>2, AnswersKeep DEF SaveDetails
  <2> QED BY <1>2, <2>2, <2>3, <2>4, <2>5, <2>6, <2>7
<1>3. ASSUME NEW r \in Requests, Load(r)
      PROVE  ConsentInv'
  BY <1>3, LoadKeeps
<1>4. ASSUME NEW r \in Requests, Resolve(r)
      PROVE  ConsentInv'
  BY <1>4, ResolveKeeps
<1>5. ASSUME NEW r \in Requests, CommitLaunch(r)
      PROVE  ConsentInv'
  BY <1>5, CommitLaunchKeeps
<1> QED BY <1>1, <1>2, <1>3, <1>4, <1>5 DEF CampaignStep

-----------------------------------------------------------------------------
LEMMA ConsentInit == Init => ConsentInv
<1> SUFFICES ASSUME Init PROVE ConsentInv
  OBVIOUS
<1>1. ContactsInv
  BY AbsentHasColumns DEF Init, ContactsInit, ContactsInv, ContactsTypes, UploadTyped,
     ConsentWasGiven, CopiesWereGiven, Absent
<1>2. Free \in Listings /\ NoCampaign \in CampaignRow
  BY DEF Free, Listings, CampaignRow, NoCampaign, Channels
<1>3. CampaignInv
  BY <1>2 DEF Init, CampaignInv, CampaignTypes, ListsWereGiven, RecipientsHadConsented, Free
<1> QED BY <1>1, <1>3 DEF ConsentInv

LEMMA ConsentStutters ==
  ASSUME ConsentInv, UNCHANGED vars
  PROVE  ConsentInv'
BY DEF vars, contactVars, campaignVars, ConsentInv, CampaignInv, CampaignTypes, ListsWereGiven,
   RecipientsHadConsented, ContactsInv, ContactsTypes, UploadTyped, ConsentWasGiven,
   CopiesWereGiven

\* The inductive invariant: rows, copies, lists and messages carry no consent that
\* nobody recorded.
THEOREM ConsentInvariant == Spec => []ConsentInv
<1>1. ConsentInv /\ [Next]_vars => ConsentInv'
  BY ContactsStepKeeps, CampaignStepKeeps, ConsentStutters DEF Next
<1> QED BY <1>1, ConsentInit, PTL DEF Spec

\* contacts/services.py and importers.py: a contact is opted in on a channel only
\* if somebody recorded that consent, whatever was saved over what.
THEOREM NobodyIsOptedInUnasked == Spec => []ConsentWasGiven
<1>1. ConsentInv => ConsentWasGiven
  BY DEF ConsentInv, ContactsInv
<1> QED BY <1>1, ConsentInvariant, PTL

\* campaigns/services.py: every message row goes to a contact that had agreed, on
\* the channel of the row.
THEOREM OnlyTheConsentingAreSentTo == Spec => []RecipientsHadConsented
<1>1. ConsentInv => RecipientsHadConsented
  BY DEF ConsentInv, CampaignInv
<1> QED BY <1>1, ConsentInvariant, PTL
=============================================================================
