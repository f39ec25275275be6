------------------------------ MODULE Contacts ------------------------------
(***************************************************************************)
(* The contacts of every organization: their rows, their consent on each   *)
(* channel, their groups, and what changes them (dashboard pages, API      *)
(* requests, imports, inbound STOP messages).                              *)
(*                                                                         *)
(* contact[k] is the row of contact k: number, whether its status is       *)
(* ACTIVE, and opted_in, the consent for WhatsApp.  texting[k] is its      *)
(* ContactChannelConsent row for SMS.  An API edit and an import write     *)
(* copies they read earlier, so each is two steps; every other operation   *)
(* is one transaction that does not depend on what it read before.         *)
(***************************************************************************)
EXTENDS Integers, FiniteSets

CONSTANTS
  Contacts, Orgs, Numbers, Groups,
  Home,         \* the organization of each contact row
  GroupOf,      \* the organization of each group row
  Editors,      \* API requests that edit a contact
  MaxContacts,  \* the plan's limit of contacts
  MaxOps        \* bound: operations on contacts in a behaviour

ASSUME ContactsAssumption ==
  /\ Home \in [Contacts -> Orgs]
  /\ GroupOf \in [Groups -> Orgs]
  /\ MaxContacts \in Nat
  /\ MaxOps \in Nat

Channels == {"whatsapp", "sms"}
Absent == [number |-> "none", active |-> FALSE, optedIn |-> FALSE]
Row == [number : Numbers, active : BOOLEAN, optedIn : BOOLEAN]
Idle == [of |-> "nothing"]

VARIABLES
  contact,   \* the Contact rows
  texting,   \* SMS consent: no row, granted or withdrawn
  group,     \* the ContactGroup rows that exist
  member,    \* the GroupMembership rows
  editor,    \* what each API edit has loaded
  upload,    \* what an import has read
  given,     \* history: <<contact, channel>> somebody recorded consent for
  operations \* operations so far

contactVars == <<contact, texting, group, member, editor, upload, given, operations>>

Exists(k) == contact[k] # Absent
OwnedBy(org) == {k \in Contacts : Exists(k) /\ Home[k] = org}
OwnGroups(org) == {g \in group : GroupOf[g] = org}

\* find_duplicate: this organization's other holders of a number.
FindDuplicate(number, org, k) ==
  {d \in OwnedBy(org) \ {k} : contact[d].number = number}

\* Faulty: one consent for every channel, as the preview counts it.
EligibleAnywhere(channel) ==
  {k \in Contacts : contact[k].active /\ contact[k].optedIn}

\* ContactQuerySet.eligible.
Eligible(channel) ==
  {k \in Contacts :
     /\ contact[k].active
     /\ IF channel = "whatsapp" THEN contact[k].optedIn ELSE texting[k] = "granted"}

Operate == operations < MaxOps /\ operations' = operations + 1

-----------------------------------------------------------------------------
(* Creating and deleting *)

\* create_contact: the plan, the duplicate, then the row.
Create(k, number, optedIn, groups) ==
  /\ Operate
  /\ ~Exists(k)
  /\ Cardinality(OwnedBy(Home[k])) + 1 <= MaxContacts
  /\ FindDuplicate(number, Home[k], k) = {}
  /\ contact' = [contact EXCEPT ![k] =
                   [number |-> number, active |-> TRUE, optedIn |-> optedIn]]
  /\ member' = member \cup {<<k, g>> : g \in groups}
  /\ given' = given \cup (IF optedIn THEN {<<k, "whatsapp">>} ELSE {})
  /\ UNCHANGED <<texting, group, editor, upload>>

\* ContactCreateView: the form offers the organization's own groups.
CreateOnPage(k) ==
  \E number \in Numbers, yes \in BOOLEAN, groups \in SUBSET OwnGroups(Home[k]) :
    Create(k, number, yes, groups)

\* ContactViewSet.perform_create: the serializer accepts any group.
CreateByApi(k) ==
  \E number \in Numbers, yes \in BOOLEAN, groups \in SUBSET group :
    Create(k, number, yes, groups)

\* delete_contact: memberships and channel consents go with the row.
Delete(k) ==
  /\ Operate
  /\ Exists(k)
  /\ contact' = [contact EXCEPT ![k] = Absent]
  /\ texting' = [texting EXCEPT ![k] = "none"]
  /\ member' = {m \in member : m[1] # k}
  /\ UNCHANGED <<group, editor, upload, given>>

-----------------------------------------------------------------------------
(* Editing *)

\* set_contact_groups: exactly these, whatever they were.
Regroup(k, groups) ==
  member' = {m \in member : m[1] # k} \cup {<<k, g>> : g \in groups}

\* ContactUpdateView: validating the form has already put the new values on
\* the object update_contact compares them with, so no column is written.
EditOnPage(k, number, active) ==
  /\ Operate
  /\ Exists(k)
  /\ FindDuplicate(number, Home[k], k) = {}
  /\ \E groups \in SUBSET OwnGroups(Home[k]) : Regroup(k, groups)
  /\ UNCHANGED <<contact, texting, group, editor, upload, given>>

\* ContactViewSet.update: get_object.
LoadForEdit(e, k) ==
  /\ Operate
  /\ editor[e] = Idle
  /\ Exists(k)
  /\ editor' = [editor EXCEPT ![e] = [of |-> "edit", contact |-> k, copy |-> contact[k]]]
  /\ UNCHANGED <<contact, texting, group, member, upload, given>>

\* update_contact: nothing changed writes nothing; otherwise the whole copy is
\* saved, over whatever the row says by now, and into a new row if it is gone.
SaveEdit(e, number, active) ==
  LET k == editor[e].contact
      copy == editor[e].copy
      edited == [copy EXCEPT !.number = number, !.active = active]
  IN /\ editor[e] # Idle
     /\ editor' = [editor EXCEPT ![e] = Idle]
     /\ contact' = IF \/ edited = copy
                      \/ FindDuplicate(number, Home[k], k) # {}
                   THEN contact
                   ELSE [contact EXCEPT ![k] = edited]
     /\ UNCHANGED <<texting, group, member, upload, given, operations>>

-----------------------------------------------------------------------------
(* Consent *)

\* Faulty: a decision about SMS is written on the contact.
ConsentOnContact(k, channel, yes) ==
  /\ Exists(k)
  /\ contact' = [contact EXCEPT ![k].optedIn = yes]
  /\ given' = given \cup (IF yes THEN {<<k, channel>>} ELSE {})
  /\ UNCHANGED <<texting, group, member, editor, upload>>

\* set_consent: a decision, for one channel.
SetConsent(k, channel, yes) ==
  /\ Exists(k)
  /\ IF channel = "whatsapp"
     THEN /\ contact' = [contact EXCEPT ![k].optedIn = yes]
          /\ UNCHANGED texting
     ELSE /\ texting' = [texting EXCEPT ![k] = IF yes THEN "granted" ELSE "withdrawn"]
          /\ UNCHANGED contact
  /\ given' = given \cup (IF yes THEN {<<k, channel>>} ELSE {})
  /\ UNCHANGED <<group, member, editor, upload>>

\* ContactConsentView and the opt-in and opt-out actions: WhatsApp only.
ToggleConsent(k, yes) == Operate /\ SetConsent(k, "whatsapp", yes)

\* _set_channel_consent: the service offers it; no page calls it yet.
RecordChannelConsent(k, yes) == Operate /\ SetConsent(k, "sms", yes)

\* _find_contact: within the organization the number belongs to, or anywhere
\* when no messaging account claims the number the message arrived on.
FindContact(number, org) ==
  {k \in Contacts : contact[k].number = number /\ (org \in Orgs => Home[k] = org)}

\* _handle_inbound: STOP withdraws the consent of the one contact found.
Stop(number, org) ==
  /\ Operate
  /\ \E k \in FindContact(number, org) :
       contact[k].optedIn /\ SetConsent(k, "whatsapp", FALSE)

-----------------------------------------------------------------------------
(* Groups *)

CreateGroup(g) ==
  /\ Operate
  /\ g \notin group
  /\ group' = group \cup {g}
  /\ UNCHANGED <<contact, texting, member, editor, upload, given>>

\* Faulty: the memberships stay.
DeleteGroupAlone(g) ==
  /\ Operate
  /\ g \in group
  /\ group' = group \ {g}
  /\ UNCHANGED <<contact, texting, member, editor, upload, given>>

\* GroupDeleteView: its memberships go with it.
DeleteGroup(g) ==
  /\ Operate
  /\ g \in group
  /\ group' = group \ {g}
  /\ member' = {m \in member : m[2] # g}
  /\ UNCHANGED <<contact, texting, editor, upload, given>>

\* add_contacts_to_group: any contact may be named, in any organization.
AddMembers(g, contacts) ==
  /\ Operate
  /\ g \in group
  /\ \A k \in contacts : Exists(k)
  /\ member' = member \cup {<<k, g>> : k \in contacts}
  /\ UNCHANGED <<contact, texting, group, editor, upload, given>>

RemoveMembers(g, contacts) ==
  /\ Operate
  /\ g \in group
  /\ member' = {m \in member : ~(m[2] = g /\ m[1] \in contacts)}
  /\ UNCHANGED <<contact, texting, group, editor, upload, given>>

\* GroupMembersView: one action, by the button that was pressed.
ChangeMembers(g) ==
  \E contacts \in (SUBSET Contacts) \ {{}} :
    AddMembers(g, contacts) \/ RemoveMembers(g, contacts)

-----------------------------------------------------------------------------
(* Importing a file *)

\* _persist_import looks every number up, in all organizations; when several
\* hold it the last one read counts.
Lookup(numbers) ==
  {found \in [numbers -> Contacts \cup {"nobody"}] :
     \A n \in numbers :
       LET holders == {k \in Contacts : contact[k].number = n}
       IN IF holders = {} THEN found[n] = "nobody" ELSE found[n] \in holders}

\* ContactImportForm and its serializer offer every organization's groups.
ImportTargets == {{}} \cup {{g} : g \in group}

\* rows is the file after parse_rows: the numbers in it and who consented.
ReadFile(org, rows, update, target) ==
  /\ Operate
  /\ upload = Idle
  /\ target \in ImportTargets
  /\ \E found \in Lookup(DOMAIN rows) :
       upload' = [of |-> "import", org |-> org, rows |-> rows, update |-> update,
                  target |-> target, found |-> found, copy |-> contact]
  /\ UNCHANGED <<contact, texting, group, member, editor, given>>

\* The rows of the file: new contacts, and the copies of known ones with
\* consent added, never taken away.
WriteFile ==
  LET known == {n \in DOMAIN upload.rows : upload.found[n] # "nobody"}
      fresh == DOMAIN upload.rows \ known
      updated == IF upload.update THEN {upload.found[n] : n \in known} ELSE {}
      Says(k) == upload.rows[upload.copy[k].number]
  IN /\ upload # Idle
     \* A group or contact deleted meanwhile fails the memberships.
     /\ upload.target \subseteq group
     /\ upload.target # {} => \A k \in updated : Exists(k)
     /\ \E row \in [fresh -> {k \in Contacts : ~Exists(k) /\ Home[k] = upload.org}] :
          /\ \A m, n \in fresh : row[m] = row[n] => m = n
          \* A number taken meanwhile fails the bulk insert and the whole import.
          /\ \A n \in fresh : FindDuplicate(n, upload.org, row[n]) = {}
          /\ contact' = [k \in Contacts |->
               CASE \E n \in fresh : row[n] = k ->
                      LET n == CHOOSE n \in fresh : row[n] = k
                      IN [number |-> n, active |-> TRUE, optedIn |-> upload.rows[n]]
                 [] k \in updated /\ Exists(k) ->
                      [contact[k] EXCEPT !.optedIn = upload.copy[k].optedIn \/ Says(k)]
                 [] OTHER -> contact[k]]
          /\ LET touched == {row[n] : n \in fresh} \cup {k \in updated : Exists(k)}
             IN member' = member \cup (touched \X upload.target)
          /\ given' = given
               \cup {<<row[n], "whatsapp">> : n \in {n \in fresh : upload.rows[n]}}
               \cup {<<k, "whatsapp">> : k \in {k \in updated : Says(k)}}
     /\ upload' = Idle
     /\ UNCHANGED <<texting, group, editor, operations>>

\* The import's transaction rolls back: its record stays PROCESSING.
AbandonFile ==
  /\ upload # Idle
  /\ upload' = Idle
  /\ UNCHANGED <<contact, texting, group, member, editor, given, operations>>

-----------------------------------------------------------------------------
ContactsInit ==
  /\ contact = [k \in Contacts |-> Absent]
  /\ texting = [k \in Contacts |-> "none"]
  /\ group = {}
  /\ member = {}
  /\ editor = [e \in Editors |-> Idle]
  /\ upload = Idle
  /\ given = {}
  /\ operations = 0

ContactsNext ==
  \/ \E k \in Contacts : CreateOnPage(k) \/ CreateByApi(k)
  \/ \E k \in Contacts, number \in Numbers, active \in BOOLEAN : EditOnPage(k, number, active)
  \/ \E k \in Contacts, yes \in BOOLEAN : ToggleConsent(k, yes) \/ RecordChannelConsent(k, yes)
  \/ \E e \in Editors, k \in Contacts : LoadForEdit(e, k)
  \/ \E e \in Editors, number \in Numbers, active \in BOOLEAN : SaveEdit(e, number, active)
  \/ \E number \in Numbers, org \in Orgs \cup {"unknown"} : Stop(number, org)
  \/ \E g \in Groups : CreateGroup(g) \/ ChangeMembers(g)
  \/ \E org \in Orgs, numbers \in (SUBSET Numbers) \ {{}}, update \in BOOLEAN, target \in ImportTargets :
       \E rows \in [numbers -> BOOLEAN] : ReadFile(org, rows, update, target)
  \/ WriteFile
  \/ AbandonFile

ContactsTypeOK ==
  /\ contact \in [Contacts -> Row \cup {Absent}]
  /\ texting \in [Contacts -> {"none", "granted", "withdrawn"}]
  /\ group \subseteq Groups
  /\ member \subseteq Contacts \X group
  /\ given \subseteq Contacts \X Channels
  /\ operations \in 0 .. MaxOps

\* Nobody is opted in on a channel unless somebody recorded consent for that
\* contact and that channel: not another channel's answer, not a file's silence.
ConsentWasGiven ==
  \A k \in Contacts :
    /\ contact[k].optedIn => <<k, "whatsapp">> \in given
    /\ texting[k] = "granted" => <<k, "sms">> \in given

=============================================================================
