------------------------------ MODULE Notices -------------------------------
(***************************************************************************)
(* What an organization is told by mail, and the quota whose limits are    *)
(* one of the things it is told.                                           *)
(*                                                                         *)
(* A report (a campaign finished, a card was declined, a launch met the    *)
(* quota) goes to its recipients one after the other; for each a           *)
(* NotificationLog row with a unique key is inserted first and the mail    *)
(* sent after.  Some reports run inside a transaction that may roll back,  *)
(* rows and all, when the mail is gone already; a worker may be lost       *)
(* between the two.                                                        *)
(***************************************************************************)
EXTENDS Integers, Sequences, FiniteSets

CONSTANTS
  Users,           \* the members
  Roll, AdminRoll, \* what the membership query gives, in its order: everybody,
                   \* or with its filter the owners and administrators
  Finishes,        \* campaigns that finish
  Reporters,       \* workers and requests
  Quota,           \* max_messages_per_month
  MaxDay,          \* bound: days
  MaxReports       \* bound: reports

ASSUME NoticesAssumption ==
  /\ {Roll, AdminRoll} \subseteq Seq(Users)
  /\ {Quota, MaxDay, MaxReports} \subseteq Nat

QuotaEvents == {"quota warning", "quota reached"}
Events == Finishes \cup QuotaEvents \cup {"declined"}

\* NotificationKind, as far as a key or a recipient depends on it.
KindOf(e) == IF e \in Finishes THEN "finished" ELSE e

\* _recipients_for: ADMIN_ONLY_KINDS go to those who can act on them.
Recipients(e) == IF e \in Finishes THEN Roll ELSE AdminRoll

\* The key of the row: the event's own for the first recipient; pop() has then
\* taken it, and the others' is made of the kind and the day.
Keys == (Events \X Users) \cup ({KindOf(e) : e \in Events} \X Users \X (0 .. MaxDay))

VARIABLES
  wants,     \* who has this kind of mail switched on and a confirmed address
  logged,    \* the committed NotificationLog rows
  mails,     \* history: mails sent, by key
  told,      \* history: who was mailed about which event
  undone,    \* history: rows rolled back, by key
  reporter,  \* each report being made
  launched,  \* message rows of the period, and those with sent_at set
  day,
  reports

noticesVars == <<wants, logged, mails, told, undone, reporter, launched, day, reports>>

Resting == [event |-> "none", left |-> <<>>, own |-> FALSE, atomic |-> FALSE,
            held |-> {}, key |-> <<>>, adds |-> 0]

Key(r) ==
  LET w == reporter[r] u == Head(w.left)
  IN IF w.own THEN <<w.event, u>> ELSE <<KindOf(w.event), u, day>>

\* notify_organization: one recipient after the other.
Report(r, e, atomic, adds) ==
  /\ reports < MaxReports
  /\ reports' = reports + 1
  /\ reporter[r] = Resting
  /\ reporter' = [reporter EXCEPT ![r] =
       [event |-> e, left |-> IF e = "nothing" THEN <<>> ELSE Recipients(e), own |-> TRUE,
        atomic |-> atomic, held |-> {}, key |-> <<>>, adds |-> adds]]
  /\ UNCHANGED <<wants, logged, mails, told, undone, launched, day>>

-----------------------------------------------------------------------------
(* What is reported *)

\* _notify_campaign_finished, after the status is saved; two workers may both
\* find the campaign finished.
CampaignFinished(r, c) == Report(r, c, FALSE, 0)

\* _mark_subscription_past_due, in the transaction that records the decline.
PaymentFailed(r) == Report(r, "declined", TRUE, 0)

\* check_can_send and check: the messages already sent are counted, those of
\* earlier launches still waiting are not.  Past WARNING_THRESHOLD somebody is
\* warned; over the limit somebody is told and the launch is refused.
LaunchCheck(r, n) ==
  LET used == launched.sent
  IN Report(r, CASE used + n > Quota -> "quota reached"
                [] used + n <= Quota /\ Quota > 0 /\ 10 * used >= 8 * Quota -> "quota warning"
                [] OTHER -> "nothing",
           TRUE, n)

MessageSent ==
  /\ launched.sent < launched.rows
  /\ launched' = [launched EXCEPT !.sent = @ + 1]
  /\ UNCHANGED <<wants, logged, mails, told, undone, reporter, day, reports>>

-----------------------------------------------------------------------------
(* notify, for the recipient at the head *)

Passed(w) == [w EXCEPT !.left = Tail(@), !.own = FALSE, !.key = <<>>]

\* _is_reachable and NotificationPreference.wants say no.
Skip(r) ==
  /\ reporter[r].left # <<>> /\ reporter[r].key = <<>>
  /\ Head(reporter[r].left) \notin wants
  /\ reporter' = [reporter EXCEPT ![r] = Passed(@)]
  /\ UNCHANGED <<wants, logged, mails, told, undone, launched, day, reports>>

HeldByOthers(r) == UNION {reporter[s].held : s \in Reporters \ {r}}

\* Faulty: looks for a committed row and inserts nothing until the mail is out.
ClaimByLooking(r) ==
  LET w == reporter[r] key == Key(r)
  IN /\ w.left # <<>> /\ w.key = <<>>
     /\ Head(w.left) \in wants
     /\ IF key \in logged
        THEN reporter' = [reporter EXCEPT ![r] = Passed(@)]
        ELSE reporter' = [reporter EXCEPT ![r] = [@ EXCEPT !.key = key]]
     /\ UNCHANGED <<wants, logged, mails, told, undone, launched, day, reports>>

\* The insert waits for another transaction's row with the same key; a row
\* that is there already means there is nothing to send.
Claim(r) ==
  LET w == reporter[r] key == Key(r)
  IN /\ w.left # <<>> /\ w.key = <<>>
     /\ Head(w.left) \in wants
     /\ key \notin HeldByOthers(r)
     /\ IF key \in logged \cup w.held
        THEN /\ reporter' = [reporter EXCEPT ![r] = Passed(@)]
             /\ UNCHANGED logged
        ELSE /\ reporter' = [reporter EXCEPT ![r] =
                  [w EXCEPT !.key = key, !.held = IF w.atomic THEN w.held \cup {key} ELSE w.held]]
             /\ logged' = IF w.atomic THEN logged ELSE logged \cup {key}
     /\ UNCHANGED <<wants, mails, told, undone, launched, day, reports>>

\* send_mail, or the failure notify swallows; the row stays either way.
Mail(r) ==
  /\ reporter[r].key # <<>>
  /\ \/ UNCHANGED <<mails, told>>
     \/ /\ mails' = [mails EXCEPT ![reporter[r].key] = @ + 1]
        /\ told' = told \cup {<<reporter[r].event, Head(reporter[r].left)>>}
  /\ reporter' = [reporter EXCEPT ![r] = Passed(@)]
  /\ UNCHANGED <<wants, logged, undone, launched, day, reports>>

-----------------------------------------------------------------------------
(* The end of the transaction *)

Undo(r) ==
  /\ reporter' = [reporter EXCEPT ![r] = Resting]
  /\ undone' = [k \in Keys |-> undone[k] + IF k \in reporter[r].held THEN 1 ELSE 0]
  /\ UNCHANGED <<wants, logged, mails, told, launched, day, reports>>

\* materialize_messages and the commit; QuotaExceeded never gets here.
Commit(r) ==
  LET w == reporter[r]
  IN /\ w # Resting /\ w.left = <<>>
     /\ w.event # "quota reached"
     /\ reporter' = [reporter EXCEPT ![r] = Resting]
     /\ logged' = logged \cup w.held
     /\ launched' = [launched EXCEPT !.rows = @ + w.adds]
     /\ UNCHANGED <<wants, mails, told, undone, day, reports>>

\* QuotaExceeded, or any later failure of the same transaction.
RollBack(r) ==
  /\ reporter[r].atomic /\ reporter[r].left = <<>>
  /\ Undo(r)

\* The worker is lost; what it had not committed is gone.
Lost(r) == reporter[r] # Resting /\ Undo(r)

\* ProfileView._handle_notifications.
SavePreferences(u) ==
  /\ reports < MaxReports
  /\ reports' = reports + 1
  /\ wants' \in {wants \cup {u}, wants \ {u}}
  /\ UNCHANGED <<logged, mails, told, undone, reporter, launched, day>>

NextDay ==
  /\ day < MaxDay
  /\ day' = day + 1
  /\ UNCHANGED <<wants, logged, mails, told, undone, reporter, launched, reports>>

-----------------------------------------------------------------------------
NoticesInit ==
  /\ wants = Users
  /\ logged = {}
  /\ mails = [k \in Keys |-> 0]
  /\ told = {}
  /\ undone = [k \in Keys |-> 0]
  /\ reporter = [r \in Reporters |-> Resting]
  /\ launched = [rows |-> 0, sent |-> 0]
  /\ day = 0
  /\ reports = 0

NoticesNext ==
  \/ \E r \in Reporters :
       \/ \E c \in Finishes : CampaignFinished(r, c)
       \/ PaymentFailed(r)
       \/ \E n \in 1 .. Quota : LaunchCheck(r, n)
       \/ Skip(r)
       \/ Claim(r)
       \/ Mail(r)
       \/ Commit(r)
       \/ RollBack(r)
       \/ Lost(r)
  \/ MessageSent
  \/ \E u \in Users : SavePreferences(u)
  \/ NextDay

NoticesTypeOK ==
  /\ wants \subseteq Users
  /\ logged \subseteq Keys
  /\ \A r \in Reporters : reporter[r].held \subseteq Keys
  /\ launched.sent \in 0 .. launched.rows
  /\ day \in 0 .. MaxDay

-----------------------------------------------------------------------------
\* Under one key nobody is mailed twice, whichever workers report at once and
\* wherever one is lost, unless a transaction took the row back in between.
MailedOncePerRow ==
  \A k \in Keys :
    mails[k] <= undone[k]
                + IF k \in logged \cup UNION {reporter[r].held : r \in Reporters} THEN 1 ELSE 0

-----------------------------------------------------------------------------
(* What the code does not keep (see the README) *)

\* notifications.py:17, "Nothing is sent twice".
NothingSentTwice == \A k \in Keys : mails[k] <= 1

\* notifications.py:19: what is about one event is told once to each person.
ToldOncePerEvent ==
  [][\A r \in Reporters :
       reporter[r].key # <<>> /\ mails' # mails /\ reporter'[r] # reporter[r] =>
         <<reporter[r].event, Head(reporter[r].left)>> \notin told]_noticesVars

\* models.py:231, a duplicate is one of the same event: a recipient who wants
\* the mail is passed over only when told of this very event.
PassedOverOnlyIfTold ==
  [][\A r \in Reporters :
       /\ reporter[r].left # <<>> /\ reporter[r].key = <<>>
       /\ reporter'[r].event = reporter[r].event
       /\ reporter'[r].left = Tail(reporter[r].left)
       /\ Head(reporter[r].left) \in wants
       => <<reporter[r].event, Head(reporter[r].left)>> \in logged \cup reporter[r].held]_noticesVars

\* usage.py:312, "The gate in front of a campaign launch": no more messages
\* than the plan allows.
QuotaKept == launched.rows <= Quota

=============================================================================
