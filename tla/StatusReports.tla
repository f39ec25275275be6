---------------------------- MODULE StatusReports ----------------------------
(***************************************************************************)
(* Delivery reports: Meta posts a webhook event, the endpoint stores it    *)
(* and queues a task (whatsapp.webhooks), a worker reads the event and     *)
(* applies its reports one by one (whatsapp.services.inbound,              *)
(* messaging.services.apply_status_update), and a periodic sweep queues    *)
(* again what was never read.  The send tasks of the reported messages run *)
(* beside them: the send response is what stores the provider's id, the    *)
(* only thing a report can be matched by.                                  *)
(*                                                                         *)
(* A report is applied in one transaction, but to a copy of the row that   *)
(* was read before it.                                                     *)
(***************************************************************************)
EXTENDS MessageStates, Sequences

CONSTANTS
  Messages,    \* rows of one PROCESSING campaign, each being sent
  Handlers,    \* worker processes of the webhook queue
  Events,      \* WebhookEvent rows (bound on deliveries)
  Payloads,    \* what a delivery may carry: sequences of reports
  NoStamp,     \* the stamp of a report without a timestamp
  Faults,      \* disturbances that may happen
  MaxFaults,   \* how many of them (bound)
  MaxTasks,    \* bound on queued tasks per event
  None         \* no event

ReportStatus == {"sent", "delivered", "read", "failed"}

FaultKinds == {"broker", "crash", "exception", "senderLost"}

ASSUME ReportsAssumption ==
  /\ \A p \in Payloads : /\ p \in Seq([msg : Messages, status : ReportStatus, stamp : Nat \union {NoStamp}])
                         /\ p # <<>>
  /\ Faults \subseteq FaultKinds
  /\ MaxFaults \in Nat
  /\ MaxTasks \in Nat \ {0}
  /\ None \notin Events
  /\ Messages \intersect Handlers = {}

Reports == UNION {{p[i] : i \in DOMAIN p} : p \in Payloads}

VARIABLES
  campaign,     \* Campaign.status
  row,          \* Message.status
  identified,   \* rows whose provider_message_id is stored
  log,          \* MessageStatusEvent rows made for reports
  applied,      \* history: how often each report advanced its row
  raced,        \* history: rows written on a copy no longer current
  event,        \* WebhookEvent: status ("none" before it exists) and payload
  tasks,        \* broker: queued tasks per event
  at,           \* where each send task and each handler is
  job,          \* a handler's event, reports still to do, and row copy
  faults        \* disturbances so far

vars == <<campaign, row, identified, log, applied, raced, event, tasks, at, job, faults>>
rows   == <<campaign, row, identified, log, applied, raced>>
inbox  == <<event, tasks>>
actors == <<at, job>>

Actors == Messages \union Handlers

NoJob == [event |-> None, rest |-> <<>>, seen |-> "sent"]

Init ==
  /\ campaign = "processing"
  /\ row = [m \in Messages |-> "sending"]
  /\ identified = {}
  /\ log = {}
  /\ applied = [r \in Reports |-> 0]
  /\ raced = {}
  /\ event = [e \in Events |-> [status |-> "none", payload |-> <<>>]]
  /\ tasks = [e \in Events |-> 0]
  /\ at = [a \in Actors |-> IF a \in Messages THEN "calling" ELSE "idle"]
  /\ job = [h \in Handlers |-> NoJob]
  /\ faults = 0

Disturb(kind) ==
  /\ kind \in Faults
  /\ faults < MaxFaults
  /\ faults' = faults + 1

GoTo(a, where) == at' = [at EXCEPT ![a] = where]

-----------------------------------------------------------------------------
(* The send task of a message, from the provider call on.                  *)

\* The provider takes the message; its reports may arrive from now on.
Accept(m) ==
  /\ at[m] = "calling"
  /\ GoTo(m, "accepted")
  /\ UNCHANGED <<rows, inbox, job, faults>>

\* record_send_success: SENT and the provider's id, in one write.
RecordSuccess(m) ==
  /\ at[m] = "accepted"
  /\ row' = [row EXCEPT ![m] = "sent"]
  /\ identified' = identified \union {m}
  /\ GoTo(m, "refresh")
  /\ UNCHANGED <<campaign, log, applied, raced, inbox, job, faults>>

\* The worker is lost before it recorded the answer.
LoseSender(m) ==
  /\ at[m] \in {"calling", "accepted"}
  /\ Disturb("senderLost")
  /\ GoTo(m, "lost")
  /\ UNCHANGED <<rows, inbox, job>>

-----------------------------------------------------------------------------
(* The endpoint and the sweep.                                             *)

\* Meta delivers a payload about accepted messages, any number of times and
\* in any order.  It is stored, then queued, unless the broker fails.
Deliver(e, p) ==
  /\ event[e].status = "none"
  /\ \A i \in DOMAIN p : at[p[i].msg] # "calling"
  /\ event' = [event EXCEPT ![e] = [status |-> "received", payload |-> p]]
  /\ \/ tasks' = [tasks EXCEPT ![e] = 1] /\ UNCHANGED faults
     \/ Disturb("broker") /\ UNCHANGED tasks
  /\ UNCHANGED <<rows, actors>>

\* Faulty: the sweep looks for events whose reading failed.
SweepFailed ==
  LET pending == {e \in Events : event[e].status = "failed" /\ tasks[e] < MaxTasks} IN
  /\ pending # {}
  /\ tasks' = [e \in Events |-> IF e \in pending THEN tasks[e] + 1 ELSE tasks[e]]
  /\ UNCHANGED <<event, rows, actors, faults>>

\* process_pending_webhooks_task
Sweep ==
  LET pending == {e \in Events : event[e].status = "received" /\ tasks[e] < MaxTasks} IN
  /\ pending # {}
  /\ tasks' = [e \in Events |-> IF e \in pending THEN tasks[e] + 1 ELSE tasks[e]]
  /\ UNCHANGED <<event, rows, actors, faults>>

-----------------------------------------------------------------------------
(* process_webhook_event_task                                              *)

Current(h) == Head(job[h].rest)

\* A task for an event already read ends at once.
Take(h) ==
  /\ at[h] = "idle"
  /\ \E e \in Events :
       /\ tasks[e] > 0
       /\ tasks' = [tasks EXCEPT ![e] = @ - 1]
       /\ IF event[e].status = "processed"
          THEN UNCHANGED actors
          ELSE /\ GoTo(h, "match")
               /\ job' = [job EXCEPT ![h] = [NoJob EXCEPT !.event = e, !.rest = event[e].payload]]
  /\ UNCHANGED <<event, rows, faults>>

\* Faulty: one round too many.
NextReportLate(h) ==
  /\ job' = [job EXCEPT ![h].rest = Tail(@)]
  /\ GoTo(h, IF job[h].rest = <<>> THEN "close" ELSE "match")

\* On to the next report of the payload, or to closing the event.
NextReport(h) ==
  /\ job' = [job EXCEPT ![h].rest = Tail(@)]
  /\ GoTo(h, IF Tail(job[h].rest) = <<>> THEN "close" ELSE "match")

\* Find the message by the provider's id.  A report that matches nothing is
\* taken for somebody else's.
Match(h) ==
  /\ at[h] = "match"
  /\ IF Current(h).msg \in identified
     THEN /\ job' = [job EXCEPT ![h].seen = row[Current(h).msg]]
          /\ GoTo(h, "apply")
     ELSE NextReport(h)
  /\ UNCHANGED <<rows, inbox, faults>>

Duplicate(r) == r.stamp # NoStamp /\ r \in log

\* The row was written after the handler read its copy.
Stale(h) == job[h].seen # row[Current(h).msg]

\* Faulty: the event log has no unique constraint.
ApplyUnlogged(h) ==
  LET r == Current(h) IN
  /\ at[h] = "apply"
  /\ log' = log \union {r}
  /\ IF Outranks(job[h].seen, r.status)
     THEN NextReport(h) /\ UNCHANGED <<row, applied, raced>>
     ELSE /\ row' = [row EXCEPT ![r.msg] = r.status]
          /\ applied' = [applied EXCEPT ![r] = @ + 1]
          /\ raced' = IF Stale(h) THEN raced \union {r.msg} ELSE raced
          /\ GoTo(h, "refresh")
          /\ UNCHANGED job
  /\ UNCHANGED <<campaign, identified, inbox, faults>>

\* Faulty: the last report wins, whatever the row says.
ApplyUnranked(h) ==
  LET r == Current(h) IN
  /\ at[h] = "apply"
  /\ log' = log \union {r}
  /\ IF Duplicate(r)
     THEN NextReport(h) /\ UNCHANGED <<row, applied, raced>>
     ELSE /\ row' = [row EXCEPT ![r.msg] = r.status]
          /\ applied' = [applied EXCEPT ![r] = @ + 1]
          /\ raced' = IF Stale(h) THEN raced \union {r.msg} ELSE raced
          /\ GoTo(h, "refresh")
          /\ UNCHANGED job
  /\ UNCHANGED <<campaign, identified, inbox, faults>>

\* apply_status_update: a report already in the log changes nothing (one
\* without a timestamp is stamped now and never already there); the copy's
\* rank decides; the row is overwritten.
ApplyReport(h) ==
  LET r == Current(h) IN
  /\ at[h] = "apply"
  /\ log' = log \union {r}
  /\ IF Duplicate(r) \/ Outranks(job[h].seen, r.status)
     THEN NextReport(h) /\ UNCHANGED <<row, applied, raced>>
     ELSE /\ row' = [row EXCEPT ![r.msg] = r.status]
          /\ applied' = [applied EXCEPT ![r] = @ + 1]
          /\ raced' = IF Stale(h) THEN raced \union {r.msg} ELSE raced
          /\ GoTo(h, "refresh")
          /\ UNCHANGED job
  /\ UNCHANGED <<campaign, identified, inbox, faults>>

\* The event is marked PROCESSED, whatever its row says by now.
Close(h) ==
  /\ at[h] = "close"
  /\ event' = [event EXCEPT ![job[h].event].status = "processed"]
  /\ GoTo(h, "idle")
  /\ job' = [job EXCEPT ![h] = NoJob]
  /\ UNCHANGED <<rows, tasks, faults>>

Busy(h) == at[h] # "idle"

\* An exception while the event is read: the event is marked FAILED.
Break(h) ==
  /\ Busy(h)
  /\ at[h] # "close"
  /\ Disturb("exception")
  /\ event' = [event EXCEPT ![job[h].event].status = "failed"]
  /\ GoTo(h, "idle")
  /\ job' = [job EXCEPT ![h] = NoJob]
  /\ UNCHANGED <<rows, tasks>>

\* The handler's process is lost; the task was not acknowledged.
CrashHandler(h) ==
  /\ Busy(h)
  /\ Disturb("crash")
  /\ tasks' = [tasks EXCEPT ![job[h].event] = @ + 1]
  /\ GoTo(h, "idle")
  /\ job' = [job EXCEPT ![h] = NoJob]
  /\ UNCHANGED <<event, rows>>

-----------------------------------------------------------------------------
(* _finalize, by send tasks after SENT and by handlers after a report that *)
(* changed the row: refresh the campaign, look for rows in flight, write.  *)

\* A send task is over; a handler goes on with its payload.
Resume(a) ==
  IF a \in Handlers THEN NextReport(a) ELSE GoTo(a, "done") /\ UNCHANGED job

Refresh(a) ==
  /\ at[a] = "refresh"
  /\ IF campaign = "processing" THEN GoTo(a, "count") /\ UNCHANGED job ELSE Resume(a)
  /\ UNCHANGED <<rows, inbox, faults>>

\* Faulty: only rows that have not been claimed count as in flight.
CountClaimable(a) ==
  /\ at[a] = "count"
  /\ IF \E m \in Messages : row[m] \in Claimable
     THEN Resume(a)
     ELSE GoTo(a, "complete") /\ UNCHANGED job
  /\ UNCHANGED <<rows, inbox, faults>>

Count(a) ==
  /\ at[a] = "count"
  /\ IF \E m \in Messages : row[m] \in InFlight
     THEN Resume(a)
     ELSE GoTo(a, "complete") /\ UNCHANGED job
  /\ UNCHANGED <<rows, inbox, faults>>

Complete(a) ==
  /\ at[a] = "complete"
  /\ campaign' = "completed"
  /\ Resume(a)
  /\ UNCHANGED <<row, identified, log, applied, raced, inbox, faults>>

Finalize(a) == Refresh(a) \/ Count(a) \/ Complete(a)

-----------------------------------------------------------------------------

SenderStep(m)  == Accept(m) \/ RecordSuccess(m) \/ Finalize(m)
HandlerStep(h) == Take(h) \/ Match(h) \/ ApplyReport(h) \/ Close(h) \/ Finalize(h)

Next ==
  \/ \E m \in Messages : SenderStep(m) \/ LoseSender(m)
  \/ \E e \in Events, p \in Payloads : Deliver(e, p)
  \/ Sweep
  \/ \E h \in Handlers : HandlerStep(h) \/ Break(h) \/ CrashHandler(h)

Spec == Init /\ [][Next]_vars

\* The beat keeps sweeping and the workers keep working; Meta need not
\* deliver anything.
FairSpec ==
  /\ Spec
  /\ WF_vars(Sweep)
  /\ \A h \in Handlers : WF_vars(HandlerStep(h))

-----------------------------------------------------------------------------
(* Properties.                                                             *)

EventStatus == {"none", "received", "processed", "failed"}
SenderAt    == {"calling", "accepted", "refresh", "count", "complete", "done", "lost"}
HandlerAt   == {"idle", "match", "apply", "refresh", "count", "complete", "close"}

\* A handler that took a task holds a stored event and, until it closes the
\* event, a report to deal with.
HandlerOK(h) ==
  /\ at[h] \in HandlerAt
  /\ at[h] # "idle" => job[h].event \in {e \in Events : event[e].status # "none"}
  /\ at[h] \notin {"idle", "close"} => job[h].rest # <<>>

\* Every variable has its type, only stored events have tasks, and handlers
\* hold what they work on.
TypeOK ==
  /\ campaign \in {"processing", "completed"}
  /\ row \in [Messages -> MessageStatus]
  /\ identified \subseteq Messages
  /\ log \subseteq Reports
  /\ applied \in [Reports -> Nat]
  /\ raced \subseteq Messages
  /\ event \in [Events -> [status : EventStatus, payload : Payloads \union {<<>>}]]
  /\ tasks \in [Events -> Nat]
  /\ at \in [Actors -> SenderAt \union HandlerAt]
  /\ job \in [Handlers -> [event : Events \union {None}, rest : Seq(Reports), seen : MessageStatus]]
  /\ faults \in Nat
  /\ \A e \in Events : IF event[e].status = "none" THEN tasks[e] = 0
                                                  ELSE event[e].payload \in Payloads
  /\ \A h \in Handlers : HandlerOK(h)
  /\ \A m \in Messages : at[m] \in SenderAt

\* "A redelivered webhook is recorded once and changes nothing twice": no
\* report with a timestamp ever advances its row twice, with any number of
\* handlers, duplicated deliveries and tasks, and copies read too early.
AppliedOnce == \A r \in Reports : r.stamp # NoStamp => applied[r] <= 1

\* Reports only ever reach rows that have left the queue, so a campaign that
\* a handler or a send task completed has, and keeps, no row in flight.
CompletedIsSettled ==
  campaign = "completed" => \A m \in Messages : row[m] \notin InFlight

\* A row stands at, or above, every report in its log, with any number of
\* handlers, unless one wrote it on a copy that another had outdated.  Late,
\* repeated and undated reports, crashes and broken readings lose none and
\* drag no row back: only that race can.
RowCoversLog == \A r \in log : r.msg \notin raced => Outranks(row[r.msg], r.status)

\* "The periodic sweep picks up anything left unprocessed": a stored event is
\* read, or its reading fails for good, even if its task was never queued or
\* was lost with its worker.
EveryEventIsRead ==
  \A e \in Events : event[e].status = "received" ~> event[e].status \in {"processed", "failed"}

-----------------------------------------------------------------------------
(* Statements of the documentation that the code does not keep.            *)

\* "A late sent ... never drags the message's status backwards."
NeverBackwards == [][\A m \in Messages : Outranks(row'[m], row[m])]_vars

\* A report that matches no row is not ours to record: an event that was
\* read has all its reports in the log.
OursAreRecorded ==
  \A e \in Events : event[e].status = "processed"
    => \A i \in DOMAIN event[e].payload : event[e].payload[i] \in log

\* "A failure is recorded on the event and left for the sweep."
FailuresAreSwept ==
  \A e \in Events : event[e].status = "failed" ~> event[e].status = "processed"

=============================================================================
