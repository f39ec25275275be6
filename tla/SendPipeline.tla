---------------------------- MODULE SendPipeline ----------------------------
(***************************************************************************)
(* One campaign from launch to completion: web requests that move the      *)
(* campaign (campaigns.services), Celery workers that run the dispatch     *)
(* task and one send task per message row (whatsapp.tasks), the rows they  *)
(* write (messaging.services), and the broker between them.                *)
(*                                                                         *)
(* Nothing here locks.  A request or a worker works on the copy of the row *)
(* it loaded and writes it back later; the single guarded write is the     *)
(* conditional UPDATE that claims a row.  Each action is one database      *)
(* statement or one transaction, with the broker calls that follow it.     *)
(***************************************************************************)
EXTENDS MessageStates, CampaignStates

CONSTANTS
  Messages,     \* the campaign's recipients, one row each once materialized
  Workers,      \* Celery worker processes
  Requests,     \* web requests (or beat runs); each handles one operation
  RequestOps,   \* operations requests may ask for
  ButtonsOnly,  \* TRUE: only the buttons of the campaign page send them
  Audiences,    \* what resolve_audience may return at a launch
  MaxRetries,   \* settings.WHATSAPP_MAX_RETRIES
  TaskRetries,  \* Celery's Task.max_retries, the default of retry()
  Faults,       \* disturbances that may happen
  MaxFaults,    \* how many of them (bound)
  None          \* no message

LifecycleOps == {"launch", "pause", "resume", "cancel"}

FaultKinds == {"crash", "redeliver", "throttle", "unconfigured", "lostReply", "broker"}

ASSUME PipelineAssumption ==
  /\ RequestOps \subseteq LifecycleOps
  /\ ButtonsOnly \in BOOLEAN
  /\ Audiences \subseteq (SUBSET Messages) \ {{}}
  /\ MaxRetries \in Nat
  /\ TaskRetries \in Nat
  /\ Faults \subseteq FaultKinds
  /\ MaxFaults \in Nat
  /\ None \notin Messages

VARIABLES
  campaign,    \* Campaign.status in the database
  status,      \* Message.status of every row, "absent" before it exists
  attempts,    \* Message.attempt_count
  sends,       \* broker: how many send tasks <<message, request.retries>>
  dispatches,  \* broker: how many dispatch tasks
  pc,          \* where each worker is in its task
  job,         \* each worker's task and the copies it loaded
  request,     \* each request's stage, operation and loaded campaign status
  calls,       \* history: send calls made to the provider, per message
  copies,      \* history: sends the provider accepted, per message
  lost,        \* history: accepted sends whose answer looked like a failure
  overrun,     \* history: calls of each worker since the campaign is halted
  mishap,      \* history: what last left a row without anybody to send it
  throttled,   \* history: rows a worker handed back because it had to wait
  faults       \* disturbances so far

rows     == <<status, attempts>>
broker   == <<sends, dispatches>>
workers  == <<pc, job>>
provider == <<calls, copies, lost>>
trace    == <<overrun, mishap, throttled>>
history  == <<provider, trace>>
vars     == <<campaign, rows, broker, workers, request, history, faults>>

Mishaps == {"none", "broker", "released", "exhausted", "lost"}

RetryCap  == IF MaxRetries >= TaskRetries THEN MaxRetries ELSE TaskRetries
SendTasks == Messages \X (0..RetryCap)

\* Worker positions in which the worker owns the claim of its message.
BeforeCall == {"claimed", "halted", "cleared", "unconfigured"}
AfterCall  == {"accepted", "transient", "refused"}
Holding    == BeforeCall \union AfterCall
\* ... and those after it: finalizing the campaign, or dispatching.
Finalizing  == {"refresh", "counting", "completing"}
Dispatching == {"listing", "marking", "markingNone"}
Positions   == {"idle"} \union Holding \union Finalizing \union Dispatching

\* msg, retries: the task.  seen, attempt: the in-memory Message.
\* processing: whether the in-memory Campaign says PROCESSING.
NewJob(m, n) == [msg |-> m, retries |-> n, seen |-> "absent", attempt |-> 0,
                 processing |-> FALSE]
NoJob == NewJob(None, 0)

Holds(w, m) == pc[w] \in Holding /\ job[w].msg = m

-----------------------------------------------------------------------------

Init ==
  /\ campaign = "draft"
  /\ status = [m \in Messages |-> "absent"]
  /\ attempts = [m \in Messages |-> 0]
  /\ sends = [t \in SendTasks |-> 0]
  /\ dispatches = 0
  /\ pc = [w \in Workers |-> "idle"]
  /\ job = [w \in Workers |-> NoJob]
  /\ request = [r \in Requests |-> [stage |-> "new", op |-> "launch", seen |-> "draft"]]
  /\ calls = [m \in Messages |-> 0]
  /\ copies = [m \in Messages |-> 0]
  /\ lost = [m \in Messages |-> 0]
  /\ overrun = [w \in Workers |-> 0]
  /\ mishap = [m \in Messages |-> "none"]
  /\ throttled = {}
  /\ faults = 0

Disturb(kind) ==
  /\ kind \in Faults
  /\ faults < MaxFaults
  /\ faults' = faults + 1

-----------------------------------------------------------------------------
(* Requests.  A view loads the campaign, then a service acts on that copy. *)

Target(op) == CASE op = "pause"  -> "paused"
                [] op = "cancel" -> "cancelled"
                [] OTHER         -> "processing"

\* can_launch for a launch, the transition table for everything.
Permitted(op, seen) ==
  /\ op = "launch" => seen \in Editable
  /\ Target(op) \in AllowedTransitions[seen]

\* The campaign page shows Resume once the campaign has been paused; the API
\* takes any operation at any time.  By the time the button's request loads
\* the campaign, it may have moved on, but never back to a draft.
Offered(op) == ButtonsOnly /\ op = "resume" => campaign \notin Editable

\* get_object(): the request reads the campaign row.
Load(r, op) ==
  /\ request[r].stage = "new"
  /\ Offered(op)
  /\ request' = [request EXCEPT ![r] = [stage |-> "loaded", op |-> op, seen |-> campaign]]
  /\ UNCHANGED <<campaign, rows, broker, workers, history, faults>>

Finish(r) == request' = [request EXCEPT ![r].stage = "done"]

\* The request's copy decides, and the whole status column is written back.
\* Calls are counted from the moment the campaign halts.
Commit(r, op) ==
  /\ request[r].stage = "loaded"
  /\ request[r].op = op
  /\ Permitted(op, request[r].seen)
  /\ campaign' = Target(op)
  /\ overrun' = IF {campaign, Target(op)} \subseteq Halted THEN overrun ELSE [w \in Workers |-> 0]
  /\ Finish(r)

\* transaction.on_commit(dispatch_campaign): lost if the process dies after
\* the commit or the broker refuses the task.
DispatchOnCommit ==
  \/ dispatches' = dispatches + 1 /\ UNCHANGED <<mishap, faults>>
  \/ /\ Disturb("broker")
     /\ mishap' = [m \in Messages |-> IF status'[m] \in Claimable THEN "broker" ELSE mishap[m]]
     /\ UNCHANGED dispatches

\* Faulty: a relaunch updates the existing rows instead of skipping them.
LaunchResetsRows(r) ==
  /\ Commit(r, "launch")
  /\ \E audience \in Audiences :
       status' = [m \in Messages |-> IF m \in audience THEN "pending" ELSE status[m]]
  /\ DispatchOnCommit
  /\ UNCHANGED <<attempts, sends, workers, provider, throttled>>

\* launch_campaign: materialize a row for each resolved contact that has none
\* (the unique constraint drops the others), move to PROCESSING, dispatch.
Launch(r) ==
  /\ Commit(r, "launch")
  /\ \E audience \in Audiences :
       status' = [m \in Messages |-> IF m \in audience /\ status[m] = "absent"
                                     THEN "pending" ELSE status[m]]
  /\ DispatchOnCommit
  /\ UNCHANGED <<attempts, sends, workers, provider, throttled>>

\* pause_campaign
Pause(r) ==
  /\ Commit(r, "pause")
  /\ UNCHANGED <<rows, broker, workers, provider, mishap, throttled, faults>>

\* resume_campaign
Resume(r) ==
  /\ Commit(r, "resume")
  /\ UNCHANGED <<rows, sends, workers, provider, throttled>>
  /\ DispatchOnCommit

\* Faulty: the rows get the campaign's status.
CancelWithCampaignStatus(r) ==
  /\ Commit(r, "cancel")
  /\ status' = [m \in Messages |-> IF status[m] \in InFlight THEN "cancelled" ELSE status[m]]
  /\ UNCHANGED <<attempts, broker, workers, provider, mishap, throttled, faults>>

\* cancel_campaign: every row in flight, SENDING included, becomes FAILED.
Cancel(r) ==
  /\ Commit(r, "cancel")
  /\ status' = [m \in Messages |-> IF status[m] \in InFlight THEN "failed" ELSE status[m]]
  /\ UNCHANGED <<attempts, broker, workers, provider, mishap, throttled, faults>>

\* InvalidStateTransition: nothing is written.
Refuse(r) ==
  /\ request[r].stage = "loaded"
  /\ ~Permitted(request[r].op, request[r].seen)
  /\ Finish(r)
  /\ UNCHANGED <<campaign, rows, broker, workers, history, faults>>

CommitRequest(r) == Launch(r) \/ Pause(r) \/ Resume(r) \/ Cancel(r) \/ Refuse(r)

-----------------------------------------------------------------------------
(* Worker steps.                                                           *)

GoTo(w, where) == pc' = [pc EXCEPT ![w] = where] /\ UNCHANGED job

\* The task returns (or raises) and is acknowledged.
EndTask(w) ==
  /\ pc' = [pc EXCEPT ![w] = "idle"]
  /\ job' = [job EXCEPT ![w] = NoJob]

\* What is, or is no longer, the matter with the rows of S.
Mark(S, what) == mishap' = [m \in Messages |-> IF m \in S THEN what ELSE mishap[m]]

\* Faulty: the last retry is never made.
RetryOffByOne(w, limit) ==
  LET again == <<job[w].msg, job[w].retries + 1>>
  IN  IF job[w].retries + 1 < limit
      THEN sends' = [sends EXCEPT ![again] = @ + 1] /\ UNCHANGED mishap
      ELSE Mark({job[w].msg}, "exhausted") /\ UNCHANGED sends

\* task.retry(max_retries=limit): a new task with one more retry, or
\* MaxRetriesExceededError and no task at all.
Retry(w, limit) ==
  LET again == <<job[w].msg, job[w].retries + 1>>
  IN  IF job[w].retries < limit
      THEN sends' = [sends EXCEPT ![again] = @ + 1] /\ UNCHANGED mishap
      ELSE Mark({job[w].msg}, "exhausted") /\ UNCHANGED sends

\* A worker takes the dispatch task and loads the campaign.
TakeDispatch(w) ==
  /\ pc[w] = "idle"
  /\ dispatches > 0
  /\ dispatches' = dispatches - 1
  /\ IF campaign \in Halted
     THEN UNCHANGED workers
     ELSE /\ pc' = [pc EXCEPT ![w] = "listing"]
          /\ job' = [job EXCEPT ![w] = [NoJob EXCEPT !.processing = (campaign = "processing")]]
  /\ UNCHANGED <<campaign, rows, sends, request, history, faults>>

Listed == {m \in Messages : status[m] \in Claimable}

SendTaskFor(S) ==
  sends' = [t \in SendTasks |-> IF t[1] \in S /\ t[2] = 0 THEN sends[t] + 1 ELSE sends[t]]

\* One send task per claimable row.  If the broker fails midway the task dies
\* with part of them queued.
EnqueueListed(w) ==
  /\ pc[w] = "listing"
  /\ \/ /\ SendTaskFor(Listed)
        /\ Mark(Listed, "none")
        /\ GoTo(w, IF Listed = {} THEN "markingNone" ELSE "marking")
        /\ UNCHANGED faults
     \/ /\ Disturb("broker")
        /\ \E queued \in (SUBSET Listed) \ {Listed} :
             SendTaskFor(queued) /\ Mark(Listed \ queued, "broker")
        /\ EndTask(w)
  /\ UNCHANGED <<campaign, rows, dispatches, request, provider, overrun, throttled>>

\* Faulty: every row of the campaign becomes QUEUED, sent ones too.
MarkQueuedUnguarded(w) ==
  /\ pc[w] \in {"marking", "markingNone"}
  /\ status' = [m \in Messages |-> IF status[m] # "absent" THEN "queued" ELSE status[m]]
  /\ IF pc[w] = "markingNone" /\ job[w].processing THEN GoTo(w, "counting") ELSE EndTask(w)
  /\ UNCHANGED <<campaign, attempts, broker, request, history, faults>>

\* PENDING rows become QUEUED; a dispatch that found nothing finalizes with
\* the campaign it loaded at the start.
MarkQueued(w) ==
  /\ pc[w] \in {"marking", "markingNone"}
  /\ status' = [m \in Messages |-> IF status[m] = "pending" THEN "queued" ELSE status[m]]
  /\ IF pc[w] = "markingNone" /\ job[w].processing THEN GoTo(w, "counting") ELSE EndTask(w)
  /\ UNCHANGED <<campaign, attempts, broker, request, history, faults>>

\* Faulty: anything that is not finished may be claimed, SENDING included.
ClaimUnfinished(w) ==
  /\ pc[w] = "idle"
  /\ \E t \in SendTasks :
       /\ sends[t] > 0
       /\ sends' = [sends EXCEPT ![t] = @ - 1]
       /\ IF status[t[1]] \in InFlight
          THEN /\ status' = [status EXCEPT ![t[1]] = "sending"]
               /\ pc' = [pc EXCEPT ![w] = "claimed"]
               /\ job' = [job EXCEPT ![w] = NewJob(t[1], t[2])]
               /\ Mark({t[1]}, "none")
          ELSE UNCHANGED <<status, workers, mishap>>
  /\ UNCHANGED <<campaign, attempts, dispatches, request, provider, overrun, throttled, faults>>

\* claim_for_sending, the conditional UPDATE.  A loser's task ends.
Claim(w) ==
  /\ pc[w] = "idle"
  /\ \E t \in SendTasks :
       /\ sends[t] > 0
       /\ sends' = [sends EXCEPT ![t] = @ - 1]
       /\ IF status[t[1]] \in Claimable
          THEN /\ status' = [status EXCEPT ![t[1]] = "sending"]
               /\ pc' = [pc EXCEPT ![w] = "claimed"]
               /\ job' = [job EXCEPT ![w] = NewJob(t[1], t[2])]
               /\ Mark({t[1]}, "none")
          ELSE UNCHANGED <<status, workers, mishap>>
  /\ UNCHANGED <<campaign, attempts, dispatches, request, provider, overrun, throttled, faults>>

\* Faulty: the campaign is not looked at again after the claim.
RereadIgnoresHalt(w) ==
  /\ pc[w] = "claimed"
  /\ pc' = [pc EXCEPT ![w] = "cleared"]
  /\ job' = [job EXCEPT ![w].seen = status[job[w].msg],
                        ![w].attempt = attempts[job[w].msg]]
  /\ UNCHANGED <<campaign, rows, broker, request, history, faults>>

\* Faulty: only the status is read again, not the attempt count.
RereadStatusOnly(w) ==
  /\ pc[w] = "claimed"
  /\ pc' = [pc EXCEPT ![w] = IF campaign \in Halted THEN "halted" ELSE "cleared"]
  /\ job' = [job EXCEPT ![w].seen = status[job[w].msg]]
  /\ UNCHANGED <<campaign, rows, broker, request, history, faults>>

\* The re-read that follows the claim, of the row and of its campaign.
Reread(w) ==
  /\ pc[w] = "claimed"
  /\ pc' = [pc EXCEPT ![w] = IF campaign \in Halted THEN "halted" ELSE "cleared"]
  /\ job' = [job EXCEPT ![w].seen = status[job[w].msg],
                        ![w].attempt = attempts[job[w].msg]]
  /\ UNCHANGED <<campaign, rows, broker, request, history, faults>>

\* release_claim: back to QUEUED, if the row is still SENDING.
Released(m) == IF status[m] = "sending" THEN [status EXCEPT ![m] = "queued"] ELSE status

\* The campaign is halted, or no sender can be built: the task is over.
ReleaseAndStop(w) ==
  /\ pc[w] \in {"halted", "unconfigured"}
  /\ status' = Released(job[w].msg)
  /\ Mark({job[w].msg}, "released")
  /\ EndTask(w)
  /\ UNCHANGED <<campaign, attempts, broker, request, provider, overrun, throttled, faults>>

\* The token bucket said wait: release, then retry with max_retries=None,
\* which Celery reads as the task's own default.
Throttled(w) ==
  /\ pc[w] = "cleared"
  /\ Disturb("throttle")
  /\ status' = Released(job[w].msg)
  /\ throttled' = throttled \union {job[w].msg}
  /\ Retry(w, TaskRetries)
  /\ EndTask(w)
  /\ UNCHANGED <<campaign, attempts, dispatches, request, provider, overrun>>

\* routing.send raised ProviderNotConfigured or NotImplementedError.
NoSender(w) ==
  /\ pc[w] = "cleared"
  /\ Disturb("unconfigured")
  /\ GoTo(w, "unconfigured")
  /\ UNCHANGED <<campaign, rows, broker, request, history>>

Bump(f, m) == [f EXCEPT ![m] = @ + 1]

\* routing.send calls the provider, and the answer is a success with an id, a
\* retryable failure or a permanent one.  A timeout, or a success without an
\* id, is a retryable failure although the provider took the message.
CallProvider(w) ==
  LET m == job[w].msg IN
  /\ pc[w] = "cleared"
  /\ calls' = Bump(calls, m)
  /\ overrun' = IF campaign \in Halted THEN Bump(overrun, w) ELSE overrun
  /\ \/ GoTo(w, "accepted") /\ copies' = Bump(copies, m) /\ UNCHANGED <<lost, faults>>
     \/ GoTo(w, "transient") /\ UNCHANGED <<copies, lost, faults>>
     \/ GoTo(w, "refused") /\ UNCHANGED <<copies, lost, faults>>
     \/ /\ Disturb("lostReply")
        /\ GoTo(w, "transient")
        /\ copies' = Bump(copies, m)
        /\ lost' = Bump(lost, m)
  /\ UNCHANGED <<campaign, rows, broker, request, mishap, throttled>>

\* apply_status_update on the in-memory row: the copy's rank decides, the
\* row is overwritten.
Apply(w, report) ==
  status' = IF Outranks(job[w].seen, report) THEN status
            ELSE [status EXCEPT ![job[w].msg] = report]

\* record_send_success
RecordSuccess(w) ==
  /\ pc[w] = "accepted"
  /\ Apply(w, "sent")
  /\ GoTo(w, "refresh")
  /\ UNCHANGED <<campaign, attempts, broker, request, history, faults>>

Attempt(w) == job[w].attempt + 1

\* Faulty: the attempt is not counted.
ScheduleRetryUncounted(w) ==
  /\ pc[w] = "transient"
  /\ Attempt(w) <= MaxRetries
  /\ status' = [status EXCEPT ![job[w].msg] = "queued"]
  /\ Retry(w, MaxRetries)
  /\ EndTask(w)
  /\ UNCHANGED <<campaign, attempts, dispatches, request, provider, overrun, throttled, faults>>

\* Faulty: the row is not handed back before the retry.
ScheduleRetryKeepsClaim(w) ==
  /\ pc[w] = "transient"
  /\ Attempt(w) <= MaxRetries
  /\ attempts' = [attempts EXCEPT ![job[w].msg] = Attempt(w)]
  /\ Retry(w, MaxRetries)
  /\ EndTask(w)
  /\ UNCHANGED <<campaign, status, dispatches, request, provider, overrun, throttled, faults>>

\* schedule_retry, then task.retry: QUEUED is written whatever the row says.
ScheduleRetry(w) ==
  /\ pc[w] = "transient"
  /\ Attempt(w) <= MaxRetries
  /\ status' = [status EXCEPT ![job[w].msg] = "queued"]
  /\ attempts' = [attempts EXCEPT ![job[w].msg] = Attempt(w)]
  /\ Retry(w, MaxRetries)
  /\ EndTask(w)
  /\ UNCHANGED <<campaign, dispatches, request, provider, overrun, throttled, faults>>

\* Faulty: a failure returns without finalizing.
RecordFailureOnly(w) ==
  /\ \/ pc[w] = "refused"
     \/ pc[w] = "transient" /\ Attempt(w) > MaxRetries
  /\ attempts' = [attempts EXCEPT ![job[w].msg] = Attempt(w)]
  /\ Apply(w, "failed")
  /\ EndTask(w)
  /\ UNCHANGED <<campaign, broker, request, history, faults>>

\* record_send_failure: refused for good, or out of attempts.
RecordFailure(w) ==
  /\ \/ pc[w] = "refused"
     \/ pc[w] = "transient" /\ Attempt(w) > MaxRetries
  /\ attempts' = [attempts EXCEPT ![job[w].msg] = Attempt(w)]
  /\ Apply(w, "failed")
  /\ GoTo(w, "refresh")
  /\ UNCHANGED <<campaign, broker, request, history, faults>>

\* _finalize: refresh the campaign and look at its status ...
Refresh(w) ==
  /\ pc[w] = "refresh"
  /\ IF campaign = "processing" THEN GoTo(w, "counting") ELSE EndTask(w)
  /\ UNCHANGED <<campaign, rows, broker, request, history, faults>>

\* Faulty: only rows that have not been claimed count as in flight.
CountClaimable(w) ==
  /\ pc[w] = "counting"
  /\ IF Listed # {} THEN EndTask(w) ELSE GoTo(w, "completing")
  /\ UNCHANGED <<campaign, rows, broker, request, history, faults>>

\* ... then ask for rows in flight ...
Count(w) ==
  /\ pc[w] = "counting"
  /\ IF \E m \in Messages : status[m] \in InFlight THEN EndTask(w) ELSE GoTo(w, "completing")
  /\ UNCHANGED <<campaign, rows, broker, request, history, faults>>

\* ... then write COMPLETED over whatever the row says by now.
Complete(w) ==
  /\ pc[w] = "completing"
  /\ campaign' = "completed"
  /\ EndTask(w)
  /\ UNCHANGED <<rows, broker, request, history, faults>>

-----------------------------------------------------------------------------
(* The broker and the process underneath the tasks (acks late).            *)

Unacked(w) ==
  IF pc[w] \in Dispatching \/ job[w].msg = None
  THEN dispatches' = dispatches + 1 /\ UNCHANGED sends
  ELSE /\ sends' = [sends EXCEPT ![<<job[w].msg, job[w].retries>>] = @ + 1]
       /\ UNCHANGED dispatches

\* The worker process is lost; its task was not acknowledged and comes back.
Crash(w) ==
  /\ pc[w] # "idle"
  /\ Disturb("crash")
  /\ Unacked(w)
  /\ Mark(IF pc[w] \in Holding THEN {job[w].msg} ELSE {}, "lost")
  /\ EndTask(w)
  /\ UNCHANGED <<campaign, rows, request, provider, overrun, throttled>>

\* The broker hands out again a task that is still running.
Redeliver(w) ==
  /\ pc[w] # "idle"
  /\ Disturb("redeliver")
  /\ Unacked(w)
  /\ UNCHANGED <<campaign, rows, workers, request, history>>

-----------------------------------------------------------------------------

WorkerStep(w) ==
  \/ TakeDispatch(w) \/ EnqueueListed(w) \/ MarkQueued(w)
  \/ Claim(w) \/ Reread(w) \/ ReleaseAndStop(w) \/ Throttled(w) \/ NoSender(w)
  \/ CallProvider(w) \/ RecordSuccess(w) \/ ScheduleRetry(w) \/ RecordFailure(w)
  \/ Refresh(w) \/ Count(w) \/ Complete(w)

Next ==
  \/ \E r \in Requests : CommitRequest(r) \/ \E op \in RequestOps : Load(r, op)
  \/ \E w \in Workers : WorkerStep(w) \/ Crash(w) \/ Redeliver(w)

Spec == Init /\ [][Next]_vars

\* A loaded request runs to its end and a worker keeps working: Django and
\* Celery guarantee it as long as processes live.  Nobody has to load a
\* request and no disturbance has to happen.
FairSpec ==
  /\ Spec
  /\ \A r \in Requests : WF_vars(CommitRequest(r))
  /\ \A w \in Workers : WF_vars(WorkerStep(w))

-----------------------------------------------------------------------------
(* Properties.                                                             *)

RequestRecords == [stage : {"new", "loaded", "done"}, op : LifecycleOps, seen : CampaignStatus]

Jobs == [msg : Messages \union {None}, retries : 0..RetryCap,
         seen : MessageStatus \union {"absent"}, attempt : Nat, processing : BOOLEAN]

\* Every variable has its type; a worker that owns a claim has a message.
TypeOK ==
  /\ campaign \in CampaignStatus
  /\ status \in [Messages -> MessageStatus \union {"absent"}]
  /\ attempts \in [Messages -> Nat]
  /\ sends \in [SendTasks -> Nat]
  /\ dispatches \in Nat
  /\ pc \in [Workers -> Positions]
  /\ job \in [Workers -> Jobs]
  /\ request \in [Requests -> RequestRecords]
  /\ calls \in [Messages -> Nat]
  /\ copies \in [Messages -> Nat]
  /\ lost \in [Messages -> Nat]
  /\ overrun \in [Workers -> Nat]
  /\ mishap \in [Messages -> Mishaps]
  /\ throttled \subseteq Messages
  /\ faults \in Nat
  /\ \A w \in Workers : pc[w] \in Holding => job[w].msg \in Messages

\* The claim protocol is exclusive: no two workers are ever between claiming
\* a row and handing it back or recording its outcome, whatever the broker
\* redelivers and whatever cancel, resume and relaunch write meanwhile, and
\* the row of a claimed message says SENDING or, after a cancel, FAILED.
ClaimExclusive ==
  /\ \A w1, w2 \in Workers : w1 # w2 /\ pc[w1] \in Holding /\ pc[w2] \in Holding
                               => job[w1].msg # job[w2].msg
  /\ \A w \in Workers : pc[w] \in Holding => status[job[w].msg] \in {"sending", "failed"}

\* "A duplicated job cannot send twice": the provider accepts a message at
\* most once, plus once for each acceptance whose answer the code took for a
\* transient failure (requests.Timeout, a 200 without a message id).
OneCopy == \A m \in Messages : copies[m] <= lost[m] + 1

\* The retry budget bounds what the provider is asked: the first attempt and
\* MaxRetries more, across crashes, duplicated tasks, resumes and relaunches.
CallsBounded == \A m \in Messages : calls[m] <= MaxRetries + 1

\* A worker's copy of attempt_count is the row's for as long as it owns the
\* claim: no request and no other worker writes the column meanwhile.
CopyIsCurrent ==
  \A w \in Workers : pc[w] \in Holding \ {"claimed"} => job[w].attempt = attempts[job[w].msg]

\* Before a call every call made so far has been counted in attempt_count;
\* after it, all but that one.
CallsCounted ==
  /\ \A m \in Messages : status[m] \in Claimable \union {"absent"}
                         => calls[m] <= attempts[m] /\ attempts[m] <= MaxRetries
  /\ \A w \in Workers :
       LET m == job[w].msg IN
       /\ pc[w] \in BeforeCall => calls[m] <= attempts[m] /\ attempts[m] <= MaxRetries
       /\ pc[w] \in AfterCall => calls[m] <= attempts[m] + 1 /\ attempts[m] <= MaxRetries

\* A message that may still be sent has no acceptance the code knows of.
KnownAcceptanceCloses ==
  /\ \A m \in Messages : status[m] \in Claimable \union {"absent"} => copies[m] <= lost[m]
  /\ \A w \in Workers : pc[w] \in Holding \ {"accepted"} => copies[job[w].msg] <= lost[job[w].msg]

\* The inductive invariant behind the three properties above.
ClaimInv ==
  /\ TypeOK
  /\ ClaimExclusive
  /\ CopyIsCurrent
  /\ CallsCounted
  /\ CallsBounded
  /\ KnownAcceptanceCloses
  /\ OneCopy

\* The pipeline implements the claim protocol: a message is claimed while a
\* worker owns it, and open or closed by its row otherwise (a row left in
\* SENDING by a lost worker is closed: nothing will ever send it).
Owner(m) == CHOOSE w \in Workers : Holds(w, m)
Owned(m) == \E w \in Workers : Holds(w, m)
PhaseOf(m) ==
  CASE Owned(m) /\ pc[Owner(m)] \in BeforeCall -> "claimed"
    [] Owned(m) /\ pc[Owner(m)] = "accepted" -> "taken"
    [] Owned(m) /\ pc[Owner(m)] \in {"transient", "refused"} -> "failed"
    [] ~Owned(m) /\ status[m] = "absent" -> "absent"
    [] ~Owned(m) /\ status[m] \in Claimable -> "open"
    [] OTHER -> "closed"

Claims == INSTANCE SendClaims WITH
            MaxCalls <- MaxRetries + 1,
            phase <- [m \in Messages |-> PhaseOf(m)],
            called <- calls
ImplementsClaims == Claims!Spec

\* "A pause takes effect at the next message": wherever the pause or the
\* cancel commits, before a worker's check of the campaign or between the
\* check and the call, each worker makes one more call at most for as long
\* as the campaign stays halted.
PauseTakesHold == campaign \in Halted => \A w \in Workers : overrun[w] <= 1

\* Nothing is running or waiting to run.
Quiet ==
  /\ \A w \in Workers : pc[w] = "idle"
  /\ \A t \in SendTasks : sends[t] = 0
  /\ dispatches = 0
  /\ \A r \in Requests : request[r].stage # "loaded"

\* A PROCESSING campaign with nothing left running or queued has a row in
\* flight only if a disturbance took its last task: a worker lost with the
\* claim (then, and only then, the row is SENDING), a release that a resume's
\* dispatch did not see, a dispatch the broker refused, or Celery's retries
\* used up.  Those of a row that was never throttled never are: its own
\* budget ends first.  Retries, redeliveries, lost answers, second dispatches
\* and rows listed, queued and marked beside claims strand nothing.
StrandedHasCause ==
  campaign = "processing" /\ Quiet =>
    \A m \in Messages : status[m] \in InFlight =>
      /\ mishap[m] # "none"
      /\ status[m] = "sending" <=> mishap[m] = "lost"
      /\ mishap[m] = "exhausted" => m \in throttled

\* "A campaign is complete once nothing is still in flight": the check in
\* finalize_if_complete is not overtaken by a retry, a redelivery or another
\* worker before COMPLETED is written, nor undone after it.
CompletedIsSettled ==
  campaign = "completed" => \A m \in Messages : status[m] \notin InFlight

\* Every row a launch creates reaches a terminal status.
EveryMessageSettles ==
  \A m \in Messages : status[m] = "pending" ~> status[m] \in Terminal

\* A launched campaign completes: whichever workers record the last outcomes
\* concurrently, one of them sees no row in flight.
LaunchedCompletes == campaign = "processing" ~> campaign = "completed"

-----------------------------------------------------------------------------
(* Statements of the documentation that the code does not keep.            *)

\* "Never strand a campaign": a PROCESSING campaign that still has rows in
\* flight has somebody or something left to move them.
NothingStranded ==
  campaign = "processing" /\ Quiet => \A m \in Messages : status[m] \notin InFlight

\* "The only permitted moves": the campaign row changes along the table.
LegalMovesOnly ==
  [][campaign' # campaign => campaign' \in AllowedTransitions[campaign]]_vars

\* Launching is what materializes recipients and moves to PROCESSING, so a
\* campaign that started has recipients.
StartedHasRecipients ==
  campaign \in {"processing", "paused", "completed"} => \E m \in Messages : status[m] # "absent"

\* "Only rows that have not left the queue are marked failed" by a cancel.
CancelSparesSending ==
  [][campaign # "cancelled" /\ campaign' = "cancelled"
       => \A m \in Messages : status[m] = "sending" => status'[m] = "sending"]_vars

\* "With FAILED terminal".
FailedIsTerminal ==
  [][\A m \in Messages : status[m] = "failed" => status'[m] = "failed"]_vars

=============================================================================
