------------------------- MODULE SendPipelineProofs -------------------------
EXTENDS SendPipeline, TLAPS

USE DEF history, trace

LEMMA RetryCapNat ==
  /\ RetryCap \in Nat
  /\ MaxRetries <= RetryCap
  /\ TaskRetries <= RetryCap
BY PipelineAssumption DEF RetryCap

LEMMA TargetIsStatus ==
  ASSUME NEW op PROVE Target(op) \in CampaignStatus
BY DEF Target, CampaignStatus

LEMMA RetryType ==
  ASSUME TypeOK, NEW w \in Workers, job[w].msg \in Messages,
         NEW limit \in Nat, limit <= RetryCap, Retry(w, limit)
  PROVE  sends' \in [SendTasks -> Nat]
<1> DEFINE again == <<job[w].msg, job[w].retries + 1>>
<1>1. job[w] \in Jobs /\ sends \in [SendTasks -> Nat]
  BY DEF TypeOK
<1>2. job[w].retries \in 0..RetryCap
  BY <1>1 DEF Jobs
<1>3. CASE job[w].retries < limit
  <2>1. again \in SendTasks
    BY <1>2, <1>3, RetryCapNat DEF SendTasks
  <2>2. sends[again] + 1 \in Nat
    BY <2>1, <1>1
  <2>3. sends' = [sends EXCEPT ![again] = sends[again] + 1]
    BY <1>3 DEF Retry
  <2>. QED
    BY <2>1, <2>2, <2>3, <1>1
<1>4. CASE ~(job[w].retries < limit)
  BY <1>4, <1>1 DEF Retry
<1>. QED
  BY <1>3, <1>4

LEMMA EndTaskType ==
  ASSUME TypeOK, NEW w \in Workers, EndTask(w)
  PROVE  /\ pc' \in [Workers -> Positions]
         /\ job' \in [Workers -> Jobs]
         /\ \A v \in Workers : pc'[v] \in Holding => job'[v].msg \in Messages
<1>1. NoJob \in Jobs
  BY RetryCapNat DEF NoJob, NewJob, Jobs
<1>2. "idle" \in Positions /\ "idle" \notin Holding
  BY DEF Positions, Holding, BeforeCall, AfterCall
<1>. QED
  BY <1>1, <1>2 DEF EndTask, TypeOK

LEMMA UnackedType ==
  ASSUME TypeOK, NEW w \in Workers, Unacked(w)
  PROVE  /\ sends' \in [SendTasks -> Nat]
         /\ dispatches' \in Nat
<1>1. job[w] \in Jobs
  BY DEF TypeOK
<1>2. CASE pc[w] \in Dispatching \/ job[w].msg = None
  BY <1>2 DEF Unacked, TypeOK
<1>3. CASE ~(pc[w] \in Dispatching \/ job[w].msg = None)
  <2>1. <<job[w].msg, job[w].retries>> \in SendTasks
    BY <1>1, <1>3 DEF Jobs, SendTasks
  <2>. QED
    BY <2>1, <1>3 DEF Unacked, TypeOK
<1>. QED
  BY <1>2, <1>3

LEMMA GoToType ==
  ASSUME TypeOK, NEW w \in Workers, NEW where \in Positions, GoTo(w, where),
         where \in Holding => job[w].msg \in Messages
  PROVE  /\ pc' \in [Workers -> Positions]
         /\ job' \in [Workers -> Jobs]
         /\ \A v \in Workers : pc'[v] \in Holding => job'[v].msg \in Messages
BY DEF GoTo, TypeOK

LEMMA InitTypeOK == Init => TypeOK
<1> SUFFICES ASSUME Init PROVE TypeOK
  OBVIOUS
<1>1. NoJob \in Jobs /\ "idle" \in Positions /\ "idle" \notin Holding
  BY RetryCapNat DEF NoJob, NewJob, Jobs, Positions, Holding, BeforeCall, AfterCall
<1>2. [stage |-> "new", op |-> "launch", seen |-> "draft"] \in RequestRecords
  BY DEF RequestRecords, LifecycleOps, CampaignStatus
<1>. QED
  BY <1>1, <1>2 DEF Init, TypeOK, CampaignStatus, Mishaps

\* The histories of halts and of stranded rows.
LEMMA TraceType ==
  ASSUME TypeOK,
         \/ \E r \in Requests : CommitRequest(r) \/ \E op \in RequestOps : Load(r, op)
         \/ \E w \in Workers : WorkerStep(w) \/ Crash(w) \/ Redeliver(w)
  PROVE  /\ overrun' \in [Workers -> Nat]
         /\ mishap' \in [Messages -> Mishaps]
         /\ throttled' \subseteq Messages
<1>1. overrun \in [Workers -> Nat] /\ mishap \in [Messages -> Mishaps] /\ throttled \subseteq Messages
  BY DEF TypeOK
<1>2. ASSUME NEW S, NEW what \in Mishaps, Mark(S, what) PROVE mishap' \in [Messages -> Mishaps]
  BY <1>1, <1>2 DEF Mark
<1>3. {"none", "broker", "released", "exhausted", "lost"} \subseteq Mishaps
  BY DEF Mishaps
<1>4. ASSUME NEW r \in Requests, CommitRequest(r) \/ \E op \in RequestOps : Load(r, op)
      PROVE  /\ overrun' \in [Workers -> Nat]
             /\ mishap' \in [Messages -> Mishaps]
             /\ throttled' \subseteq Messages
  <2>1. ASSUME NEW op, Commit(r, op) PROVE overrun' \in [Workers -> Nat]
    BY <1>1, <2>1 DEF Commit
  <2>2. DispatchOnCommit => mishap' \in [Messages -> Mishaps]
    BY <1>1, <1>3 DEF DispatchOnCommit
  <2>. QED
    BY <1>1, <1>4, <2>1, <2>2 DEF CommitRequest, Launch, Pause, Resume, Cancel, Refuse, Load
<1>5. ASSUME NEW w \in Workers, WorkerStep(w) \/ Crash(w) \/ Redeliver(w)
      PROVE  /\ overrun' \in [Workers -> Nat]
             /\ mishap' \in [Messages -> Mishaps]
             /\ throttled' \subseteq Messages
  <2>1. CASE TakeDispatch(w) \/ MarkQueued(w) \/ Reread(w) \/ NoSender(w) \/ RecordSuccess(w)
             \/ RecordFailure(w) \/ Refresh(w) \/ Count(w) \/ Complete(w) \/ Redeliver(w)
    BY <1>1, <2>1
       DEF TakeDispatch, MarkQueued, Reread, NoSender, RecordSuccess, RecordFailure, Refresh,
           Count, Complete, Redeliver
  <2>2. CASE EnqueueListed(w) \/ Claim(w) \/ ReleaseAndStop(w) \/ Crash(w)
    BY <1>1, <1>2, <1>3, <2>2 DEF EnqueueListed, Claim, ReleaseAndStop, Crash
  <2>3. CASE Throttled(w) \/ ScheduleRetry(w)
    <3>1. ASSUME NEW limit, Retry(w, limit) PROVE mishap' \in [Messages -> Mishaps]
      BY <1>1, <1>2, <1>3, <3>1 DEF Retry
    <3>2. pc[w] \in Holding
      BY <2>3 DEF Throttled, ScheduleRetry, Holding, BeforeCall, AfterCall
    <3>3. job[w].msg \in Messages
      BY <3>2 DEF TypeOK
    <3>. QED
      BY <1>1, <2>3, <3>1, <3>3 DEF Throttled, ScheduleRetry
  <2>4. CASE CallProvider(w)
    BY <1>1, <2>4 DEF CallProvider, Bump
  <2>. QED
    BY <1>5, <2>1, <2>2, <2>3, <2>4 DEF WorkerStep
<1>. QED
  BY <1>4, <1>5

\* The requests: what they write, and the workers they leave alone.
LEMMA RequestTypeOK ==
  ASSUME TypeOK, NEW r \in Requests,
         CommitRequest(r) \/ \E op \in RequestOps : Load(r, op)
  PROVE  TypeOK'
<1>t. /\ overrun' \in [Workers -> Nat]
      /\ mishap' \in [Messages -> Mishaps]
      /\ throttled' \subseteq Messages
  BY TraceType DEF WorkerStep
<1> USE DEF TypeOK, rows, broker, workers, provider
<1>1. ASSUME NEW op \in RequestOps, Load(r, op) PROVE TypeOK'
  BY <1>1, PipelineAssumption DEF Load, RequestRecords
<1>2. ASSUME NEW op, Commit(r, op)
      PROVE  campaign' \in CampaignStatus /\ request' \in [Requests -> RequestRecords]
  BY <1>2, TargetIsStatus DEF Commit, Finish, RequestRecords
<1>3. CASE Launch(r)
  <2>1. campaign' \in CampaignStatus /\ request' \in [Requests -> RequestRecords]
    BY <1>2, <1>3 DEF Launch
  <2>2. status' \in [Messages -> MessageStatus \union {"absent"}]
    BY <1>3 DEF Launch, MessageStatus
  <2>. QED
    BY <1>t, <2>1, <2>2, <1>3 DEF Launch, DispatchOnCommit, Disturb
<1>4. CASE Pause(r)
  BY <1>t, <1>2, <1>4 DEF Pause
<1>5. CASE Resume(r)
  <2>1. campaign' \in CampaignStatus /\ request' \in [Requests -> RequestRecords]
    BY <1>2, <1>5 DEF Resume
  <2>. QED
    BY <1>t, <2>1, <1>5 DEF Resume, DispatchOnCommit, Disturb
<1>6. CASE Cancel(r)
  <2>1. campaign' \in CampaignStatus /\ request' \in [Requests -> RequestRecords]
    BY <1>2, <1>6 DEF Cancel
  <2>2. status' \in [Messages -> MessageStatus \union {"absent"}]
    BY <1>6 DEF Cancel, MessageStatus
  <2>. QED
    BY <1>t, <2>1, <2>2, <1>6 DEF Cancel
<1>7. CASE Refuse(r)
  BY <1>7 DEF Refuse, Finish, RequestRecords
<1>. QED
  BY <1>1, <1>3, <1>4, <1>5, <1>6, <1>7 DEF CommitRequest

LEMMA DispatchTypeOK ==
  ASSUME TypeOK, NEW w \in Workers,
         TakeDispatch(w) \/ EnqueueListed(w) \/ MarkQueued(w)
  PROVE  TypeOK'
<1>t. /\ overrun' \in [Workers -> Nat]
      /\ mishap' \in [Messages -> Mishaps]
      /\ throttled' \subseteq Messages
  BY TraceType DEF WorkerStep
<1> USE DEF rows, broker, workers, provider
<1>0. {"listing", "marking", "markingNone", "counting"} \subseteq Positions \ Holding
  BY DEF Positions, Dispatching, Finalizing, Holding, BeforeCall, AfterCall
<1>1. CASE TakeDispatch(w)
  <2>1. \A b \in BOOLEAN : [NoJob EXCEPT !.processing = b] \in Jobs
    BY RetryCapNat DEF NoJob, NewJob, Jobs
  <2>2. dispatches' \in Nat
    BY <1>1 DEF TakeDispatch, TypeOK
  <2>3. CASE campaign \in Halted
    BY <1>1, <2>2, <2>3 DEF TakeDispatch, TypeOK
  <2>4. CASE campaign \notin Halted
    <3>1. /\ pc' = [pc EXCEPT ![w] = "listing"]
          /\ \E b \in BOOLEAN : job' = [job EXCEPT ![w] = [NoJob EXCEPT !.processing = b]]
      BY <1>1, <2>4, Zenon DEF TakeDispatch
    <3>2. /\ pc' \in [Workers -> Positions]
          /\ job' \in [Workers -> Jobs]
          /\ \A v \in Workers : pc'[v] \in Holding => job'[v].msg \in Messages
      BY <3>1, <2>1, <1>0 DEF TypeOK
    <3>. QED
      BY <1>1, <2>2, <3>2 DEF TakeDispatch, TypeOK
  <2>. QED
    BY <2>3, <2>4
<1>2. CASE EnqueueListed(w)
  <2>1. ASSUME NEW S, SendTaskFor(S) PROVE sends' \in [SendTasks -> Nat]
    BY <2>1 DEF SendTaskFor, TypeOK
  <2>2. sends' \in [SendTasks -> Nat]
    BY <2>1, <1>2 DEF EnqueueListed
  <2>3. /\ pc' \in [Workers -> Positions]
        /\ job' \in [Workers -> Jobs]
        /\ \A v \in Workers : pc'[v] \in Holding => job'[v].msg \in Messages
    BY <1>2, <1>0, GoToType, EndTaskType DEF EnqueueListed
  <2>4. faults' \in Nat
    BY <1>2 DEF EnqueueListed, Disturb, TypeOK
  <2>. QED
    BY <1>t, <1>2, <2>2, <2>3, <2>4 DEF EnqueueListed, TypeOK
<1>3. CASE MarkQueued(w)
  <2>1. status' \in [Messages -> MessageStatus \union {"absent"}]
    BY <1>3 DEF MarkQueued, TypeOK, MessageStatus
  <2>2. /\ pc' \in [Workers -> Positions]
        /\ job' \in [Workers -> Jobs]
        /\ \A v \in Workers : pc'[v] \in Holding => job'[v].msg \in Messages
    BY <1>3, <1>0, GoToType, EndTaskType DEF MarkQueued
  <2>. QED
    BY <1>3, <2>1, <2>2 DEF MarkQueued, TypeOK
<1>. QED
  BY <1>1, <1>2, <1>3

\* What every message step does to the worker's own state.
LEMMA SendTypeOK ==
  ASSUME TypeOK, NEW w \in Workers,
         \/ Claim(w) \/ Reread(w) \/ ReleaseAndStop(w) \/ Throttled(w) \/ NoSender(w)
         \/ CallProvider(w)
  PROVE  TypeOK'
<1>t. /\ overrun' \in [Workers -> Nat]
      /\ mishap' \in [Messages -> Mishaps]
      /\ throttled' \subseteq Messages
  BY TraceType DEF WorkerStep
<1> USE DEF rows, broker, workers, provider
<1> DEFINE WorkersOK == /\ pc' \in [Workers -> Positions]
                        /\ job' \in [Workers -> Jobs]
                        /\ \A v \in Workers : pc'[v] \in Holding => job'[v].msg \in Messages
<1>0. Holding \subseteq Positions /\ "refresh" \in Positions \ Holding
  BY DEF Positions, Finalizing, Holding, BeforeCall, AfterCall
<1>1. CASE Claim(w)
  <2>1. PICK t \in SendTasks : Claim(w)!2!(t)
    BY <1>1 DEF Claim
  <2>2. sends' \in [SendTasks -> Nat]
    BY <2>1 DEF TypeOK
  <2>3. t[1] \in Messages /\ t[2] \in 0..RetryCap
    BY DEF SendTasks
  <2>4. NewJob(t[1], t[2]) \in Jobs /\ NewJob(t[1], t[2]).msg \in Messages
    BY <2>3 DEF NewJob, Jobs
  <2>5. CASE status[t[1]] \in Claimable
    <3>1. /\ status' = [status EXCEPT ![t[1]] = "sending"]
          /\ pc' = [pc EXCEPT ![w] = "claimed"]
          /\ job' = [job EXCEPT ![w] = NewJob(t[1], t[2])]
      BY <2>1, <2>5
    <3>2. "claimed" \in Holding
      BY DEF Holding, BeforeCall
    <3>3. WorkersOK
      BY <3>1, <3>2, <2>4, <1>0 DEF TypeOK
    <3>4. status' \in [Messages -> MessageStatus \union {"absent"}]
      BY <3>1 DEF TypeOK, MessageStatus
    <3>. QED
      BY <1>t, <3>3, <3>4, <2>2, <1>1 DEF Claim, TypeOK
  <2>6. CASE status[t[1]] \notin Claimable
    BY <2>1, <2>2, <2>6, <1>1 DEF Claim, TypeOK
  <2>. QED
    BY <2>5, <2>6
<1>2. CASE Reread(w)
  <2>1. job[w].msg \in Messages /\ job[w] \in Jobs
    BY <1>2 DEF Reread, TypeOK, Holding, BeforeCall
  <2>2. /\ pc' \in [Workers -> Positions]
        /\ pc'[w] \in Holding
        /\ \A v \in Workers \ {w} : pc'[v] = pc[v]
    BY <1>2 DEF Reread, TypeOK, Positions, Holding, BeforeCall
  <2>3. status[job[w].msg] \in MessageStatus \union {"absent"} /\ attempts[job[w].msg] \in Nat
    BY <2>1 DEF TypeOK
  <2>4. job' = [job EXCEPT ![w] = [job[w] EXCEPT !.seen = status[job[w].msg],
                                                 !.attempt = attempts[job[w].msg]]]
    BY <1>2 DEF Reread, TypeOK
  <2>5. [job[w] EXCEPT !.seen = status[job[w].msg], !.attempt = attempts[job[w].msg]] \in Jobs
    BY <2>1, <2>3 DEF Jobs
  <2>6. /\ job' \in [Workers -> Jobs]
        /\ \A v \in Workers : job'[v].msg = job[v].msg
    BY <2>1, <2>4, <2>5 DEF TypeOK, Jobs
  <2>. QED
    BY <2>1, <2>2, <2>6, <1>2 DEF Reread, TypeOK
<1>3. ASSUME NEW m \in Messages
      PROVE  Released(m) \in [Messages -> MessageStatus \union {"absent"}]
  BY DEF Released, TypeOK, MessageStatus
<1>4. CASE ReleaseAndStop(w)
  <2>1. job[w].msg \in Messages
    BY <1>4 DEF ReleaseAndStop, TypeOK, Holding, BeforeCall
  <2>2. WorkersOK
    BY <1>4, EndTaskType DEF ReleaseAndStop
  <2>. QED
    BY <1>t, <2>1, <2>2, <1>3, <1>4 DEF ReleaseAndStop, TypeOK
<1>5. CASE Throttled(w)
  <2>1. job[w].msg \in Messages
    BY <1>5 DEF Throttled, TypeOK, Holding, BeforeCall
  <2>2. WorkersOK
    BY <1>5, EndTaskType DEF Throttled
  <2>3. sends' \in [SendTasks -> Nat]
    BY <2>1, <1>5, RetryType, RetryCapNat, PipelineAssumption DEF Throttled
  <2>4. faults' \in Nat
    BY <1>5 DEF Throttled, Disturb, TypeOK
  <2>. QED
    BY <1>t, <2>1, <2>2, <2>3, <2>4, <1>3, <1>5 DEF Throttled, TypeOK
<1>6. CASE NoSender(w)
  <2>1. WorkersOK
    <3>1. job[w].msg \in Messages /\ "unconfigured" \in Holding
      BY <1>6 DEF NoSender, TypeOK, Holding, BeforeCall
    <3>. QED
      BY <3>1, <1>0, <1>6, GoToType DEF NoSender
  <2>2. faults' \in Nat
    BY <1>6 DEF NoSender, Disturb, TypeOK
  <2>. QED
    BY <2>1, <2>2, <1>6 DEF NoSender, TypeOK
<1>7. CASE CallProvider(w)
  <2>1. job[w].msg \in Messages /\ {"accepted", "transient", "refused"} \subseteq Holding
    BY <1>7 DEF CallProvider, TypeOK, Holding, BeforeCall, AfterCall
  <2>2. WorkersOK
    BY <2>1, <1>0, <1>7, GoToType DEF CallProvider
  <2>3. calls' \in [Messages -> Nat]
    BY <2>1, <1>7 DEF CallProvider, Bump, TypeOK
  <2>4. copies' \in [Messages -> Nat] /\ lost' \in [Messages -> Nat]
    BY <2>1, <1>7 DEF CallProvider, Bump, TypeOK
  <2>5. faults' \in Nat
    BY <1>7 DEF CallProvider, Disturb, TypeOK
  <2>. QED
    BY <1>t, <2>2, <2>3, <2>4, <2>5, <1>7 DEF CallProvider, TypeOK
<1>. QED
  BY <1>1, <1>2, <1>4, <1>5, <1>6, <1>7

LEMMA OutcomeTypeOK ==
  ASSUME TypeOK, NEW w \in Workers,
         \/ RecordSuccess(w) \/ ScheduleRetry(w) \/ RecordFailure(w)
         \/ Refresh(w) \/ Count(w) \/ Complete(w) \/ Crash(w) \/ Redeliver(w)
  PROVE  TypeOK'
<1>t. /\ overrun' \in [Workers -> Nat]
      /\ mishap' \in [Messages -> Mishaps]
      /\ throttled' \subseteq Messages
  BY TraceType DEF WorkerStep
<1> USE DEF rows, broker, workers, provider
<1> DEFINE WorkersOK == /\ pc' \in [Workers -> Positions]
                        /\ job' \in [Workers -> Jobs]
                        /\ \A v \in Workers : pc'[v] \in Holding => job'[v].msg \in Messages
<1>0. {"refresh", "counting", "completing"} \subseteq Positions \ Holding
  BY DEF Positions, Finalizing, Holding, BeforeCall, AfterCall
<1>1. ASSUME pc[w] \in AfterCall
      PROVE  /\ job[w].msg \in Messages
             /\ Attempt(w) \in Nat
             /\ \A report \in {"sent", "failed"} :
                  Apply(w, report) => status' \in [Messages -> MessageStatus \union {"absent"}]
  <2>1. job[w] \in Jobs /\ job[w].msg \in Messages
    BY <1>1 DEF TypeOK, Holding
  <2>2. Attempt(w) \in Nat
    BY <2>1 DEF Jobs, Attempt
  <2>3. ASSUME NEW report \in {"sent", "failed"}, Apply(w, report)
        PROVE  status' \in [Messages -> MessageStatus \union {"absent"}]
    <3>1. report \in MessageStatus /\ status \in [Messages -> MessageStatus \union {"absent"}]
      BY <2>3 DEF TypeOK, MessageStatus
    <3>2. status' = status \/ status' = [status EXCEPT ![job[w].msg] = report]
      BY <2>3 DEF Apply
    <3>. QED
      BY <3>1, <3>2
  <2>. QED
    BY <2>1, <2>2, <2>3
<1>2. CASE RecordSuccess(w)
  <2>1. pc[w] \in AfterCall /\ WorkersOK
    BY <1>0, <1>2, GoToType DEF RecordSuccess, AfterCall
  <2>. QED
    BY <2>1, <1>1, <1>2 DEF RecordSuccess, TypeOK
<1>3. CASE ScheduleRetry(w)
  <2>1. pc[w] \in AfterCall
    BY <1>3 DEF ScheduleRetry, AfterCall
  <2>2. WorkersOK
    BY <1>3, EndTaskType DEF ScheduleRetry
  <2>3. sends' \in [SendTasks -> Nat]
    BY <2>1, <1>1, <1>3, RetryType, RetryCapNat, PipelineAssumption DEF ScheduleRetry
  <2>4. /\ status' \in [Messages -> MessageStatus \union {"absent"}]
        /\ attempts' \in [Messages -> Nat]
    BY <2>1, <1>1, <1>3 DEF ScheduleRetry, TypeOK, MessageStatus
  <2>. QED
    BY <1>t, <2>2, <2>3, <2>4, <1>3 DEF ScheduleRetry, TypeOK
<1>4. CASE RecordFailure(w)
  <2>1. pc[w] \in AfterCall /\ WorkersOK
    BY <1>0, <1>4, GoToType DEF RecordFailure, AfterCall
  <2>. QED
    BY <2>1, <1>1, <1>4 DEF RecordFailure, TypeOK
<1>5. CASE Refresh(w)
  <2>1. WorkersOK
    BY <1>0, <1>5, GoToType, EndTaskType DEF Refresh
  <2>. QED
    BY <2>1, <1>5 DEF Refresh, TypeOK
<1>6. CASE Count(w)
  <2>1. WorkersOK
    BY <1>0, <1>6, GoToType, EndTaskType DEF Count
  <2>. QED
    BY <2>1, <1>6 DEF Count, TypeOK
<1>7. CASE Complete(w)
  <2>1. WorkersOK
    BY <1>7, EndTaskType DEF Complete
  <2>. QED
    BY <2>1, <1>7 DEF Complete, TypeOK, CampaignStatus
<1>8. CASE Crash(w)
  BY <1>t, <1>8, EndTaskType, UnackedType DEF Crash, Disturb, TypeOK
<1>9. CASE Redeliver(w)
  BY <1>9, UnackedType DEF Redeliver, Disturb, TypeOK
<1>. QED
  BY <1>2, <1>3, <1>4, <1>5, <1>6, <1>7, <1>8, <1>9

\* Every variable keeps its type, and a worker that owns a claim always has
\* the message it claimed (whatsapp/tasks.py, campaigns/services.py).
THEOREM TypeCorrect == Spec => []TypeOK
<1>1. TypeOK /\ [Next]_vars => TypeOK'
  <2> SUFFICES ASSUME TypeOK, [Next]_vars PROVE TypeOK'
    OBVIOUS
  <2>1. ASSUME NEW r \in Requests, CommitRequest(r) \/ \E op \in RequestOps : Load(r, op)
        PROVE  TypeOK'
    BY <2>1, RequestTypeOK
  <2>2. ASSUME NEW w \in Workers, WorkerStep(w) \/ Crash(w) \/ Redeliver(w)
        PROVE  TypeOK'
    BY <2>2, DispatchTypeOK, SendTypeOK, OutcomeTypeOK DEF WorkerStep
  <2>3. CASE UNCHANGED vars
    BY <2>3 DEF vars, rows, broker, workers, provider, TypeOK
  <2>. QED
    BY <2>1, <2>2, <2>3 DEF Next
<1>. QED
  BY <1>1, InitTypeOK, PTL DEF Spec

-----------------------------------------------------------------------------
(* The claim invariant.                                                    *)

\* A message that may be sent: its calls are counted, no acceptance is known.
Fresh(m) == calls[m] <= attempts[m] /\ attempts[m] <= MaxRetries /\ copies[m] <= lost[m]

LEMMA InitClaimInv == Init => ClaimInv
<1> SUFFICES ASSUME Init PROVE ClaimInv
  OBVIOUS
<1>1. TypeOK
  BY InitTypeOK
<1>2. \A w \in Workers : pc[w] = "idle" /\ "idle" \notin Holding /\ "idle" \notin BeforeCall \union AfterCall
  BY DEF Init, Holding, BeforeCall, AfterCall
<1>3. \A m \in Messages : calls[m] = 0 /\ attempts[m] = 0 /\ copies[m] = 0 /\ lost[m] = 0
  BY DEF Init
<1>. QED
  BY <1>1, <1>2, <1>3, PipelineAssumption
     DEF ClaimInv, ClaimExclusive, CopyIsCurrent, CallsCounted, CallsBounded,
         KnownAcceptanceCloses, OneCopy

\* Most steps write no counter and let a worker keep or give up its claim.
\* They keep the invariant if a row they leave claimable is fresh and the row
\* of a claimed message stays SENDING or FAILED.
LEMMA FrameKeepsClaimInv ==
  ASSUME ClaimInv, TypeOK', UNCHANGED <<attempts, provider>>,
         \A v \in Workers : pc'[v] \in Holding => pc'[v] = pc[v] /\ job'[v] = job[v],
         \A m \in Messages : status'[m] \in Claimable \union {"absent"} => Fresh(m),
         \A v \in Workers : pc'[v] \in Holding => status'[job[v].msg] \in {"sending", "failed"}
  PROVE  ClaimInv'
<1> USE DEF provider
<1>1. ClaimExclusive'
  BY DEF ClaimInv, ClaimExclusive
<1>2. CopyIsCurrent'
  BY DEF ClaimInv, CopyIsCurrent
<1>3. CallsCounted'
  BY DEF ClaimInv, CallsCounted, Fresh, Holding
<1>4. CallsBounded'
  BY DEF ClaimInv, CallsBounded
<1>5. KnownAcceptanceCloses'
  BY DEF ClaimInv, KnownAcceptanceCloses, Fresh
<1>6. OneCopy'
  BY DEF ClaimInv, OneCopy
<1>. QED
  BY <1>1, <1>2, <1>3, <1>4, <1>5, <1>6 DEF ClaimInv

LEMMA ClaimableIsFresh ==
  ASSUME ClaimInv, NEW m \in Messages, status[m] \in Claimable \union {"absent"}
  PROVE  Fresh(m)
BY DEF ClaimInv, CallsCounted, KnownAcceptanceCloses, Fresh

LEMMA BeforeCallIsFresh ==
  ASSUME ClaimInv, NEW w \in Workers, pc[w] \in BeforeCall
  PROVE  job[w].msg \in Messages /\ Fresh(job[w].msg)
BY DEF ClaimInv, TypeOK, CallsCounted, KnownAcceptanceCloses, Fresh, Holding, BeforeCall, AfterCall

LEMMA StatusesApart ==
  /\ Claimable \union {"absent"} = {"pending", "queued", "absent"}
  /\ InFlight = {"pending", "queued", "sending"}
BY DEF Claimable, InFlight

\* Requests and dispatching: a cancel only moves rows to FAILED, a launch and
\* a dispatch move rows that were already free.
LEMMA RequestKeepsClaimInv ==
  ASSUME ClaimInv, TypeOK',
         \/ \E r \in Requests : CommitRequest(r) \/ \E op \in RequestOps : Load(r, op)
         \/ \E w \in Workers : TakeDispatch(w) \/ EnqueueListed(w) \/ MarkQueued(w)
  PROVE  ClaimInv'
<1>0. "idle" \notin Holding /\ Dispatching \intersect Holding = {} /\ Finalizing \intersect Holding = {}
  BY DEF Holding, BeforeCall, AfterCall, Dispatching, Finalizing
<1>1. UNCHANGED <<attempts, provider>>
  BY DEF CommitRequest, Launch, Pause, Resume, Cancel, Refuse, Load, TakeDispatch,
         EnqueueListed, MarkQueued, rows
<1>2. \A v \in Workers : pc'[v] \in Holding => pc'[v] = pc[v] /\ job'[v] = job[v]
  <2>1. CASE \E r \in Requests : CommitRequest(r) \/ \E op \in RequestOps : Load(r, op)
    BY <2>1 DEF CommitRequest, Launch, Pause, Resume, Cancel, Refuse, Load, workers
  <2>2. ASSUME NEW w \in Workers, TakeDispatch(w)
        PROVE  \A v \in Workers : pc'[v] \in Holding => pc'[v] = pc[v] /\ job'[v] = job[v]
    BY <2>2, <1>0 DEF TakeDispatch, workers, ClaimInv, TypeOK, Dispatching
  <2>3. ASSUME NEW w \in Workers, EnqueueListed(w) \/ MarkQueued(w)
        PROVE  \A v \in Workers : pc'[v] \in Holding => pc'[v] = pc[v] /\ job'[v] = job[v]
    BY <2>3, <1>0 DEF EnqueueListed, MarkQueued, GoTo, EndTask, ClaimInv, TypeOK,
                      Dispatching, Finalizing
  <2>. QED
    BY <2>1, <2>2, <2>3
<1>3. \A m \in Messages :
        \/ status'[m] = status[m]
        \/ status[m] \in {"pending", "queued", "absent"} /\ status'[m] \in {"pending", "queued", "absent"}
        \/ status'[m] = "failed"
  BY DEF CommitRequest, Launch, Pause, Resume, Cancel, Refuse, Load, TakeDispatch,
         EnqueueListed, MarkQueued, rows
<1>4. \A m \in Messages : status'[m] \in Claimable \union {"absent"} => Fresh(m)
  BY <1>3, ClaimableIsFresh, StatusesApart
<1>5. \A v \in Workers : pc'[v] \in Holding => status'[job[v].msg] \in {"sending", "failed"}
  BY <1>2, <1>3 DEF ClaimInv, ClaimExclusive, TypeOK
<1>. QED
  BY <1>1, <1>2, <1>4, <1>5, FrameKeepsClaimInv

\* Giving up a claim: the worker ends its task or goes on to finalize.
LEMMA ReleaseKeepsClaimInv ==
  ASSUME ClaimInv, TypeOK', NEW w \in Workers,
         \/ ReleaseAndStop(w) \/ Throttled(w) \/ RecordSuccess(w)
         \/ Refresh(w) \/ Count(w) \/ Complete(w) \/ Crash(w) \/ Redeliver(w)
  PROVE  ClaimInv'
<1> USE DEF rows, provider, workers
<1>0. {"idle", "refresh", "counting", "completing"} \intersect Holding = {}
  BY DEF Holding, BeforeCall, AfterCall
<1>1. UNCHANGED <<attempts, provider>>
  BY DEF ReleaseAndStop, Throttled, RecordSuccess, Refresh, Count, Complete, Crash, Redeliver
<1>2. \A v \in Workers : pc'[v] \in Holding => pc'[v] = pc[v] /\ job'[v] = job[v]
  BY <1>0 DEF ReleaseAndStop, Throttled, RecordSuccess, Refresh, Count, Complete, Crash,
              Redeliver, GoTo, EndTask, ClaimInv, TypeOK
<1>3. CASE ReleaseAndStop(w) \/ Throttled(w)
  <2>1. pc[w] \in BeforeCall /\ pc'[w] \notin Holding /\ status' = Released(job[w].msg)
    BY <1>0, <1>3 DEF ReleaseAndStop, Throttled, BeforeCall, EndTask, ClaimInv, TypeOK
  <2>2. job[w].msg \in Messages /\ Fresh(job[w].msg)
    BY <2>1, BeforeCallIsFresh
  <2>3. \A m \in Messages : m # job[w].msg => status'[m] = status[m]
    BY <2>1, <2>2 DEF Released, ClaimInv, TypeOK
  <2>4. \A m \in Messages : status'[m] \in Claimable \union {"absent"} => Fresh(m)
    BY <2>2, <2>3, ClaimableIsFresh
  <2>5. \A v \in Workers : pc'[v] \in Holding => status'[job[v].msg] \in {"sending", "failed"}
    BY <1>2, <2>1, <2>3 DEF ClaimInv, ClaimExclusive, TypeOK, Holding
  <2>. QED
    BY <1>1, <1>2, <2>4, <2>5, FrameKeepsClaimInv
<1>4. CASE RecordSuccess(w)
  <2>1. pc[w] \in Holding /\ pc'[w] \notin Holding /\ job[w].msg \in Messages
    BY <1>0, <1>4 DEF RecordSuccess, GoTo, ClaimInv, TypeOK, Holding, AfterCall
  <2>2. /\ \A m \in Messages : m # job[w].msg => status'[m] = status[m]
        /\ status'[job[w].msg] \in {status[job[w].msg], "sent"}
    BY <1>4, <2>1 DEF RecordSuccess, Apply, ClaimInv, TypeOK
  <2>3. status[job[w].msg] \in {"sending", "failed"}
    BY <2>1 DEF ClaimInv, ClaimExclusive
  <2>4. \A m \in Messages : status'[m] \in Claimable \union {"absent"} => Fresh(m)
    BY <2>2, <2>3, ClaimableIsFresh, StatusesApart
  <2>5. \A v \in Workers : pc'[v] \in Holding => status'[job[v].msg] \in {"sending", "failed"}
    BY <1>2, <2>1, <2>2 DEF ClaimInv, ClaimExclusive, TypeOK
  <2>. QED
    BY <1>1, <1>2, <2>4, <2>5, FrameKeepsClaimInv
<1>5. CASE Refresh(w) \/ Count(w) \/ Complete(w) \/ Crash(w) \/ Redeliver(w)
  <2>1. status' = status
    BY <1>5 DEF Refresh, Count, Complete, Crash, Redeliver
  <2>. QED
    BY <1>1, <1>2, <2>1, ClaimableIsFresh, FrameKeepsClaimInv DEF ClaimInv, ClaimExclusive
<1>. QED
  BY <1>3, <1>4, <1>5

\* The claim itself: the conditional UPDATE takes a claimable row, which no
\* worker holds.
LEMMA ClaimKeepsClaimInv ==
  ASSUME ClaimInv, TypeOK', NEW w \in Workers, Claim(w)
  PROVE  ClaimInv'
<1> USE DEF rows, provider, workers
<1>1. PICK t \in SendTasks : Claim(w)!2!(t)
  BY DEF Claim
<1>2. t[1] \in Messages /\ UNCHANGED <<attempts, provider>> /\ pc[w] = "idle"
  BY DEF SendTasks, Claim
<1>3. CASE status[t[1]] \notin Claimable
  <2>1. UNCHANGED <<status, pc, job>>
    BY <1>1, <1>3
  <2>. QED
    BY <1>2, <2>1, ClaimableIsFresh, FrameKeepsClaimInv DEF ClaimInv, ClaimExclusive
<1>4. CASE status[t[1]] \in Claimable
  <2>1. /\ status' = [status EXCEPT ![t[1]] = "sending"]
        /\ pc' = [pc EXCEPT ![w] = "claimed"]
        /\ job' = [job EXCEPT ![w] = NewJob(t[1], t[2])]
    BY <1>1, <1>4
  <2>2. /\ pc'[w] = "claimed" /\ job'[w].msg = t[1]
        /\ \A v \in Workers \ {w} : pc'[v] = pc[v] /\ job'[v] = job[v]
        /\ status'[t[1]] = "sending"
        /\ \A m \in Messages \ {t[1]} : status'[m] = status[m]
    BY <2>1, <1>2 DEF ClaimInv, TypeOK, NewJob
  <2>3. \A v \in Workers \ {w} : pc[v] \in Holding => job[v].msg \in Messages \ {t[1]}
    BY <1>4, StatusesApart DEF ClaimInv, ClaimExclusive, TypeOK, Claimable
  <2>4. Fresh(t[1])
    BY <1>2, <1>4, ClaimableIsFresh
  <2>5. ClaimExclusive'
    BY <2>2, <2>3 DEF ClaimInv, ClaimExclusive
  <2>6. CopyIsCurrent'
    BY <1>2, <2>2, <2>3 DEF ClaimInv, CopyIsCurrent
  <2>7. CallsCounted'
    BY <1>2, <2>2, <2>3, <2>4, StatusesApart
       DEF ClaimInv, CallsCounted, Fresh, BeforeCall, AfterCall, Holding
  <2>8. CallsBounded'
    BY <1>2 DEF ClaimInv, CallsBounded
  <2>9. KnownAcceptanceCloses'
    BY <1>2, <2>2, <2>3, <2>4, StatusesApart DEF ClaimInv, KnownAcceptanceCloses, Fresh
  <2>10. OneCopy'
    BY <1>2 DEF ClaimInv, OneCopy
  <2>. QED
    BY <2>5, <2>6, <2>7, <2>8, <2>9, <2>10 DEF ClaimInv
<1>. QED
  BY <1>3, <1>4

\* Reading the row again, and learning that no sender can be built.
LEMMA RereadKeepsClaimInv ==
  ASSUME ClaimInv, TypeOK', NEW w \in Workers, Reread(w) \/ NoSender(w)
  PROVE  ClaimInv'
<1> USE DEF rows, provider
<1>1. UNCHANGED <<status, attempts, calls, copies, lost>>
  BY DEF Reread, NoSender
<1>2. /\ pc[w] \in BeforeCall
      /\ pc'[w] \in BeforeCall \ {"claimed"}
      /\ \A v \in Workers \ {w} : pc'[v] = pc[v] /\ job'[v] = job[v]
      /\ job'[w].msg = job[w].msg
  BY DEF Reread, NoSender, GoTo, BeforeCall, ClaimInv, TypeOK, Jobs
<1>3. job'[w].attempt = attempts[job[w].msg]
  <2>1. CASE Reread(w)
    BY <2>1 DEF Reread, ClaimInv, TypeOK, Jobs
  <2>2. CASE NoSender(w)
    BY <2>2 DEF NoSender, GoTo, ClaimInv, CopyIsCurrent, Holding, BeforeCall
  <2>. QED
    BY <2>1, <2>2
<1>4. BeforeCall \intersect AfterCall = {} /\ "accepted" \in AfterCall
  BY DEF BeforeCall, AfterCall
<1>5. ClaimExclusive'
  BY <1>1, <1>2 DEF ClaimInv, ClaimExclusive, Holding
<1>6. CopyIsCurrent'
  BY <1>1, <1>2, <1>3 DEF ClaimInv, CopyIsCurrent, Holding
<1>7. CallsCounted'
  BY <1>1, <1>2, <1>4 DEF ClaimInv, CallsCounted
<1>8. CallsBounded' /\ OneCopy'
  BY <1>1 DEF ClaimInv, CallsBounded, OneCopy
<1>9. KnownAcceptanceCloses'
  BY <1>1, <1>2, <1>4 DEF ClaimInv, KnownAcceptanceCloses, Holding
<1>. QED
  BY <1>5, <1>6, <1>7, <1>8, <1>9 DEF ClaimInv

\* The provider call: counted once, and taken knowingly at most once.
LEMMA CallKeepsClaimInv ==
  ASSUME ClaimInv, TypeOK', NEW w \in Workers, CallProvider(w)
  PROVE  ClaimInv'
<1> USE DEF rows, provider
<1> DEFINE m == job[w].msg
<1>1. pc[w] = "cleared" /\ pc[w] \in BeforeCall /\ pc[w] \in Holding
  BY DEF CallProvider, BeforeCall, Holding
<1>2. m \in Messages /\ Fresh(m) /\ status[m] \in {"sending", "failed"}
  BY <1>1, BeforeCallIsFresh DEF ClaimInv, ClaimExclusive
<1>3. UNCHANGED <<status, attempts, job>>
  BY DEF CallProvider, GoTo
<1>4. /\ pc'[w] \in AfterCall
      /\ \A v \in Workers \ {w} : pc'[v] = pc[v]
  BY DEF CallProvider, GoTo, AfterCall, ClaimInv, TypeOK
<1>5. /\ calls'[m] = calls[m] + 1
      /\ \A n \in Messages \ {m} : calls'[n] = calls[n] /\ copies'[n] = copies[n] /\ lost'[n] = lost[n]
      /\ copies'[m] <= lost'[m] \/ (pc'[w] = "accepted" /\ copies'[m] <= lost'[m] + 1)
  BY <1>2 DEF CallProvider, GoTo, Bump, Fresh, ClaimInv, TypeOK
<1>6. \A v \in Workers \ {w} : pc[v] \in Holding => job[v].msg \in Messages \ {m}
  BY <1>1 DEF ClaimInv, ClaimExclusive, TypeOK
<1>7. BeforeCall \intersect AfterCall = {} /\ AfterCall \subseteq Holding /\ BeforeCall \subseteq Holding
  BY DEF BeforeCall, AfterCall, Holding
<1>8. \A n \in Messages : status[n] \in Claimable \union {"absent"} => n # m
  BY <1>2, StatusesApart
<1>9. ClaimExclusive'
  BY <1>1, <1>3, <1>4 DEF ClaimInv, ClaimExclusive
<1>10. CopyIsCurrent'
  BY <1>1, <1>3, <1>4 DEF ClaimInv, CopyIsCurrent
<1>11. CallsCounted'
  BY <1>2, <1>3, <1>4, <1>5, <1>6, <1>7, <1>8 DEF ClaimInv, CallsCounted, Fresh, TypeOK
<1>12. CallsBounded'
  BY <1>2, <1>5, PipelineAssumption DEF ClaimInv, CallsBounded, Fresh, TypeOK
<1>13. KnownAcceptanceCloses'
  BY <1>2, <1>3, <1>4, <1>5, <1>6, <1>8 DEF ClaimInv, KnownAcceptanceCloses
<1>14. OneCopy'
  BY <1>2, <1>5 DEF ClaimInv, OneCopy, Fresh, TypeOK
<1>. QED
  BY <1>9, <1>10, <1>11, <1>12, <1>13, <1>14 DEF ClaimInv

\* Recording a failed call: the row is freed only while the budget lasts, and
\* its attempt is counted in the same write.
LEMMA FailureKeepsClaimInv ==
  ASSUME ClaimInv, TypeOK', NEW w \in Workers, ScheduleRetry(w) \/ RecordFailure(w)
  PROVE  ClaimInv'
<1> USE DEF rows, provider
<1> DEFINE m == job[w].msg
<1>1. /\ pc[w] \in {"transient", "refused"} /\ pc[w] \in Holding \ {"accepted", "claimed"}
      /\ pc[w] \in AfterCall
  BY DEF ScheduleRetry, RecordFailure, Holding, AfterCall
<1>2. /\ m \in Messages /\ status[m] \in {"sending", "failed"}
      /\ calls[m] <= attempts[m] + 1 /\ copies[m] <= lost[m]
      /\ Attempt(w) = attempts[m] + 1
  BY <1>1 DEF ClaimInv, TypeOK, ClaimExclusive, CallsCounted, KnownAcceptanceCloses,
              CopyIsCurrent, Attempt
<1>3. UNCHANGED <<calls, copies, lost>> /\ attempts' = [attempts EXCEPT ![m] = Attempt(w)]
  BY DEF ScheduleRetry, RecordFailure
<1>4. /\ attempts'[m] = attempts[m] + 1
      /\ \A n \in Messages \ {m} : attempts'[n] = attempts[n]
  BY <1>2, <1>3 DEF ClaimInv, TypeOK
<1>5. /\ pc'[w] \notin Holding
      /\ \A v \in Workers \ {w} : pc'[v] = pc[v] /\ job'[v] = job[v]
  BY DEF ScheduleRetry, RecordFailure, EndTask, GoTo, ClaimInv, TypeOK, Holding,
         BeforeCall, AfterCall
<1>6. \A v \in Workers \ {w} : pc[v] \in Holding => job[v].msg \in Messages \ {m}
  BY <1>1 DEF ClaimInv, ClaimExclusive, TypeOK
<1>7. /\ \A n \in Messages \ {m} : status'[n] = status[n]
      /\ \/ status'[m] = "queued" /\ attempts'[m] <= MaxRetries
         \/ status'[m] \in {"sending", "failed"}
  BY <1>2, <1>4 DEF ScheduleRetry, RecordFailure, Apply, ClaimInv, TypeOK
<1>8. calls[m] <= attempts'[m]
  BY <1>2, <1>4
<1>9. ClaimExclusive'
  BY <1>5, <1>6, <1>7 DEF ClaimInv, ClaimExclusive
<1>10. CopyIsCurrent'
  BY <1>4, <1>5, <1>6 DEF ClaimInv, CopyIsCurrent
<1>11. CallsCounted'
  BY <1>3, <1>4, <1>5, <1>6, <1>7, <1>8, StatusesApart
     DEF ClaimInv, CallsCounted, Holding
<1>12. CallsBounded' /\ OneCopy'
  BY <1>3 DEF ClaimInv, CallsBounded, OneCopy
<1>13. KnownAcceptanceCloses'
  BY <1>2, <1>3, <1>5, <1>6, <1>7, StatusesApart DEF ClaimInv, KnownAcceptanceCloses
<1>. QED
  BY <1>9, <1>10, <1>11, <1>12, <1>13 DEF ClaimInv

\* The claim invariant is inductive: it holds of every reachable state, for
\* any number of messages, workers and requests and any retry limits.
THEOREM ClaimInvariant == Spec => []ClaimInv
<1>1. ClaimInv /\ [Next]_vars => ClaimInv'
  <2> SUFFICES ASSUME ClaimInv, [Next]_vars PROVE ClaimInv'
    OBVIOUS
  <2>1. ASSUME Next PROVE TypeOK'
    BY <2>1, RequestTypeOK, DispatchTypeOK, SendTypeOK, OutcomeTypeOK
       DEF Next, WorkerStep, ClaimInv
  <2>2. ASSUME NEW r \in Requests, CommitRequest(r) \/ \E op \in RequestOps : Load(r, op)
        PROVE  ClaimInv'
    BY <2>1, <2>2, RequestKeepsClaimInv DEF Next
  <2>3. ASSUME NEW w \in Workers, WorkerStep(w) \/ Crash(w) \/ Redeliver(w)
        PROVE  ClaimInv'
    BY <2>1, <2>3, RequestKeepsClaimInv, ClaimKeepsClaimInv, RereadKeepsClaimInv,
       ReleaseKeepsClaimInv, CallKeepsClaimInv, FailureKeepsClaimInv DEF Next, WorkerStep
  <2>4. CASE UNCHANGED vars
    BY <2>4 DEF vars, rows, broker, workers, provider, ClaimInv, TypeOK, ClaimExclusive,
                CopyIsCurrent, CallsCounted, CallsBounded, KnownAcceptanceCloses, OneCopy
  <2>. QED
    BY <2>2, <2>3, <2>4 DEF Next
<1>. QED
  BY <1>1, InitClaimInv, PTL DEF Spec

\* No two workers ever own the same message's claim (claim_for_sending).
THEOREM ClaimIsExclusive == Spec => []ClaimExclusive
BY ClaimInvariant, PTL DEF ClaimInv

\* A message is accepted at most once more than its answers were lost.
THEOREM CopiesAreBounded == Spec => []OneCopy
BY ClaimInvariant, PTL DEF ClaimInv

\* The provider is called at most MaxRetries + 1 times for a message.
THEOREM CallsAreBounded == Spec => []CallsBounded
BY ClaimInvariant, PTL DEF ClaimInv

-----------------------------------------------------------------------------
(* The pipeline implements the claim protocol of SendClaims.               *)

\* The refinement mapping, read off the one owner or the row.
PhaseTable ==
  \A m \in Messages :
    /\ \A w \in Workers : Holds(w, m) =>
         /\ pc[w] \in BeforeCall => PhaseOf(m) = "claimed"
         /\ pc[w] = "accepted" => PhaseOf(m) = "taken"
         /\ pc[w] \in {"transient", "refused"} => PhaseOf(m) = "failed"
    /\ (\A w \in Workers : ~Holds(w, m)) =>
         /\ status[m] = "absent" => PhaseOf(m) = "absent"
         /\ status[m] \in Claimable => PhaseOf(m) = "open"
         /\ status[m] \notin Claimable \union {"absent"} => PhaseOf(m) = "closed"

LEMMA PhaseOfTable == ClaimInv => PhaseTable
<1> SUFFICES ASSUME ClaimInv, NEW m \in Messages
             PROVE  PhaseTable!(m)
  BY DEF PhaseTable
<1>1. ASSUME NEW w \in Workers, Holds(w, m)
      PROVE  Owned(m) /\ Owner(m) = w
  <2>1. \A v \in Workers : Holds(v, m) => v = w
    BY <1>1 DEF ClaimInv, ClaimExclusive, Holds
  <2>2. Owner(m) \in Workers /\ Holds(Owner(m), m)
    BY <1>1 DEF Owner
  <2>. QED
    BY <1>1, <2>1, <2>2 DEF Owned
<1>2. /\ "accepted" \notin BeforeCall /\ "transient" \notin BeforeCall
      /\ "refused" \notin BeforeCall /\ "absent" \notin Claimable
  BY DEF BeforeCall, Claimable
<1>3. ASSUME NEW w \in Workers, Holds(w, m)
      PROVE  /\ pc[w] \in BeforeCall => PhaseOf(m) = "claimed"
             /\ pc[w] = "accepted" => PhaseOf(m) = "taken"
             /\ pc[w] \in {"transient", "refused"} => PhaseOf(m) = "failed"
  BY <1>1, <1>2, <1>3, Zenon DEF PhaseOf
<1>4. ASSUME \A w \in Workers : ~Holds(w, m)
      PROVE  /\ status[m] = "absent" => PhaseOf(m) = "absent"
             /\ status[m] \in Claimable => PhaseOf(m) = "open"
             /\ status[m] \notin Claimable \union {"absent"} => PhaseOf(m) = "closed"
  <2>1. ~Owned(m)
    BY <1>4 DEF Owned
  <2>. QED
    BY <2>1, <1>2, Zenon DEF PhaseOf
<1>. QED
  BY <1>3, <1>4

LEMMA PhaseOfTableNext == ClaimInv' => PhaseTable'
BY PhaseOfTable, PTL

\* A message keeps its phase if its owner stays on the same side of the call
\* and, without an owner, its row stays free, absent or done.
LEMMA PhaseKept ==
  ASSUME ClaimInv, ClaimInv', NEW m \in Messages,
         \A w \in Workers : Holds(w, m)' <=> Holds(w, m),
         \A w \in Workers : Holds(w, m) =>
            \/ pc'[w] = pc[w]
            \/ pc[w] \in BeforeCall /\ pc'[w] \in BeforeCall,
         (\A w \in Workers : ~Holds(w, m)) =>
            \/ status'[m] = status[m]
            \/ status[m] \in Claimable /\ status'[m] \in Claimable
  PROVE  PhaseOf(m)' = PhaseOf(m)
<1>1. PhaseTable /\ PhaseTable'
  BY PhaseOfTable, PhaseOfTableNext
<1>2. CASE \E w \in Workers : Holds(w, m)
  <2>1. PICK w \in Workers : Holds(w, m)
    BY <1>2
  <2>2. Holds(w, m)'
    BY <2>1
  <2>3. pc[w] \in BeforeCall \/ pc[w] \in {"accepted", "transient", "refused"}
    BY <2>1 DEF Holds, Holding, AfterCall
  <2>. QED
    BY <1>1, <2>1, <2>2, <2>3 DEF PhaseTable
<1>3. CASE \A w \in Workers : ~Holds(w, m)
  BY <1>1, <1>3 DEF PhaseTable
<1>. QED
  BY <1>2, <1>3

\* One message changes phase, the others keep theirs.
LEMMA PhaseMoved ==
  ASSUME NEW m \in Messages, NEW to, NEW from, PhaseOf(m) \in from, PhaseOf(m)' = to,
         \A n \in Messages \ {m} : PhaseOf(n)' = PhaseOf(n)
  PROVE  Claims!Move({m}, from, to)
BY DEF Claims!Move

\* The steps that write neither a row's freedom nor a claim.
LEMMA OthersStutter ==
  ASSUME ClaimInv, ClaimInv',
         \/ \E r \in Requests : Pause(r) \/ Resume(r) \/ Refuse(r) \/ \E op \in RequestOps : Load(r, op)
         \/ \E w \in Workers :
              \/ TakeDispatch(w) \/ EnqueueListed(w) \/ MarkQueued(w) \/ Reread(w) \/ NoSender(w)
              \/ Refresh(w) \/ Count(w) \/ Complete(w) \/ Redeliver(w)
  PROVE  (\A m \in Messages : PhaseOf(m)' = PhaseOf(m)) /\ calls' = calls
<1>1. calls' = calls
  BY DEF Pause, Resume, Refuse, Load, TakeDispatch, EnqueueListed, MarkQueued, Reread,
         NoSender, Refresh, Count, Complete, Redeliver, provider
<1>2. \A m \in Messages : status'[m] = status[m] \/ (status[m] \in Claimable /\ status'[m] \in Claimable)
  BY DEF Pause, Resume, Refuse, Load, TakeDispatch, EnqueueListed, MarkQueued, Reread,
         NoSender, Refresh, Count, Complete, Redeliver, rows, Claimable
<1>3. \A m \in Messages, v \in Workers : Holds(v, m)' <=> Holds(v, m)
  <2>1. CASE \E r \in Requests : Pause(r) \/ Resume(r) \/ Refuse(r) \/ \E op \in RequestOps : Load(r, op)
    BY <2>1 DEF Pause, Resume, Refuse, Load, workers, Holds
  <2>2. ASSUME NEW w \in Workers, TakeDispatch(w) \/ EnqueueListed(w) \/ MarkQueued(w)
        PROVE  \A m \in Messages, v \in Workers : Holds(v, m)' <=> Holds(v, m)
    BY <2>2 DEF TakeDispatch, EnqueueListed, MarkQueued, GoTo, EndTask, workers, Holds,
                Holding, BeforeCall, AfterCall, ClaimInv, TypeOK
  <2>3. ASSUME NEW w \in Workers, Reread(w)
        PROVE  \A m \in Messages, v \in Workers : Holds(v, m)' <=> Holds(v, m)
    BY <2>3 DEF Reread, Holds, Holding, BeforeCall, AfterCall, ClaimInv, TypeOK, Jobs
  <2>4. ASSUME NEW w \in Workers, NoSender(w)
        PROVE  \A m \in Messages, v \in Workers : Holds(v, m)' <=> Holds(v, m)
    BY <2>4 DEF NoSender, GoTo, Holds, Holding, BeforeCall, AfterCall, ClaimInv, TypeOK
  <2>5. ASSUME NEW w \in Workers, Refresh(w) \/ Count(w) \/ Complete(w) \/ Redeliver(w)
        PROVE  \A m \in Messages, v \in Workers : Holds(v, m)' <=> Holds(v, m)
    BY <2>5 DEF Refresh, Count, Complete, Redeliver, GoTo, EndTask, workers, Holds,
                Holding, BeforeCall, AfterCall, ClaimInv, TypeOK
  <2>. QED
    BY <2>1, <2>2, <2>3, <2>4, <2>5
<1>4. \A m \in Messages, v \in Workers : Holds(v, m) =>
        pc'[v] = pc[v] \/ (pc[v] \in BeforeCall /\ pc'[v] \in BeforeCall)
  <2> DEFINE Stays(v) == pc'[v] = pc[v] \/ (pc[v] \in BeforeCall /\ pc'[v] \in BeforeCall)
  <2> SUFFICES ASSUME NEW v \in Workers, pc[v] \in Holding
               PROVE  Stays(v)
    BY DEF Holds
  <2>1. CASE \E r \in Requests : Pause(r) \/ Resume(r) \/ Refuse(r) \/ \E op \in RequestOps : Load(r, op)
    BY <2>1 DEF Pause, Resume, Refuse, Load, workers
  <2>2. ASSUME NEW w \in Workers, TakeDispatch(w) \/ EnqueueListed(w) \/ MarkQueued(w)
        PROVE  Stays(v)
    <3>1. pc[w] \notin Holding
      BY <2>2 DEF TakeDispatch, EnqueueListed, MarkQueued, Holding, BeforeCall, AfterCall
    <3>2. \A x \in Workers \ {w} : pc'[x] = pc[x]
      BY <2>2 DEF TakeDispatch, EnqueueListed, MarkQueued, GoTo, EndTask, workers, ClaimInv, TypeOK
    <3>. QED
      BY <3>1, <3>2
  <2>3. ASSUME NEW w \in Workers, Reread(w) \/ NoSender(w)
        PROVE  Stays(v)
    BY <2>3 DEF Reread, NoSender, GoTo, BeforeCall, ClaimInv, TypeOK
  <2>4. ASSUME NEW w \in Workers, Refresh(w) \/ Count(w) \/ Complete(w) \/ Redeliver(w)
        PROVE  Stays(v)
    BY <2>4 DEF Refresh, Count, Complete, Redeliver, GoTo, EndTask, workers, Holding,
                BeforeCall, AfterCall, ClaimInv, TypeOK
  <2>. QED
    BY <2>1, <2>2, <2>3, <2>4
<1>. QED
  BY <1>1, <1>2, <1>3, <1>4, PhaseKept

\* A launch opens absent messages; a cancel closes the open ones and leaves
\* the claimed ones to their owners.
LEMMA LaunchMaterializes ==
  ASSUME ClaimInv, ClaimInv', NEW r \in Requests, Launch(r)
  PROVE  \E S \in SUBSET Messages : Claims!Materialize(S)
<1> DEFINE S == {m \in Messages : status[m] = "absent" /\ status'[m] = "pending"}
<1>1. UNCHANGED <<pc, job, calls>>
  BY DEF Launch, workers, provider
<1>2. \A m \in Messages \ S : status'[m] = status[m]
  BY DEF Launch
<1>3. \A m \in Messages : status[m] = "absent" => \A w \in Workers : ~Holds(w, m)
  BY DEF ClaimInv, ClaimExclusive, Holds
<1>4. \A m \in Messages \ S : PhaseOf(m)' = PhaseOf(m)
  BY <1>1, <1>2, PhaseKept DEF Holds
<1>5. \A m \in S : PhaseOf(m) = "absent" /\ PhaseOf(m)' = "open"
  <2> SUFFICES ASSUME NEW m \in S PROVE PhaseOf(m) = "absent" /\ PhaseOf(m)' = "open"
    OBVIOUS
  <2>1. \A w \in Workers : ~Holds(w, m) /\ ~Holds(w, m)'
    BY <1>1, <1>3 DEF Holds
  <2>2. "pending" \in Claimable
    BY DEF Claimable
  <2>. QED
    BY <2>1, <2>2, PhaseOfTable, PhaseOfTableNext DEF PhaseTable
<1>6. Claims!Materialize(S)
  BY <1>1, <1>4, <1>5 DEF Claims!Materialize, Claims!Move
<1>. QED
  BY <1>6

LEMMA CancelAbandons ==
  ASSUME ClaimInv, ClaimInv', NEW r \in Requests, Cancel(r)
  PROVE  \E S \in SUBSET Messages : Claims!Abandon(S)
<1> DEFINE S == {m \in Messages : status[m] \in Claimable}
<1>1. UNCHANGED <<pc, job, calls>>
  BY DEF Cancel, workers, provider
<1>2. \A m \in Messages : status[m] \in Claimable => \A w \in Workers : ~Holds(w, m)
  BY DEF ClaimInv, ClaimExclusive, Holds, Claimable
<1>3. \A m \in Messages \ S : PhaseOf(m)' = PhaseOf(m)
  <2> SUFFICES ASSUME NEW m \in Messages \ S PROVE PhaseOf(m)' = PhaseOf(m)
    OBVIOUS
  <2>1. status'[m] = status[m] \/ (status[m] = "sending" /\ status'[m] = "failed")
    BY DEF Cancel, InFlight, Claimable
  <2>2. \A w \in Workers : Holds(w, m)' <=> Holds(w, m)
    BY <1>1 DEF Holds
  <2>3. CASE status'[m] = status[m]
    BY <1>1, <2>2, <2>3, PhaseKept
  <2>4. CASE status[m] = "sending" /\ status'[m] = "failed"
    <3>1. {"sending", "failed"} \intersect (Claimable \union {"absent"}) = {}
      BY DEF Claimable
    <3>2. CASE \E w \in Workers : Holds(w, m)
      BY <1>1, <2>2, <3>2, PhaseKept
    <3>3. CASE \A w \in Workers : ~Holds(w, m)
      BY <2>2, <2>4, <3>1, <3>3, PhaseOfTable, PhaseOfTableNext DEF PhaseTable
    <3>. QED
      BY <3>2, <3>3
  <2>. QED
    BY <2>1, <2>3, <2>4
<1>4. \A m \in S : PhaseOf(m) = "open" /\ PhaseOf(m)' = "closed"
  <2> SUFFICES ASSUME NEW m \in S PROVE PhaseOf(m) = "open" /\ PhaseOf(m)' = "closed"
    OBVIOUS
  <2>1. \A w \in Workers : ~Holds(w, m) /\ ~Holds(w, m)'
    BY <1>1, <1>2 DEF Holds
  <2>2. status'[m] = "failed" /\ "failed" \notin Claimable \union {"absent"}
    BY DEF Cancel, InFlight, Claimable
  <2>. QED
    BY <2>1, <2>2, PhaseOfTable, PhaseOfTableNext DEF PhaseTable
<1>5. Claims!Abandon(S)
  BY <1>1, <1>3, <1>4 DEF Claims!Abandon, Claims!Move
<1>. QED
  BY <1>5
\* A worker's step on its own message leaves the phases of the others alone.
LEMMA OthersKeepPhase ==
  ASSUME ClaimInv, ClaimInv', NEW m \in Messages, NEW w \in Workers,
         \A v \in Workers \ {w} : pc'[v] = pc[v] /\ job'[v].msg = job[v].msg,
         pc[w] \in Holding => job[w].msg = m,
         pc'[w] \in Holding => job'[w].msg = m,
         \A n \in Messages \ {m} : status'[n] = status[n]
  PROVE  \A n \in Messages \ {m} : PhaseOf(n)' = PhaseOf(n)
<1> SUFFICES ASSUME NEW n \in Messages \ {m} PROVE PhaseOf(n)' = PhaseOf(n)
  OBVIOUS
<1>1. ~Holds(w, n) /\ ~Holds(w, n)'
  BY DEF Holds
<1>2. \A v \in Workers : Holds(v, n)' <=> Holds(v, n)
  BY <1>1 DEF Holds
<1>3. \A v \in Workers : Holds(v, n) => pc'[v] = pc[v]
  BY <1>1
<1>. QED
  BY <1>2, <1>3, PhaseKept

\* A worker that lets go of its message opens it or closes it, as the row says.
LEMMA LetGo ==
  ASSUME ClaimInv, ClaimInv', NEW w \in Workers, NEW m \in Messages,
         Holds(w, m), calls' = calls,
         \A v \in Workers \ {w} : pc'[v] = pc[v] /\ job'[v].msg = job[v].msg,
         pc'[w] \notin Holding,
         \A n \in Messages \ {m} : status'[n] = status[n],
         status'[m] \in Claimable => pc[w] # "accepted",
         status'[m] # "absent"
  PROVE  Claims!HandBack(m) \/ Claims!Close(m)
<1>1. job[w].msg = m /\ pc[w] \in Holding
  BY DEF Holds
<1>2. \A v \in Workers : ~Holds(v, m)'
  BY <1>1 DEF Holds, ClaimInv, ClaimExclusive
<1>3. /\ pc[w] \in BeforeCall => PhaseOf(m) = "claimed"
      /\ pc[w] = "accepted" => PhaseOf(m) = "taken"
      /\ pc[w] \in {"transient", "refused"} => PhaseOf(m) = "failed"
  BY PhaseOfTable DEF PhaseTable
<1>4. /\ status'[m] \in Claimable => PhaseOf(m)' = "open"
      /\ status'[m] \notin Claimable => PhaseOf(m)' = "closed"
  BY <1>2, PhaseOfTableNext DEF PhaseTable
<1>5. \A n \in Messages \ {m} : PhaseOf(n)' = PhaseOf(n)
  BY <1>1, OthersKeepPhase
<1>6. pc[w] \in BeforeCall \/ pc[w] \in {"accepted", "transient", "refused"}
  BY <1>1 DEF Holding, AfterCall
<1>7. CASE status'[m] \in Claimable
  <2>1. PhaseOf(m) \in {"claimed", "failed"} /\ PhaseOf(m)' = "open"
    BY <1>3, <1>4, <1>6, <1>7
  <2>2. Claims!Move({m}, {"claimed", "failed"}, "open")
    BY <1>1, <1>5, <2>1, PhaseMoved
  <2>. QED
    BY <2>2 DEF Claims!HandBack
<1>8. CASE status'[m] \notin Claimable
  <2>1. PhaseOf(m) \in {"claimed", "taken", "failed"} /\ PhaseOf(m)' = "closed"
    BY <1>3, <1>4, <1>6, <1>8
  <2>2. Claims!Move({m}, {"claimed", "taken", "failed"}, "closed")
    BY <1>1, <1>5, <2>1, PhaseMoved
  <2>. QED
    BY <2>2 DEF Claims!Close
<1>. QED
  BY <1>7, <1>8

\* The steps that end a claim.
LEMMA OutcomesLetGo ==
  ASSUME ClaimInv, ClaimInv', NEW w \in Workers,
         \/ ReleaseAndStop(w) \/ Throttled(w)
         \/ RecordSuccess(w) \/ ScheduleRetry(w) \/ RecordFailure(w)
  PROVE  \E m \in Messages : Claims!HandBack(m) \/ Claims!Close(m)
<1>1. PICK m \in Messages : Holds(w, m) /\ m = job[w].msg
  BY DEF Holds, ReleaseAndStop, Throttled, RecordSuccess, ScheduleRetry, RecordFailure, Holding,
         BeforeCall, AfterCall, ClaimInv, TypeOK
<1>2. calls' = calls
  BY DEF ReleaseAndStop, Throttled, RecordSuccess, ScheduleRetry, RecordFailure, provider
<1>3. /\ pc'[w] \notin Holding
      /\ \A v \in Workers \ {w} : pc'[v] = pc[v] /\ job'[v].msg = job[v].msg
  BY DEF ReleaseAndStop, Throttled, RecordSuccess, ScheduleRetry, RecordFailure, EndTask, GoTo,
         ClaimInv, TypeOK, Holding, BeforeCall, AfterCall
<1>4. \A n \in Messages \ {m} : status'[n] = status[n]
  BY <1>1 DEF ReleaseAndStop, Throttled, RecordSuccess, ScheduleRetry, RecordFailure, Released,
              Apply, ClaimInv, TypeOK
<1>5. status[m] \in {"sending", "failed"}
  BY <1>1 DEF ClaimInv, ClaimExclusive, Holds
<1>6. status'[m] # "absent"
  BY <1>1, <1>5 DEF ReleaseAndStop, Throttled, RecordSuccess, ScheduleRetry, RecordFailure,
                    Released, Apply, ClaimInv, TypeOK
<1>7. pc[w] = "accepted" => status'[m] \in {"sent", "sending", "failed"}
  BY <1>1, <1>5 DEF ReleaseAndStop, Throttled, RecordSuccess, ScheduleRetry, RecordFailure,
                    Apply, ClaimInv, TypeOK
<1>8. {"sent", "sending", "failed"} \intersect Claimable = {}
  BY DEF Claimable
<1>. QED
  BY <1>1, <1>2, <1>3, <1>4, <1>6, <1>7, <1>8, LetGo

\* Losing a worker closes the message it held: the row stays as it is.
LEMMA CrashCloses ==
  ASSUME ClaimInv, ClaimInv', NEW w \in Workers, Crash(w)
  PROVE  \/ \E m \in Messages : Claims!HandBack(m) \/ Claims!Close(m)
         \/ (\A m \in Messages : PhaseOf(m)' = PhaseOf(m)) /\ calls' = calls
<1>1. calls' = calls /\ status' = status
  BY DEF Crash, provider, rows
<1>2. /\ pc'[w] \notin Holding
      /\ \A v \in Workers \ {w} : pc'[v] = pc[v] /\ job'[v] = job[v]
  BY DEF Crash, EndTask, ClaimInv, TypeOK, Holding, BeforeCall, AfterCall
<1>3. CASE pc[w] \in Holding
  <2>1. PICK m \in Messages : Holds(w, m) /\ status[m] \in {"sending", "failed"}
    BY <1>3 DEF ClaimInv, TypeOK, ClaimExclusive, Holds
  <2>2. {"sending", "failed"} \intersect (Claimable \union {"absent"}) = {}
    BY DEF Claimable
  <2>. QED
    BY <1>1, <1>2, <1>3, <2>1, <2>2, LetGo
<1>4. CASE pc[w] \notin Holding
  <2>1. \A m \in Messages, v \in Workers : Holds(v, m)' <=> Holds(v, m)
    BY <1>2, <1>4 DEF Holds
  <2>2. \A m \in Messages, v \in Workers : Holds(v, m) => pc'[v] = pc[v]
    BY <1>2, <1>4 DEF Holds
  <2>. QED
    BY <1>1, <2>1, <2>2, PhaseKept
<1>. QED
  BY <1>3, <1>4

\* Taking a send task claims an open message or changes nothing.
LEMMA ClaimClaims ==
  ASSUME ClaimInv, ClaimInv', NEW w \in Workers, Claim(w)
  PROVE  \/ \E m \in Messages : Claims!Claim(m)
         \/ (\A m \in Messages : PhaseOf(m)' = PhaseOf(m)) /\ calls' = calls
<1>1. calls' = calls /\ pc[w] = "idle" /\ pc[w] \notin Holding
  BY DEF Claim, provider, Holding, BeforeCall, AfterCall
<1>2. PICK t \in SendTasks :
        IF status[t[1]] \in Claimable
        THEN /\ status' = [status EXCEPT ![t[1]] = "sending"]
             /\ pc' = [pc EXCEPT ![w] = "claimed"]
             /\ job' = [job EXCEPT ![w] = NewJob(t[1], t[2])]
        ELSE UNCHANGED <<status, workers>>
  BY DEF Claim
<1> DEFINE m == t[1]
<1>3. m \in Messages
  BY DEF SendTasks
<1>4. CASE status[m] \in Claimable
  <2>1. \A v \in Workers : ~Holds(v, m)
    BY <1>4 DEF ClaimInv, ClaimExclusive, Holds, Claimable
  <2>2. PhaseOf(m) = "open"
    BY <1>3, <1>4, <2>1, PhaseOfTable DEF PhaseTable
  <2>3. pc'[w] = "claimed" /\ job'[w].msg = m
    BY <1>2, <1>4 DEF NewJob, ClaimInv, TypeOK
  <2>4. "claimed" \in BeforeCall /\ "claimed" \in Holding
    BY DEF BeforeCall, Holding
  <2>5. Holds(w, m)'
    BY <2>3, <2>4 DEF Holds
  <2>6. PhaseOf(m)' = "claimed"
    BY <1>3, <2>3, <2>4, <2>5, PhaseOfTableNext DEF PhaseTable
  <2>7. \A v \in Workers \ {w} : pc'[v] = pc[v] /\ job'[v].msg = job[v].msg
    BY <1>2, <1>4 DEF ClaimInv, TypeOK
  <2>8. \A n \in Messages \ {m} : status'[n] = status[n]
    BY <1>2, <1>4 DEF ClaimInv, TypeOK
  <2>9. \A n \in Messages \ {m} : PhaseOf(n)' = PhaseOf(n)
    BY <1>1, <1>3, <2>3, <2>7, <2>8, OthersKeepPhase
  <2>10. Claims!Move({m}, {"open"}, "claimed")
    BY <1>3, <2>2, <2>6, <2>9, PhaseMoved
  <2>. QED
    BY <1>1, <1>3, <2>10 DEF Claims!Claim
<1>5. CASE status[m] \notin Claimable
  <2>1. UNCHANGED <<status, pc, job>>
    BY <1>2, <1>5 DEF workers
  <2>2. \A n \in Messages, v \in Workers : Holds(v, n)' <=> Holds(v, n)
    BY <2>1 DEF Holds
  <2>. QED
    BY <1>1, <2>1, <2>2, PhaseKept
<1>. QED
  BY <1>4, <1>5

\* The provider call is the one call of its claim.
LEMMA CallProviderCalls ==
  ASSUME ClaimInv, ClaimInv', NEW w \in Workers, CallProvider(w)
  PROVE  \E m \in Messages : Claims!Call(m)
<1>1. pc[w] = "cleared" /\ pc[w] \in BeforeCall /\ pc[w] \in Holding
  BY DEF CallProvider, BeforeCall, Holding
<1>2. PICK m \in Messages : Holds(w, m) /\ m = job[w].msg
  BY <1>1 DEF ClaimInv, TypeOK, Holds
<1>3. /\ calls' = [calls EXCEPT ![m] = @ + 1] /\ UNCHANGED <<status, job>>
      /\ \E a \in {"accepted", "transient", "refused"} : pc' = [pc EXCEPT ![w] = a]
  BY <1>2 DEF CallProvider, Bump, GoTo, rows
<1>4. /\ pc'[w] \in {"accepted", "transient", "refused"}
      /\ \A v \in Workers \ {w} : pc'[v] = pc[v] /\ job'[v].msg = job[v].msg
  BY <1>3 DEF ClaimInv, TypeOK
<1>5. pc'[w] \in Holding
  BY <1>4 DEF Holding, AfterCall
<1>6. Holds(w, m)'
  BY <1>2, <1>3, <1>5 DEF Holds
<1>7. PhaseOf(m) = "claimed"
  BY <1>1, <1>2, PhaseOfTable DEF PhaseTable
<1>8. /\ pc'[w] = "accepted" => PhaseOf(m)' = "taken"
      /\ pc'[w] \in {"transient", "refused"} => PhaseOf(m)' = "failed"
  BY <1>2, <1>6, PhaseOfTableNext DEF PhaseTable
<1>9. \A n \in Messages \ {m} : PhaseOf(n)' = PhaseOf(n)
  BY <1>2, <1>3, <1>4, OthersKeepPhase
<1>10. calls[m] < MaxRetries + 1
  BY <1>1, <1>2, PipelineAssumption DEF ClaimInv, CallsCounted, TypeOK
<1>11. Claims!Move({m}, {"claimed"}, "taken") \/ Claims!Move({m}, {"claimed"}, "failed")
  <2>1. CASE pc'[w] = "accepted"
    BY <1>2, <1>7, <1>8, <1>9, <2>1, PhaseMoved
  <2>2. CASE pc'[w] \in {"transient", "refused"}
    BY <1>2, <1>7, <1>8, <1>9, <2>2, PhaseMoved
  <2>. QED
    BY <1>4, <2>1, <2>2
<1>. QED
  BY <1>2, <1>3, <1>10, <1>11 DEF Claims!Call

\* Nothing is owned and no row exists before the launch.
LEMMA InitRefines == Init => Claims!Init
<1> SUFFICES ASSUME Init PROVE Claims!Init
  OBVIOUS
<1>1. \A m \in Messages, w \in Workers : ~Holds(w, m)
  BY DEF Init, Holds, Holding, BeforeCall, AfterCall
<1>2. \A m \in Messages : status[m] = "absent"
  BY DEF Init
<1>3. \A m \in Messages : PhaseOf(m) = "absent"
  BY <1>1, <1>2, InitClaimInv, PhaseOfTable DEF PhaseTable
<1>. QED
  BY <1>3 DEF Init, Claims!Init

\* Every step of the pipeline is a step of the claim protocol or a stutter.
LEMMA StepRefines ==
  ASSUME ClaimInv, ClaimInv', [Next]_vars
  PROVE  [Claims!Next]_<<[m \in Messages |-> PhaseOf(m)], calls>>
<1> DEFINE Stutter == (\A m \in Messages : PhaseOf(m)' = PhaseOf(m)) /\ calls' = calls
<1>1. CASE \E r \in Requests : CommitRequest(r) \/ \E op \in RequestOps : Load(r, op)
  BY <1>1, OthersStutter, LaunchMaterializes, CancelAbandons DEF CommitRequest, Claims!Next
<1>2. CASE \E w \in Workers : WorkerStep(w) \/ Crash(w) \/ Redeliver(w)
  BY <1>2, OthersStutter, OutcomesLetGo, CrashCloses, ClaimClaims, CallProviderCalls
     DEF WorkerStep, Claims!Next
<1>3. CASE UNCHANGED vars
  <2>1. UNCHANGED <<status, pc, job, calls>>
    BY <1>3 DEF vars, rows, workers, provider
  <2>2. \A m \in Messages, w \in Workers : Holds(w, m)' <=> Holds(w, m)
    BY <2>1 DEF Holds
  <2>3. Stutter
    BY <2>1, <2>2, PhaseKept
  <2>. QED
    BY <2>3
<1>. QED
  BY <1>1, <1>2, <1>3 DEF Next

\* The pipeline implements the claim protocol: under crashes, redelivery,
\* retries, cancels and resumes a message is claimed by one worker at a time,
\* called at most once per claim, and never opened again once it is closed.
THEOREM PipelineImplementsClaims == Spec => ImplementsClaims
BY ClaimInvariant, InitRefines, StepRefines, PTL
   DEF Spec, ImplementsClaims, Claims!Spec

-----------------------------------------------------------------------------
(* Without a cancel a claimed row stays SENDING.                           *)

ClaimsAreSending == \A w \in Workers : pc[w] \in Holding => status[job[w].msg] = "sending"

\* What a step of one worker leaves alone, whatever it is.
LEMMA OneWorkerMoves ==
  ASSUME TypeOK, NEW w \in Workers, WorkerStep(w) \/ Crash(w) \/ Redeliver(w)
  PROVE  /\ \A v \in Workers \ {w} : pc'[v] = pc[v] /\ job'[v] = job[v]
         /\ request' = request
<1> USE DEF rows, broker, workers, provider, TypeOK, GoTo, EndTask
<1>1. CASE TakeDispatch(w) \/ EnqueueListed(w) \/ MarkQueued(w) \/ Claim(w) \/ Reread(w)
  BY <1>1 DEF TakeDispatch, EnqueueListed, MarkQueued, Claim, Reread
<1>2. CASE ReleaseAndStop(w) \/ Throttled(w) \/ NoSender(w) \/ CallProvider(w) \/ RecordSuccess(w)
  BY <1>2 DEF ReleaseAndStop, Throttled, NoSender, CallProvider, RecordSuccess
<1>3. CASE ScheduleRetry(w) \/ RecordFailure(w) \/ Refresh(w) \/ Count(w) \/ Complete(w)
  BY <1>3 DEF ScheduleRetry, RecordFailure, Refresh, Count, Complete
<1>4. CASE Crash(w) \/ Redeliver(w)
  BY <1>4 DEF Crash, Redeliver
<1>. QED
  BY <1>1, <1>2, <1>3, <1>4 DEF WorkerStep

\* A worker writes only rows that are in flight: those it claims, marks as
\* queued, hands back or settles.  A claim it takes or keeps is SENDING.
LEMMA WorkerWritesInFlight ==
  ASSUME ClaimInv, ClaimsAreSending, NEW w \in Workers,
         WorkerStep(w) \/ Crash(w) \/ Redeliver(w)
  PROVE  /\ \A m \in Messages : status'[m] # status[m] =>
              status[m] \in InFlight /\ status'[m] # "absent"
         /\ \A m \in Messages : status'[m] # status[m] =>
              \A v \in Workers \ {w} : pc[v] \in Holding => job[v].msg # m
         /\ pc'[w] \in Holding => status'[job'[w].msg] = "sending"
<1> USE DEF rows, broker, workers, provider
<1>0. /\ TypeOK
      /\ InFlight = {"pending", "queued", "sending"} /\ Claimable \subseteq InFlight
      /\ {"idle", "refresh", "counting", "completing", "listing", "marking", "markingNone"}
           \intersect Holding = {}
  BY DEF ClaimInv, InFlight, Claimable, Holding, BeforeCall, AfterCall
<1>1. ASSUME NEW m \in Messages, status[m] # "sending", NEW v \in Workers, pc[v] \in Holding
      PROVE  job[v].msg # m
  BY <1>1 DEF ClaimsAreSending
<1>2. ASSUME pc[w] \in Holding, NEW v \in Workers \ {w}, pc[v] \in Holding
      PROVE  job[v].msg # job[w].msg
  BY <1>2 DEF ClaimInv, ClaimExclusive
<1>3. CASE TakeDispatch(w) \/ EnqueueListed(w) \/ Refresh(w) \/ Count(w) \/ Complete(w)
           \/ Crash(w) \/ Redeliver(w)
  <2>1. status' = status
    BY <1>3 DEF TakeDispatch, EnqueueListed, Refresh, Count, Complete, Crash, Redeliver
  <2>2. pc'[w] \in Holding => pc'[w] = pc[w] /\ job'[w] = job[w]
    BY <1>3, <1>0 DEF TakeDispatch, EnqueueListed, Refresh, Count, Complete, Crash, Redeliver,
                      GoTo, EndTask, TypeOK
  <2>. QED
    BY <2>1, <2>2 DEF ClaimsAreSending
<1>4. CASE MarkQueued(w)
  <2>1. pc'[w] \notin Holding
    BY <1>4, <1>0 DEF MarkQueued, GoTo, EndTask, TypeOK
  <2>2. \A m \in Messages : status'[m] # status[m] => status[m] = "pending" /\ status'[m] = "queued"
    BY <1>4 DEF MarkQueued
  <2>. QED
    BY <2>1, <2>2, <1>0, <1>1
<1>5. CASE Claim(w)
  <2>1. PICK t \in SendTasks : Claim(w)!2!(t)
    BY <1>5 DEF Claim
  <2>2. t[1] \in Messages
    BY DEF SendTasks
  <2>3. CASE status[t[1]] \in Claimable
    <3>1. /\ status' = [status EXCEPT ![t[1]] = "sending"]
          /\ job'[w].msg = t[1]
      BY <2>1, <2>3, <1>0 DEF NewJob, TypeOK
    <3>2. status[t[1]] # "sending"
      BY <2>3 DEF Claimable
    <3>. QED
      BY <3>1, <3>2, <2>2, <2>3, <1>0, <1>1 DEF TypeOK
  <2>4. CASE status[t[1]] \notin Claimable
    BY <2>1, <2>4 DEF ClaimsAreSending
  <2>. QED
    BY <2>3, <2>4
<1>6. CASE Reread(w) \/ NoSender(w) \/ CallProvider(w)
  <2>1. /\ status' = status
        /\ pc[w] \in Holding
        /\ job'[w].msg = job[w].msg
    BY <1>6, <1>0 DEF Reread, NoSender, CallProvider, GoTo, Holding, BeforeCall, TypeOK, Jobs
  <2>. QED
    BY <2>1 DEF ClaimsAreSending
<1>7. CASE ReleaseAndStop(w) \/ Throttled(w) \/ RecordSuccess(w) \/ ScheduleRetry(w)
           \/ RecordFailure(w)
  <2>1. pc[w] \in Holding /\ pc'[w] \notin Holding
    BY <1>7, <1>0 DEF ReleaseAndStop, Throttled, RecordSuccess, ScheduleRetry, RecordFailure,
                      GoTo, EndTask, Holding, BeforeCall, AfterCall, TypeOK
  <2>2. job[w].msg \in Messages /\ status[job[w].msg] = "sending"
    BY <2>1, <1>0 DEF ClaimsAreSending, TypeOK
  <2>3. /\ \A m \in Messages \ {job[w].msg} : status'[m] = status[m]
        /\ status'[job[w].msg] \in MessageStatus
    BY <1>7, <2>2, <1>0 DEF ReleaseAndStop, Throttled, RecordSuccess, ScheduleRetry,
         RecordFailure, Released, Apply, TypeOK, MessageStatus
  <2>4. "absent" \notin MessageStatus
    BY DEF MessageStatus
  <2>. QED
    BY <2>1, <2>2, <2>3, <2>4, <1>0, <1>2
<1>. QED
  BY <1>3, <1>4, <1>5, <1>6, <1>7 DEF WorkerStep

\* So every claim stays SENDING through a worker's step.
LEMMA WorkerKeepsSending ==
  ASSUME ClaimInv, ClaimsAreSending, NEW w \in Workers,
         WorkerStep(w) \/ Crash(w) \/ Redeliver(w)
  PROVE  ClaimsAreSending'
<1>1. TypeOK
  BY DEF ClaimInv
<1>2. ASSUME NEW v \in Workers \ {w}, pc'[v] \in Holding
      PROVE  status'[job'[v].msg] = "sending"
  BY <1>1, <1>2, OneWorkerMoves, WorkerWritesInFlight DEF ClaimsAreSending, TypeOK
<1>. QED
  BY <1>2, WorkerWritesInFlight DEF ClaimsAreSending

-----------------------------------------------------------------------------
(* Completed is settled, as long as nobody cancels.                        *)

\* Only the page's buttons send the requests, none of them cancels, and every
\* launch of the campaign resolves the same recipients.
OneAudienceNoCancel ==
  /\ ButtonsOnly
  /\ "cancel" \notin RequestOps
  /\ \A A, B \in Audiences : A = B

NoneInFlight == \A m \in Messages : status[m] \notin InFlight

\* A campaign once launched is never a draft again, and who loaded it after
\* the launch knows.
RequestsAreCurrent ==
  \A r \in Requests :
    /\ request[r].op # "cancel"
    /\ request[r].stage = "loaded" /\ request[r].op = "resume" => request[r].seen \notin Editable
    /\ request[r].seen \notin Editable => campaign \notin Editable

NothingBeforeLaunch ==
  campaign \in Editable =>
    /\ dispatches = 0
    /\ \A w \in Workers : pc[w] = "idle"
    /\ \A m \in Messages : status[m] = "absent"

AudienceHasRows ==
  campaign \notin Editable => \A A \in Audiences : \A m \in A : status[m] # "absent"

\* The check of finalize_if_complete still holds when COMPLETED is written,
\* and afterwards.
CheckHolds ==
  campaign = "completed" \/ (\E w \in Workers : pc[w] = "completing") => NoneInFlight

SettledInv ==
  /\ ClaimsAreSending
  /\ RequestsAreCurrent
  /\ NothingBeforeLaunch
  /\ AudienceHasRows
  /\ CheckHolds

LEMMA InitSettled == Init => SettledInv
<1> SUFFICES ASSUME Init PROVE SettledInv
  OBVIOUS
<1>1. "idle" \notin Holding /\ "idle" # "completing"
  BY DEF Holding, BeforeCall, AfterCall
<1>. QED
  BY <1>1 DEF Init, SettledInv, ClaimsAreSending, RequestsAreCurrent, NothingBeforeLaunch,
              AudienceHasRows, CheckHolds, NoneInFlight, Editable

\* A request that acts on a launched campaign writes no row: the only launch
\* that creates rows is the first.
LEMMA RequestKeepsSettled ==
  ASSUME OneAudienceNoCancel, TypeOK, SettledInv, NEW r \in Requests,
         CommitRequest(r) \/ \E op \in RequestOps : Load(r, op)
  PROVE  SettledInv'
<1> USE DEF rows, broker, workers, provider
<1> USE DEF SettledInv
<1>1. pc' = pc /\ job' = job
  BY DEF CommitRequest, Launch, Pause, Resume, Cancel, Refuse, Load
<1>2. CASE Refuse(r) \/ \E op \in RequestOps : Load(r, op)
  <2>1. UNCHANGED <<campaign, status, dispatches, pc, job>>
    BY <1>2 DEF Refuse, Load
  <2>2. RequestsAreCurrent'
    <3>1. CASE Refuse(r)
      BY <3>1 DEF Refuse, Finish, RequestsAreCurrent, TypeOK, RequestRecords
    <3>2. ASSUME NEW op \in RequestOps, Load(r, op)
          PROVE  RequestsAreCurrent'
      <4>1. op # "cancel" /\ (op = "resume" => campaign \notin Editable)
        BY <3>2 DEF OneAudienceNoCancel, Load, Offered
      <4>2. \A q \in Requests : request'[q] =
              IF q = r THEN [stage |-> "loaded", op |-> op, seen |-> campaign] ELSE request[q]
        BY <3>2 DEF Load, TypeOK
      <4>. QED
        BY <2>1, <4>1, <4>2 DEF RequestsAreCurrent
    <3>. QED
      BY <1>2, <3>1, <3>2
  <2>. QED
    BY <2>1, <2>2 DEF ClaimsAreSending, NothingBeforeLaunch, AudienceHasRows, CheckHolds,
                      NoneInFlight
<1>3. ASSUME NEW op, Commit(r, op)
      PROVE  /\ request[r].op = op /\ op # "cancel"
             /\ Permitted(op, request[r].seen)
             /\ request[r].seen \in CampaignStatus
             /\ campaign' = Target(op)
             /\ campaign' \in {"processing", "paused"}
             /\ RequestsAreCurrent'
  <2>1. request[r].op = op /\ op # "cancel" /\ campaign' = Target(op)
        /\ Permitted(op, request[r].seen)
    BY <1>3 DEF Commit, RequestsAreCurrent
  <2>2. campaign' \in {"processing", "paused"} /\ campaign' \notin Editable
    BY <2>1 DEF Target, Editable
  <2>3. \A q \in Requests : request'[q].op = request[q].op
          /\ (request'[q].stage = "loaded" => request'[q] = request[q])
    BY <1>3 DEF Commit, Finish, TypeOK, RequestRecords
  <2>. QED
    BY <2>1, <2>2, <2>3 DEF RequestsAreCurrent, TypeOK, RequestRecords
<1>4. CASE Pause(r)
  <2>1. UNCHANGED <<status, pc, job>>
    BY <1>4 DEF Pause
  <2>2. campaign \notin Editable /\ campaign' = "paused" /\ RequestsAreCurrent'
    <3>1. request[r].seen \notin Editable
      BY <1>3, <1>4 DEF Pause, Permitted, Target, AllowedTransitions, CampaignStatus, Editable
    <3>. QED
      BY <3>1, <1>3, <1>4 DEF Pause, RequestsAreCurrent, Target
  <2>. QED
    BY <2>1, <2>2 DEF ClaimsAreSending, NothingBeforeLaunch, AudienceHasRows, CheckHolds,
                      NoneInFlight, Editable
<1>5. CASE Resume(r)
  <2>1. UNCHANGED <<status, pc, job>>
    BY <1>5 DEF Resume
  <2>2. campaign \notin Editable /\ campaign' = "processing" /\ RequestsAreCurrent'
    BY <1>3, <1>5 DEF Resume, RequestsAreCurrent, Target, Commit
  <2>. QED
    BY <2>1, <2>2 DEF ClaimsAreSending, NothingBeforeLaunch, AudienceHasRows, CheckHolds,
                      NoneInFlight, Editable
<1>6. CASE Cancel(r)
  BY <1>3, <1>6 DEF Cancel
<1>7. CASE Launch(r)
  <2>1. campaign' = "processing" /\ RequestsAreCurrent' /\ "processing" \notin Editable
    BY <1>3, <1>7 DEF Launch, Target, Editable
  <2>2. PICK audience \in Audiences :
          status' = [m \in Messages |-> IF m \in audience /\ status[m] = "absent"
                                        THEN "pending" ELSE status[m]]
    BY <1>7 DEF Launch
  <2>3. audience \subseteq Messages
    BY PipelineAssumption
  <2>4. \A m \in Messages : status[m] # "absent" => status'[m] = status[m]
    BY <2>2
  <2>5. AudienceHasRows'
    BY <2>2, <2>3, PipelineAssumption DEF OneAudienceNoCancel, AudienceHasRows
  <2>6. ClaimsAreSending'
    BY <1>1, <2>4 DEF ClaimsAreSending, TypeOK
  <2>7. CASE campaign \in Editable
    BY <1>1, <2>1, <2>5, <2>6, <2>7 DEF NothingBeforeLaunch, CheckHolds
  <2>8. CASE campaign \notin Editable
    <3>1. \A m \in Messages : status'[m] = status[m]
      BY <2>2, <2>8 DEF AudienceHasRows
    <3>2. CheckHolds'
      BY <1>1, <2>1, <3>1 DEF CheckHolds, NoneInFlight
    <3>. QED
      BY <2>1, <2>5, <2>6, <3>2 DEF NothingBeforeLaunch
  <2>. QED
    BY <2>7, <2>8
<1>. QED
  BY <1>2, <1>4, <1>5, <1>6, <1>7 DEF CommitRequest

\* With nothing in flight a worker writes nothing, so what one of them checked
\* stays true until it has written COMPLETED.
LEMMA WorkerKeepsSettled ==
  ASSUME ClaimInv, SettledInv, NEW w \in Workers, WorkerStep(w) \/ Crash(w) \/ Redeliver(w)
  PROVE  SettledInv'
<1> USE DEF SettledInv
<1>1. TypeOK
  BY DEF ClaimInv
<1>2. /\ \A m \in Messages : status'[m] # status[m] =>
           status[m] \in InFlight /\ status'[m] # "absent"
      /\ ClaimsAreSending'
  BY WorkerWritesInFlight, WorkerKeepsSending
<1>3. /\ \A v \in Workers \ {w} : pc'[v] = pc[v]
      /\ request' = request
  BY <1>1, OneWorkerMoves
<1>4. \/ campaign' = campaign
      \/ campaign' = "completed" /\ pc[w] = "completing"
  BY DEF WorkerStep, TakeDispatch, EnqueueListed, MarkQueued, Claim, Reread, ReleaseAndStop,
         Throttled, NoSender, CallProvider, RecordSuccess, ScheduleRetry, RecordFailure,
         Refresh, Count, Complete, Crash, Redeliver
<1>5. "completed" \notin Editable
  BY DEF Editable
<1>6. RequestsAreCurrent'
  BY <1>3, <1>4, <1>5 DEF RequestsAreCurrent
<1>7. NoneInFlight => NoneInFlight'
  BY <1>2 DEF NoneInFlight
<1>8. pc'[w] = "completing" => NoneInFlight
  <2>1. pc[w] = "completing" \/ (pc[w] = "counting" /\ NoneInFlight) \/ pc'[w] # "completing"
    <3> USE <1>1 DEF TypeOK, GoTo, EndTask, broker, rows, workers, provider
    <3>1. CASE Count(w)
      BY <3>1 DEF Count, NoneInFlight
    <3>2. CASE Refresh(w) \/ Complete(w) \/ Crash(w) \/ Redeliver(w)
      BY <3>2 DEF Refresh, Complete, Crash, Redeliver
    <3>3. CASE TakeDispatch(w) \/ EnqueueListed(w) \/ MarkQueued(w) \/ Claim(w) \/ Reread(w)
      BY <3>3 DEF TakeDispatch, EnqueueListed, MarkQueued, Claim, Reread
    <3>4. CASE ReleaseAndStop(w) \/ Throttled(w) \/ NoSender(w) \/ CallProvider(w)
      BY <3>4 DEF ReleaseAndStop, Throttled, NoSender, CallProvider
    <3>5. CASE RecordSuccess(w) \/ ScheduleRetry(w) \/ RecordFailure(w)
      BY <3>5 DEF RecordSuccess, ScheduleRetry, RecordFailure
    <3>. QED
      BY <3>1, <3>2, <3>3, <3>4, <3>5 DEF WorkerStep
  <2>. QED
    BY <2>1 DEF CheckHolds
<1>9. CheckHolds'
  <2>1. CASE campaign' = "completed" \/ \E v \in Workers : pc'[v] = "completing"
    BY <1>3, <1>4, <1>7, <1>8, <2>1 DEF CheckHolds
  <2>. QED
    BY <2>1 DEF CheckHolds
<1>10. AudienceHasRows'
  <2>1. campaign' \notin Editable => campaign \notin Editable
    BY <1>4, <1>5 DEF NothingBeforeLaunch
  <2>. QED
    BY <1>2, <2>1, PipelineAssumption DEF AudienceHasRows
<1>11. NothingBeforeLaunch'
  <2>1. CASE campaign' \notin Editable
    BY <2>1 DEF NothingBeforeLaunch
  <2>2. CASE campaign' \in Editable
    <3>1. /\ campaign \in Editable /\ dispatches = 0
          /\ \A v \in Workers : pc[v] = "idle"
          /\ \A m \in Messages : status[m] = "absent"
      BY <1>4, <1>5, <2>2 DEF NothingBeforeLaunch
    <3>2. Claim(w)
      BY <3>1 DEF WorkerStep, TakeDispatch, EnqueueListed, MarkQueued, Claim, Reread,
         ReleaseAndStop, Throttled, NoSender, CallProvider, RecordSuccess, ScheduleRetry,
         RecordFailure, Refresh, Count, Complete, Crash, Redeliver
    <3>3. UNCHANGED <<status, pc, dispatches>>
      BY <3>1, <3>2 DEF Claim, Claimable, SendTasks, workers
    <3>. QED
      BY <3>1, <3>3 DEF NothingBeforeLaunch
  <2>. QED
    BY <2>1, <2>2
<1>. QED
  BY <1>2, <1>6, <1>9, <1>10, <1>11

\* "A campaign is complete once nothing is still in flight": two workers that
\* finish together, a retry, a redelivery or a lost worker never leave a row
\* in flight behind COMPLETED (services.py, finalize_if_complete), if nobody
\* cancels, resumes a draft, or launches it again for other recipients.
THEOREM CompletedStaysSettled ==
  ASSUME OneAudienceNoCancel PROVE Spec => []CompletedIsSettled
<1>1. ClaimInv /\ SettledInv /\ [Next]_vars => SettledInv'
  <2> SUFFICES ASSUME ClaimInv, SettledInv, [Next]_vars PROVE SettledInv'
    OBVIOUS
  <2>1. ASSUME NEW r \in Requests, CommitRequest(r) \/ \E op \in RequestOps : Load(r, op)
        PROVE  SettledInv'
    BY <2>1, RequestKeepsSettled DEF ClaimInv
  <2>2. ASSUME NEW w \in Workers, WorkerStep(w) \/ Crash(w) \/ Redeliver(w)
        PROVE  SettledInv'
    BY <2>2, WorkerKeepsSettled
  <2>3. CASE UNCHANGED vars
    BY <2>3 DEF vars, rows, broker, workers, provider, SettledInv, ClaimsAreSending,
       RequestsAreCurrent, NothingBeforeLaunch, AudienceHasRows, CheckHolds, NoneInFlight
  <2>. QED
    BY <2>1, <2>2, <2>3 DEF Next
<1>2. SettledInv => CompletedIsSettled
  BY DEF SettledInv, CheckHolds, NoneInFlight, CompletedIsSettled
<1>. QED
  BY <1>1, <1>2, InitSettled, ClaimInvariant, PTL DEF Spec

-----------------------------------------------------------------------------
(* What strands a row: nothing but a mishap of the four kinds, and Celery's *)
(* retries only for a row that was throttled.                               *)

\* The copy read after the claim is the row's: no outcome is outranked but
\* on a row that a cancel closed before the copy was read.
SeenIsTheRow ==
  \A w \in Workers : pc[w] \in Holding \ {"claimed"} =>
    \/ job[w].seen = "sending"
    \/ job[w].seen = "failed" /\ status[job[w].msg] = "failed"

SendingIsAccounted ==
  \A m \in Messages : status[m] = "sending" => mishap[m] = "lost" \/ \E w \in Workers : Holds(w, m)

\* A claim that was lost with its worker is never made again.
LostIsFinal ==
  \A m \in Messages : mishap[m] = "lost" =>
    /\ status[m] \in {"sending", "failed"}
    /\ \A w \in Workers : ~Holds(w, m)

\* A task is queued for the row, a dispatch will list it, or it is known why
\* there is neither.
Expected(m) ==
  \/ mishap[m] # "none"
  \/ dispatches > 0
  \/ \E w \in Workers : pc[w] = "listing"
  \/ \E n \in 0..RetryCap : sends[<<m, n>>] > 0

ClaimableIsExpected ==
  campaign = "processing" => \A m \in Messages : status[m] \in Claimable => Expected(m)

\* A task's retries never exceed the attempts counted on its row, so the row
\* runs out of attempts before Celery runs out of retries; unless a worker had
\* to wait, which takes a retry and counts no attempt.
RetriesCounted ==
  /\ \A t \in SendTasks : sends[t] > 0 => t[1] \in throttled \/ t[2] <= attempts[t[1]]
  /\ \A w \in Workers : job[w].msg \in Messages =>
       job[w].msg \in throttled \/ job[w].retries <= attempts[job[w].msg]
  /\ \A m \in Messages : mishap[m] = "exhausted" => m \in throttled

CausesInv ==
  /\ SeenIsTheRow
  /\ SendingIsAccounted
  /\ LostIsFinal
  /\ ClaimableIsExpected
  /\ RetriesCounted

LEMMA InitCauses == Init => CausesInv
<1> SUFFICES ASSUME Init PROVE CausesInv
  OBVIOUS
<1>1. "idle" \notin Holding
  BY DEF Holding, BeforeCall, AfterCall
<1>2. \A w \in Workers : job[w].msg \notin Messages
  BY PipelineAssumption DEF Init, NoJob, NewJob
<1>. QED
  BY <1>1, <1>2 DEF Init, CausesInv, SeenIsTheRow, SendingIsAccounted, LostIsFinal,
       ClaimableIsExpected, RetriesCounted

\* Requests create pending rows and dispatch them, or the broker refuses, and
\* they close rows, claimed ones included.
LEMMA RequestKeepsCauses ==
  ASSUME ClaimInv, CausesInv, NEW r \in Requests,
         CommitRequest(r) \/ \E op \in RequestOps : Load(r, op)
  PROVE  CausesInv'
<1> USE DEF CausesInv, rows, broker, workers, provider
<1>0. TypeOK /\ InFlight = {"pending", "queued", "sending"} /\ Claimable = {"pending", "queued"}
  BY DEF ClaimInv, InFlight, Claimable
<1>1. UNCHANGED <<attempts, sends, pc, job, throttled>>
  BY DEF CommitRequest, Launch, Pause, Resume, Cancel, Refuse, Load
<1>2. \A m \in Messages :
        /\ status'[m] = "sending" => status[m] = "sending"
        /\ status[m] = "failed" => status'[m] = "failed"
        /\ status[m] = "sending" => status'[m] \in {"sending", "failed"}
  BY <1>0 DEF CommitRequest, Launch, Pause, Resume, Cancel, Refuse, Load, TypeOK
<1>3. \A m \in Messages :
        mishap'[m] # mishap[m] => mishap'[m] = "broker" /\ status'[m] \in Claimable
  BY DEF CommitRequest, Launch, Pause, Resume, Cancel, Refuse, Load, DispatchOnCommit
<1>4. SeenIsTheRow'
  <2> SUFFICES ASSUME NEW w \in Workers, pc[w] \in Holding \ {"claimed"}
               PROVE  job[w].seen = "sending" \/ (job[w].seen = "failed" /\ status'[job[w].msg] = "failed")
    BY <1>1 DEF SeenIsTheRow
  <2>1. job[w].msg \in Messages
    BY <1>0 DEF TypeOK
  <2>. QED
    BY <1>2, <2>1 DEF SeenIsTheRow
<1>5. SendingIsAccounted' /\ LostIsFinal' /\ RetriesCounted'
  BY <1>0, <1>1, <1>2, <1>3 DEF SendingIsAccounted, LostIsFinal, RetriesCounted, Holds
<1>6. ClaimableIsExpected'
  <2>1. CASE Refuse(r) \/ \E op \in RequestOps : Load(r, op)
    <3>1. UNCHANGED <<campaign, status, dispatches, mishap>>
      BY <2>1 DEF Refuse, Load
    <3>. QED
      BY <1>1, <3>1 DEF ClaimableIsExpected, Expected
  <2>2. CASE Pause(r) \/ Cancel(r)
    BY <2>2 DEF Pause, Cancel, Commit, Target, ClaimableIsExpected
  <2>3. CASE Launch(r) \/ Resume(r)
    <3>1. DispatchOnCommit
      BY <2>3 DEF Launch, Resume
    <3>2. dispatches' > 0 \/ \A m \in Messages : status'[m] \in Claimable => mishap'[m] = "broker"
      BY <1>0, <3>1 DEF DispatchOnCommit, TypeOK
    <3>. QED
      BY <3>2 DEF ClaimableIsExpected, Expected
  <2>. QED
    BY <2>1, <2>2, <2>3 DEF CommitRequest
<1>. QED
  BY <1>4, <1>5, <1>6

\* A dispatch asks for every claimable row, or is noted not to have, and
\* marking them loses none.
LEMMA DispatchKeepsCauses ==
  ASSUME ClaimInv, CausesInv, NEW w \in Workers,
         TakeDispatch(w) \/ EnqueueListed(w) \/ MarkQueued(w)
  PROVE  CausesInv'
<1> USE DEF CausesInv, rows, broker, workers, provider
<1>0. {"idle", "listing", "marking", "markingNone", "counting"} \intersect Holding = {}
      /\ Claimable = {"pending", "queued"} /\ TypeOK
  BY DEF Holding, BeforeCall, AfterCall, Claimable, ClaimInv
<1>1. UNCHANGED <<campaign, attempts, throttled>>
  BY DEF TakeDispatch, EnqueueListed, MarkQueued
<1>2. /\ pc[w] \notin Holding /\ pc'[w] \notin Holding
      /\ \A v \in Workers \ {w} : pc'[v] = pc[v] /\ job'[v] = job[v]
      /\ job'[w] = job[w] \/ job'[w].msg \notin Messages
  BY <1>0, PipelineAssumption DEF TakeDispatch, EnqueueListed, MarkQueued, GoTo, EndTask,
     NoJob, NewJob, TypeOK
<1>3. /\ \A m \in Messages : status[m] \notin Claimable => status'[m] = status[m]
      /\ \A m \in Messages : status[m] \in Claimable => status'[m] \in Claimable
  BY <1>0 DEF TakeDispatch, EnqueueListed, MarkQueued
<1>4. \A m \in Messages :
        mishap'[m] # mishap[m] => mishap'[m] \in {"none", "broker"} /\ status[m] \in Claimable
  BY <1>0 DEF TakeDispatch, EnqueueListed, MarkQueued, Mark, Listed, TypeOK
<1>5. \A v \in Workers, m \in Messages : Holds(v, m)' <=> Holds(v, m)
  BY <1>2 DEF Holds
<1>6. SeenIsTheRow'
  <2> SUFFICES ASSUME NEW v \in Workers, pc'[v] \in Holding \ {"claimed"}
               PROVE  job'[v].seen = "sending" \/ (job'[v].seen = "failed" /\ status'[job'[v].msg] = "failed")
    BY DEF SeenIsTheRow
  <2>1. v # w /\ pc[v] \in Holding \ {"claimed"} /\ job'[v] = job[v] /\ job[v].msg \in Messages
    BY <1>0, <1>2 DEF TypeOK
  <2>. QED
    BY <1>0, <1>3, <2>1 DEF SeenIsTheRow
<1>7. SendingIsAccounted' /\ LostIsFinal'
  BY <1>0, <1>3, <1>4, <1>5 DEF SendingIsAccounted, LostIsFinal
<1>8. \A m \in Messages : mishap'[m] = "exhausted" => m \in throttled'
  BY <1>1, <1>4 DEF RetriesCounted
<1>9. \A v \in Workers : job'[v].msg \in Messages =>
        job'[v].msg \in throttled' \/ job'[v].retries <= attempts'[job'[v].msg]
  BY <1>1, <1>2 DEF RetriesCounted
<1>10. CASE TakeDispatch(w)
  <2>1. UNCHANGED <<status, sends, mishap>>
    BY <1>10 DEF TakeDispatch
  <2>2. RetriesCounted'
    BY <1>1, <1>8, <1>9, <2>1 DEF RetriesCounted
  <2>3. campaign \in Halted \/ pc'[w] = "listing"
    BY <1>0, <1>10 DEF TakeDispatch, TypeOK
  <2>4. ClaimableIsExpected'
    BY <1>1, <2>3 DEF ClaimableIsExpected, Expected, Halted
  <2>. QED
    BY <1>6, <1>7, <2>2, <2>4
<1>11. CASE EnqueueListed(w)
  <2>0. status' = status
    BY <1>11 DEF EnqueueListed
  <2>1. PICK S \in SUBSET Listed :
          /\ SendTaskFor(S)
          /\ S = Listed \/ Mark(Listed \ S, "broker")
    BY <1>11 DEF EnqueueListed
  <2>2. \A t \in SendTasks :
          sends'[t] = IF t[1] \in S /\ t[2] = 0 THEN sends[t] + 1 ELSE sends[t]
    BY <2>1 DEF SendTaskFor
  <2>3. \A t \in SendTasks : attempts[t[1]] \in Nat
    BY <1>0 DEF SendTasks, TypeOK
  <2>4. RetriesCounted'
    BY <1>0, <1>1, <1>8, <1>9, <2>2, <2>3 DEF RetriesCounted, TypeOK
  <2>5. ASSUME NEW m \in Messages, status'[m] \in Claimable
        PROVE  Expected(m)'
    <3>1. m \in Listed
      BY <2>0, <2>5 DEF Listed
    <3>2. <<m, 0>> \in SendTasks /\ 0 \in 0..RetryCap
      BY RetryCapNat DEF SendTasks
    <3>3. CASE m \in S
      <4>1. sends'[<<m, 0>>] > 0
        BY <1>0, <2>2, <3>2, <3>3 DEF TypeOK
      <4>. QED
        BY <3>2, <4>1 DEF Expected
    <3>4. CASE m \notin S
      BY <2>1, <3>1, <3>4 DEF Mark, Expected
    <3>. QED
      BY <3>3, <3>4
  <2>. QED
    BY <1>6, <1>7, <2>4, <2>5 DEF ClaimableIsExpected
<1>12. CASE MarkQueued(w)
  <2>1. UNCHANGED <<sends, dispatches, mishap>> /\ pc[w] # "listing"
    BY <1>12 DEF MarkQueued
  <2>2. RetriesCounted'
    BY <1>1, <1>8, <1>9, <2>1 DEF RetriesCounted
  <2>3. ClaimableIsExpected'
    BY <1>0, <1>1, <1>2, <1>3, <2>1 DEF ClaimableIsExpected, Expected
  <2>. QED
    BY <1>6, <1>7, <2>2, <2>3
<1>. QED
  BY <1>10, <1>11, <1>12

\* A claim takes one task of the row it claims; a loser's task was of a row
\* that waits for nothing.
LEMMA ClaimKeepsCauses ==
  ASSUME ClaimInv, CausesInv, NEW w \in Workers, Claim(w)
  PROVE  CausesInv'
<1> USE DEF CausesInv, rows, broker, workers, provider
<1>0. "idle" \notin Holding /\ "claimed" \in Holding /\ Claimable = {"pending", "queued"} /\ TypeOK
  BY DEF Holding, BeforeCall, AfterCall, Claimable, ClaimInv
<1>1. PICK t \in SendTasks : Claim(w)!2!(t)
  BY DEF Claim
<1>2. /\ t[1] \in Messages /\ pc[w] = "idle" /\ UNCHANGED <<campaign, attempts, dispatches, throttled>>
      /\ t[1] \in throttled \/ t[2] <= attempts[t[1]]
  BY <1>1 DEF SendTasks, Claim, RetriesCounted
<1>3. /\ \A u \in SendTasks : sends'[u] <= sends[u]
      /\ \A u \in SendTasks : u[1] # t[1] => sends'[u] = sends[u]
      /\ sends' \in [SendTasks -> Nat]
  BY <1>0, <1>1 DEF TypeOK
<1>4. CASE status[t[1]] \notin Claimable
  <2>1. UNCHANGED <<status, pc, job, mishap>>
    BY <1>1, <1>4
  <2>2. RetriesCounted'
    BY <1>0, <1>2, <1>3, <2>1 DEF RetriesCounted, TypeOK
  <2>3. ASSUME campaign = "processing", NEW m \in Messages, status'[m] \in Claimable
        PROVE  Expected(m)'
    <3>1. m # t[1] /\ Expected(m)
      BY <1>4, <2>1, <2>3 DEF ClaimableIsExpected
    <3>2. \A n \in 0..RetryCap : sends'[<<m, n>>] = sends[<<m, n>>]
      BY <1>3, <3>1 DEF SendTasks
    <3>. QED
      BY <1>2, <2>1, <3>1, <3>2 DEF Expected
  <2>. QED
    BY <1>2, <2>1, <2>2, <2>3 DEF SeenIsTheRow, SendingIsAccounted, LostIsFinal, Holds,
       ClaimableIsExpected
<1>5. CASE status[t[1]] \in Claimable
  <2>1. /\ status' = [status EXCEPT ![t[1]] = "sending"]
        /\ pc' = [pc EXCEPT ![w] = "claimed"]
        /\ job' = [job EXCEPT ![w] = NewJob(t[1], t[2])]
        /\ Mark({t[1]}, "none")
    BY <1>1, <1>5
  <2>2. /\ pc'[w] = "claimed" /\ job'[w].msg = t[1] /\ job'[w].retries = t[2]
        /\ \A v \in Workers \ {w} : pc'[v] = pc[v] /\ job'[v] = job[v]
        /\ status'[t[1]] = "sending" /\ mishap'[t[1]] = "none"
        /\ \A m \in Messages \ {t[1]} : status'[m] = status[m] /\ mishap'[m] = mishap[m]
    BY <2>1, <1>0, <1>2 DEF TypeOK, NewJob, Mark
  <2>3. SeenIsTheRow'
    <3> SUFFICES ASSUME NEW v \in Workers \ {w}, pc[v] \in Holding \ {"claimed"}
                 PROVE  job[v].seen = "sending" \/ (job[v].seen = "failed" /\ status'[job[v].msg] = "failed")
      BY <2>2 DEF SeenIsTheRow
    <3>1. job[v].msg \in Messages /\ status[job[v].msg] \notin Claimable
      BY <1>0 DEF ClaimInv, ClaimExclusive, TypeOK
    <3>. QED
      BY <1>5, <2>2, <3>1 DEF SeenIsTheRow
  <2>4. RetriesCounted'
    BY <1>0, <1>2, <1>3, <2>2 DEF RetriesCounted, TypeOK
  <2>5. ASSUME NEW m \in Messages \ {t[1]}, NEW v \in Workers
        PROVE  Holds(v, m)' <=> Holds(v, m)
    BY <1>0, <1>2, <2>2, <2>5 DEF Holds
  <2>6. SendingIsAccounted'
    <3>1. Holds(w, t[1])'
      BY <1>0, <2>2 DEF Holds
    <3>. QED
      BY <2>2, <2>5, <3>1 DEF SendingIsAccounted
  <2>7. LostIsFinal'
    BY <2>2, <2>5 DEF LostIsFinal
  <2>8. ASSUME campaign = "processing", NEW m \in Messages, status'[m] \in Claimable
        PROVE  Expected(m)'
    <3>1. m # t[1] /\ Expected(m)
      BY <1>0, <2>2, <2>8 DEF ClaimableIsExpected
    <3>2. \A n \in 0..RetryCap : sends'[<<m, n>>] = sends[<<m, n>>]
      BY <1>3, <3>1 DEF SendTasks
    <3>. QED
      BY <1>2, <2>2, <3>1, <3>2 DEF Expected
  <2>. QED
    BY <1>2, <2>3, <2>4, <2>6, <2>7, <2>8 DEF ClaimableIsExpected
<1>. QED
  BY <1>4, <1>5

\* On to the call: the claim is kept, and the copy read after it is the row's.
LEMMA CallKeepsCauses ==
  ASSUME ClaimInv, CausesInv, NEW w \in Workers, Reread(w) \/ NoSender(w) \/ CallProvider(w)
  PROVE  CausesInv'
<1> USE DEF CausesInv, rows, broker, workers, provider
<1>0. TypeOK /\ "listing" \notin Holding
  BY DEF ClaimInv, Holding, BeforeCall, AfterCall
<1>1. UNCHANGED <<campaign, status, attempts, sends, dispatches, mishap, throttled>>
  BY DEF Reread, NoSender, CallProvider
<1>2. /\ pc[w] \in Holding /\ pc'[w] \in Holding
      /\ job'[w].msg = job[w].msg /\ job'[w].retries = job[w].retries
      /\ \A v \in Workers \ {w} : pc'[v] = pc[v] /\ job'[v] = job[v]
  BY <1>0 DEF Reread, NoSender, CallProvider, GoTo, Holding, BeforeCall, AfterCall, TypeOK, Jobs
<1>3. job[w].msg \in Messages /\ status[job[w].msg] \in {"sending", "failed"}
  BY <1>0, <1>2 DEF ClaimInv, ClaimExclusive, TypeOK
<1>4. job'[w].seen = "sending" \/ (job'[w].seen = "failed" /\ status[job[w].msg] = "failed")
  <2>1. CASE Reread(w)
    BY <1>0, <1>3, <2>1 DEF Reread, TypeOK, Jobs
  <2>2. CASE NoSender(w) \/ CallProvider(w)
    <3>1. job' = job /\ pc[w] \in Holding \ {"claimed"}
      BY <2>2 DEF NoSender, CallProvider, GoTo, Holding, BeforeCall
    <3>. QED
      BY <3>1 DEF SeenIsTheRow
  <2>. QED
    BY <2>1, <2>2
<1>5. SeenIsTheRow'
  BY <1>1, <1>2, <1>4 DEF SeenIsTheRow
<1>6. \A v \in Workers, m \in Messages : Holds(v, m)' <=> Holds(v, m)
  BY <1>2 DEF Holds
<1>7. SendingIsAccounted' /\ LostIsFinal'
  BY <1>1, <1>6 DEF SendingIsAccounted, LostIsFinal
<1>8. RetriesCounted'
  BY <1>1, <1>2 DEF RetriesCounted
<1>9. ClaimableIsExpected'
  BY <1>0, <1>1, <1>2 DEF ClaimableIsExpected, Expected
<1>. QED
  BY <1>5, <1>7, <1>8, <1>9

\* What giving up a claim has to leave behind: a row that is settled, one that
\* waits for a task in the queue, or one of which it is known why it does not.
LEMMA LettingGoKeepsCauses ==
  ASSUME ClaimInv, CausesInv, NEW w \in Workers,
         pc[w] \in Holding, pc'[w] \in {"idle", "refresh"},
         job'[w] = job[w] \/ job'[w].msg \notin Messages,
         \A v \in Workers \ {w} : pc'[v] = pc[v] /\ job'[v] = job[v],
         UNCHANGED <<campaign, dispatches>>,
         \A m \in Messages \ {job[w].msg} : status'[m] = status[m] /\ mishap'[m] = mishap[m],
         status'[job[w].msg] # "sending",
         mishap'[job[w].msg] # "lost",
         mishap'[job[w].msg] = "exhausted" => job[w].msg \in throttled',
         throttled \subseteq throttled',
         \A t \in SendTasks : sends'[t] >= sends[t],
         \A t \in SendTasks : sends'[t] # sends[t] => t[1] \in throttled' \/ t[2] <= attempts'[t[1]],
         \A m \in Messages : attempts'[m] >= attempts[m],
         attempts' \in [Messages -> Nat],
         sends' \in [SendTasks -> Nat],
         status'[job[w].msg] \in Claimable =>
           mishap'[job[w].msg] # "none" \/ \E n \in 0..RetryCap : sends'[<<job[w].msg, n>>] > 0
  PROVE  CausesInv'
<1> USE DEF CausesInv
<1>0. {"idle", "refresh", "listing"} \intersect Holding = {} /\ TypeOK
  BY DEF Holding, BeforeCall, AfterCall, ClaimInv
<1>1. job[w].msg \in Messages
  BY <1>0 DEF TypeOK
<1>2. \A v \in Workers \ {w} : pc[v] \in Holding => job[v].msg \in Messages \ {job[w].msg}
  BY <1>0 DEF ClaimInv, ClaimExclusive, TypeOK
<1>3. SeenIsTheRow'
  BY <1>0, <1>2 DEF SeenIsTheRow
<1>4. SendingIsAccounted' /\ LostIsFinal'
  BY <1>0, <1>1, <1>2 DEF SendingIsAccounted, LostIsFinal, Holds
<1>5. RetriesCounted'
  <2>1. ASSUME NEW t \in SendTasks, sends'[t] > 0
        PROVE  t[1] \in throttled' \/ t[2] <= attempts'[t[1]]
    <3>1. t[1] \in Messages /\ t[2] \in Nat /\ attempts[t[1]] \in Nat /\ attempts'[t[1]] \in Nat
      BY <1>0 DEF SendTasks, TypeOK
    <3>. QED
      BY <2>1, <3>1 DEF RetriesCounted
  <2>2. ASSUME NEW v \in Workers, job'[v].msg \in Messages
        PROVE  job'[v].msg \in throttled' \/ job'[v].retries <= attempts'[job'[v].msg]
    <3>1. job'[v] = job[v]
      BY <2>2
    <3>2. /\ job[v].retries \in Nat /\ attempts[job[v].msg] \in Nat
          /\ attempts'[job[v].msg] \in Nat
      BY <1>0, <2>2, <3>1 DEF TypeOK, Jobs
    <3>. QED
      BY <2>2, <3>1, <3>2 DEF RetriesCounted
  <2>3. \A m \in Messages : mishap'[m] = "exhausted" => m \in throttled'
    BY DEF RetriesCounted
  <2>. QED
    BY <2>1, <2>2, <2>3 DEF RetriesCounted
<1>6. ASSUME campaign = "processing", NEW m \in Messages, status'[m] \in Claimable
      PROVE  Expected(m)'
  <2>1. CASE m = job[w].msg
    BY <1>6, <2>1 DEF Expected
  <2>2. CASE m # job[w].msg
    <3>1. Expected(m)
      BY <1>6, <2>2 DEF ClaimableIsExpected
    <3>2. \A n \in 0..RetryCap : <<m, n>> \in SendTasks
      BY DEF SendTasks
    <3>3. \A n \in 0..RetryCap : sends[<<m, n>>] > 0 => sends'[<<m, n>>] > 0
      BY <1>0, <3>2 DEF TypeOK
    <3>4. \A v \in Workers : pc[v] = "listing" => pc'[v] = "listing"
      BY <1>0
    <3>. QED
      BY <2>2, <3>1, <3>3, <3>4 DEF Expected
  <2>. QED
    BY <2>1, <2>2
<1>. QED
  BY <1>3, <1>4, <1>5, <1>6 DEF ClaimableIsExpected

\* A retry either has its task, one retry on, or is noted to have been the
\* last, and nothing else changes.
LEMMA RetryIsQueuedOrNoted ==
  ASSUME TypeOK, NEW w \in Workers, job[w].msg \in Messages,
         NEW limit \in Nat, limit <= RetryCap, Retry(w, limit)
  PROVE  /\ sends' \in [SendTasks -> Nat]
         /\ \A t \in SendTasks : sends'[t] >= sends[t]
         /\ \A t \in SendTasks : sends'[t] # sends[t] => t = <<job[w].msg, job[w].retries + 1>>
         /\ \A m \in Messages \ {job[w].msg} : mishap'[m] = mishap[m]
         /\ \/ /\ job[w].retries < limit /\ mishap' = mishap
               /\ \E n \in 0..RetryCap : sends'[<<job[w].msg, n>>] > 0
            \/ ~(job[w].retries < limit) /\ mishap'[job[w].msg] = "exhausted"
<1> DEFINE m == job[w].msg
           n == job[w].retries + 1
<1>1. job[w].retries \in 0..RetryCap /\ RetryCap \in Nat /\ sends \in [SendTasks -> Nat]
  BY RetryCapNat DEF TypeOK, Jobs
<1>2. CASE job[w].retries < limit
  <2>1. sends' = [sends EXCEPT ![<<m, n>>] = @ + 1] /\ mishap' = mishap
    BY <1>2 DEF Retry
  <2>2. n \in 0..RetryCap /\ <<m, n>> \in SendTasks
    BY <1>1, <1>2 DEF SendTasks
  <2>3. \A t \in SendTasks : sends'[t] = IF t = <<m, n>> THEN sends[t] + 1 ELSE sends[t]
    BY <1>1, <2>1, <2>2
  <2>4. sends' \in [SendTasks -> Nat]
    BY <1>1, <2>1, <2>2
  <2>5. sends'[<<m, n>>] > 0
    BY <1>1, <2>2, <2>3
  <2>6. \E k \in 0..RetryCap : sends'[<<m, k>>] > 0
    BY <2>2, <2>5
  <2>7. \A t \in SendTasks : sends'[t] >= sends[t] /\ (sends'[t] # sends[t] => t = <<m, n>>)
    BY <1>1, <2>3
  <2>. QED
    BY <1>2, <2>1, <2>4, <2>6, <2>7
<1>3. CASE ~(job[w].retries < limit)
  <2>1. sends' = sends /\ Mark({m}, "exhausted")
    BY <1>3 DEF Retry
  <2>. QED
    BY <1>1, <1>3, <2>1 DEF Mark
<1>. QED
  BY <1>2, <1>3

\* The campaign is halted, nothing can send, or the bucket says wait.
LEMMA ReleaseKeepsCauses ==
  ASSUME ClaimInv, CausesInv, NEW w \in Workers, ReleaseAndStop(w) \/ Throttled(w)
  PROVE  CausesInv'
<1> USE DEF rows, broker, workers, provider
<1>1. TypeOK /\ pc[w] \in Holding /\ job[w].msg \in Messages
  BY DEF ClaimInv, TypeOK, ReleaseAndStop, Throttled, Holding, BeforeCall
<1>2. /\ pc'[w] = "idle" /\ job'[w].msg \notin Messages
      /\ \A v \in Workers \ {w} : pc'[v] = pc[v] /\ job'[v] = job[v]
      /\ UNCHANGED <<campaign, attempts, dispatches>>
      /\ status' = Released(job[w].msg)
  BY <1>1, PipelineAssumption DEF ReleaseAndStop, Throttled, EndTask, NoJob, NewJob, TypeOK
<1>3. status[job[w].msg] \in {"sending", "failed"}
  BY <1>1 DEF ClaimInv, ClaimExclusive
<1>4. /\ status'[job[w].msg] \in {"queued", "failed"}
      /\ \A m \in Messages \ {job[w].msg} : status'[m] = status[m]
  BY <1>1, <1>2, <1>3 DEF Released, TypeOK
<1>5. CASE ReleaseAndStop(w)
  <2>1. UNCHANGED <<sends, throttled>> /\ Mark({job[w].msg}, "released")
    BY <1>5 DEF ReleaseAndStop
  <2>2. /\ mishap'[job[w].msg] = "released"
        /\ \A m \in Messages \ {job[w].msg} : mishap'[m] = mishap[m]
    BY <1>1, <2>1 DEF Mark
  <2>3. /\ \A t \in SendTasks : sends'[t] >= sends[t] /\ sends' \in [SendTasks -> Nat]
        /\ \A m \in Messages : attempts'[m] >= attempts[m] /\ attempts' \in [Messages -> Nat]
    BY <1>1, <1>2, <2>1 DEF TypeOK
  <2>4. sends' \in [SendTasks -> Nat] /\ attempts' \in [Messages -> Nat]
    BY <1>1, <1>2, <2>1 DEF TypeOK
  <2>. QED
    BY <1>1, <1>2, <1>4, <2>1, <2>2, <2>3, <2>4, LettingGoKeepsCauses
<1>6. CASE Throttled(w)
  <2>1. throttled' = throttled \union {job[w].msg} /\ Retry(w, TaskRetries)
    BY <1>6 DEF Throttled
  <2>2. /\ sends' \in [SendTasks -> Nat]
        /\ \A t \in SendTasks : sends'[t] >= sends[t]
        /\ \A t \in SendTasks : sends'[t] # sends[t] => t[1] = job[w].msg
        /\ \A m \in Messages \ {job[w].msg} : mishap'[m] = mishap[m]
        /\ \/ mishap' = mishap /\ \E n \in 0..RetryCap : sends'[<<job[w].msg, n>>] > 0
           \/ mishap'[job[w].msg] = "exhausted"
    BY <1>1, <2>1, RetryIsQueuedOrNoted, RetryCapNat, PipelineAssumption
  <2>3. mishap[job[w].msg] # "lost"
    BY <1>1 DEF CausesInv, LostIsFinal, Holds
  <2>4. attempts' \in [Messages -> Nat] /\ \A m \in Messages : attempts'[m] >= attempts[m]
    BY <1>1, <1>2 DEF TypeOK
  <2>. QED
    BY <1>1, <1>2, <1>4, <2>1, <2>2, <2>3, <2>4, LettingGoKeepsCauses
<1>. QED
  BY <1>5, <1>6

\* An outcome: a transient failure with an attempt left gets its task unless
\* a worker had to wait for the row before, because the retries used are at
\* most the attempts counted.
LEMMA OutcomeKeepsCauses ==
  ASSUME ClaimInv, CausesInv, NEW w \in Workers,
         RecordSuccess(w) \/ ScheduleRetry(w) \/ RecordFailure(w)
  PROVE  CausesInv'
<1> USE DEF rows, broker, workers, provider
<1>1. TypeOK /\ pc[w] \in Holding \ {"claimed"} /\ job[w].msg \in Messages
  BY DEF ClaimInv, TypeOK, RecordSuccess, ScheduleRetry, RecordFailure, Holding, AfterCall
<1>2. /\ job[w].attempt = attempts[job[w].msg]
      /\ \/ job[w].seen = "sending"
         \/ job[w].seen = "failed" /\ status[job[w].msg] = "failed"
      /\ mishap[job[w].msg] # "lost"
      /\ job[w].msg \in throttled \/ job[w].retries <= attempts[job[w].msg]
  BY <1>1 DEF CausesInv, SeenIsTheRow, LostIsFinal, RetriesCounted, Holds, ClaimInv, CopyIsCurrent
<1>3. /\ pc'[w] \in {"idle", "refresh"}
      /\ job'[w] = job[w] \/ job'[w].msg \notin Messages
      /\ \A v \in Workers \ {w} : pc'[v] = pc[v] /\ job'[v] = job[v]
      /\ UNCHANGED <<campaign, dispatches, throttled>>
  BY <1>1, PipelineAssumption DEF RecordSuccess, ScheduleRetry, RecordFailure, GoTo, EndTask,
     NoJob, NewJob, TypeOK
<1>4. /\ \A m \in Messages \ {job[w].msg} : status'[m] = status[m]
      /\ \/ status'[job[w].msg] \in {"sent", "failed"}
         \/ status'[job[w].msg] = "queued" /\ ScheduleRetry(w)
  BY <1>1, <1>2 DEF RecordSuccess, ScheduleRetry, RecordFailure, Apply, Outranks, StatusRank, TypeOK
<1>5. /\ attempts' \in [Messages -> Nat]
      /\ \A m \in Messages : attempts'[m] >= attempts[m]
  BY <1>1, <1>2 DEF RecordSuccess, ScheduleRetry, RecordFailure, Attempt, TypeOK
<1>6. CASE ScheduleRetry(w)
  <2>1. /\ Retry(w, MaxRetries) /\ attempts'[job[w].msg] = attempts[job[w].msg] + 1
        /\ attempts[job[w].msg] + 1 <= MaxRetries
        /\ attempts[job[w].msg] \in Nat /\ job[w].retries \in Nat
    BY <1>1, <1>2, <1>6 DEF ScheduleRetry, Attempt, TypeOK, Jobs
  <2>2. /\ sends' \in [SendTasks -> Nat]
        /\ \A t \in SendTasks : sends'[t] >= sends[t]
        /\ \A t \in SendTasks : sends'[t] # sends[t] => t = <<job[w].msg, job[w].retries + 1>>
        /\ \A m \in Messages \ {job[w].msg} : mishap'[m] = mishap[m]
        /\ \/ /\ job[w].retries < MaxRetries /\ mishap' = mishap
              /\ \E n \in 0..RetryCap : sends'[<<job[w].msg, n>>] > 0
           \/ ~(job[w].retries < MaxRetries) /\ mishap'[job[w].msg] = "exhausted"
    BY <1>1, <2>1, RetryIsQueuedOrNoted, RetryCapNat, PipelineAssumption
  <2>3. job[w].msg \in throttled \/ (job[w].retries < MaxRetries
                                     /\ job[w].retries + 1 <= attempts'[job[w].msg])
    BY <1>2, <2>1, PipelineAssumption
  <2>4. \A t \in SendTasks : sends'[t] # sends[t] => t[1] \in throttled' \/ t[2] <= attempts'[t[1]]
    BY <1>3, <2>2, <2>3
  <2>5. /\ mishap'[job[w].msg] # "lost"
        /\ mishap'[job[w].msg] = "exhausted" => job[w].msg \in throttled
    BY <1>1, <1>2, <2>2, <2>3 DEF CausesInv, RetriesCounted
  <2>6. \/ mishap'[job[w].msg] # "none"
        \/ \E n \in 0..RetryCap : sends'[<<job[w].msg, n>>] > 0
    BY <2>2
  <2>7. status'[job[w].msg] # "sending"
    BY <1>4
  <2>. QED
    BY <1>1, <1>3, <1>4, <1>5, <2>2, <2>4, <2>5, <2>6, <2>7, LettingGoKeepsCauses
<1>7. CASE ~ScheduleRetry(w)
  <2>1. sends' = sends /\ mishap' = mishap
    BY <1>7 DEF RecordSuccess, RecordFailure
  <2>2. status'[job[w].msg] \in {"sent", "failed"} /\ status'[job[w].msg] \notin Claimable
    BY <1>4, <1>7 DEF Claimable
  <2>3. /\ sends' \in [SendTasks -> Nat]
        /\ \A t \in SendTasks : sends'[t] >= sends[t]
    BY <1>1, <2>1 DEF TypeOK
  <2>4. mishap'[job[w].msg] = "exhausted" => job[w].msg \in throttled
    BY <1>1, <2>1 DEF CausesInv, RetriesCounted
  <2>. QED
    BY <1>1, <1>2, <1>3, <1>4, <1>5, <2>1, <2>2, <2>3, <2>4, LettingGoKeepsCauses
<1>. QED
  BY <1>6, <1>7

\* A task that comes back keeps its retries.
LEMMA UnackedKeepsCauses ==
  ASSUME ClaimInv, CausesInv, NEW w \in Workers, Unacked(w)
  PROVE  /\ dispatches' \in Nat /\ dispatches' >= dispatches
         /\ pc[w] = "listing" => dispatches' > 0
         /\ \A t \in SendTasks : sends'[t] > 0 => t[1] \in throttled \/ t[2] <= attempts[t[1]]
         /\ \A m \in Messages, n \in 0..RetryCap : sends[<<m, n>>] > 0 => sends'[<<m, n>>] > 0
<1>0. TypeOK
  BY DEF ClaimInv
<1>1. CASE pc[w] \in Dispatching \/ job[w].msg = None
  <2>1. sends' = sends /\ dispatches' = dispatches + 1
    BY <1>1 DEF Unacked
  <2>. QED
    BY <1>0, <2>1 DEF TypeOK, CausesInv, RetriesCounted
<1>2. CASE ~(pc[w] \in Dispatching \/ job[w].msg = None)
  <2> DEFINE task == <<job[w].msg, job[w].retries>>
  <2>1. /\ job[w].msg \in Messages
        /\ task \in SendTasks
        /\ job[w].msg \in throttled \/ job[w].retries <= attempts[job[w].msg]
    BY <1>0, <1>2 DEF TypeOK, Jobs, SendTasks, CausesInv, RetriesCounted
  <2>2. /\ dispatches' = dispatches
        /\ \A t \in SendTasks : sends'[t] = IF t = task THEN sends[t] + 1 ELSE sends[t]
    BY <1>0, <1>2, <2>1 DEF Unacked, TypeOK
  <2>3. pc[w] # "listing"
    BY <1>2 DEF Dispatching
  <2>4. \A m \in Messages, n \in 0..RetryCap : sends[<<m, n>>] > 0 => sends'[<<m, n>>] > 0
    BY <1>0, <2>2 DEF SendTasks, TypeOK
  <2>. QED
    BY <1>0, <2>1, <2>2, <2>3, <2>4 DEF TypeOK, CausesInv, RetriesCounted
<1>. QED
  BY <1>1, <1>2

\* Finalizing the campaign, a task handed out twice, and a worker lost: its
\* claim, if it had one, is noted.
LEMMA RestKeepsCauses ==
  ASSUME ClaimInv, CausesInv, NEW w \in Workers,
         Refresh(w) \/ Count(w) \/ Complete(w) \/ Redeliver(w) \/ Crash(w)
  PROVE  CausesInv'
<1> USE DEF CausesInv, rows, broker, workers, provider
<1>0. {"idle", "refresh", "counting", "completing"} \intersect Holding = {} /\ TypeOK
  BY DEF Holding, BeforeCall, AfterCall, ClaimInv
<1>1. UNCHANGED <<status, attempts, throttled>> /\ campaign' \in {campaign, "completed"}
  BY DEF Refresh, Count, Complete, Redeliver, Crash
<1>2. CASE Redeliver(w)
  <2>1. UNCHANGED <<pc, job, mishap>> /\ Unacked(w)
    BY <1>2 DEF Redeliver
  <2>2. SeenIsTheRow' /\ SendingIsAccounted' /\ LostIsFinal'
    BY <1>1, <2>1 DEF SeenIsTheRow, SendingIsAccounted, LostIsFinal, Holds
  <2>3. RetriesCounted'
    BY <1>1, <2>1, UnackedKeepsCauses DEF RetriesCounted
  <2>4. ClaimableIsExpected'
    <3> SUFFICES ASSUME campaign = "processing", NEW m \in Messages, status[m] \in Claimable
                 PROVE  Expected(m)'
      BY <1>1 DEF ClaimableIsExpected
    <3>1. Expected(m)
      BY DEF ClaimableIsExpected
    <3>. QED
      BY <1>0, <2>1, <3>1, UnackedKeepsCauses DEF Expected, TypeOK
  <2>. QED
    BY <2>2, <2>3, <2>4
<1>3. CASE Refresh(w) \/ Count(w) \/ Complete(w)
  <2>1. /\ pc[w] \notin Holding \union {"listing"} /\ pc'[w] \notin Holding
        /\ \A v \in Workers \ {w} : pc'[v] = pc[v] /\ job'[v] = job[v]
        /\ job'[w] = job[w] \/ job'[w].msg \notin Messages
        /\ UNCHANGED <<sends, dispatches, mishap>>
    BY <1>0, <1>3, PipelineAssumption DEF Refresh, Count, Complete, GoTo, EndTask, NoJob,
       NewJob, TypeOK
  <2>2. SeenIsTheRow' /\ RetriesCounted'
    BY <1>1, <2>1 DEF SeenIsTheRow, RetriesCounted
  <2>3. SendingIsAccounted' /\ LostIsFinal'
    BY <1>1, <2>1 DEF SendingIsAccounted, LostIsFinal, Holds
  <2>4. ClaimableIsExpected'
    BY <1>1, <2>1 DEF ClaimableIsExpected, Expected
  <2>. QED
    BY <2>2, <2>3, <2>4
<1>4. CASE Crash(w)
  <2>1. /\ Unacked(w) /\ campaign' = campaign
        /\ pc'[w] = "idle" /\ job'[w].msg \notin Messages
        /\ \A v \in Workers \ {w} : pc'[v] = pc[v] /\ job'[v] = job[v]
        /\ \A m \in Messages :
             mishap'[m] = IF pc[w] \in Holding /\ m = job[w].msg THEN "lost" ELSE mishap[m]
    BY <1>0, <1>4, PipelineAssumption DEF Crash, EndTask, NoJob, NewJob, Mark, TypeOK
  <2>2. pc[w] \in Holding =>
          /\ job[w].msg \in Messages /\ status[job[w].msg] \in {"sending", "failed"}
          /\ \A v \in Workers \ {w} : ~Holds(v, job[w].msg)
    BY <1>0 DEF ClaimInv, ClaimExclusive, TypeOK, Holds
  <2>3. SeenIsTheRow'
    BY <1>0, <1>1, <2>1 DEF SeenIsTheRow
  <2>4. SendingIsAccounted'
    <3> SUFFICES ASSUME NEW m \in Messages, status[m] = "sending", mishap'[m] # "lost"
                 PROVE  \E v \in Workers : Holds(v, m)'
      BY <1>1 DEF SendingIsAccounted
    <3>1. PICK v \in Workers : Holds(v, m)
      BY <2>1 DEF SendingIsAccounted
    <3>2. v # w
      BY <2>1, <3>1 DEF Holds
    <3>. QED
      BY <2>1, <3>1, <3>2 DEF Holds
  <2>5. LostIsFinal'
    BY <1>0, <1>1, <2>1, <2>2 DEF LostIsFinal, Holds
  <2>6. RetriesCounted'
    BY <1>1, <2>1, UnackedKeepsCauses DEF RetriesCounted
  <2>7. ClaimableIsExpected'
    <3> SUFFICES ASSUME campaign = "processing", NEW m \in Messages, status[m] \in Claimable
                 PROVE  Expected(m)'
      BY <1>1, <2>1 DEF ClaimableIsExpected
    <3>1. Expected(m)
      BY DEF ClaimableIsExpected
    <3>2. mishap'[m] = mishap[m]
      BY <2>1, <2>2 DEF Claimable
    <3>3. ASSUME NEW v \in Workers, pc[v] = "listing" PROVE dispatches' > 0 \/ pc'[v] = "listing"
      BY <2>1, <3>3, UnackedKeepsCauses
    <3>. QED
      BY <1>0, <2>1, <3>1, <3>2, <3>3, UnackedKeepsCauses DEF Expected, TypeOK
  <2>. QED
    BY <2>3, <2>4, <2>5, <2>6, <2>7
<1>. QED
  BY <1>2, <1>3, <1>4

\* A campaign is stranded by nothing but a lost worker, a release that no
\* dispatch saw, a broker that refused, or Celery's retries used up by
\* throttling: however often it is launched, paused, resumed or cancelled,
\* whatever the retry limits, the disturbances and their number
\* (whatsapp/tasks.py, dispatch_campaign and send_campaign_message).
THEOREM StrandingHasACause == Spec => []StrandedHasCause
<1>1. ClaimInv /\ CausesInv /\ [Next]_vars => CausesInv'
  <2> SUFFICES ASSUME ClaimInv, CausesInv, [Next]_vars PROVE CausesInv'
    OBVIOUS
  <2>1. ASSUME NEW r \in Requests, CommitRequest(r) \/ \E op \in RequestOps : Load(r, op)
        PROVE  CausesInv'
    BY <2>1, RequestKeepsCauses
  <2>2. ASSUME NEW w \in Workers, WorkerStep(w) \/ Crash(w) \/ Redeliver(w)
        PROVE  CausesInv'
    BY <2>2, DispatchKeepsCauses, ClaimKeepsCauses, CallKeepsCauses, ReleaseKeepsCauses,
       OutcomeKeepsCauses, RestKeepsCauses DEF WorkerStep
  <2>3. CASE UNCHANGED vars
    BY <2>3 DEF vars, rows, broker, workers, provider, CausesInv, SeenIsTheRow,
       SendingIsAccounted, LostIsFinal, RetriesCounted, Holds, ClaimableIsExpected, Expected
  <2>. QED
    BY <2>1, <2>2, <2>3 DEF Next
<1>2. CausesInv => StrandedHasCause
  <2> SUFFICES ASSUME CausesInv, campaign = "processing", Quiet,
                      NEW m \in Messages, status[m] \in InFlight
               PROVE  /\ mishap[m] # "none"
                      /\ status[m] = "sending" <=> mishap[m] = "lost"
                      /\ mishap[m] = "exhausted" => m \in throttled
    BY DEF StrandedHasCause
  <2>1. "idle" \notin Holding /\ "idle" # "listing" /\ InFlight = Claimable \union {"sending"}
        /\ "failed" \notin InFlight
    BY DEF Holding, BeforeCall, AfterCall, InFlight, Claimable
  <2>2. status[m] \in Claimable => mishap[m] # "none"
    <3>1. \A n \in 0..RetryCap : <<m, n>> \in SendTasks
      BY DEF SendTasks
    <3>2. \A n \in 0..RetryCap : sends[<<m, n>>] = 0
      BY <3>1 DEF Quiet
    <3>3. ~(dispatches > 0)
      BY DEF Quiet
    <3>4. \A n \in 0..RetryCap : ~(sends[<<m, n>>] > 0)
      BY <3>2
    <3>5. \A w \in Workers : pc[w] # "listing"
      BY <2>1 DEF Quiet
    <3>6. status[m] \in Claimable => Expected(m)
      BY DEF CausesInv, ClaimableIsExpected
    <3>. QED
      BY <3>3, <3>4, <3>5, <3>6, Zenon DEF Expected
  <2>3. status[m] = "sending" <=> mishap[m] = "lost"
    BY <2>1 DEF CausesInv, SendingIsAccounted, LostIsFinal, Holds, Quiet
  <2>4. mishap[m] = "exhausted" => m \in throttled
    BY DEF CausesInv, RetriesCounted
  <2>. QED
    BY <2>1, <2>2, <2>3, <2>4
<1>. QED
  BY <1>1, <1>2, InitCauses, ClaimInvariant, PTL DEF Spec

-----------------------------------------------------------------------------
\* While the campaign is halted a worker that passed the check before still has
\* its one call to make, and nobody else passes it.
OneCallLeft ==
  campaign \in Halted => \A w \in Workers : overrun[w] + (IF pc[w] = "cleared" THEN 1 ELSE 0) <= 1

\* "A pause takes effect at the next message": wherever a pause or a cancel
\* commits, before the worker's check or between the check and the call, each
\* worker makes at most one more call until the campaign goes on (tasks.py,
\* send_campaign_message).
THEOREM PausesTakeHold == Spec => []PauseTakesHold
<1>1. Init => OneCallLeft
  BY DEF Init, OneCallLeft
<1>2. TypeOK /\ OneCallLeft /\ [Next]_vars => OneCallLeft'
  <2> SUFFICES ASSUME TypeOK, OneCallLeft, [Next]_vars PROVE OneCallLeft'
    OBVIOUS
  <2> USE DEF workers, OneCallLeft
  <2>0. /\ \A v \in Workers : overrun[v] \in Nat
        /\ "completed" \notin Halted
    BY DEF TypeOK, Halted
  <2>1. ASSUME NEW r \in Requests, CommitRequest(r) \/ \E op \in RequestOps : Load(r, op)
        PROVE  OneCallLeft'
    <3>1. pc' = pc
      BY <2>1 DEF CommitRequest, Launch, Pause, Resume, Cancel, Refuse, Load
    <3>2. CASE UNCHANGED <<campaign, overrun>>
      BY <3>1, <3>2
    <3>3. ASSUME NEW op, Commit(r, op) PROVE OneCallLeft'
      <4>1. CASE campaign \in Halted
        BY <2>0, <3>1, <3>3, <4>1 DEF Commit
      <4>2. CASE campaign \notin Halted
        BY <3>1, <3>3, <4>2 DEF Commit
      <4>. QED
        BY <4>1, <4>2
    <3>. QED
      BY <2>1, <3>2, <3>3 DEF CommitRequest, Launch, Pause, Resume, Cancel, Refuse, Load
  <2>2. ASSUME NEW w \in Workers, WorkerStep(w) \/ Crash(w) \/ Redeliver(w)
        PROVE  OneCallLeft'
    <3> USE DEF GoTo, EndTask
    <3>1. CASE CallProvider(w)
      <4>1. /\ pc[w] = "cleared" /\ pc'[w] # "cleared" /\ campaign' = campaign
            /\ \A v \in Workers \ {w} : pc'[v] = pc[v] /\ overrun'[v] = overrun[v]
            /\ overrun'[w] = IF campaign \in Halted THEN overrun[w] + 1 ELSE overrun[w]
        BY <3>1 DEF CallProvider, Bump, TypeOK
      <4>. QED
        BY <2>0, <4>1
    <3>2. CASE Complete(w)
      BY <2>0, <3>2 DEF Complete
    <3>3. CASE Reread(w)
      <4>1. /\ UNCHANGED <<campaign, overrun>>
            /\ pc'[w] = "cleared" => campaign \notin Halted
            /\ \A v \in Workers \ {w} : pc'[v] = pc[v]
        BY <3>3 DEF Reread, TypeOK
      <4>. QED
        BY <2>0, <4>1
    <3>4. CASE ~CallProvider(w) /\ ~Complete(w) /\ ~Reread(w)
      <4>1. /\ UNCHANGED <<campaign, overrun>>
            /\ \A v \in Workers : pc'[v] = "cleared" => pc[v] = "cleared"
        BY <2>2, <3>4
           DEF WorkerStep, TakeDispatch, EnqueueListed, MarkQueued, Claim, ReleaseAndStop,
               Throttled, NoSender, RecordSuccess, ScheduleRetry, RecordFailure, Refresh,
               Count, Crash, Redeliver, TypeOK
      <4>. QED
        BY <2>0, <4>1
    <3>. QED
      BY <3>1, <3>2, <3>3, <3>4
  <2>3. CASE UNCHANGED vars
    BY <2>3 DEF vars
  <2>. QED
    BY <2>1, <2>2, <2>3 DEF Next
<1>3. TypeOK /\ OneCallLeft => PauseTakesHold
  BY DEF OneCallLeft, PauseTakesHold, TypeOK
<1>. QED
  BY <1>1, <1>2, <1>3, TypeCorrect, PTL DEF Spec

=============================================================================
