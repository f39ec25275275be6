------------------------- MODULE StatusReportsProofs -------------------------
(***************************************************************************)
(* Proofs about StatusReports, for any number of handlers.                 *)
(***************************************************************************)
EXTENDS StatusReports, TLAPS

\* A payload holds reports, and reports carry message statuses.
LEMMA PayloadReports ==
  /\ \A p \in Payloads : p \in Seq(Reports) /\ p # <<>>
  /\ \A r \in Reports : r.msg \in Messages /\ r.status \in ReportStatus
<1>1. ASSUME NEW p \in Payloads PROVE p \in Seq(Reports) /\ p # <<>>
  <2>1. p \in Seq([msg : Messages, status : ReportStatus, stamp : Nat \union {NoStamp}]) /\ p # <<>>
    BY ReportsAssumption
  <2>2. \A i \in 1..Len(p) : p[i] \in Reports
    BY <2>1 DEF Reports
  <2>. QED
    BY <2>1, <2>2
<1>2. ASSUME NEW r \in Reports PROVE r.msg \in Messages /\ r.status \in ReportStatus
  <2>1. PICK p \in Payloads : \E i \in DOMAIN p : r = p[i]
    BY DEF Reports
  <2>2. p \in Seq([msg : Messages, status : ReportStatus, stamp : Nat \union {NoStamp}])
    BY ReportsAssumption
  <2> DEFINE Shape == [msg : Messages, status : ReportStatus, stamp : Nat \union {NoStamp}]
  <2>3. PICK i \in DOMAIN p : r = p[i]
    BY <2>1
  <2>4. p \in Seq(Shape)
    BY <2>2
  <2>5. \A j \in DOMAIN p : p[j] \in Shape
    <3> HIDE DEF Shape
    <3>. QED
      BY <2>4
  <2>6. r \in Shape
    BY <2>3, <2>5
  <2>. QED
    BY <2>6
<1>. QED
  BY <1>1, <1>2

-----------------------------------------------------------------------------
(* Type correctness.                                                       *)

Jobs == [event : Events \union {None}, rest : Seq(Reports), seen : MessageStatus]

\* Moving on to the next report keeps the handlers in order.
LEMMA NextReportType ==
  ASSUME TypeOK, NEW h \in Handlers, at[h] \notin {"idle", "close"}, NextReport(h),
         UNCHANGED event
  PROVE  /\ job' \in [Handlers -> Jobs]
         /\ at' \in [Actors -> SenderAt \union HandlerAt]
         /\ \A g \in Handlers : HandlerOK(g)'
         /\ \A m \in Messages : at'[m] \in SenderAt
<1>1. job[h].rest \in Seq(Reports) /\ job[h].rest # <<>> /\ h \in Actors /\ HandlerOK(h)
  BY DEF TypeOK, Actors, HandlerOK
<1>2. Tail(job[h].rest) \in Seq(Reports)
  BY <1>1
<1>3. h \notin Messages
  BY ReportsAssumption
<1>4. job'[h].rest = Tail(job[h].rest) /\ job'[h].event = job[h].event
  BY <1>1 DEF NextReport, TypeOK
<1>5. at'[h] = IF Tail(job[h].rest) = <<>> THEN "close" ELSE "match"
  BY <1>1 DEF NextReport, GoTo, TypeOK
<1>6. \A g \in Handlers \ {h} : job'[g] = job[g] /\ at'[g] = at[g]
  BY DEF NextReport, GoTo, TypeOK, Actors
<1>7. job' \in [Handlers -> Jobs]
  BY <1>2 DEF NextReport, TypeOK, Jobs
<1>8. at' \in [Actors -> SenderAt \union HandlerAt] /\ \A m \in Messages : at'[m] = at[m]
  BY <1>1, <1>3 DEF NextReport, GoTo, TypeOK, HandlerAt, Actors
<1>9. HandlerOK(h)'
  BY <1>1, <1>4, <1>5 DEF HandlerOK, HandlerAt
<1>10. \A g \in Handlers \ {h} : HandlerOK(g)'
  BY <1>6 DEF TypeOK, HandlerOK
<1>. QED
  BY <1>7, <1>8, <1>9, <1>10 DEF TypeOK

\* Moving one actor elsewhere, its job as it is.
LEMMA GoToType ==
  ASSUME TypeOK, NEW a \in Actors, NEW where, GoTo(a, where), UNCHANGED event,
         UNCHANGED job,
         IF a \in Handlers
         THEN where \in HandlerAt \ {"idle"} /\ at[a] \notin {"idle", "close"}
         ELSE where \in SenderAt
  PROVE  /\ at' \in [Actors -> SenderAt \union HandlerAt]
         /\ \A g \in Handlers : HandlerOK(g)'
         /\ \A m \in Messages : at'[m] \in SenderAt
<1>1. /\ \A b \in Actors \ {a} : at'[b] = at[b]
      /\ at'[a] = where
      /\ at' \in [Actors -> SenderAt \union HandlerAt]
  BY DEF GoTo, TypeOK
<1>2. \A g \in Handlers : HandlerOK(g)'
  BY <1>1 DEF TypeOK, HandlerOK, Actors
<1>3. \A m \in Messages : at'[m] \in SenderAt
  BY <1>1, ReportsAssumption DEF TypeOK, Actors
<1>. QED
  BY <1>1, <1>2, <1>3

\* A handler that ends its task.
LEMMA IdleType ==
  ASSUME TypeOK, NEW h \in Handlers, GoTo(h, "idle"), job' = [job EXCEPT ![h] = NoJob],
         \A e \in Events : event[e].status # "none" => event'[e].status # "none"
  PROVE  /\ at' \in [Actors -> SenderAt \union HandlerAt]
         /\ job' \in [Handlers -> Jobs]
         /\ \A g \in Handlers : HandlerOK(g)'
         /\ \A m \in Messages : at'[m] \in SenderAt
<1>1. NoJob \in Jobs
  BY DEF NoJob, Jobs, MessageStatus
<1>2. job' \in [Handlers -> Jobs]
  BY <1>1 DEF TypeOK, Jobs
<1>3. /\ \A b \in Actors \ {h} : at'[b] = at[b]
      /\ at'[h] = "idle"
      /\ at' \in [Actors -> SenderAt \union HandlerAt]
      /\ \A g \in Handlers \ {h} : job'[g] = job[g]
  BY DEF GoTo, TypeOK, Actors, HandlerAt
<1>4. \A g \in Handlers : HandlerOK(g)'
  BY <1>3 DEF TypeOK, HandlerOK, Actors, HandlerAt
<1>5. \A m \in Messages : at'[m] \in SenderAt
  BY <1>3, ReportsAssumption DEF TypeOK, Actors
<1>. QED
  BY <1>2, <1>3, <1>4, <1>5

LEMMA SenderType ==
  ASSUME TypeOK, NEW m \in Messages, Accept(m) \/ RecordSuccess(m) \/ LoseSender(m)
  PROVE  TypeOK'
<1> USE DEF rows, inbox, actors
<1>1. m \in Actors /\ m \notin Handlers
  BY ReportsAssumption DEF Actors
<1>2. UNCHANGED <<job, event, tasks>>
  BY DEF Accept, RecordSuccess, LoseSender
<1>3. \E where \in SenderAt : GoTo(m, where)
  BY DEF Accept, RecordSuccess, LoseSender, SenderAt
<1>4. /\ campaign' \in {"processing", "completed"}
      /\ row' \in [Messages -> MessageStatus]
      /\ identified' \subseteq Messages
      /\ UNCHANGED <<log, applied, raced>>
      /\ faults' \in Nat
  BY DEF Accept, RecordSuccess, LoseSender, Disturb, TypeOK, MessageStatus
<1>. QED
  BY <1>1, <1>2, <1>3, <1>4, GoToType DEF TypeOK

LEMMA InboxType ==
  ASSUME TypeOK, Sweep \/ \E e \in Events, p \in Payloads : Deliver(e, p)
  PROVE  TypeOK'
<1> USE DEF rows, inbox, actors
<1>1. CASE Sweep
  BY <1>1 DEF Sweep, TypeOK, HandlerOK
<1>2. ASSUME NEW e \in Events, NEW p \in Payloads, Deliver(e, p) PROVE TypeOK'
  <2>1. /\ event' = [event EXCEPT ![e] = [status |-> "received", payload |-> p]]
        /\ tasks' \in [Events -> Nat] /\ faults' \in Nat
        /\ \A f \in Events \ {e} : tasks'[f] = tasks[f]
    <3>1. tasks \in [Events -> Nat] /\ faults \in Nat
      BY DEF TypeOK
    <3>2. tasks' = [tasks EXCEPT ![e] = 1] \/ tasks' = tasks
      BY <1>2 DEF Deliver
    <3>3. faults' = faults \/ faults' = faults + 1
      BY <1>2 DEF Deliver, Disturb
    <3>4. event' = [event EXCEPT ![e] = [status |-> "received", payload |-> p]]
      BY <1>2 DEF Deliver
    <3>. QED
      BY <3>1, <3>2, <3>3, <3>4
  <2>2. event' \in [Events -> [status : EventStatus, payload : Payloads \union {<<>>}]]
    BY <2>1 DEF TypeOK, EventStatus
  <2>3. /\ event'[e].status = "received" /\ event'[e].payload = p
        /\ \A f \in Events \ {e} : event'[f] = event[f]
    BY <2>1 DEF TypeOK
  <2>4. \A f \in Events : IF event'[f].status = "none" THEN tasks'[f] = 0
                                                      ELSE event'[f].payload \in Payloads
    BY <2>1, <2>3 DEF TypeOK
  <2>5. UNCHANGED <<campaign, row, identified, log, applied, raced, at, job>>
    BY <1>2 DEF Deliver
  <2>6. \A h \in Handlers : HandlerOK(h)'
    BY <2>3, <2>5 DEF TypeOK, HandlerOK
  <2>. QED
    BY <2>1, <2>2, <2>4, <2>5, <2>6 DEF TypeOK
<1>. QED
  BY <1>1, <1>2

LEMMA TakeType ==
  ASSUME TypeOK, NEW h \in Handlers, Take(h)
  PROVE  TypeOK'
<1> USE DEF rows, inbox, actors
<1>1. PICK e \in Events :
        /\ tasks[e] > 0
        /\ tasks' = [tasks EXCEPT ![e] = @ - 1]
        /\ IF event[e].status = "processed"
           THEN UNCHANGED actors
           ELSE /\ GoTo(h, "match")
                /\ job' = [job EXCEPT ![h] = [NoJob EXCEPT !.event = e, !.rest = event[e].payload]]
  BY DEF Take
<1>2. /\ tasks' \in [Events -> Nat]
      /\ \A f \in Events : tasks[f] = 0 => tasks'[f] = 0
      /\ event[e].status # "none"
  BY <1>1 DEF TypeOK
<1>3. UNCHANGED <<campaign, row, identified, log, applied, raced, event, faults>>
  BY DEF Take
<1>4. \A f \in Events : IF event'[f].status = "none" THEN tasks'[f] = 0
                                                    ELSE event'[f].payload \in Payloads
  BY <1>2, <1>3 DEF TypeOK
<1>5. CASE event[e].status = "processed"
  <2>1. UNCHANGED <<at, job>>
    BY <1>1, <1>5
  <2>2. \A g \in Handlers : HandlerOK(g)'
    BY <1>3, <2>1 DEF TypeOK, HandlerOK
  <2>. QED
    BY <1>2, <1>3, <1>4, <2>1, <2>2 DEF TypeOK
<1>6. CASE event[e].status # "processed"
  <2>1. h \in Actors /\ h \notin Messages /\ event[e].payload \in Payloads
    BY <1>2, ReportsAssumption DEF Actors, TypeOK
  <2> DEFINE new == [event |-> e, rest |-> event[e].payload, seen |-> "sent"]
  <2>2. job' = [job EXCEPT ![h] = new]
    BY <1>1, <1>6 DEF NoJob
  <2>3. new \in Jobs /\ new.rest # <<>>
    BY <2>1, PayloadReports DEF Jobs, MessageStatus
  <2>4. job' \in [Handlers -> Jobs] /\ job'[h] = new
        /\ \A g \in Handlers \ {h} : job'[g] = job[g]
    BY <2>2, <2>3 DEF TypeOK, Jobs
  <2>5. /\ at' \in [Actors -> SenderAt \union HandlerAt] /\ at'[h] = "match"
        /\ \A b \in Actors \ {h} : at'[b] = at[b]
    BY <1>1, <1>6, <2>1 DEF GoTo, TypeOK, HandlerAt
  <2>6. \A g \in Handlers : HandlerOK(g)'
    BY <1>2, <1>3, <2>3, <2>4, <2>5 DEF TypeOK, HandlerOK, HandlerAt, Actors
  <2>7. \A m \in Messages : at'[m] \in SenderAt
    BY <2>1, <2>5 DEF TypeOK, Actors
  <2>. QED
    BY <1>2, <1>3, <1>4, <2>4, <2>5, <2>6, <2>7 DEF TypeOK, Jobs
<1>. QED
  BY <1>5, <1>6

LEMMA ReadType ==
  ASSUME TypeOK, NEW h \in Handlers, Match(h) \/ ApplyReport(h)
  PROVE  TypeOK'
<1> USE DEF rows, inbox
<1>1. /\ h \in Actors /\ HandlerOK(h) /\ at[h] \notin {"idle", "close"}
      /\ job[h] \in Jobs /\ job[h].rest # <<>>
  BY DEF Match, ApplyReport, Actors, TypeOK, HandlerOK, Jobs
<1>2. Current(h) \in Reports /\ Current(h).msg \in Messages /\ Current(h).status \in MessageStatus
  BY <1>1, PayloadReports DEF Current, Jobs, ReportStatus, MessageStatus
<1>3. UNCHANGED <<campaign, identified, event, tasks, faults>>
  BY DEF Match, ApplyReport
<1>4. /\ row' \in [Messages -> MessageStatus] /\ log' \subseteq Reports
      /\ applied' \in [Reports -> Nat] /\ raced' \subseteq Messages
  <2>1. row \in [Messages -> MessageStatus] /\ log \subseteq Reports /\ applied \in [Reports -> Nat]
        /\ raced \subseteq Messages
    BY DEF TypeOK
  <2>2. CASE Match(h)
    BY <2>1, <2>2 DEF Match
  <2>3. CASE ApplyReport(h)
    <3>1. log' = log \union {Current(h)}
      BY <2>3 DEF ApplyReport
    <3>2. \/ UNCHANGED <<row, applied, raced>>
          \/ /\ row' = [row EXCEPT ![Current(h).msg] = Current(h).status]
             /\ raced' = raced \/ raced' = raced \union {Current(h).msg}
             /\ applied' = [applied EXCEPT ![Current(h)] = @ + 1]
      BY <2>3 DEF ApplyReport
    <3>. QED
      BY <1>2, <2>1, <3>1, <3>2
  <2>. QED
    BY <2>2, <2>3
<1>5. CASE NextReport(h)
  BY <1>1, <1>3, <1>4, <1>5, NextReportType DEF TypeOK, Jobs
<1>6. CASE GoTo(h, "refresh") /\ UNCHANGED job
  BY <1>1, <1>3, <1>4, <1>6, GoToType DEF TypeOK, HandlerAt
<1>7. CASE GoTo(h, "apply") /\ job' = [job EXCEPT ![h].seen = row[Current(h).msg]]
  <2>1. /\ job' \in [Handlers -> Jobs]
        /\ \A g \in Handlers : job'[g].event = job[g].event /\ job'[g].rest = job[g].rest
    BY <1>2, <1>7 DEF TypeOK, Jobs
  <2>2. /\ at' \in [Actors -> SenderAt \union HandlerAt] /\ at'[h] = "apply"
        /\ \A b \in Actors \ {h} : at'[b] = at[b]
    BY <1>1, <1>7 DEF GoTo, TypeOK, HandlerAt
  <2>3. \A g \in Handlers : HandlerOK(g)'
    BY <1>1, <1>3, <2>1, <2>2 DEF TypeOK, HandlerOK, HandlerAt, Actors
  <2>4. \A m \in Messages : at'[m] \in SenderAt
    BY <2>2, ReportsAssumption DEF TypeOK, Actors
  <2>. QED
    BY <1>3, <1>4, <2>1, <2>2, <2>3, <2>4 DEF TypeOK, Jobs
<1>. QED
  BY <1>5, <1>6, <1>7 DEF Match, ApplyReport

LEMMA EndType ==
  ASSUME TypeOK, NEW h \in Handlers, Close(h) \/ Break(h) \/ CrashHandler(h)
  PROVE  TypeOK'
<1> USE DEF rows, inbox
<1>1. /\ GoTo(h, "idle") /\ job' = [job EXCEPT ![h] = NoJob]
      /\ UNCHANGED <<campaign, row, identified, log, applied, raced>>
      /\ faults' = faults \/ faults' = faults + 1
  BY DEF Close, Break, CrashHandler, Disturb
<1>2. PICK e \in Events : e = job[h].event /\ event[e].status # "none"
  BY DEF Close, Break, CrashHandler, Busy, TypeOK, HandlerOK
<1>3. /\ event \in [Events -> [status : EventStatus, payload : Payloads \union {<<>>}]]
      /\ tasks \in [Events -> Nat] /\ faults \in Nat
  BY DEF TypeOK
<1>4. /\ tasks' = tasks \/ tasks' = [tasks EXCEPT ![e] = @ + 1]
      /\ event' = event \/ \E s \in {"processed", "failed"} : event' = [event EXCEPT ![e].status = s]
  BY <1>2 DEF Close, Break, CrashHandler
<1>5. /\ tasks' \in [Events -> Nat]
      /\ \A f \in Events \ {e} : tasks'[f] = tasks[f]
  BY <1>3, <1>4
<1>6. /\ event' \in [Events -> [status : EventStatus, payload : Payloads \union {<<>>}]]
      /\ \A f \in Events \ {e} : event'[f] = event[f]
      /\ event'[e].payload = event[e].payload /\ event'[e].status # "none"
  <2>1. CASE event' = event
    BY <1>2, <1>3, <2>1
  <2>2. ASSUME NEW s \in {"processed", "failed"}, event' = [event EXCEPT ![e].status = s]
        PROVE  /\ event' \in [Events -> [status : EventStatus, payload : Payloads \union {<<>>}]]
               /\ \A f \in Events \ {e} : event'[f] = event[f]
               /\ event'[e].payload = event[e].payload /\ event'[e].status # "none"
    <3>1. s \in EventStatus /\ s # "none"
      BY DEF EventStatus
    <3>. QED
      BY <1>3, <2>2, <3>1
  <2>. QED
    BY <1>4, <2>1, <2>2
<1>7. \A f \in Events : IF event'[f].status = "none" THEN tasks'[f] = 0
                                                    ELSE event'[f].payload \in Payloads
  BY <1>2, <1>5, <1>6 DEF TypeOK
<1>8. \A f \in Events : event[f].status # "none" => event'[f].status # "none"
  BY <1>6
<1>9. /\ at' \in [Actors -> SenderAt \union HandlerAt]
      /\ job' \in [Handlers -> Jobs]
      /\ \A g \in Handlers : HandlerOK(g)'
      /\ \A m \in Messages : at'[m] \in SenderAt
  BY <1>1, <1>8, IdleType
<1>10. faults' \in Nat
  BY <1>1, <1>3
<1>. QED
  BY <1>1, <1>5, <1>6, <1>7, <1>9, <1>10 DEF TypeOK, Jobs

LEMMA FinalizeType ==
  ASSUME TypeOK, NEW a \in Actors, Finalize(a)
  PROVE  TypeOK'
<1> USE DEF rows, inbox
<1>1. /\ at[a] \in {"refresh", "count", "complete"}
      /\ UNCHANGED <<row, identified, log, applied, raced, event, tasks, faults>>
      /\ campaign' \in {"processing", "completed"}
  BY DEF Finalize, Refresh, Count, Complete, TypeOK
<1>2. CASE Resume(a) /\ a \in Handlers
  BY <1>1, <1>2, NextReportType DEF Resume, TypeOK, Jobs
<1>3. CASE Resume(a) /\ a \notin Handlers
  BY <1>1, <1>3, GoToType DEF Resume, TypeOK, SenderAt
<1>4. CASE UNCHANGED job /\ \E where \in {"count", "complete"} : GoTo(a, where)
  BY <1>1, <1>4, GoToType DEF TypeOK, SenderAt, HandlerAt
<1>. QED
  BY <1>2, <1>3, <1>4 DEF Finalize, Refresh, Count, Complete

LEMMA InitType == Init => TypeOK
BY ReportsAssumption DEF Init, TypeOK, HandlerOK, NoJob, MessageStatus, EventStatus, SenderAt,
   HandlerAt, Actors

\* Everything keeps its type in every reachable state.
THEOREM TypeCorrect == Spec => []TypeOK
<1>1. TypeOK /\ [Next]_vars => TypeOK'
  <2> SUFFICES ASSUME TypeOK, [Next]_vars PROVE TypeOK'
    OBVIOUS
  <2>1. CASE UNCHANGED vars
    BY <2>1 DEF vars, TypeOK, HandlerOK
  <2>. QED
    BY <2>1, SenderType, InboxType, TakeType, ReadType, EndType, FinalizeType
       DEF Next, SenderStep, HandlerStep, Actors
<1>. QED
  BY <1>1, InitType, PTL DEF Spec

-----------------------------------------------------------------------------
(* What holds with any number of handlers.                                 *)

\* What a handler works on is a report.
LEMMA CurrentReport ==
  ASSUME TypeOK, NEW h \in Handlers, at[h] \notin {"idle", "close"}
  PROVE  /\ Current(h) \in Reports /\ Current(h).msg \in Messages
         /\ Current(h).status \in ReportStatus
<1>1. job[h].rest \in Seq(Reports) /\ job[h].rest # <<>>
  BY DEF TypeOK, HandlerOK
<1>2. Head(job[h].rest) \in Reports
  BY <1>1
<1>. QED
  BY <1>2, PayloadReports DEF Current

\* A report is only counted once it is in the log.
OnceInv ==
  \A r \in Reports : r.stamp # NoStamp => applied[r] <= 1 /\ (applied[r] > 0 => r \in log)

\* No step but the application of a report touches the log or the counts.
LEMMA OnceStep ==
  ASSUME TypeOK, OnceInv, [Next]_vars
  PROVE  OnceInv'
<1>1. CASE UNCHANGED <<log, applied, raced>>
  BY <1>1 DEF OnceInv
<1>2. ASSUME NEW h \in Handlers, ApplyReport(h) PROVE OnceInv'
  <2>1. Current(h) \in Reports
    BY <1>2, CurrentReport DEF ApplyReport
  <2>2. log' = log \union {Current(h)} /\ applied \in [Reports -> Nat]
    BY <1>2 DEF ApplyReport, TypeOK
  <2>3. CASE UNCHANGED applied
    BY <2>2, <2>3 DEF OnceInv
  <2>4. CASE ~Duplicate(Current(h)) /\ applied' = [applied EXCEPT ![Current(h)] = @ + 1]
    BY <2>1, <2>2, <2>4 DEF OnceInv, Duplicate
  <2>. QED
    BY <1>2, <2>3, <2>4 DEF ApplyReport
<1>. QED
  BY <1>1, <1>2 DEF vars, rows, inbox, actors, Next, SenderStep, HandlerStep, Accept, RecordSuccess,
     LoseSender, Deliver, Sweep, Take, Match, Close, Break, CrashHandler, Finalize, Refresh,
     Count, Complete

\* No report with a timestamp advances its row twice, however often it is
\* delivered, swept or handed to another worker.
THEOREM ReportsAppliedOnce == Spec => []AppliedOnce
<1>1. Init => OnceInv
  BY DEF Init, OnceInv
<1>2. OnceInv => AppliedOnce
  BY DEF OnceInv, AppliedOnce
<1>. QED
  BY <1>1, <1>2, OnceStep, TypeCorrect, PTL DEF Spec

\* Whoever found no row in flight is right for good: no row goes back.
SettledInv ==
  (campaign = "completed" \/ \E a \in Actors : at[a] = "complete")
    => \A m \in Messages : row[m] \notin InFlight

\* A row leaves the queue for good.
LEMMA RowsStaySettled ==
  ASSUME TypeOK, [Next]_vars, NEW m \in Messages, row[m] \notin InFlight
  PROVE  row'[m] \notin InFlight
<1>1. CASE UNCHANGED row
  BY <1>1
<1>2. CASE \E n \in Messages : RecordSuccess(n)
  BY <1>2 DEF RecordSuccess, TypeOK, InFlight
<1>3. ASSUME NEW h \in Handlers, ApplyReport(h) PROVE row'[m] \notin InFlight
  <2>1. Current(h) \in Reports
    BY <1>3, CurrentReport DEF ApplyReport
  <2>2. Current(h).status \in ReportStatus /\ row \in [Messages -> MessageStatus]
    BY <1>3, CurrentReport DEF ApplyReport, TypeOK
  <2>3. Current(h).status \notin InFlight
    BY <2>2 DEF ReportStatus, InFlight
  <2>4. row' = row \/ row' = [row EXCEPT ![Current(h).msg] = Current(h).status]
    BY <1>3 DEF ApplyReport
  <2>. QED
    BY <2>2, <2>3, <2>4
<1>. QED
  BY <1>1, <1>2, <1>3 DEF vars, rows, inbox, actors, Next, SenderStep, HandlerStep, Accept,
     LoseSender, Deliver, Sweep, Take, Match, Close, Break, CrashHandler, Finalize, Refresh,
     Count, Complete

\* Only Count sends an actor to "complete".
LEMMA SettledStep ==
  ASSUME TypeOK, TypeOK', SettledInv, [Next]_vars
  PROVE  SettledInv'
<1>1. ASSUME NEW a \in Actors, Count(a), ~ Resume(a)
      PROVE  \A m \in Messages : row[m] \notin InFlight
  BY <1>1 DEF Count
<1>2. ASSUME NEW b \in Actors, at'[b] = "complete", at[b] # "complete"
      PROVE  \A m \in Messages : row[m] \notin InFlight
  <2>1. \A a \in Actors : Resume(a) => at'[b] # "complete" \/ at'[b] = at[b]
    BY DEF Resume, NextReport, GoTo, TypeOK
  <2>2. \A a \in Actors, w \in {"accepted", "refresh", "lost", "match", "apply", "idle", "count"} :
          GoTo(a, w) => at'[b] # "complete" \/ at'[b] = at[b]
    BY DEF GoTo, TypeOK
  <2>3. \A h \in Handlers : NextReport(h) => Resume(h)
    BY DEF Resume
  <2>4. CASE UNCHANGED at
    BY <1>2, <2>4
  <2>5. CASE \E m \in Messages : Accept(m) \/ RecordSuccess(m) \/ LoseSender(m)
    BY <1>2, <2>2, <2>5 DEF Accept, RecordSuccess, LoseSender, Actors
  <2>6. CASE \E h \in Handlers : Match(h) \/ ApplyReport(h)
    BY <1>2, <2>1, <2>2, <2>3, <2>6 DEF Match, ApplyReport, Actors
  <2>7. CASE \E h \in Handlers : Close(h) \/ Break(h) \/ CrashHandler(h)
    BY <1>2, <2>2, <2>7 DEF Close, Break, CrashHandler, Actors
  <2>8. CASE \E h \in Handlers : Take(h)
    BY <1>2, <2>2, <2>8 DEF Take, actors, Actors
  <2>9. CASE \E a \in Actors : Refresh(a) \/ Complete(a)
    BY <1>2, <2>1, <2>2, <2>9 DEF Refresh, Complete
  <2>10. CASE \E a \in Actors : Count(a)
    BY <1>1, <1>2, <2>1, <2>10
  <2>. QED
    BY <2>4, <2>5, <2>6, <2>7, <2>8, <2>9, <2>10 DEF vars, actors, rows, Next, SenderStep,
       HandlerStep, Finalize, Deliver, Sweep, Actors
<1>3. campaign' = campaign \/ \E a \in Actors : at[a] = "complete"
  BY DEF vars, rows, Next, SenderStep, HandlerStep, Accept, RecordSuccess, LoseSender, Deliver,
     Sweep, Take, Match, ApplyReport, Close, Break, CrashHandler, Finalize, Refresh, Count,
     Complete, Actors
<1>4. (campaign' = "completed" \/ \E a \in Actors : at'[a] = "complete")
        => \A m \in Messages : row[m] \notin InFlight
  BY <1>2, <1>3 DEF SettledInv
<1>. QED
  BY <1>4, RowsStaySettled DEF SettledInv

\* A completed campaign has, and keeps, no row in flight.
THEOREM CompletedStaysSettled == Spec => []CompletedIsSettled
<1>1. Init => SettledInv
  BY DEF Init, SettledInv, Actors
<1>2. SettledInv => CompletedIsSettled
  BY DEF SettledInv, CompletedIsSettled
<1>. QED
  BY <1>1, <1>2, SettledStep, TypeCorrect, PTL DEF Spec

-----------------------------------------------------------------------------
(* Lost reports: the send task of a row that a report can match is past    *)
(* its only write, so handlers alone write it, and each upwards from the   *)
(* copy it read.  A row falls only where that copy had been outdated.      *)

CopyInv ==
  /\ RowCoversLog
  /\ \A r \in log : r.msg \in identified
  /\ \A m \in identified : at[m] \notin {"calling", "accepted", "lost"}
  /\ \A h \in Handlers : at[h] = "apply" =>
       LET m == Current(h).msg IN
       m \in identified /\ (m \notin raced => Outranks(row[m], job[h].seen))

\* The order on statuses is one.
LEMMA RankOrder ==
  /\ \A s \in MessageStatus : Outranks(s, s)
  /\ \A s, t, u \in MessageStatus : Outranks(s, t) /\ Outranks(t, u) => Outranks(s, u)
  /\ \A s, t \in MessageStatus : ~ Outranks(s, t) => Outranks(t, s)
<1>1. \A s \in MessageStatus : StatusRank[s] \in Nat
  BY DEF MessageStatus, StatusRank
<1>. QED
  BY <1>1 DEF Outranks

\* A row that a report can match is written by handlers only.
LEMMA CopySender ==
  ASSUME TypeOK, CopyInv, NEW m \in Messages, RecordSuccess(m)
  PROVE  CopyInv'
<1>1. m \in Actors /\ m \notin Handlers /\ m \notin identified
  BY ReportsAssumption DEF Actors, RecordSuccess, CopyInv
<1>2. /\ row' = [row EXCEPT ![m] = "sent"] /\ identified' = identified \union {m}
      /\ UNCHANGED <<log, raced, job>> /\ at' = [at EXCEPT ![m] = "refresh"]
  BY DEF RecordSuccess, GoTo
<1>3. \A n \in Messages \ {m} : row'[n] = row[n] /\ at'[n] = at[n]
  BY <1>2 DEF TypeOK
<1>4. \A h \in Handlers : at'[h] = at[h] /\ Current(h)' = Current(h) /\ job'[h] = job[h]
  BY <1>1, <1>2 DEF TypeOK, Actors, Current
<1>5. \A r \in log : r.msg \in identified /\ r.msg \in Messages /\ r.msg # m
  BY <1>1 DEF CopyInv, TypeOK
<1>6. RowCoversLog'
  BY <1>2, <1>3, <1>5 DEF CopyInv, RowCoversLog
<1>7. at'[m] = "refresh"
  BY <1>1, <1>2 DEF TypeOK
<1>8. \A n \in identified' : at'[n] \notin {"calling", "accepted", "lost"}
  BY <1>2, <1>3, <1>7 DEF CopyInv, TypeOK
<1>9. \A h \in Handlers : at'[h] = "apply" =>
        LET n == Current(h)'.msg IN
        n \in identified' /\ (n \notin raced' => Outranks(row'[n], job'[h].seen))
  BY <1>1, <1>2, <1>3, <1>4 DEF CopyInv, TypeOK
<1>. QED
  BY <1>2, <1>5, <1>6, <1>8, <1>9 DEF CopyInv

LEMMA CopyApply ==
  ASSUME TypeOK, CopyInv, NEW h \in Handlers, ApplyReport(h)
  PROVE  CopyInv'
<1>1. PICK r \in Reports : r = Current(h) /\ r.msg \in Messages /\ r.status \in MessageStatus
  BY CurrentReport DEF ApplyReport, ReportStatus, MessageStatus
<1>2. /\ row \in [Messages -> MessageStatus] /\ r.msg \in identified
      /\ h \in Actors /\ h \notin Messages
  BY <1>1, ReportsAssumption DEF ApplyReport, CopyInv, TypeOK, Actors
<1>3. /\ log' = log \union {r} /\ UNCHANGED identified
      /\ \A q \in log : q.msg \in Messages /\ q.status \in MessageStatus
  BY <1>1, PayloadReports DEF ApplyReport, TypeOK, ReportStatus, MessageStatus
<1>4. RowCoversLog'
  <2>1. CASE UNCHANGED <<row, raced>> /\ (r \in log \/ Outranks(job[h].seen, r.status))
    <3>1. r.msg \notin raced => r \in log \/ Outranks(row[r.msg], r.status)
      BY <1>1, <1>2, <2>1, RankOrder DEF ApplyReport, CopyInv, TypeOK
    <3>. QED
      BY <1>3, <2>1, <3>1 DEF CopyInv, RowCoversLog
  <2>2. CASE /\ row' = [row EXCEPT ![r.msg] = r.status] /\ ~ Outranks(job[h].seen, r.status)
             /\ raced' = IF Stale(h) THEN raced \union {r.msg} ELSE raced
    <3>1. /\ row'[r.msg] = r.status /\ raced \subseteq raced'
          /\ \A n \in Messages \ {r.msg} : row'[n] = row[n]
      BY <1>1, <1>2, <2>2
    <3>2. r.msg \notin raced' => \A s \in MessageStatus : Outranks(row[r.msg], s) => Outranks(r.status, s)
      BY <1>1, <1>2, <2>2, RankOrder DEF Stale
    <3>. QED
      BY <1>1, <1>3, <3>1, <3>2, RankOrder DEF CopyInv, RowCoversLog
  <2>. QED
    BY <1>1, <2>1, <2>2 DEF ApplyReport, Duplicate
<1>5. \E w \in {"close", "match", "refresh"} : GoTo(h, w)
  BY DEF ApplyReport, NextReport
<1>6. /\ at'[h] # "apply"
      /\ \A a \in Actors \ {h} : at'[a] = at[a]
  BY <1>2, <1>5 DEF GoTo, TypeOK
<1>7. \A g \in Handlers \ {h} : job'[g] = job[g]
  BY DEF ApplyReport, NextReport, TypeOK
<1>8. ASSUME NEW g \in Handlers, at'[g] = "apply"
      PROVE  LET m == Current(g)'.msg IN
             m \in identified' /\ (m \notin raced' => Outranks(row'[m], job'[g].seen))
  <2>1. g # h /\ at[g] = "apply" /\ job'[g] = job[g] /\ Current(g)' = Current(g)
    BY <1>6, <1>7, <1>8 DEF Actors, Current
  <2>2. Current(g).msg \in identified /\ Current(g).msg \in Messages /\ job[g].seen \in MessageStatus
    BY <2>1 DEF CopyInv, TypeOK
  <2>3. CASE UNCHANGED <<row, raced>>
    BY <1>3, <2>1, <2>2, <2>3 DEF CopyInv
  <2>4. CASE /\ row' = [row EXCEPT ![r.msg] = r.status] /\ ~ Outranks(job[h].seen, r.status)
             /\ raced' = IF Stale(h) THEN raced \union {r.msg} ELSE raced
    <3>1. CASE Current(g).msg # r.msg
      BY <1>2, <1>3, <2>1, <2>2, <2>4, <3>1 DEF CopyInv
    <3>2. CASE Current(g).msg = r.msg
      <4>1. r.msg \notin raced' => Outranks(row[r.msg], job[g].seen) /\ Outranks(r.status, row[r.msg])
        BY <1>1, <1>2, <2>1, <2>4, <3>2, RankOrder DEF Stale, CopyInv
      <4>2. row'[r.msg] = r.status
        BY <1>1, <1>2, <2>4
      <4>. QED
        BY <1>1, <1>2, <1>3, <2>1, <2>2, <3>2, <4>1, <4>2, RankOrder
    <3>. QED
      BY <3>1, <3>2
  <2>. QED
    BY <1>1, <2>3, <2>4 DEF ApplyReport
<1>. QED
  BY <1>1, <1>2, <1>3, <1>4, <1>6, <1>8 DEF CopyInv, Actors, TypeOK

LEMMA CopyMatch ==
  ASSUME TypeOK, CopyInv, NEW h \in Handlers, Match(h)
  PROVE  CopyInv'
<1>1. h \in Actors /\ h \notin Messages /\ UNCHANGED <<row, log, raced, identified>>
  BY ReportsAssumption DEF Match, rows, Actors
<1>2. \A a \in Actors \ {h} : at'[a] = at[a]
  BY DEF Match, NextReport, GoTo, TypeOK
<1>3. \A g \in Handlers \ {h} : job'[g] = job[g]
  BY DEF Match, NextReport, TypeOK
<1>4. CASE Current(h).msg \in identified
  <2>1. job' = [job EXCEPT ![h].seen = row[Current(h).msg]]
    BY <1>4 DEF Match
  <2>2. job'[h].rest = job[h].rest /\ job'[h].seen = row[Current(h).msg]
    BY <2>1 DEF TypeOK
  <2>3. /\ Current(h)' = Current(h)
        /\ Outranks(row[Current(h).msg], job'[h].seen)
    BY <1>4, <2>2, RankOrder DEF Current, TypeOK
  <2>4. \A g \in Handlers : at'[g] = "apply" =>
          LET m == Current(g)'.msg IN
          m \in identified' /\ (m \notin raced' => Outranks(row'[m], job'[g].seen))
    <3>1. ASSUME NEW g \in Handlers \ {h} PROVE Current(g)' = Current(g) /\ at'[g] = at[g]
      BY <1>2, <1>3 DEF Current, Actors
    <3>. QED
      BY <1>1, <1>3, <1>4, <2>3, <3>1 DEF CopyInv
  <2>. QED
    BY <1>1, <1>2, <2>4 DEF CopyInv, RowCoversLog, Actors, TypeOK
<1>5. CASE Current(h).msg \notin identified
  <2>1. at'[h] # "apply"
    BY <1>1, <1>5 DEF Match, NextReport, GoTo, TypeOK
  <2>. QED
    BY <1>1, <1>2, <1>3, <2>1 DEF CopyInv, RowCoversLog, Current, Actors, TypeOK
<1>. QED
  BY <1>4, <1>5

\* Any other step leaves rows and log alone and sends no one to "apply".
LEMMA CopyOther ==
  ASSUME TypeOK, CopyInv, UNCHANGED <<row, identified, log, raced>>,
         \A h \in Handlers : at'[h] = "apply" => at[h] = "apply" /\ job'[h] = job[h],
         \A m \in identified : at'[m] \in {"calling", "accepted", "lost"} => at'[m] = at[m]
  PROVE  CopyInv'
BY DEF CopyInv, RowCoversLog, Current, TypeOK

LEMMA CopyStep ==
  ASSUME TypeOK, CopyInv, [Next]_vars
  PROVE  CopyInv'
<1>1. \A a \in Actors : Resume(a) =>
        /\ \A h \in Handlers : at'[h] = "apply" => at[h] = "apply" /\ job'[h] = job[h]
        /\ \A m \in Messages : at'[m] \in {"calling", "accepted", "lost"} => at'[m] = at[m]
  BY ReportsAssumption DEF Resume, NextReport, GoTo, TypeOK, Actors
<1>2. \A a \in Actors, w \in {"refresh", "match", "idle", "count", "complete"} : GoTo(a, w) =>
        /\ \A h \in Handlers : at'[h] = "apply" => at[h] = "apply" /\ a # h
        /\ \A m \in Messages : at'[m] \in {"calling", "accepted", "lost"} => at'[m] = at[m]
  BY ReportsAssumption DEF GoTo, TypeOK, Actors
<1>3. CASE UNCHANGED <<rows, actors>>
  BY <1>3, CopyOther DEF rows, actors
<1>4. ASSUME NEW m \in Messages, Accept(m) \/ LoseSender(m) PROVE CopyInv'
  <2>1. m \in Actors /\ m \notin Handlers /\ m \notin identified /\ UNCHANGED <<row, identified, log, raced, job>>
    BY <1>4, ReportsAssumption DEF Accept, LoseSender, Actors, CopyInv, rows
  <2>2. \A a \in Actors \ {m} : at'[a] = at[a]
    BY <1>4 DEF Accept, LoseSender, GoTo, TypeOK
  <2>. QED
    BY <2>1, <2>2, CopyOther DEF Actors, TypeOK
<1>5. ASSUME NEW h \in Handlers, Close(h) \/ Break(h) \/ CrashHandler(h) PROVE CopyInv'
  <2>1. GoTo(h, "idle") /\ UNCHANGED <<row, identified, log, raced>> /\ job' = [job EXCEPT ![h] = NoJob]
    BY <1>5 DEF Close, Break, CrashHandler, rows
  <2>2. \A g \in Handlers \ {h} : job'[g] = job[g]
    BY <2>1 DEF TypeOK
  <2>. QED
    BY <1>2, <2>1, <2>2, CopyOther DEF Actors, TypeOK
<1>6. ASSUME NEW h \in Handlers, Take(h) PROVE CopyInv'
  <2>1. UNCHANGED <<row, identified, log, raced>>
    BY <1>6 DEF Take, rows
  <2>2. UNCHANGED actors \/ (GoTo(h, "match") /\ \A g \in Handlers \ {h} : job'[g] = job[g])
    <3>1. UNCHANGED actors \/ (GoTo(h, "match") /\ \E j : job' = [job EXCEPT ![h] = j])
      BY <1>6 DEF Take
    <3>2. \A j : job' = [job EXCEPT ![h] = j] => \A g \in Handlers \ {h} : job'[g] = job[g]
      BY DEF TypeOK
    <3>. QED
      BY <3>1, <3>2
  <2>3. CASE UNCHANGED actors
    BY <2>1, <2>3, CopyOther DEF actors
  <2>4. CASE GoTo(h, "match") /\ \A g \in Handlers \ {h} : job'[g] = job[g]
    BY <1>2, <2>1, <2>4, CopyOther DEF Actors, TypeOK
  <2>. QED
    BY <2>2, <2>3, <2>4
<1>7. ASSUME NEW a \in Actors, Finalize(a) PROVE CopyInv'
  <2>1. UNCHANGED <<row, identified, log, raced>>
    BY <1>7 DEF Finalize, Refresh, Count, Complete, rows
  <2>2. Resume(a) \/ (UNCHANGED job /\ \E w \in {"count", "complete"} : GoTo(a, w))
    BY <1>7 DEF Finalize, Refresh, Count, Complete
  <2>. QED
    BY <1>1, <1>2, <2>1, <2>2, CopyOther DEF TypeOK
<1>. QED
  BY <1>3, <1>4, <1>5, <1>6, <1>7, CopySender, CopyApply, CopyMatch DEF vars, inbox, rows, actors,
     Next, SenderStep, HandlerStep, Deliver, Sweep, Actors

\* With any number of handlers, a row stands at or above every report that
\* was logged for it unless a handler wrote it on an outdated copy.
THEOREM OnlyRacesLoseReports == Spec => []RowCoversLog
<1>1. Init => CopyInv
  BY ReportsAssumption DEF Init, CopyInv, RowCoversLog, Actors
<1>2. CopyInv => RowCoversLog
  BY DEF CopyInv
<1>. QED
  BY <1>1, <1>2, CopyStep, TypeCorrect, PTL DEF Spec
=============================================================================
