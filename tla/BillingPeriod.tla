---------------------------- MODULE BillingPeriod ----------------------------
(***************************************************************************)
(* The billing period of one subscription (billing.usage.close_period,     *)
(* billing.tasks.roll_billing_periods): an hourly sweep closes periods     *)
(* that have run out, bills each and opens the next, while billing         *)
(* administrators change the plan, cancel and resume, and payments make    *)
(* the subscription past due and clear it.                                 *)
(*                                                                         *)
(* Nothing locks the subscription's row.  The sweep and every request work *)
(* on the copy they loaded and save some of its columns; closing a period  *)
(* is four transactions: the snapshot, the draft invoice, its issue and    *)
(* the roll.                                                               *)
(*                                                                         *)
(* Time is counted in months; a period is named by the month it starts in. *)
(***************************************************************************)
EXTENDS Naturals

CONSTANTS
  Sweeps,      \* workers running roll_billing_periods
  Requests,    \* web requests and payments touching the subscription
  Ops,         \* what they may do
  Plans,
  NoPlan,
  Priced,      \* plans with a price
  Length,      \* months in a plan's interval
  MaxCatchUp,  \* MAX_CATCH_UP_PERIODS
  MaxNow,      \* last month modelled (bound)
  Faults,      \* disturbances that may happen
  MaxFaults    \* how many of them (bound)

Months     == 0..MaxNow
RequestOps == {"change", "cancel", "resume", "decline", "settle"}
FaultKinds == {"sweepLost", "invoiceFails"}

ASSUME PeriodAssumption ==
  /\ NoPlan \notin Plans
  /\ Plans # {}
  /\ Priced \subseteq Plans
  /\ Length \in [Plans -> Nat \ {0}]
  /\ MaxCatchUp \in Nat \ {0}
  /\ MaxNow \in Nat
  /\ Ops \subseteq RequestOps
  /\ Faults \subseteq FaultKinds
  /\ MaxFaults \in Nat

VARIABLES
  now,       \* the current month
  sub,       \* the Subscription row
  snapshot,  \* UsageSnapshot per period start: plan and end, NoPlan without a row
  invoice,   \* Invoice per period start: status and plan
  at, job,   \* where each sweep is; its copy of the row, its clock, its periods
  request,   \* each request's stage, operation and copy of the row
  faults,    \* disturbances so far
  unbilled   \* history: periods whose invoicing failed

vars   == <<now, sub, snapshot, invoice, at, job, request, faults, unbilled>>
actors == <<at, job, request>>

Entitled == {"trialing", "active", "past_due"}
Status   == Entitled \union {"canceled"}

NoRow == [status |-> "active", start |-> 0, end |-> 1, cancel |-> FALSE,
          plan |-> CHOOSE p \in Plans : TRUE]

\* A request that holds no copy of the row.
Unloaded(stage) == [stage |-> stage, op |-> "cancel", row |-> NoRow]

\* subscribe() starts the first period, on trial or not.
Init ==
  /\ now = 0
  /\ \E p \in Plans, s \in {"trialing", "active"} :
       sub = [status |-> s, start |-> 0, end |-> Length[p], cancel |-> FALSE, plan |-> p]
  /\ snapshot = [m \in Months |-> [plan |-> NoPlan, end |-> 0]]
  /\ invoice = [m \in Months |-> [status |-> "none", plan |-> NoPlan]]
  /\ at = [w \in Sweeps |-> "idle"]
  /\ job = [w \in Sweeps |-> [row |-> sub, now |-> 0, rolled |-> 0]]
  /\ request = [r \in Requests |-> Unloaded("new")]
  /\ faults = 0
  /\ unbilled = {}

Disturb(kind) ==
  /\ kind \in Faults
  /\ faults < MaxFaults
  /\ faults' = faults + 1

GoTo(w, where) == at' = [at EXCEPT ![w] = where]

Closed(p) == snapshot[p].plan # NoPlan

Tick ==
  /\ now < MaxNow
  /\ now' = now + 1
  /\ UNCHANGED <<sub, snapshot, invoice, actors, faults, unbilled>>

-----------------------------------------------------------------------------
(* roll_billing_periods and close_period                                   *)

\* Faulty: past-due and trialing subscriptions are passed over.
DueActive(w) ==
  /\ at[w] = "idle"
  /\ sub.end <= now
  /\ sub.status = "active"
  /\ job' = [job EXCEPT ![w] = [row |-> sub, now |-> now, rolled |-> 0]]
  /\ GoTo(w, "close")
  /\ UNCHANGED <<now, sub, snapshot, invoice, request, faults, unbilled>>

\* Faulty: the period is asked when it started.
DueEarly(w) ==
  /\ at[w] = "idle"
  /\ sub.start <= now
  /\ sub.status # "canceled"
  /\ job' = [job EXCEPT ![w] = [row |-> sub, now |-> now, rolled |-> 0]]
  /\ GoTo(w, "close")
  /\ UNCHANGED <<now, sub, snapshot, invoice, request, faults, unbilled>>

\* due_for_renewal: the period has run out and the row is not canceled.
Due(w) ==
  /\ at[w] = "idle"
  /\ sub.end <= now
  /\ sub.status # "canceled"
  /\ job' = [job EXCEPT ![w] = [row |-> sub, now |-> now, rolled |-> 0]]
  /\ GoTo(w, "close")
  /\ UNCHANGED <<now, sub, snapshot, invoice, request, faults, unbilled>>

\* The snapshot of the copy's period, unless there is one.
Snapshot(w) ==
  LET row == job[w].row IN
  /\ at[w] = "close"
  /\ snapshot' = IF Closed(row.start) THEN snapshot
                 ELSE [snapshot EXCEPT ![row.start] = [plan |-> row.plan, end |-> row.end]]
  /\ GoTo(w, "invoice")
  /\ UNCHANGED <<now, sub, invoice, job, request, faults, unbilled>>

\* Faulty: an invoice that exists is taken for an issued one.
GenerateReusing(w) ==
  LET row == job[w].row IN
  /\ at[w] = "invoice"
  /\ IF row.plan \notin Priced \/ invoice[row.start].status # "none"
     THEN GoTo(w, "roll") /\ UNCHANGED invoice
     ELSE /\ invoice' = [invoice EXCEPT ![row.start] = [status |-> "draft", plan |-> row.plan]]
          /\ GoTo(w, "issue")
  /\ UNCHANGED <<now, sub, snapshot, job, request, faults, unbilled>>

\* A draft for the period on the copy's plan, or the invoice that exists; none
\* for a plan without a price.
Generate(w) ==
  LET row == job[w].row IN
  /\ at[w] = "invoice"
  /\ IF row.plan \notin Priced \/ invoice[row.start].status = "open"
     THEN GoTo(w, "roll") /\ UNCHANGED invoice
     ELSE /\ invoice' = IF invoice[row.start].status = "draft" THEN invoice
                        ELSE [invoice EXCEPT ![row.start] = [status |-> "draft", plan |-> row.plan]]
          /\ GoTo(w, "issue")
  /\ UNCHANGED <<now, sub, snapshot, job, request, faults, unbilled>>

Issue(w) ==
  /\ at[w] = "issue"
  /\ invoice' = [invoice EXCEPT ![job[w].row.start].status = "open"]
  /\ GoTo(w, "roll")
  /\ UNCHANGED <<now, sub, snapshot, job, request, faults, unbilled>>

\* An error while invoicing is logged; the period rolls all the same.
InvoicingFails(w) ==
  /\ at[w] \in {"invoice", "issue"}
  /\ Disturb("invoiceFails")
  /\ unbilled' = unbilled \union {job[w].row.start}
  /\ GoTo(w, "roll")
  /\ UNCHANGED <<now, sub, snapshot, invoice, job, request>>

\* Faulty: the next period starts now.
RollToNow(w) ==
  LET row == job[w].row IN
  /\ at[w] = "roll"
  /\ sub' = IF row.cancel
            THEN [sub EXCEPT !.status = "canceled"]
            ELSE [sub EXCEPT !.start = job[w].now, !.end = job[w].now + Length[row.plan]]
  /\ job' = [job EXCEPT ![w].rolled = @ + 1]
  /\ GoTo(w, "reload")
  /\ UNCHANGED <<now, snapshot, invoice, request, faults, unbilled>>

\* A pending cancellation takes effect; otherwise the next period starts where
\* the copy's ended, and a trial is over.  The status saved is the copy's.
Roll(w) ==
  LET row == job[w].row IN
  /\ at[w] = "roll"
  /\ sub' = IF row.cancel
            THEN [sub EXCEPT !.status = "canceled"]
            ELSE [sub EXCEPT !.start = row.end, !.end = row.end + Length[row.plan],
                             !.status = IF row.status = "trialing" THEN "active" ELSE row.status]
  /\ job' = [job EXCEPT ![w].rolled = @ + 1]
  /\ GoTo(w, "reload")
  /\ UNCHANGED <<now, snapshot, invoice, request, faults, unbilled>>

\* The copy is refreshed; the sweep goes on while periods have run out by its
\* own clock, unless the row is no longer entitled.
Reload(w) ==
  /\ at[w] = "reload"
  /\ job' = [job EXCEPT ![w].row = sub]
  /\ GoTo(w, IF sub.status \in Entitled /\ sub.end <= job[w].now /\ job[w].rolled < MaxCatchUp
             THEN "close" ELSE "idle")
  /\ UNCHANGED <<now, sub, snapshot, invoice, request, faults, unbilled>>

\* The worker is lost; the next sweep starts over.
LoseSweep(w) ==
  /\ at[w] # "idle"
  /\ Disturb("sweepLost")
  /\ GoTo(w, "idle")
  /\ UNCHANGED <<now, sub, snapshot, invoice, job, request, unbilled>>

SweepStep(w) == Due(w) \/ Snapshot(w) \/ Generate(w) \/ Issue(w) \/ Roll(w) \/ Reload(w)

-----------------------------------------------------------------------------
(* Requests and payments                                                   *)

Load(r, op) ==
  /\ request[r].stage = "new"
  /\ request' = [request EXCEPT ![r] = [stage |-> "loaded", op |-> op, row |-> sub]]
  /\ UNCHANGED <<now, sub, snapshot, invoice, at, job, faults, unbilled>>

\* Faulty: the whole copy is saved.
ChangePlanSavingAll(row) ==
  \E p \in Plans : sub' = [row EXCEPT !.plan = p, !.cancel = FALSE]

\* change_plan saves the plan, the copy's status and no pending cancellation;
\* the period is not restarted.
ChangePlan(row) ==
  \E p \in Plans : sub' = IF p = row.plan THEN sub
                          ELSE [sub EXCEPT !.plan = p, !.status = row.status, !.cancel = FALSE]

\* cancel() at the end of the period.
Cancel(row) == sub' = [sub EXCEPT !.cancel = TRUE]

\* resume() asks its copy whether a cancellation is pending.
Resume(row) == sub' = IF row.cancel THEN [sub EXCEPT !.cancel = FALSE] ELSE sub

\* _mark_subscription_past_due
Decline(row) ==
  sub' = IF row.status \in {"trialing", "active"} THEN [sub EXCEPT !.status = "past_due"] ELSE sub

\* _mark_paid
Settle(row) == sub' = IF row.status = "past_due" THEN [sub EXCEPT !.status = "active"] ELSE sub

Commit(r) ==
  LET op  == request[r].op
      row == request[r].row
  IN
  /\ request[r].stage = "loaded"
  /\ \/ op = "change"  /\ ChangePlan(row)
     \/ op = "cancel"  /\ Cancel(row)
     \/ op = "resume"  /\ Resume(row)
     \/ op = "decline" /\ Decline(row)
     \/ op = "settle"  /\ Settle(row)
  /\ request' = [request EXCEPT ![r] = Unloaded("done")]
  /\ UNCHANGED <<now, snapshot, invoice, at, job, faults, unbilled>>

-----------------------------------------------------------------------------

Next ==
  \/ Tick
  \/ \E w \in Sweeps : SweepStep(w) \/ InvoicingFails(w) \/ LoseSweep(w)
  \/ \E r \in Requests : Commit(r) \/ \E op \in Ops : Load(r, op)

Spec == Init /\ [][Next]_vars

\* The sweep runs every hour.
FairSpec == Spec /\ \A w \in Sweeps : WF_vars(SweepStep(w))

-----------------------------------------------------------------------------
(* Properties.                                                             *)

Rows == [status : Status, start : Months, end : Nat, cancel : BOOLEAN, plan : Plans]

\* Every variable has its type.
TypeOK ==
  /\ now \in Months
  /\ sub \in Rows
  /\ snapshot \in [Months -> [plan : Plans \union {NoPlan}, end : Nat]]
  /\ invoice \in [Months -> [status : {"none", "draft", "open"}, plan : Plans \union {NoPlan}]]
  /\ at \in [Sweeps -> {"idle", "close", "invoice", "issue", "roll", "reload"}]
  /\ job \in [Sweeps -> [row : Rows, now : Months, rolled : Nat]]
  /\ request \in [Requests -> [stage : {"new", "loaded", "done"}, op : RequestOps, row : Rows]]
  /\ faults \in Nat
  /\ unbilled \subseteq Months

Covers(p, m) == Closed(p) /\ p <= m /\ m < snapshot[p].end

\* The closed periods tile the time before the current one: no month is
\* skipped, however late the sweep runs, and none is closed, and billed,
\* twice, whatever is retried and whatever changes meanwhile.
ClosedPeriodsTile ==
  /\ \A m \in Months : m < sub.start => \E p \in Months : Covers(p, m)
  /\ \A p, q \in Months : Closed(p) /\ Closed(q) /\ p < q => snapshot[p].end <= q

\* A period is billed before it is moved on from, also when a sweep was lost
\* halfway through closing it, unless invoicing it raised an error (all plans
\* have a price).
BilledBeforeRolled ==
  \A p \in Months :
    Closed(p) /\ p < sub.start => invoice[p].status = "open" \/ p \in unbilled

\* "The period is not restarted": no request, and no sweep that is late or
\* comes again, moves the period back.
PeriodsAdvance == [][sub'.start >= sub.start]_vars

\* A period that has run out is closed: the quota of a customer who pays, or
\* owes, resets.
PeriodsCatchUp ==
  sub.end <= now /\ sub.status # "canceled" ~> sub.end > now \/ sub.status = "canceled"

-----------------------------------------------------------------------------
(* Statements of the documentation that the code does not keep.            *)

\* "This is the record an invoice is written against."
InvoiceFollowsSnapshot ==
  \A p \in Months : invoice[p].status # "none" => invoice[p].plan = snapshot[p].plan

\* "Your subscription will continue."
ResumedContinues ==
  [][\A r \in Requests :
       request[r].op = "resume" /\ request[r].row.cancel /\ request[r].stage = "loaded"
       /\ request'[r].stage = "done" => sub'.status # "canceled"]_vars

\* "Your subscription will end on" the end of the period it is in.
CancelEndsThePeriod ==
  [][sub.cancel /\ sub'.cancel => sub'.start = sub.start]_vars

=============================================================================
