--------------------------- MODULE InvoicePayments ---------------------------
(***************************************************************************)
(* Collecting one issued invoice (billing.payments, billing.tasks,         *)
(* billing.webhooks): the daily sweep charges it through the provider,     *)
(* the provider's notifications are stored, queued and applied by other    *)
(* workers, and an operator may void it.                                   *)
(*                                                                         *)
(* A collection is one database transaction around the provider call.      *)
(* From the insert of its payment row to its commit it keeps everybody     *)
(* else from inserting the same attempt and from locking the invoice       *)
(* (`lock`); plain updates pass until it locks the row itself, in the last *)
(* step.  What a sweep knows of the invoice is the copy it listed.         *)
(*                                                                         *)
(* Money is counted in whole invoices: an amount due is the total, because *)
(* nothing credits a part of it, or nothing at all for a free invoice.     *)
(***************************************************************************)
EXTENDS Naturals, Sequences

CONSTANTS
  Collectors,   \* workers running collect_due_invoices
  Handlers,     \* workers running process_payment_webhook
  Operators,    \* people voiding the invoice
  Free,         \* values for "the plan's price is zero"
  MaxAttempts,  \* bound on payment attempts
  Kinds,        \* notifications the provider sends
  Faults,       \* disturbances that may happen
  MaxFaults,    \* how many of them (bound)
  Nobody        \* no lock holder

Attempts   == 1..MaxAttempts
EventKinds == {"succeeded", "failed", "refunded"}
FaultKinds == {"sweepLost", "handlerLost", "answerLost", "broker", "exception"}
Actors     == Collectors \union Handlers \union Operators

ASSUME PaymentsAssumption ==
  /\ Collectors \intersect Handlers = {}
  /\ Collectors \intersect Operators = {}
  /\ Handlers \intersect Operators = {}
  /\ Nobody \notin Actors
  /\ Free \subseteq BOOLEAN
  /\ MaxAttempts \in Nat
  /\ Kinds \subseteq EventKinds
  /\ Faults \subseteq FaultKinds
  /\ MaxFaults \in Nat

VARIABLES
  invoice,       \* Invoice: status, whole totals paid, whether it is free
  payment,       \* Payment.status per attempt, "none" without a row
  subscription,  \* Subscription.status
  charge,        \* provider: what became of each idempotency key
  notice,        \* PaymentWebhookEvent.status per attempt and kind
  queue,         \* broker: queued process_payment_webhook tasks, in order
  lock,          \* who keeps the invoice row locked
  at, job,       \* where each actor is, and what it remembers
  credits,       \* history: how often each attempt was credited
  ledger,        \* history: credits and refunds applied one at a time
  undue,         \* history: attempts charged when nothing was due any more
  faults         \* disturbances so far

vars == <<invoice, payment, subscription, charge, notice, queue, lock, at, job,
          credits, ledger, undue, faults>>
books  == <<invoice, payment, subscription, credits, ledger>>
bank   == <<charge, undue>>
inbox  == <<notice, queue>>
actors == <<at, job>>

Notices == Attempts \X EventKinds

NoJob == [status |-> "open", paid |-> 0, subscription |-> "active", attempt |-> 0, kind |-> "succeeded"]

Init ==
  /\ \E f \in Free : invoice = [status |-> "open", paid |-> 0, free |-> f]
  /\ payment = [n \in Attempts |-> "none"]
  /\ subscription \in {"active", "past_due"}
  /\ charge = [n \in Attempts |-> "none"]
  /\ notice = [e \in Notices |-> "none"]
  /\ queue = <<>>
  /\ lock = Nobody
  /\ at = [a \in Actors |-> "idle"]
  /\ job = [a \in Actors |-> NoJob]
  /\ credits = [n \in Attempts |-> 0]
  /\ ledger = 0
  /\ undue = {}
  /\ faults = 0

Disturb(kind) ==
  /\ kind \in Faults
  /\ faults < MaxFaults
  /\ faults' = faults + 1

GoTo(a, where) == at' = [at EXCEPT ![a] = where]

\* Invoice.is_settled
Settled(paid) == invoice.free \/ paid >= 1

\* Paying clears a past-due subscription.
Cleared(status) == IF status = "past_due" THEN "active" ELSE status

\* A refund takes off what is there, never more.
LessOne(paid) == IF paid = 0 THEN 0 ELSE paid - 1

-----------------------------------------------------------------------------
(* collect_due_invoices and collect                                        *)

\* The sweep lists open invoices that are due.
List(c) ==
  /\ at[c] = "idle"
  /\ invoice.status = "open"
  /\ job' = [job EXCEPT ![c] = [NoJob EXCEPT !.status = invoice.status, !.paid = invoice.paid,
                                             !.subscription = subscription]]
  /\ GoTo(c, "collect")
  /\ UNCHANGED <<books, bank, inbox, lock, faults>>

\* The copy is open but has nothing due: it is written back as paid, and so
\* is the copy of its subscription.
MarkSettled(c) ==
  /\ at[c] = "collect"
  /\ Settled(job[c].paid)
  /\ lock \notin Handlers
  /\ invoice' = [invoice EXCEPT !.status = "paid"]
  /\ subscription' = IF job[c].subscription = "past_due" THEN "active" ELSE subscription
  /\ GoTo(c, "idle")
  /\ UNCHANGED <<payment, credits, ledger, bank, inbox, lock, job, faults>>

Rows == {n \in Attempts : payment[n] # "none"}

\* Faulty: every try has a number of its own.
NumberAnew(c) ==
  /\ at[c] = "collect"
  /\ ~ Settled(job[c].paid)
  /\ \E n \in Attempts :
       /\ {m \in Attempts : charge[m] # "none"} = 1..(n - 1)
       /\ job' = [job EXCEPT ![c].attempt = n]
  /\ GoTo(c, "insert")
  /\ UNCHANGED <<books, bank, inbox, lock, faults>>

\* Faulty: the attempt number is the number of payment rows.
NumberFromZero(c) ==
  /\ at[c] = "collect"
  /\ ~ Settled(job[c].paid)
  /\ \E n \in Attempts :
       /\ Rows = 1..(n - 1)
       /\ job' = [job EXCEPT ![c].attempt = n - 1]
  /\ GoTo(c, "insert")
  /\ UNCHANGED <<books, bank, inbox, lock, faults>>

\* The attempt number is the number of payment rows plus one.
NumberAttempt(c) ==
  /\ at[c] = "collect"
  /\ ~ Settled(job[c].paid)
  /\ \E n \in Attempts :
       /\ Rows = 1..(n - 1)
       /\ job' = [job EXCEPT ![c].attempt = n]
  /\ GoTo(c, "insert")
  /\ UNCHANGED <<books, bank, inbox, lock, faults>>

\* The payment row is inserted, unless its idempotency key exists by now.
InsertPayment(c) ==
  /\ at[c] = "insert"
  /\ lock = Nobody
  /\ IF payment[job[c].attempt] # "none"
     THEN GoTo(c, "idle") /\ UNCHANGED lock
     ELSE GoTo(c, "charge") /\ lock' = c
  /\ UNCHANGED <<books, bank, inbox, job, faults>>

\* The provider acts once per key.  What the sweep asks for may have been
\* settled since it listed the invoice.
ProviderCharges(n) ==
  IF charge[n] = "none"
  THEN /\ \E outcome \in {"taken", "declined"} : charge' = [charge EXCEPT ![n] = outcome]
       /\ undue' = IF Settled(invoice.paid) THEN undue \union {n} ELSE undue
  ELSE UNCHANGED bank

Charge(c) ==
  /\ at[c] = "charge"
  /\ ProviderCharges(job[c].attempt)
  /\ GoTo(c, "record")
  /\ UNCHANGED <<books, inbox, lock, job, faults>>

\* The invoice as apply_payment leaves it: `paid` plus one total, and paid if
\* that settles an open invoice.
Credited(status, paid) ==
  [invoice EXCEPT !.paid = paid + 1, !.status = IF status = "open" THEN "paid" ELSE status]

\* The outcome, the credit (apply_payment reads the row again, locked) and the
\* subscription are committed together.
Record(c) ==
  LET n == job[c].attempt IN
  /\ at[c] = "record"
  /\ IF charge[n] = "taken"
     THEN /\ payment' = [payment EXCEPT ![n] = "succeeded"]
          /\ invoice' = Credited(invoice.status, invoice.paid)
          /\ credits' = [credits EXCEPT ![n] = @ + 1]
          /\ ledger' = ledger + 1
          /\ subscription' = IF invoice.status = "open" THEN Cleared(subscription) ELSE subscription
     ELSE /\ payment' = [payment EXCEPT ![n] = "failed"]
          /\ UNCHANGED <<invoice, credits, ledger, subscription>>
  /\ lock' = Nobody
  /\ GoTo(c, "idle")
  /\ UNCHANGED <<bank, inbox, job, faults>>

\* The provider call raises, though the provider may have acted: everything
\* is rolled back and the sweep goes on.
LoseAnswer(c) ==
  /\ at[c] = "charge"
  /\ Disturb("answerLost")
  /\ ProviderCharges(job[c].attempt)
  /\ lock' = Nobody
  /\ GoTo(c, "idle")
  /\ UNCHANGED <<books, inbox, job>>

\* The worker is lost: its transaction is rolled back.
CrashCollector(c) ==
  /\ at[c] # "idle"
  /\ Disturb("sweepLost")
  /\ lock' = IF lock = c THEN Nobody ELSE lock
  /\ GoTo(c, "idle")
  /\ UNCHANGED <<books, bank, inbox, job>>

CollectorStep(c) ==
  List(c) \/ MarkSettled(c) \/ NumberAttempt(c) \/ InsertPayment(c) \/ Charge(c) \/ Record(c)

-----------------------------------------------------------------------------
(* PaymentWebhookView                                                      *)

Stored(n, k) == notice[<<n, k>>] # "none"

\* What the provider has to tell: a charge was declined; it was taken; what
\* was taken was refunded, or failed after all.
Reportable(n, k) ==
  /\ k \in Kinds
  /\ CASE k = "succeeded" -> charge[n] = "taken"
       [] k = "refunded"  -> Stored(n, "succeeded") /\ ~ Stored(n, "failed")
       [] k = "failed"    -> charge[n] = "declined" \/ (Stored(n, "succeeded") /\ ~ Stored(n, "refunded"))

\* A notification is stored under its unique id, then queued.  If queueing
\* fails the provider is answered with an error.  Any later delivery meets
\* the unique id and is dropped, so it changes nothing.
Deliver(n, k) ==
  /\ Reportable(n, k)
  /\ ~ Stored(n, k)
  /\ notice' = [notice EXCEPT ![<<n, k>>] = "received"]
  /\ \/ queue' = Append(queue, <<n, k>>) /\ UNCHANGED faults
     \/ Disturb("broker") /\ UNCHANGED queue
  /\ UNCHANGED <<books, bank, lock, actors>>

-----------------------------------------------------------------------------
(* process_payment_webhook and apply_event                                 *)

Notice(h) == <<job[h].attempt, job[h].kind>>

Take(h) ==
  /\ at[h] = "idle"
  /\ queue # <<>>
  /\ queue' = Tail(queue)
  /\ IF notice[Head(queue)] = "processed"
     THEN UNCHANGED actors
     ELSE /\ job' = [job EXCEPT ![h] = [NoJob EXCEPT !.attempt = Head(queue)[1], !.kind = Head(queue)[2]]]
          /\ GoTo(h, "find")
  /\ UNCHANGED <<books, bank, notice, lock, faults>>

\* Only a charge that was taken left its reference on its payment row.
Matched(n) == payment[n] # "none" /\ charge[n] = "taken"

Finish(h, status) ==
  /\ notice' = [notice EXCEPT ![Notice(h)] = status]
  /\ GoTo(h, "idle")

\* Faulty: the invoice is read without its lock.
FindUnlocked(h) ==
  LET n == job[h].attempt IN
  /\ at[h] = "find"
  /\ IF Matched(n) /\ payment[n] # job[h].kind
     THEN /\ GoTo(h, "apply")
          /\ job' = [job EXCEPT ![h].status = invoice.status, ![h].paid = invoice.paid]
     ELSE GoTo(h, "ignore") /\ UNCHANGED job
  /\ UNCHANGED <<books, bank, inbox, lock, faults>>

\* Faulty: a payment already in the reported state is taken again.
FindAgain(h) ==
  /\ at[h] = "find"
  /\ IF Matched(job[h].attempt)
     THEN /\ lock = Nobody
          /\ GoTo(h, "apply")
          /\ lock' = h
          /\ job' = [job EXCEPT ![h].status = invoice.status, ![h].paid = invoice.paid]
     ELSE GoTo(h, "ignore") /\ UNCHANGED <<lock, job>>
  /\ UNCHANGED <<books, bank, inbox, faults>>

\* The payment is looked up by the provider's reference; the payment row and
\* its invoice are locked and read.  A payment already in the reported state
\* stays as it is.
Find(h) ==
  LET n == job[h].attempt IN
  /\ at[h] = "find"
  /\ IF Matched(n)
     THEN /\ lock = Nobody
          /\ IF payment[n] = job[h].kind
             THEN GoTo(h, "ignore") /\ UNCHANGED <<lock, job>>
             ELSE /\ GoTo(h, "apply")
                  /\ lock' = h
                  /\ job' = [job EXCEPT ![h].status = invoice.status, ![h].paid = invoice.paid]
     ELSE GoTo(h, "ignore") /\ UNCHANGED <<lock, job>>
  /\ UNCHANGED <<books, bank, inbox, faults>>

\* Faulty: a refund leaves the invoice's status alone, and a success marks
\* it paid whatever it was.
ApplyWithoutReopening(h) ==
  LET n    == job[h].attempt
      kind == job[h].kind
  IN
  /\ at[h] = "apply"
  /\ payment' = [payment EXCEPT ![n] = kind]
  /\ \/ kind = "succeeded" /\ invoice' = Credited("open", job[h].paid)
        /\ credits' = [credits EXCEPT ![n] = @ + 1] /\ ledger' = ledger + 1
     \/ kind = "refunded" /\ invoice' = [invoice EXCEPT !.paid = LessOne(job[h].paid)]
        /\ ledger' = LessOne(ledger) /\ UNCHANGED credits
  /\ lock' = Nobody
  /\ GoTo(h, "processed")
  /\ UNCHANGED <<subscription, bank, inbox, job, faults>>

\* The payment takes the reported state.  A success is credited, a failure
\* makes the subscription past due, a refund is taken off and reopens the
\* invoice if it is no longer settled.
Apply(h) ==
  LET n    == job[h].attempt
      kind == job[h].kind
      left == LessOne(job[h].paid)
  IN
  /\ at[h] = "apply"
  /\ payment' = [payment EXCEPT ![n] = kind]
  /\ \/ /\ kind = "succeeded"
        /\ invoice' = Credited(job[h].status, job[h].paid)
        /\ credits' = [credits EXCEPT ![n] = @ + 1]
        /\ subscription' = IF job[h].status = "open" THEN Cleared(subscription) ELSE subscription
        /\ ledger' = ledger + 1
     \/ /\ kind = "failed"
        /\ subscription' = "past_due"
        /\ UNCHANGED <<invoice, credits, ledger>>
     \/ /\ kind = "refunded"
        /\ invoice' = [invoice EXCEPT !.paid = left,
                                      !.status = IF Settled(left) THEN job[h].status ELSE "open"]
        /\ ledger' = LessOne(ledger)
        /\ UNCHANGED <<credits, subscription>>
  /\ lock' = Nobody
  /\ GoTo(h, "processed")
  /\ UNCHANGED <<bank, inbox, job, faults>>

\* The event's own row is written after apply_event has committed.
Close(h) ==
  /\ \/ at[h] = "processed" /\ Finish(h, "processed")
     \/ at[h] = "ignore" /\ Finish(h, "ignored")
  /\ UNCHANGED <<books, bank, queue, lock, job, faults>>

\* Reading the event raises: its transaction is rolled back, it is FAILED.
Break(h) ==
  /\ at[h] \in {"find", "apply"}
  /\ Disturb("exception")
  /\ Finish(h, "failed")
  /\ lock' = IF lock = h THEN Nobody ELSE lock
  /\ UNCHANGED <<books, bank, queue, job>>

\* The worker is lost; its task was not acknowledged and comes back.
CrashHandler(h) ==
  /\ at[h] # "idle"
  /\ Disturb("handlerLost")
  /\ queue' = Append(queue, Notice(h))
  /\ lock' = IF lock = h THEN Nobody ELSE lock
  /\ GoTo(h, "idle")
  /\ UNCHANGED <<books, bank, notice, job>>

HandlerStep(h) == Take(h) \/ Find(h) \/ Apply(h) \/ Close(h)

-----------------------------------------------------------------------------
(* void                                                                    *)

\* An operator looks at the invoice.
OpenToVoid(o) ==
  /\ at[o] = "idle"
  /\ job' = [job EXCEPT ![o].status = invoice.status]
  /\ GoTo(o, "void")
  /\ UNCHANGED <<books, bank, inbox, lock, faults>>

\* A copy that says paid is refused; any other is written back as void.
Void(o) ==
  /\ at[o] = "void"
  /\ GoTo(o, "done")
  /\ IF job[o].status = "paid"
     THEN UNCHANGED invoice
     ELSE lock \notin Handlers /\ invoice' = [invoice EXCEPT !.status = "void"]
  /\ UNCHANGED <<payment, subscription, credits, ledger, bank, inbox, lock, job, faults>>

-----------------------------------------------------------------------------

Next ==
  \/ \E c \in Collectors : CollectorStep(c) \/ LoseAnswer(c) \/ CrashCollector(c)
  \/ \E n \in Attempts, k \in EventKinds : Deliver(n, k)
  \/ \E h \in Handlers : HandlerStep(h) \/ Break(h) \/ CrashHandler(h)
  \/ \E o \in Operators : OpenToVoid(o) \/ Void(o)

Spec == Init /\ [][Next]_vars

\* The sweep runs every day and the workers keep working; nobody has to void
\* anything, and the provider need not notify.
FairSpec ==
  /\ Spec
  /\ \A c \in Collectors : WF_vars(CollectorStep(c))
  /\ \A h \in Handlers : WF_vars(HandlerStep(h))

-----------------------------------------------------------------------------
(* Properties.                                                             *)

CollectorAt == {"idle", "collect", "insert", "charge", "record"}
HandlerAt   == {"idle", "find", "apply", "processed", "ignore"}
OperatorAt  == {"idle", "void", "done"}

InvoiceStatus == {"open", "paid", "void"}

Jobs == [status : InvoiceStatus, paid : Nat, subscription : {"active", "past_due"},
         attempt : Attempts \union {0}, kind : EventKinds]

\* Every variable has its type, and whoever is past choosing an attempt has
\* one.
TypeOK ==
  /\ invoice \in [status : InvoiceStatus, paid : Nat, free : BOOLEAN]
  /\ payment \in [Attempts -> {"none", "succeeded", "failed", "refunded"}]
  /\ subscription \in {"active", "past_due"}
  /\ charge \in [Attempts -> {"none", "taken", "declined"}]
  /\ notice \in [Notices -> {"none", "received", "processed", "ignored", "failed"}]
  /\ queue \in Seq(Notices)
  /\ lock \in Actors \union {Nobody}
  /\ at \in [Actors -> CollectorAt \union HandlerAt \union OperatorAt]
  /\ job \in [Actors -> Jobs]
  /\ credits \in [Attempts -> Nat]
  /\ ledger \in Nat
  /\ undue \subseteq Attempts
  /\ faults \in Nat
  /\ \A c \in Collectors : at[c] \in CollectorAt /\ (at[c] \in {"insert", "charge", "record"} => job[c].attempt # 0)
  /\ \A h \in Handlers : at[h] \in HandlerAt /\ (at[h] # "idle" => job[h].attempt # 0)
  /\ \A o \in Operators : at[o] \in OperatorAt

\* What the lock is for: the amount paid is what the credits and refunds give
\* when they are applied one at a time, however the workers interleave.
BooksBalance == invoice.paid = ledger

\* A paid invoice is paid for: a refund that leaves something due reopens it.
PaidIsSettled == invoice.status = "paid" => Settled(invoice.paid)

\* No refund is cut short by the floor at zero: what is refunded had been
\* credited.
RefundIsCovered ==
  \A h \in Handlers : at[h] = "apply" /\ job[h].kind = "refunded" => job[h].paid > 0

\* One customer pays once, because a retry of an attempt uses the attempt's
\* key and a refund is taken off before more is asked for: whatever was lost,
\* tried again or delivered late, no two charges stand, unless one was asked
\* for on a copy that others had settled since, or a success was credited
\* again after its refund.
ChargedOnce ==
  \A m, n \in Attempts :
    charge[m] = "taken" /\ charge[n] = "taken" /\ m # n =>
      \/ "refunded" \in {payment[m], payment[n]}
      \/ {m, n} \intersect undue # {}
      \/ credits[m] > 1 \/ credits[n] > 1

\* A charge that was taken is recorded, even if its answer or its worker was
\* lost.
TakenIsRecorded == \A n \in Attempts : charge[n] = "taken" ~> payment[n] # "none"

-----------------------------------------------------------------------------
(* Statements of the documentation that the code does not keep.            *)

\* billing/tasks.py:74, a sweep that runs twice in a minute "does nothing the
\* second time": no two charges stand.
NeverChargedTwice ==
  \A m, n \in Attempts :
    charge[m] = "taken" /\ charge[n] = "taken" /\ m # n => "refunded" \in {payment[m], payment[n]}

\* "A replay credits once."
CreditedOnce == \A n \in Attempts : credits[n] <= 1

\* "Persist first, answer 200, process afterwards."
StoredIsProcessed ==
  \A e \in Notices : notice[e] = "received" ~> notice[e] # "received"

\* "A failed payment makes a subscription past-due."
DeclineIsPastDue ==
  (\E n \in Attempts : notice[<<n, "failed">>] \in {"processed", "ignored"} /\ \A m \in Attempts : credits[m] = 0)
    => subscription = "past_due"

\* "Invoice is paid; refund it rather than voiding it."
PaidIsNotVoided == [][invoice.status = "paid" => invoice'.status # "void"]_vars

=============================================================================
