# A verification project for ReachBuzz

ReachBuzz sends bulk WhatsApp and SMS campaigns: a Django application (web
requests), Celery workers behind a Redis broker, a Postgres database, and the
Meta Graph API, an SMS gateway and a payment provider outside. These TLA+
modules model its own control logic, TLC checks them on small instances and
TLAPS proves the theorems for every instance. Paths are relative to the
repository root.

## Inventory

| Component | State it keeps | Operations | What is hard |
|---|---|---|---|
| Campaign lifecycle (`campaigns/services.py`, `models.py`, `api_views.py`, `views.py`, `dispatch.py`) | `Campaign.status`, schedule, audience | create, edit, schedule, launch, pause, resume, cancel, delete, finalize | views load the campaign without a lock, services write the copy back |
| Send workers (`whatsapp/tasks.py`, `messaging/services.py`) | `Message.status`, `attempt_count`, the broker's tasks | dispatch, claim, send, retry, record, finalize | duplicated tasks, worker loss, retries, pause, resume and cancel under way |
| Delivery reports (`whatsapp/webhooks.py`, `whatsapp/services/inbound.py`, `messaging/services.py`) | `WebhookEvent`, `MessageStatusEvent`, `Message.status` | store, queue, process, sweep, apply a report | duplicates, reordering, two reports at once, a report before its id is stored |
| Rate limiter (`whatsapp/services/rate_limiter.py`) | one token bucket in Redis | acquire | clocks of several callers, expiry |
| Routing and adapters (`messaging/routing.py`, `whatsapp/services/*`, `sms/providers/*`) | none | send, preflight | which failures are retried, missing senders |
| Accounts and templates (`whatsapp/accounts.py`, `whatsapp/services/templates.py`, `campaigns/variables.py`) | sending accounts, mirrored templates, a campaign's mapping | save an account, sync, edit, map, launch, send | each is a request of its own, and the send reads what the database holds by then |
| Usage and plans (`billing/usage.py`, `billing/services.py`, `billing/models.py`) | subscription, period, snapshots | check quota, subscribe, change plan, cancel, close period | check-then-act, renewals against requests |
| Invoices and payments (`billing/payments.py`, `billing/invoicing.py`, `billing/tasks.py`, `billing/webhooks.py`) | invoice, payment, payment event | number, generate, issue, collect, void, apply event, edit in the admin | events early, late and twice, retries of a charge, gapless numbers under rollbacks |
| Memberships (`organizations/invitations.py`) | membership, invitation | invite, revoke, accept, remove, change plan | seat limit, last owner, links that are acted on twice |
| Contacts and consent (`contacts/services.py`, `contacts/models.py`, `contacts/importers.py`) | contact, consent per channel, groups | create, update, group, opt in/out, STOP, import | full-row saves over consent, rows that collide |
| Notifications (`core/notifications.py`) | `NotificationLog` | notify one, notify an organization | deduplication, rows rolled back after the mail went |
| Sign-in (`accounts/throttling.py`, `accounts/registration.py`) | counters in the cache, users | record failure, lock out, register | counter expiry |
| Dashboard and reports (`dashboard/*`) | none of their own | pages and files read in several queries | rows move, and midnight passes, between two queries |
| Back office, pages, utilities | none of their own | counts, rendering | nothing TLC could add |

Components interact through the database and the broker only: a launch
transaction ends with a dispatch task, the dispatch task creates send tasks,
the send tasks and the webhook tasks write the same `Message` rows, launches
read the usage of the billing period, the beat process runs due campaigns,
closes periods and chases invoices, and inbound STOP messages change consent.
There is no `ATOMIC_REQUESTS`; services open their own transactions and, except
in `billing/payments.py`, never lock a row.

The modules and what composes them:

| Run's module | Composed of | Subject |
|---|---|---|
| `MCSendPipeline` | `SendPipeline` (`CampaignStates`, `MessageStates`; refines `SendClaims`) | a launched campaign |
| `MCStatusReports` | `StatusReports` | what the provider reports of its messages |
| `MCInvoicePayments` | `InvoicePayments` | collecting one invoice |
| `MCBillingPeriod` | `BillingPeriod` | the subscription that is invoiced |
| `MCAudience` | `Audience` over `Contacts` | a draft until its message rows, beside the contacts' consent |
| `MCOffice` | `Office`: `Team`, `Doors`, `SendRate`, `Notices`, `Senders`, `Ledger`; and `Answers` | the small protocols of an installation |
| `MCFigures` | `Figures`: `Reporting`, `ImportFile` | what the application counts |

## The sending pipeline

| Module | Role |
|---|---|
| `MessageStates`, `CampaignStates` | statuses, ranks, sets and the transition table of the two models |
| `SendPipeline` | one campaign: requests, workers, rows, broker, provider |
| `SendClaims` | abstract: what the claim protocol promises about one message |
| `MCSendPipeline` | symmetry for TLC |
| `SendPipelineProofs` | the theorems |

State. `campaign` is the status column. `status` and `attempts` are the columns
of the message rows, `"absent"` before a row exists. `sends` and `dispatches`
count the tasks the broker holds; a send task is a message and Celery's
`request.retries`. Each worker has a position `pc` and a `job`: its task and the
in-memory copies (`seen`, `attempt`, whether the loaded campaign said
PROCESSING). A `request` remembers the campaign status it loaded. `calls`,
`copies` and `lost` are history: provider calls, sends the provider accepted,
and accepted sends whose answer was taken for a failure; and `overrun`, the calls
each worker has made since the campaign is halted, `mishap`, what last left a row
without a task or a dispatch to come, and `throttled`, the rows handed back
because a worker had to wait.

Atomicity. An action is one database statement, or one transaction with the
broker calls its commit triggers. `claim_for_sending` is two: the conditional
UPDATE (`Claim`) and the read that follows (`Reread`). The halted check and the
release are two (`Reread`, `ReleaseAndStop`), as are the provider call and the
record of its outcome, and finalization is three (`Refresh`, `Count`,
`Complete`). The dispatch task lists and queues in one step: what it queues
depends on the listing alone, so a claim made in between could as well have
come after. Two places join statements that nobody can act between:
`record_send_failure` writes the attempt count and then the status, while the
row is still claimed, and `schedule_retry` is followed by `task.retry`; a worker
lost exactly between these leaves the same SENDING row, or the same queued row
with its task redelivered, with the attempt already counted.

Disturbances are enumerated by `Faults` and bounded by `MaxFaults`: a worker is
lost and its unacknowledged task returns (`CELERY_TASK_ACKS_LATE`,
`CELERY_TASK_REJECT_ON_WORKER_LOST`); the broker hands out a running task again
(Redis visibility timeout); the token bucket refuses; no sender can be built; an
accepted send looks like a retryable failure; the broker refuses the dispatch or
dies halfway through the send tasks.

### Properties

* `ClaimExclusive`: never two workers between claim and outcome on one row.
* `OneCopy`, `CallsBounded`: acceptances and calls per message are bounded by
  lost answers and by the retry budget.
* `ClaimInv`: the inductive invariant behind the three above. It adds that a
  worker's copy of `attempt_count` is current while it owns the claim, that every
  call is counted before the row is free again, and that a row that may be sent
  again was never knowingly accepted.
* `ImplementsClaims`: the pipeline refines `SendClaims`.
* `PauseTakesHold`: whether a pause or a cancel commits before a worker's check
  or between its check and its call, the worker makes one more call at most for
  as long as the campaign stays halted.
* `CompletedIsSettled`: COMPLETED is written, and stays, with no row in flight.
* `StrandedHasCause`: if a PROCESSING campaign has nothing left running or queued,
  a row still in flight was left so by a worker lost with its claim, by a release
  that a resume's dispatch did not see, by a dispatch the broker refused, or by
  Celery's retries used up, and those only ever of a row that was throttled. That
  there is no such row is `NothingStranded`, which the code does not keep.
* `EveryMessageSettles`, `LaunchedCompletes`: progress.

### Runs

| Run | Instance | Shows |
|---|---|---|
| `claims` | 2 messages, 2 workers, 2 requests of all four kinds, any one disturbance | type, claim invariant, refinement |
| `halt` | 3 requests launching, pausing, resuming from the campaign page, any one disturbance | `PauseTakesHold`, `StrandedHasCause`, `CompletedIsSettled` |
| `live` | 2 launches, 1 redelivery or lost answer, fair workers | progress |
| `lost_worker` | one message, one lost worker | finds `NothingStranded` violated (below) |

Two messages are what a finalization needs to be early, two workers are what a
claim needs to be contended, and one retry (`MaxRetries = 1`) has a first, a
last and a forbidden attempt. Three requests let a launched campaign be paused
and resumed. `live` leaves out exactly the disturbances after which the code
does strand rows, each shown by a configuration of its own below;
`CHECK_DEADLOCK` is off throughout because a campaign, or an invoice, that is
done has nothing to do.

`ButtonsOnly` restricts resumes to campaigns that have launched, as the
campaign page does; the API does not, which is what
`SendPipeline_departures.cfg` shows (`StartedHasRecipients`).

Fairness: a loaded request and a busy or idle worker with something to do take
a step eventually (Django and Celery processes run); no disturbance and no new
request is ever forced, so what the properties need they get from the code.

### Proofs

`SendPipelineProofs` proves, for any messages, workers, requests, retry limits
and disturbances, under `PipelineAssumption` alone (the shape of the constants):

1. `TypeCorrect`: `Spec => []TypeOK`, one lemma per group of actions.
2. `ClaimInvariant`: `Spec => []ClaimInv`. Exclusivity alone is not inductive: a
   worker may only call the provider within the budget because its copy of the
   attempt count is current, and that is so because nobody else writes a claimed
   row's count, which is exclusivity. One lemma per kind of step.
3. `ClaimIsExclusive`, `CopiesAreBounded`, `CallsAreBounded` follow.
4. `PipelineImplementsClaims`: the phase of a message is read off its one owner
   or, without one, its row; every step moves one message's phase, opens or
   closes a set of them (launch, cancel), or stutters.

5. `CompletedStaysSettled`: `CompletedIsSettled` for campaigns run by the
   page's buttons, without cancels and with one audience (`OneAudienceNoCancel`).
   Each is needed, TLC finds `CompletedIsSettled` violated in the instance of
   `halt` when a draft may be resumed through the API, when a second launch may
   resolve other recipients, and when a cancel may take a row that is being sent.
   `SettledInv` adds that nobody is about to write COMPLETED over a row in flight:
   who counted none, counted when every row was there, and rows only leave.
6. `StrandingHasACause`: `StrandedHasCause` for every request and disturbance.
   `CausesInv` says that a claimable row of a PROCESSING campaign has a task or a
   dispatch to come, or a mishap noted; that a SENDING row has a worker or was
   lost with one; and that a lost row is never claimed again. Its heart is
   `RetriesCounted`: unless a worker had to wait for the row, a task's retries
   never exceed the attempts counted on it, so the row gives up before Celery
   drops the task.
7. `PausesTakeHold`: `PauseTakesHold`, from `OneCallLeft`: while the campaign is
   halted, a worker past the check has made no call since.

The liveness properties are model-checked only: liveness under fairness is out
of the prover's reach.

## Delivery reports

`StatusReports` puts the webhook endpoint, the tasks that read its events, the
minute sweep and the send tasks of the reported rows side by side. A `row` is
`Message.status`, `identified` says whose provider id is stored, `log` holds the
`MessageStatusEvent` rows (unique per message, status and timestamp), `event` the
`WebhookEvent` rows and `tasks` what the broker queues for them. A handler's
`job` is its event, the reports it still has to read and the copy of the row it
matched. `applied` and `raced` are history: how often a report advanced its row,
and which rows a handler wrote on a copy that was no longer current.

Atomicity. `Match` reads the row and `ApplyReport` is the transaction of
`apply_status_update`, which decides by the copy `Match` read. The send task is
two steps, the provider's acceptance and the transaction that stores the id:
between them a report of the message matches nothing. Finalization is again
three statements, for handlers and send tasks alike. Meta may deliver the same
payload as several events; a delivery is stored and queued in one action, and
the fault `broker` leaves it stored only.

Properties: `AppliedOnce` (a report with a timestamp advances its row once,
whatever is delivered twice), `CompletedIsSettled`, `RowCoversLog` (a row
stands at or above every logged report, unless it is one of `raced`),
`EveryEventIsRead`. Two handlers that race for one row do lose a report
(`NeverBackwards` in the table of departures); `RowCoversLog` says that nothing
else does: not the order of the reports, not a repeated, undated or half read
one, not a lost worker.

| Run | Instance | Shows |
|---|---|---|
| `reports` | 2 messages, 2 handlers, 2 events, any one disturbance | type, `AppliedOnce`, `CompletedIsSettled`, `RowCoversLog` |
| `sweep` | 1 message, 1 handler, 2 events, 2 disturbances, fair | `EveryEventIsRead` |

Two events are enough to repeat and to reorder a report, two handlers to race,
and a payload of two reports to leave an event half read. Fairness: handlers,
send tasks and the periodic sweep keep running.

Proofs (`StatusReportsProofs`): `TypeCorrect`, `ReportsAppliedOnce` and
`CompletedStaysSettled` for every instance, and `OnlyRacesLoseReports`, which
proves `RowCoversLog` for any number of handlers. Its invariant says that a row a
report can match has seen the last write of its send task, and that a handler's
copy is not above the row it was read from unless that row was raced for. `EveryEventIsRead` is model-checked only.

## Collecting an invoice

`InvoicePayments` follows one issued invoice: sweeps (`collect_due_invoices`)
charge it, the provider notifies, `process_payment_webhook` applies what was
stored, and an operator may void it. `charge` is what the provider made of each
idempotency key, `payment` the rows, `notice` and `queue` the stored events and
their tasks, `job` what an actor remembers, `lock` who holds the invoice row;
`credits`, `ledger` and `undue` are history, the last of the attempts charged when
nothing was due any more.

Atomicity. A collection is one transaction around the provider call. It inserts
a payment row, whose foreign key and unique key make everybody who would lock
the invoice, or insert the same attempt, wait until it ends; the model lets
`lock` stand for that. Plain updates by `void` are let through until the
collection locks the row itself. `apply_event` locks the invoice after it has
found the payment and before it reads the amounts; its lookups before the lock
are part of `Find`. A lost sweep or an exception rolls its transaction back but
not the provider's charge.

Amounts are whole totals: nothing in the code credits a part of an invoice.
`void` has no caller in the application; it is modelled because the service
promises how it behaves.

Properties: `BooksBalance` (the amount paid is what credits and refunds give one
at a time), `PaidIsSettled`, `RefundIsCovered`, `ChargedOnce` (two charges stand
only if one was asked for on a copy that others had settled since, or a refunded
one was credited again), `TakenIsRecorded`.

| Run | Instance | Shows |
|---|---|---|
| `books` | 2 sweeps, 2 handlers, 1 operator, priced and free, 2 attempts, any one disturbance | type, the books, `ChargedOnce` |
| `recorded` | 1 sweep, 1 handler, 3 attempts, all notices, 2 lost sweeps or answers, fair | `TakenIsRecorded` |

Two attempts let a second charge follow a refund, three let an attempt be
declined in between. Fairness: the sweep runs daily and handlers run.

Proofs (`InvoicePaymentsProofs`): `TypeCorrect`, `BooksAlwaysBalance` and
`PaidIsAlwaysSettled` for every number of sweeps, handlers and operators. The
invariant ties whoever holds the lock: what it read of the amount is still what
the row says.

`RefundsAreCovered` proves `RefundIsCovered` as generally. `RefundInv` relates
charges, notices and payment rows: a notice is stored only of what the provider
did (`NoticesFollow`), a row says what was charged or notified since
(`RowsFollow`), and the amount paid covers every charge that stands recorded
(`Covered`), counted as a set.

`CustomersPayOnce` proves `ChargedOnce` as generally. `ChargeInv` adds that
attempts are charged in the order of their rows, whoever charges them, so that a
charge without a row is asked for again under its own key and no other, and that
a recorded charge was credited. A charge made while something was due then finds
nothing standing (by `Covered`), and a payment leaves "refunded" only by a second
credit. The two exceptions are real: a second sweep charges on its old copy
(`two_sweeps`), and a success handled after its refund credits again
(`CreditedOnce` in the table of departures). `TakenIsRecorded` is model-checked
only.

## Billing periods

`BillingPeriod` is one subscription row, the hourly sweep that closes its
periods and the requests and payments that change it. Nothing locks the row.
`job` and `request` hold the copies the sweep and each request loaded, and each
action saves just the columns the code lists in `update_fields`, from its copy.
Closing is four transactions, so `Snapshot`, `Generate`, `Issue` and `Roll` are
four actions, followed by the `Reload` that decides whether another period is
due. Loading and saving a request are two actions with anything in between.

Time is counted in months, a period is named by the month it starts in, and a
year is two months. Clamping a day to a short month is left out. Usage totals
are not modelled. EXPIRED is never written by the code and no caller cancels
immediately; both are left out, as is subscribing again, which only happens
while there is no subscription.

Properties: `ClosedPeriodsTile` (closed periods cover the past without gap or
overlap), `BilledBeforeRolled` (a period left behind has an issued invoice, also
when a sweep was lost anywhere), `PeriodsAdvance`, `PeriodsCatchUp`.

| Run | Instance | Shows |
|---|---|---|
| `periods` | 1 sweep, 2 requests of every kind, 2 plans, 4 months, 1 lost sweep or failed invoice, fair | all of the above |

Four months hold two yearly periods, or a backlog the catch-up bound (2) does
not clear in one sweep. Two requests are a plan change beside a cancellation or
a payment. `_invoice_closed_period` lets a period roll when invoicing it raised
an error; `unbilled` remembers those periods, which `BilledBeforeRolled` exempts.
Fairness: the sweep runs hourly.

Proofs (`BillingPeriodProofs`): `TypeCorrect` for every instance, with the
invariant that a sweep at work holds a period that has run out by its own clock.
`MonthsAreClosedOnce` and `PeriodOnlyAdvances` assume one sweep (`OneSweep`):
the copy a sweep works on then still has the period of the row, and closed
periods end where the current one starts. `PeriodsAreBilledFirst` proves
`BilledBeforeRolled` for one sweep and plans that all have a price (`AllPriced`),
wherever sweeps are lost. `PeriodsCatchUp` is model-checked only.

## Contacts, consent and a campaign's audience

`Contacts` holds the contacts of every organization: `contact` are their rows
with the consent for WhatsApp, `texting` their `ContactChannelConsent` for SMS,
`group` and `member` the groups. Pages and API requests create, edit and delete
them, a STOP message withdraws consent, an import adds and updates them.
`Audience` adds one campaign of one organization: `campaign` is its row, `target`
its groups, `request` what each page or API request loaded, `recipient` the
message rows a launch made. `given` is history: who agreed to what.

Atomicity. An API edit and an import save rows they read before, so each is two
steps; every request on the campaign first loads it and then acts on the copy;
the launch is the query that lists the recipients and the insert. Everything
else is one transaction that does not depend on an earlier read. Data is what
the properties tell apart: a name, an e-mail address and a note are not there.

Properties: `ConsentWasGiven` (nobody is opted in on a channel without somebody
having recorded that consent), `RecipientsHadConsented` (whatever the draft, the
groups and the contacts have become between the query and the insert, a row goes
to somebody who had agreed, on the channel of the row). What the code does not
promise, and the departures show, is that consent is asked again after that.

| Run | Instance | Shows |
|---|---|---|
| `audience` | one contact in each of 2 organizations, a number they share, a group, 1 edit, 1 import, 2 requests on the campaign, 3 operations on contacts, 4 on the campaign | both properties |

Two organizations with one number are what a lookup without an organization
needs to go wrong. Three operations are consent given, read by an edit or an
import, and withdrawn; four steps load and save a draft beside a launch.

Proofs (`AudienceProofs`): both properties, for any organizations, contacts,
groups, requests and bounds. Neither is inductive, because an edit, an import
and a launch act on rows read earlier: `ConsentInv` adds that the copy an editor
or an upload holds, and the list a launch has made, carry only consent that was
given. `given` only grows, so a copy cannot become wrong by waiting.

## The office

`Office` puts six small protocols of one installation side by side. They share
no row and no cache entry, so a behaviour of all is an interleaving of one of
each; `part` names the one that moves while the others stay in an initial
state. This keeps one run for what are six sums instead of a product.

* `Team`: accounts, seats, invitations and the plan's limit of members. A page
  reads (`Offer`, `OpenAccept`, `OpenRevoke`, `OpenRemove`, `OpenChangePlan`)
  and writes one transaction later. `SeatLimitKept`: a seat is only spent within
  the limit, but by requests that ran beside each other (`raced`).
  `SeatsWereGranted`: a seat with its role was given to that person by somebody
  who could.
* `Doors`: the counter of one throttled page. `Add`, `Exists`, `Incr` and
  `SetOne` are the cache calls of `RateLimit.record`; the entry has a time to
  live. The cache of production is Django's `RedisCache`
  (`config/settings/production.py:45-49`), whose `incr` is an EXISTS and then an
  INCR: an entry that expires between the two is made anew without an end.
  `EventsBounded`: one window lets through the limit and those admitted beside
  the last, in such an entry too. `DatedBlocksExpire`: whoever keeps knocking, a
  block whose entry has a time to live ends; that every entry has one is
  `BlocksAreDated`, which the code does not keep. Fairness: the clock of the
  cache (`ClockTicks`) only.
* `SendRate`: the token bucket in Redis, run by callers with clock readings that
  arrive late. `SendsBounded`: in every stretch of time the workers together get
  a bucket and the rate, but for what late readings refill twice.
* `Notices`: reports to an organization, recipient by recipient, with the row
  that deduplicates and the mail after it; launch checks and payments report
  inside a transaction that may roll back. `MailedOncePerRow`: under one key
  nobody is mailed twice unless a transaction took the row back.
* `Senders`: sending accounts, Meta's templates and their mirror, the mapping of
  placeholders, the launch that renders and the send that orders the values.
  `ValuesFollowTheText`: while the text stays what the row was rendered with,
  every placeholder gets its value.
* `Ledger`: invoice numbers. A sweep asks for an invoice, takes the locked
  counter, inserts inside a savepoint and issues in a second transaction, beside
  other sweeps, a new year, and staff who edit in the admin. `NumbersAreGapless`:
  unless staff wrote a counter, a year's numbers run from 1 to its counter, each
  given once.

`MCOffice` also extends `Answers`, functions without state that `ASSUME`s compare
with what they must give over bounded inputs: every answer of a provider is a
success or a failure that is retried or not, and a retry waits within bounds
(`EveryAnswerIsDecided`, `StatusDecidesWithoutCode`); a text is cut into the fewest SMS parts
(`SegmentsAreFewest`); a notification loses nothing but statuses nobody knows
(`EveryEntryIsParsed`).

| Run | Instance | Shows |
|---|---|---|
| `office` | 3 people, 2 invitations, 2 pages, 3 visits; 3 visitors, limit and window 2; 2 senders, time 5, lag 2; 2 users, 2 reporters, 3 reports, quota 2; 2 accounts, 3 texts, 2 rows, 4 changes; 2 sweeps, 2 periods, 2 years, 3 invoices, 1 edit | the eight properties |

Why these are enough: two pages are a race, the third person an outsider, limits
of 1 and 3 a downgrade; three visitors pass a limit of two together; with lag 2
of a lifetime of 2 + `Slack` readings arrive out of order and the bucket expires;
two reporters meet on one key, three reports leave a day between; four changes
map, sync, launch and edit again; two sweeps meet on one period, a third request
reuses the number of a rolled back one. `Rate`, `Token` and `Second` make a rate
that no whole number of tokens fits. `Office_departures.cfg` raises `MaxVisits`,
`MaxTime`, `MaxChanges` and `MaxEdits` where a counterexample needs it.

Proofs, each for every instance of `Office`:

* `OrganizationProofs`, seats: `WhoSitsWasInvited` and `SeatsFitThePlan`.
  `GrantInv` adds that every invitation, and every acceptance a page has begun,
  was granted to its address, and that the invitation a page read still exists.
  `RoomInv` adds that without a race one page at most is about to add a member or
  change the plan, that the member it will add fits, and that nobody acts before
  the founder has registered (whose seat is the one nobody counts).
* `OrganizationProofs`, numbers: `NumbersRunOn`. `LedgerInv` adds that sweeps
  holding the row of one year are one sweep, that its number is the counter plus
  one, and that it is alone with the period it has entered; the form staff load
  keeps number and year.
* `OrganizationProofs`, notices: `RowsAreMailedOnce`. `NoticeInv` adds that an
  uncommitted row belongs to one transaction, and that the row a report claimed
  is there, claimed by it alone and has had no mail since its last undoing.
* `TrafficProofs`, sends: `SendsKeepToTheRate`. The invariant counts `Level`, what
  a script that came now would find, with what was taken. A late script sets the
  bucket's time back, which raises the level by no more than `late` grows; a
  bucket that expires was full, because it lives for as long as a refill takes.
* `TrafficProofs`, doors: `WindowsAreBounded`. `DoorInv` counts visitors: below
  the limit every event of the window is in the entry or about to be; at the
  limit only those already admitted can still add one.
* `TrafficProofs`, placeholders: `NoPlaceholderIsLeftOpen`. `SenderInv` adds that
  a row launched has a value for each placeholder of its text, because the launch
  compares mapping and template in its own transaction, and that what was handed
  over follows the placeholders of the text that was read for it.

## What is counted and shown

`Reporting` is the reports page, its four downloads and the dashboard, read one
query after the other (`page.stage`) beside launches, statuses that move or are
overwritten from a stale copy, deletions and midnight. A launch acts on the copy
its request loaded (`request`): two that loaded the same draft both launch it, the
later one takes `started_at` anew and only adds the rows that are missing; a draft
page saves its whole copy over a launch (`SaveDraft`), which leaves the campaign
unstarted with its rows. `meanwhile` is history: what happened while a page was read.
The dates (`resolve_period`), the day buckets, the columns of the chart and the
axis are functions the queries use. `ImportFile` is one uploaded file: refused,
parsed row by row, matched with the contacts that have its numbers, whichever
organization holds them, and written, while other requests add, delete and change
contacts. `Figures` composes the two as `Office` does.

* `PageAddsUp`: on the reports page, in its files and on the dashboard, unless
  something was deleted the later queries count what the earlier ones did and
  more, and if nothing happened they are equal. What is listed by campaign can
  also lose a campaign launched again on another day or saved over as a draft
  (`Unlisting`), and the dashboard's chart gains nothing its tiles did not hold
  unless a launch, again or for the first time, committed between them. TLC finds
  the property violated without any one of these exceptions. Failures count no less unless one
  was also overwritten from a stale copy (`Overwrite`, the race `FailedIsTerminal`
  below is about). Files are compared for periods a
  link can ask for, and reasons where their list is shorter than its limit.
* `ChartCountsEveryMessage`: every message of a period is in exactly one column
  and one band; the columns are few enough and follow without a gap, and only
  the oldest may cover fewer days.
* `FileRowsAddUp`: every row that holds anything is counted once under one
  outcome. The contacts counted as imported are those that are new to the
  organization; those counted as lacking consent are the ones the import wrote
  and left without, another organization's included, for the lookup names none
  (`FileStaysHome` below). Nobody of any organization is opted in but by a row
  about that contact, or as the contact was.

| Run | Instance | Shows |
|---|---|---|
| `figures` | 2 campaigns, 3 messages, 2 requests that loaded drafts, 3 statuses, 2 days, 1 change while a page is read, periods of 3, 4 and 5 days in 2 columns; files of up to 2 rows (and one longer), 2 numbers, one of them spelled twice, each held by the organization, by another, by both or by none, 4 spellings, 1 other request | the three properties, and by `ASSUME` that the bands partition the statuses and the axis fits up to 2000 |

Four days in two columns leave no remainder, three do; two days hold a midnight
between a launch and the next; two rows hold a number and its other spelling, the
repetitions a file can have. `MAX_PERIOD_DAYS`,
`MAX_COLUMNS`, the limits of files and lists are constants, small here.

Proofs (`FiguresProofs`). `ImportsAddUp` proves `FileRowsAddUp` for any file and
any contacts. What is kept of the file is the disjoint union of the five
outcomes; the rows that are written stand for different numbers, so that sets of
rows and of contacts have one size; and `FileInv` adds that a contact an import
found is still there, in the organization it was found in, unless another request
touched one since. The proof needs
the assumption that a phone cell holds one of the known spellings or nothing.

`ChartsCount` and `PagesAddUp` prove the two properties of the pages for any
campaigns, audiences, days, limits and requests. Both compare sums with the size
of a set. `SumCounts` is the bridge: when no two of finitely many parts meet, the
sum of their cardinalities is that of their union. It is proved from the
definition of `SumFunction`: by induction on the number of elements, what the fold
returns for a subset is the only function that adds up. The induction is over a
set of numbers that contains zero and successors (`NatSetInduction`, from a least
counterexample), since the library's schemes take an operator.

* The chart: rounding up gives at most `MAX_COLUMNS` chunks, which counted back
  from the newest day follow each other (`ChunksTile`); the statuses of a band's
  buckets are disjoint and all there are (`Partition`); so a column, the legend
  and the total count the messages of their days, and `AxisFits` holds for every
  tallest column. The same for the bar of a campaign.
* The pages: `ReportingInv` relates each number already read to what it would be
  now (`Since`): equal as long as nothing happened, no larger as long as nothing
  was lost. Each action that changes rows keeps it, because a launch only writes
  rows that are not there (`RequestsHold`: of two open launches the second loses
  the rows the first has written), moves a campaign to another day only when it
  was launched before, a message leaves FAILED only by an `Overwrite`, and all of
  these, drafts saved over launches and deletions are noted; each query then compares its own
  count with the same present set. The other way round, the dashboard's tiles hold every row as long
  as none was added. `RowsHold` adds that a row belongs to a campaign that is not
  deleted, for a draft can have rows, and that its day is one of the behaviour's.
* The files: a link asks for the page's own period if that is no longer than
  `MAX_PERIOD_DAYS`; a file has a line for each thing it lists. A list of reasons
  shorter than its limit is complete (`ListedIsAll`), and only then does it count
  every failure: the property says so of the page and of the file.

The proofs assume that the parsed ends of a period are integers, that audiences
are finite and that every contact has an error code for when sending to it fails.

## Where the code departs from its documentation

Each configuration checks documented statements; TLC finds each of them
violated. `lost_worker` is a run of the project. A `*_departures.cfg` lists
several: check them one at a time, with the others removed, since TLC stops at
the first.

| Configuration, property | Statement | What happens |
|---|---|---|
| `SendPipeline_lost_worker` `NothingStranded` | `README.md:666` no campaign left with nothing to process it | a row stays SENDING after its worker is lost |
| `SendPipeline_resume_race` `NothingStranded` | `messaging/services.py:275` "so it can be picked up again" | released after the resume's dispatch listed the rows |
| `SendPipeline_throttled_out` `NothingStranded` | the same | `retry(max_retries=None)` means three, then the task is dropped |
| `SendPipeline_departures` `LegalMovesOnly` | `campaigns/models.py:33` "The only permitted moves" | a launch or finalization that loaded the row earlier writes over a cancel |
| `StartedHasRecipients` | `campaigns/api_views.py:199` "Resume a paused campaign." | a draft resumes into PROCESSING with no recipients |
| `CancelSparesSending` | `campaigns/services.py:564` "only rows that have not left the queue are marked failed" | SENDING rows are marked too |
| `FailedIsTerminal` | `messaging/models.py:37` "FAILED is terminal" | a stale copy overwrites it |
| `StatusReports_departures` `OursAreRecorded` | `whatsapp/services/inbound.py:114` an unmatched report is not ours | a report read before the id is stored is dropped and its event closed |
| `NeverBackwards` | `messaging/services.py:222` "never drags the message's status backwards" | two handlers decide on copies read before either wrote |
| `FailuresAreSwept` | `whatsapp/tasks.py:407` "left for the sweep" | the sweep selects RECEIVED events only |
| `InvoicePayments_two_sweeps` `NeverChargedTwice` | `billing/tasks.py:74` "a sweep that runs twice in a minute does nothing the second time" | the second sweep asks its old copy, takes a new attempt, hence a new key, and charges again |
| `InvoicePayments_departures` `CreditedOnce` | `README.md:1474` "A replay credits once." | a success notice after the refund credits again |
| `StoredIsProcessed` | `billing/invoicing.py:303` "process afterwards" | nothing looks for a stored event whose task was refused |
| `DeclineIsPastDue` | `billing/payments.py:384` "A failed payment makes a subscription past-due" | a failed attempt keeps no reference, its notice matches nothing |
| `PaidIsNotVoided` | `billing/payments.py:305` "refund it rather than voiding it" | `void` checks its caller's copy |
| `BillingPeriod_second_sweep` `PeriodsAdvance` | `billing/tasks.py:9` "Safe to run twice" | a second sweep's copy moves the period back |
| `BillingPeriod_departures` `CancelEndsThePeriod` | `billing/views.py:219` the subscription ends with the period it is in | a sweep that holds an older copy opens the next period |
| `ResumedContinues` | `billing/views.py:233` "Your subscription will continue." | the cancellation had taken effect; only the flag is cleared |
| `InvoiceFollowsSnapshot` | `billing/models.py:326` "the record an invoice is written against" | after a lost sweep and a plan change the invoice has the new plan, the snapshot the old |
| `Audience_departures` `PreviewIsExact` | `campaigns/views.py:363` "exactly what will be sent, and to how many people" | the preview counts WhatsApp consent on an SMS campaign |
| `RecipientsAreOwn`, `FileStaysHome` | `organizations/scoping.py:4` a query "must always be filtered by organization" | forms offer every organization's groups, and an import looks numbers up everywhere |
| `EditIsSaved` | `contacts/views.py:172` "Contact updated." | the form has already changed the object the service compares with: nothing is saved |
| `EditKeepsConsent` | `contacts/services.py:158` an update leaves consent alone | the whole copy is saved over a STOP that came in between |
| `FileNeverRevokes` | `contacts/importers.py:324` "never silently revokes consent" | the copy an import matched is saved over consent given since |
| `LaunchedStaysLaunched` | `campaigns/models.py:33` | the draft pages save every column of a copy loaded before the launch |
| `Office_departures` `SeatsNeverOver` | `organizations/invitations.py:21` acceptance "is the check that has to be right" | two acceptances, or one and a plan change, count before either writes |
| `OwnerRemains` | `organizations/invitations.py:320` "must keep at least one owner" | two owners are removed at once; staff change the last one's role |
| `ActedOnStays` | `organizations/invitations.py:4` pending "until somebody acts on it" | offering it again, or a revoke, saves the row over an acceptance |
| `NothingIsOverwritten` | `accounts/throttling.py:112` "One lost event" | two requests miss the entry; the later `set` discards what was counted since |
| `BlocksAreDated` | `accounts/throttling.py:9` "every block expires on its own" | the entry expires between the EXISTS and the INCR of one `incr`; the new one has no time to live |
| `RateIsKept` | `whatsapp/services/rate_limiter.py:11` "shared across every worker process" | a reading that arrives late moves `updated` back and the same ticks refill twice |
| `NothingSentTwice` | `core/notifications.py:17` "Nothing is sent twice" | the row is rolled back with its transaction, the mail is not |
| `ToldOncePerEvent` | `core/notifications.py:19` told once of one event | only the first recipient gets the event's own key |
| `PassedOverOnlyIfTold` | `core/models.py:231` a duplicate is one of the same event | the other recipients' key is the kind and the day, so a second campaign of a day is not told |
| `QuotaKept` | `billing/usage.py:312` "The gate in front of a campaign launch" | what earlier launches still have to send is not counted |
| `SentAsRendered` | `whatsapp/models.py:150` "a preview can never disagree with what will actually be sent" | the header's placeholders are sent as parameters of the body |
| `LocalIsNeverLive` | `whatsapp/models.py:182` only approved templates are sent live | usability asks the installation's provider, sending uses the account's |
| `OneNumberPerCampaign` | `whatsapp/accounts.py:7` messages leave "from *their* number" | the account is looked up for each message; without one the environment's number is used |
| `IssuedIsNumbered` | `billing/invoicing.py:122` a sequential number | an invoice entered by hand has none, and the sweep issues it |
| `VoidedIsReissued` | `billing/admin.py:174` "voided and reissued" | `generate_invoice` returns the void one |
| `TotalIsItsLines` | `billing/invoicing.py:82` "may no longer change" | staff add lines without a new total |
| `VoidedStaysVoid` | `billing/payments.py:141` issuing again "is a no-op" | `issue` checks its caller's copy |
| `BilledSegments` | `sms/providers/base.py:58` the number of parts billed | an emoji is two units and counted as one |
| `Figures_departures` `TilesAgree` | `dashboard/views.py:181` two numbers "can never be measuring different windows" | the tiles count messages by creation, the table all messages of campaigns started in the period |
| `PastIsSettled` | `dashboard/services.py:16` against "a report whose past changes underneath the reader" | deleting a contact or a campaign deletes its messages of days past |
| `PeriodIsBounded` | `dashboard/services.py:41` MAX_PERIOD_DAYS | a start alone is not clamped |
| `DownloadCoversPage` | `dashboard/views.py:210` a download "must cover the period the reader was looking at" | the same unclamped period, asked for with both ends, is clamped |
| `EveryUrlIsAnswered` | `dashboard/services.py:118` "falling back rather than failing" | a date next to the first or last one there is overflows |
| `MeasuredIsWired` | `billing/usage.py:114` messages "actually put on the wire" | deleted rows are not counted any more |
| `ConsentHasItsColumn` | `contacts/importers.py:6` opted in "only when a recognised consent column" says so | without one, a column with an empty header is read |
| `ImportSettles` | `contacts/models.py:327` the record says "exactly which rows were rejected and why" | a contact added or deleted before the write leaves the import PROCESSING |

## What is proved and what is only checked

Eight modules hold theorems: `SendPipelineProofs`, `StatusReportsProofs`,
`InvoicePaymentsProofs`, `BillingPeriodProofs`, `AudienceProofs`,
`OrganizationProofs`, `TrafficProofs` and `FiguresProofs`, described with their
models. They assume the named assumptions on constants and, where the theorem
says so, one sweep of the billing periods (`OneSweep`), priced plans
(`AllPriced`, as `BilledBeforeRolled` says), or the requests of
`OneAudienceNoCancel`. A second sweep, and each of the requests left out, is a case
in which TLC finds a property of that model violated; the table above, or the text
of the theorem's model, says how.

Only model-checked:

* every liveness property (`EveryMessageSettles`, `LaunchedCompletes`,
  `EveryEventIsRead`, `TakenIsRecorded`, `PeriodsCatchUp`, `DatedBlocksExpire`):
  liveness under fairness and ENABLED are out of the prover's reach;
* what the functions of `Answers` and `ImportFile` compute, compared with a
  reference over bounded inputs: for every input that would be an induction over
  data.

Every invariant and every action property of a passing run is stated by a
theorem.

## Plan

To model next: the reminders for overdue invoices and subscribing anew.

## Not modelled

* Campaign lifecycle: the beat run of due campaigns. Nothing in the application
  sets a campaign SCHEDULED, so there is never one that is due.
* Sending: the simulated callbacks of the mock provider (a `Deliver` like any
  other), building requests and the HTTP client, the cached health of the broker,
  signature checks of webhooks.
* Accounts and templates: `mark_verified` and `mark_failed` have no caller. Sync
  uses the environment's provider; a sync that fails writes nothing.
* Team and doors: staff may add members in the admin outside the plan's limits;
  an e-mail that never arrives is a link that is never followed; confirming an
  address and resetting a password are Django's tokens.
* Billing: reminders for overdue invoices and subscribing anew (planned); clamping
  a day to a short month, tax, plans without a price, the
  history of plan edits, usage summaries; staff editing a subscription in the
  admin (`SubscriptionAdmin`), whose form saves every column of the row it loaded
  and can so undo a roll that was committed since; `void` has no caller in the
  application and is modelled for what it promises.
* Reports: the counts of contacts and consent, the consent register, the panels
  of running campaigns and of system status (one query each); drawing; the audit
  rows of downloads.
* SMS: where a two-unit character straddles the boundary of two parts (texts are
  counts of characters).
* Back office, pages, serializers, forms beyond the choices they offer,
  encryption, logging, settings, management commands, demo data: no state of
  their own, or data rather than protocol.
