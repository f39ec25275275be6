----------------------------- MODULE Reporting ------------------------------
(***************************************************************************)
(* The figures of the dashboard and of the reports page, read query by     *)
(* query while launches commit, messages move, rows are deleted and the    *)
(* date changes.                                                           *)
(*                                                                         *)
(* Days are integers.  Statuses move as the pipeline and the reports move  *)
(* them; which process moves them is SendPipeline's and StatusReports'     *)
(* business.  Contact and consent figures are left out: they are counts of *)
(* one query each.                                                         *)
(***************************************************************************)
EXTENDS MessageStates, Integers, FiniteSets, FiniteSetsExt, SequencesExt

CONSTANTS
  Campaigns,
  Requests,          \* the requests that have loaded a campaign as a draft
  Audience,          \* the contacts each campaign is launched to
  ErrorFor,          \* the code of the error sending to a contact meets, a number
  Observed,          \* bound: the statuses rows are seen in
  MaxChanges,        \* bound: changes while a page is read
  FirstDay, MaxDay,  \* bound: the days of a behaviour
  MaxPeriodDays, DefaultPeriodDays, \* MAX_PERIOD_DAYS, DEFAULT_PERIOD_DAYS
  MaxColumns,        \* MAX_COLUMNS
  ReasonLimit,       \* failure_reasons' limit on the page
  FileLimit,         \* its limit in a file
  DashboardDays,     \* DASHBOARD_CHART_DAYS
  RecentLimit,       \* recent_failures' limit
  FirstDate, LastDate, \* date.min, date.max
  Asked              \* the query strings readers send: what can be read of them

ASSUME ReportingAssumption ==
  /\ IsFiniteSet(Campaigns) /\ \A c \in Campaigns : IsFiniteSet(Audience[c])
  /\ ErrorFor \in [UNION {Audience[c] : c \in Campaigns} -> Nat]
  /\ \A asked \in Asked : \A k \in DOMAIN asked \cap {"start", "end", "days"} : asked[k] \in Int
  /\ Observed \subseteq MessageStatus /\ "pending" \in Observed
  /\ {MaxPeriodDays, DefaultPeriodDays, MaxColumns, ReasonLimit, FileLimit,
      DashboardDays, RecentLimit} \subseteq Nat \ {0}
  /\ {FirstDay, MaxDay, FirstDate, LastDate} \subseteq Nat

VARIABLES
  today,    \* timezone.localdate()
  launch,   \* the Campaign rows: a draft or launched, and the day of started_at
  request,  \* how far each request is with the draft it loaded
  row,      \* the Message rows
  contacts, \* the Contact rows
  page,     \* a reports page or the dashboard being read
  meanwhile \* history: what happened to the rows while it was read

reportingVars == <<today, launch, request, row, contacts, page, meanwhile>>

RowIds == {m \in Campaigns \X UNION {Audience[c] : c \in Campaigns} : m[2] \in Audience[m[1]]}
NoRow == [status |-> "absent", day |-> 0, wired |-> FALSE]
Rows == {m \in RowIds : row[m] # NoRow}

-----------------------------------------------------------------------------
(* The period *)

Least(a, b) == IF a < b THEN a ELSE b
Greatest(a, b) == IF a > b THEN a ELSE b

\* ReportPeriod: an inclusive range of days.
Days(period) == period.start .. period.end
LengthOf(period) == period.end - period.start + 1

\* ReportPeriod.last_days
LastDays(days) ==
  LET kept == Greatest(1, Least(days, MaxPeriodDays))
  IN [start |-> today - kept + 1, end |-> today]

\* resolve_period: both ends, one of them, or a number of days.
ResolvePeriod(asked) ==
  LET given == DOMAIN asked
  IN CASE {"start", "end"} \subseteq given /\ asked.end >= asked.start ->
            [start |-> Greatest(asked.start, asked.end - MaxPeriodDays + 1), end |-> asked.end]
       [] "start" \in given /\ "end" \notin given ->
            [start |-> asked.start, end |-> Greatest(asked.start, today)]
       [] "end" \in given /\ "start" \notin given ->
            [start |-> asked.end - DefaultPeriodDays + 1, end |-> asked.end]
       [] OTHER -> LastDays(IF "days" \in given THEN asked.days ELSE DefaultPeriodDays)

\* period_query: what the download links of a page ask for.
PeriodQuery(period) == [start |-> period.start, end |-> period.end]

\* Subtracting from date.min, or adding a day to date.max, raises OverflowError.
Representable(period) == period.start >= FirstDate /\ period.end < LastDate

-----------------------------------------------------------------------------
(* What one query counts *)

\* BUCKET_STATUSES
BucketStatuses ==
  [pending |-> {"pending", "queued", "sending"}, sent |-> {"sent"},
   delivered |-> {"delivered"}, read |-> {"read"}, failed |-> {"failed"}]
Buckets == DOMAIN BucketStatuses

\* Faulty: the exclusive upper bound is the start of the last day.
CreatedBeforeEnd(period) ==
  {m \in Rows : row[m].day \in Days(period) \ {period.end}}

\* for_organization(...).filter(created_at__gte, created_at__lt)
CreatedIn(period) == {m \in Rows : row[m].day \in Days(period)}

\* filter(started_at__gte, started_at__lt)
StartedIn(period) ==
  {c \in Campaigns : launch[c].stage = "launched" /\ launch[c].started \in Days(period)}

RowsOf(c) == {m \in Rows : m[1] = c}
Counting(rows, statuses) == Cardinality({m \in rows : row[m].status \in statuses})

\* DayActivity: the disjoint counts of one day.
DayActivity(day) ==
  LET created == {m \in Rows : row[m].day = day}
  IN [b \in Buckets |-> Counting(created, BucketStatuses[b])]

\* daily_activity: every day of the period, the quiet ones too.
DailyActivity(period) ==
  [i \in 1 .. LengthOf(period) |-> DayActivity(period.start + i - 1)]

\* CampaignStats: the counts of a campaign by status; the total is their sum.
CampaignStats(c) == [s \in MessageStatus |-> Counting(RowsOf(c), {s})]
Total(stats) == SumFunction(stats)

\* campaign_performance: the campaigns launched in the period.
CampaignPerformance(period) == [c \in StartedIn(period) |-> CampaignStats(c)]

\* failure_breakdown: the errors most frequent first, then by code, to a limit.
Failed(period, e) ==
  Cardinality({m \in CreatedIn(period) : row[m].status = "failed" /\ ErrorFor[m[2]] = e})
Before(period, d, e) ==
  \/ Failed(period, d) > Failed(period, e)
  \/ Failed(period, d) = Failed(period, e) /\ d < e
FailureReasons(period, limit) ==
  LET found == {e \in Range(ErrorFor) : Failed(period, e) > 0}
      listed == {e \in found : Cardinality({d \in found : Before(period, d, e)}) < limit}
  IN [e \in listed |-> Failed(period, e)]

\* global_stats: the tiles of the dashboard, over all days.
GlobalStats ==
  LET count(statuses) == Counting(Rows, statuses)
  IN [total |-> Cardinality(Rows), sent |-> count({"sent", "delivered", "read"}),
      delivered |-> count({"delivered", "read"}), read |-> count({"read"}),
      failed |-> count({"failed"}), pending |-> count({"pending", "queued", "sending"})]

\* recent_failures
RecentFailures == Least(RecentLimit, Counting(Rows, {"failed"}))

\* HomeView._recent_campaigns, with the bounds taken for fewer than eight.
RecentCampaigns ==
  [c \in {d \in Campaigns : launch[d].stage # "deleted"} |->
     [messages |-> Cardinality(RowsOf(c)), failed |-> Counting(RowsOf(c), {"failed"}),
      delivered |-> Counting(RowsOf(c), {"delivered", "read"})]]

\* billing.usage.messages_sent: the rows with a sent_at.
MessagesSent == Cardinality({m \in Rows : row[m].wired})

-----------------------------------------------------------------------------
(* The chart *)

CeilDiv(a, b) == (a + b - 1) \div b

\* SERIES: the bands of a column, each made of buckets.
Series ==
  [delivered |-> {"read", "delivered"}, sent |-> {"sent"}, pending |-> {"pending"},
   failed |-> {"failed"}]
Bands == DOMAIN Series

\* Bucket: the days first .. last of an activity, summed by band.
Column(activity, first, last) ==
  [first |-> first, last |-> last,
   counts |-> [band \in Bands |->
     SumFunction([i \in first .. last |->
       SumFunction([b \in Series[band] |-> activity[i][b]])])]]

ColumnTotal(column) == SumFunction(column.counts)

\* Faulty: the size of a chunk is rounded down.
BucketActivityFloored(activity) ==
  LET size == Greatest(1, Len(activity) \div MaxColumns)
      columns == CeilDiv(Len(activity), size)
  IN [i \in 1 .. columns |->
        LET last == Len(activity) - (columns - i) * size
        IN Column(activity, Greatest(1, last - size + 1), last)]

\* bucket_activity: equal chunks, counted back from the newest day.
BucketActivity(activity) ==
  LET size == Greatest(1, CeilDiv(Len(activity), MaxColumns))
      columns == CeilDiv(Len(activity), size)
  IN [i \in 1 .. columns |->
        LET last == Len(activity) - (columns - i) * size
        IN Column(activity, Greatest(1, last - size + 1), last)]

TenTo[e \in Nat] == IF e = 0 THEN 1 ELSE 10 * TenTo[e - 1]

\* axis_scale, for a tallest column of n: the power of ten a digit below n, then
\* the step and the number of divisions that reach n with the lowest top.
Exponent(n) ==
  CHOOSE e \in 0 .. n : n < TenTo[e + 2] /\ (e > 0 => TenTo[e + 1] <= n)
Steps(n) ==
  LET powers == {TenTo[e] : e \in Exponent(n) .. Exponent(n) + 2}
  IN {k * p : k \in {1, 2, 5}, p \in powers} \cup {5 * (p \div 2) : p \in powers \ {1}}
AxisTop(n) ==
  IF n = 0 THEN 2 ELSE Min({t \in {step * d : step \in Steps(n), d \in 2 .. 5} : t >= n})

\* stacked_column_chart: the legend, and the columns if there is anything.
StackedColumnChart(activity) ==
  LET columns == BucketActivity(activity)
      legend == [band \in Bands |->
                   SumFunction([i \in DOMAIN columns |-> columns[i].counts[band]])]
      total == SumFunction(legend)
  IN [columns |-> IF total = 0 THEN <<>> ELSE columns, legend |-> legend, total |-> total,
      top |-> IF total = 0 THEN 0
              ELSE AxisTop(Max({ColumnTotal(columns[i]) : i \in DOMAIN columns}))]

\* stats_proportions: the bar of a campaign, in the same bands.
StatsProportions(stats) ==
  [delivered |-> stats["delivered"] + stats["read"], sent |-> stats["sent"],
   pending |-> stats["pending"] + stats["queued"] + stats["sending"],
   failed |-> stats["failed"]]

-----------------------------------------------------------------------------
(* The files; each is one query, made when the file is streamed *)

\* campaign_rows
CampaignRows(period) ==
  {[campaign |-> c, recipients |-> Total(CampaignStats(c)),
    outcomes |-> StatsProportions(CampaignStats(c))] : c \in StartedIn(period)}

\* _message_rows, of the messages of a period or of a campaign.
FileRows(rows) == {[message |-> m, status |-> row[m].status] : m \in rows}
MessageRows(period) == FileRows(CreatedIn(period))
CampaignMessageRows(c) == FileRows(RowsOf(c))

\* failure_rows
FailureRows(period) ==
  LET reasons == FailureReasons(period, FileLimit)
  IN {[code |-> e, messages |-> reasons[e]] : e \in DOMAIN reasons}

\* REPORTS, but for the consent register.
Reports(period) ==
  [campaigns |-> CampaignRows(period), messages |-> MessageRows(period),
   failures |-> FailureRows(period)]

\* ReportDownloadView.get, for a link of the page.
Download(report, asked) == Reports(ResolvePeriod(asked))[report]

-----------------------------------------------------------------------------
(* The rows *)

NoPage == [stage |-> "none"]
Notes(change) ==
  /\ Len(meanwhile) < MaxChanges
  /\ meanwhile' = IF page = NoPage THEN <<>> ELSE Append(meanwhile, change)

Draft == [stage |-> "draft", started |-> 0]

\* A request acts once on the campaign as it loaded it, a draft, whatever has
\* become of the campaign since.
Loaded == [at |-> "loaded"]
Over == [at |-> "over"]
Writing(r, c) == request[r].at = "writing" /\ request[r].campaign = c

\* launch_campaign, first half: materialize_messages writes a message to each
\* contact of the audience that has none, with today's date, in a transaction
\* nobody can look into.  The audience is what it is by now.
Materialize(r, c) ==
  /\ request[r] = Loaded /\ launch[c].stage # "deleted"
  /\ \E to \in SUBSET (Audience[c] \cap contacts) \ {{}} :
       request' = [request EXCEPT ![r] =
         [at |-> "writing", campaign |-> c, created |-> today,
          new |-> {k \in to : <<c, k>> \notin Rows}]]
  /\ UNCHANGED <<today, launch, row, contacts, page, meanwhile>>

\* Second half: started_at is taken, be it another day, also over an earlier
\* launch, and all is visible.  Of two open launches the one that is first has
\* the row; the other's insert ignores the conflict.
CommitLaunch(r, c) ==
  /\ Writing(r, c) /\ launch[c].stage # "deleted" /\ request[r].new \subseteq contacts
  /\ \E day \in request[r].created .. today :
       /\ launch' = [launch EXCEPT ![c] = [stage |-> "launched", started |-> day]]
       /\ Notes(IF launch[c].stage = "launched" /\ launch[c].started # day
                THEN "relaunched" ELSE "grew")
  /\ row' = [m \in RowIds |->
               IF m[1] = c /\ m[2] \in request[r].new
               THEN [status |-> "pending", day |-> request[r].created, wired |-> FALSE]
               ELSE row[m]]
  /\ request' = [q \in Requests |->
                   CASE q = r -> Over
                     [] q # r /\ Writing(q, c) -> [request[q] EXCEPT !.new = @ \ request[r].new]
                     [] OTHER -> request[q]]
  /\ UNCHANGED <<today, contacts, page>>

\* A campaign that is gone is not updated, and a message to a contact that is
\* gone is refused when the launch commits: it is rolled back.
LaunchFails(r, c) ==
  /\ Writing(r, c) /\ (launch[c].stage = "deleted" \/ ~(request[r].new \subseteq contacts))
  /\ request' = [request EXCEPT ![r] = Over]
  /\ UNCHANGED <<today, launch, row, contacts, page, meanwhile>>

\* CampaignDetailsUpdateView.form_valid and CampaignViewSet.perform_update save
\* every column of the copy: a launched campaign is a draft again that was never
\* started, and a deleted one is inserted again.
SaveDraft(r, c) ==
  /\ request[r] = Loaded /\ launch[c].stage # "draft"
  /\ request' = [request EXCEPT ![r] = Over]
  /\ launch' = [launch EXCEPT ![c] = Draft]
  /\ Notes("undone")
  /\ UNCHANGED <<today, row, contacts, page>>

Moves(m, status, happening) ==
  /\ row' = [row EXCEPT ![m] =
               [@ EXCEPT !.status = status, !.wired = @ \/ status \in {"sent", "delivered", "read"}]]
  /\ Notes(happening)
  /\ UNCHANGED <<today, launch, request, contacts, page>>

\* A claim, an outcome or a report: rows in flight go anywhere, others only up.
Progress(m, status) ==
  /\ m \in Rows /\ row[m].status # status
  /\ row[m].status \in Terminal => ~Outranks(row[m].status, status)
  /\ Moves(m, status, "moved")

\* The same from a copy older than another report or than a cancel, which a
\* retry puts back in the queue.
Overwrite(m, status) ==
  /\ m \in Rows /\ row[m].status \in Terminal
  /\ row[m].status # status /\ Outranks(row[m].status, status)
  /\ status \in Terminal \/ (row[m].status = "failed" /\ status = "queued")
  /\ Moves(m, status, "overwritten")

Delete(rows) ==
  /\ row' = [m \in RowIds |-> IF m \in rows THEN NoRow ELSE row[m]]
  /\ Notes("shrank")

\* delete_contact: its messages go with it.
DeleteContact(k) ==
  /\ k \in contacts
  /\ contacts' = contacts \ {k}
  /\ Delete({m \in Rows : m[2] = k})
  /\ UNCHANGED <<today, launch, request, page>>

\* CampaignDeleteView.form_valid and CampaignViewSet.perform_destroy: one that
\* is not PROCESSING, a draft or one that was paused or finished at any time.
DeleteCampaign(c) ==
  /\ launch[c].stage # "deleted"
  /\ launch' = [launch EXCEPT ![c] = [Draft EXCEPT !.stage = "deleted"]]
  /\ Delete(RowsOf(c))
  /\ UNCHANGED <<today, request, contacts, page>>

Midnight ==
  /\ today < MaxDay
  /\ today' = today + 1
  /\ UNCHANGED <<launch, request, row, contacts, page, meanwhile>>

-----------------------------------------------------------------------------
(* ReportsView.get_context_data: one query after the other *)

Reads == UNCHANGED <<today, launch, request, row, contacts, meanwhile>>

OpenPage(asked) ==
  /\ page = NoPage
  /\ Representable(ResolvePeriod(asked))
  /\ page' = [stage |-> "opened", period |-> ResolvePeriod(asked)]
  /\ Reads

ReadActivity ==
  /\ page.stage = "opened"
  /\ LET chart == StackedColumnChart(DailyActivity(page.period))
     IN page' = [stage |-> "charted", period |-> page.period,
                 total |-> chart.total, failures |-> chart.legend["failed"]]
  /\ Reads

\* overview: messages, then campaigns (and contacts).
ReadMessages ==
  /\ page.stage = "charted"
  /\ page' = [stage |-> "counted", period |-> page.period,
              total |-> page.total, failures |-> page.failures,
              messages |-> Cardinality(CreatedIn(page.period)),
              failed |-> Counting(CreatedIn(page.period), {"failed"})]
  /\ Reads

ReadCampaigns ==
  /\ page.stage = "counted"
  /\ page' = [stage |-> "tiled", period |-> page.period,
              total |-> page.total, failures |-> page.failures,
              messages |-> page.messages, failed |-> page.failed,
              recipients |-> Cardinality({m \in Rows : m[1] \in StartedIn(page.period)})]
  /\ Reads

\* campaign_performance
ReadPerformance ==
  /\ page.stage = "tiled"
  /\ LET rows == CampaignPerformance(page.period)
     IN page' = [stage |-> "listed", period |-> page.period,
                 total |-> page.total, failures |-> page.failures,
                 messages |-> page.messages, failed |-> page.failed,
                 recipients |-> page.recipients,
                 listed |-> SumFunction([c \in DOMAIN rows |-> Total(rows[c])])]
  /\ Reads

\* failure_reasons, and the page is shown.
ReadReasons ==
  /\ page.stage = "listed"
  /\ LET reasons == FailureReasons(page.period, ReasonLimit)
     IN page' = [stage |-> "shown", period |-> page.period,
                 total |-> page.total, failures |-> page.failures,
                 messages |-> page.messages, failed |-> page.failed,
                 recipients |-> page.recipients, listed |-> page.listed,
                 reasons |-> SumFunction(reasons),
                 complete |-> Cardinality(DOMAIN reasons) < ReasonLimit]
  /\ Reads

\* HomeView.get_context_data: the tiles, the chart of the last days, the lists.
OpenHome ==
  /\ page = NoPage
  /\ page' = [stage |-> "home", tiles |-> GlobalStats]
  /\ Reads

ReadHomeChart ==
  /\ page.stage = "home"
  /\ LET period == LastDays(DashboardDays)
         chart == StackedColumnChart(DailyActivity(period))
     IN page' = [stage |-> "homeCharted", tiles |-> page.tiles, period |-> period,
                 total |-> chart.total, failures |-> chart.legend["failed"]]
  /\ Reads

ReadHomeFailures ==
  /\ page.stage = "homeCharted"
  /\ page' = [stage |-> "homeListed", tiles |-> page.tiles, period |-> page.period,
              total |-> page.total, failures |-> page.failures, listed |-> RecentFailures]
  /\ Reads

\* The query of the campaigns is made when the page is rendered.
ReadHomeCampaigns ==
  /\ page.stage = "homeListed"
  /\ LET recent == RecentCampaigns
         sum(field) == SumFunction([c \in DOMAIN recent |-> recent[c][field]])
     IN page' = [stage |-> "homeShown", tiles |-> page.tiles, period |-> page.period,
                 total |-> page.total, failures |-> page.failures, listed |-> page.listed,
                 recent |-> [messages |-> sum("messages"), delivered |-> sum("delivered"),
                             failed |-> sum("failed")]]
  /\ Reads

ClosePage ==
  /\ page.stage \in {"shown", "homeShown"}
  /\ page' = NoPage
  /\ meanwhile' = <<>>
  /\ UNCHANGED <<today, launch, request, row, contacts>>

-----------------------------------------------------------------------------
ReportingInit ==
  /\ today = FirstDay
  /\ launch = [c \in Campaigns |-> Draft]
  /\ request = [r \in Requests |-> Loaded]
  /\ row = [m \in RowIds |-> NoRow]
  /\ contacts = UNION {Audience[c] : c \in Campaigns}
  /\ page = NoPage
  /\ meanwhile = <<>>

ReportingNext ==
  \/ \E r \in Requests, c \in Campaigns :
       Materialize(r, c) \/ CommitLaunch(r, c) \/ LaunchFails(r, c) \/ SaveDraft(r, c)
  \/ \E c \in Campaigns : DeleteCampaign(c)
  \/ \E m \in RowIds, s \in Observed : Progress(m, s) \/ Overwrite(m, s)
  \/ \E k \in contacts : DeleteContact(k)
  \/ Midnight
  \/ \E asked \in Asked : OpenPage(asked)
  \/ ReadActivity \/ ReadMessages \/ ReadCampaigns \/ ReadPerformance \/ ReadReasons
  \/ OpenHome \/ ReadHomeChart \/ ReadHomeFailures \/ ReadHomeCampaigns
  \/ ClosePage

ReportingTypeOK ==
  /\ today \in FirstDay .. MaxDay
  /\ \A c \in Campaigns : launch[c].stage \in {"draft", "launched", "deleted"}
  /\ \A r \in Requests : request[r].at \in {"loaded", "writing", "over"}
  /\ \A m \in Rows : row[m].status \in Observed /\ row[m].day \in FirstDay .. today
  /\ Range(meanwhile) \subseteq {"grew", "relaunched", "undone", "moved", "overwritten", "shrank"}

-----------------------------------------------------------------------------
\* Every message of a period is in exactly one column and one band of its
\* chart; the columns are few enough, follow each other without a gap, and only
\* the oldest may cover fewer days; the axis holds the tallest and is at most
\* twice as high; and every campaign's bar counts each of its messages once.
ChartCountsEveryMessage ==
  page.stage = "opened" =>
    LET activity == DailyActivity(page.period)
        chart == StackedColumnChart(activity)
        columns == BucketActivity(activity)
        width(i) == columns[i].last - columns[i].first
    IN /\ chart.total = Cardinality(CreatedIn(page.period))
       /\ Len(columns) <= MaxColumns
       /\ columns[1].first = 1 /\ columns[Len(columns)].last = Len(activity)
       /\ \A i \in 2 .. Len(columns) :
            /\ columns[i].first = columns[i - 1].last + 1
            /\ width(i) = width(Len(columns)) /\ width(i) >= width(1)
       /\ \A i \in DOMAIN chart.columns : ColumnTotal(columns[i]) <= chart.top
       /\ chart.total > 0 =>
            \E i \in DOMAIN columns : chart.top <= 2 * ColumnTotal(columns[i])
       /\ \A c \in StartedIn(page.period) :
            Total(StatsProportions(CampaignStats(c))) = Cardinality(RowsOf(c))

\* What takes messages out of the campaigns started in a period: a deletion, a
\* launch again on another day, a draft saved over a launch.
Unlisting == {"shrank", "relaunched", "undone"}

\* The page's tiles and tables are read after its chart, and over the same days
\* though midnight may fall between.
ReportsPageAddsUp ==
  page.stage = "shown" =>
    /\ "shrank" \notin Range(meanwhile) => page.messages >= page.total
    /\ Range(meanwhile) \cap Unlisting = {} => page.listed >= page.recipients
    /\ Range(meanwhile) \cap {"shrank", "overwritten"} = {} =>
         page.failed >= page.failures /\ (page.complete => page.reasons >= page.failed)
    /\ meanwhile = <<>> =>
         /\ page.messages = page.total /\ page.failed = page.failures
         /\ page.listed = page.recipients
         /\ page.complete => page.reasons = page.failed

\* The files its links give now, be it another day, of a period of no more than
\* MaxPeriodDays.
FilesAddUp ==
  page.stage = "shown" /\ LengthOf(page.period) <= MaxPeriodDays =>
    LET file == [report \in {"campaigns", "messages", "failures"} |->
                   Download(report, PeriodQuery(page.period))]
        recipients == SumFunction([r \in file.campaigns |-> r.recipients])
        failures == SumFunction([r \in file.failures |-> r.messages])
    IN /\ \A r \in file.campaigns : r.recipients = Cardinality(CampaignMessageRows(r.campaign))
       /\ Cardinality(file.failures) < FileLimit =>
            failures = Cardinality({r \in file.messages : r.status = "failed"})
       /\ "shrank" \notin Range(meanwhile) => Cardinality(file.messages) >= page.messages
       /\ Range(meanwhile) \cap Unlisting = {} => recipients >= page.listed
       /\ meanwhile = <<>> =>
            Cardinality(file.messages) = page.messages /\ recipients = page.listed

\* The dashboard's tiles are read before its chart and its lists.
HomeAddsUp ==
  page.stage = "homeShown" =>
    LET tiles == page.tiles
    IN /\ tiles.total = tiles.sent + tiles.pending + tiles.failed
       /\ tiles.read <= tiles.delivered /\ tiles.delivered <= tiles.sent
       /\ Range(meanwhile) \cap {"grew", "relaunched"} = {} =>
            page.total <= tiles.total /\ page.recent.messages <= tiles.total
       /\ meanwhile = <<>> =>
            /\ page.recent.messages = tiles.total
            /\ page.recent.delivered = tiles.delivered
            /\ page.recent.failed = tiles.failed
            /\ page.listed = Least(RecentLimit, tiles.failed)
            /\ page.period.start <= FirstDay => page.total = tiles.total

\* The parts of a page, and the files downloaded from it, are queries of
\* different moments.  The later ones only count what the earlier ones did and
\* more, but for what was deleted, for failures that were overwritten, and for
\* campaigns that a request with an old copy launched again or made drafts; and
\* if nothing happened they are equal.
PageAddsUp == ReportsPageAddsUp /\ FilesAddUp /\ HomeAddsUp

-----------------------------------------------------------------------------
(* What the code does not keep (see the README) *)

\* dashboard/views.py:181: two numbers on a page "can never be measuring
\* different windows".
TilesAgree ==
  page.stage = "shown" /\ meanwhile = <<>> => page.recipients = page.messages

\* dashboard/services.py:16, against a "report whose past changes underneath
\* the reader".
PastIsSettled ==
  [][\A day \in FirstDay .. today - 1 :
       Cardinality({m \in Rows : row[m].day = day})
         = Cardinality({m \in Rows' : row'[m].day = day})]_reportingVars

\* dashboard/services.py:41, MAX_PERIOD_DAYS: no longer period is shown.
PeriodIsBounded == "period" \in DOMAIN page => LengthOf(page.period) <= MaxPeriodDays

\* dashboard/views.py:210: a download "must cover the period the reader was
\* looking at".
DownloadCoversPage ==
  page.stage = "shown" => ResolvePeriod(PeriodQuery(page.period)) = page.period

\* dashboard/services.py:118: "falling back rather than failing".
EveryUrlIsAnswered == \A asked \in Asked : Representable(ResolvePeriod(asked))

\* billing/usage.py:114: a period is billed for the messages the organization
\* "actually put on the wire", and what was put on it stays so.
MeasuredIsWired == [][MessagesSent' >= MessagesSent]_reportingVars

=============================================================================
