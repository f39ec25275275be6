------------------------- MODULE BillingPeriodProofs -------------------------
(***************************************************************************)
(* Proofs about BillingPeriod for any requests, plans, interval lengths,   *)
(* lost sweeps and number of months: types for any number of sweeps, and   *)
(* the closing of periods for the one sweep the scheduler runs at a time.  *)
(***************************************************************************)
EXTENDS BillingPeriod, TLAPS

Working == {"close", "invoice", "issue", "roll"}

\* A sweep at work holds a period that has run out.
WorkIsDue ==
  /\ sub.start <= now
  /\ \A w \in Sweeps : job[w].now <= now /\ (at[w] \in Working => job[w].row.end <= now)

Typed == TypeOK /\ WorkIsDue

Snapshots == [plan : Plans \union {NoPlan}, end : Nat]
Invoices  == [status : {"none", "draft", "open"}, plan : Plans \union {NoPlan}]
JobRows   == [row : Rows, now : Months, rolled : Nat]
Asked     == [stage : {"new", "loaded", "done"}, op : RequestOps, row : Rows]

\* What a step may write, one record at a time.
LEMMA RowWrites ==
  ASSUME NEW row \in Rows
  PROVE  /\ \A s \in Status : [row EXCEPT !.status = s] \in Rows
         /\ \A c \in BOOLEAN : [row EXCEPT !.cancel = c] \in Rows
         /\ \A p \in Plans, s \in Status :
              [row EXCEPT !.plan = p, !.status = s, !.cancel = FALSE] \in Rows
         /\ \A m \in Months, e \in Nat, s \in Status :
              [row EXCEPT !.start = m, !.end = e, !.status = s] \in Rows
  BY DEF Rows

\* The subscription's row keeps its type under every request.
LEMMA RequestRow ==
  ASSUME TypeOK, NEW r \in Requests, Commit(r)
  PROVE  sub' \in Rows /\ sub'.start = sub.start /\ sub'.end = sub.end
<1>1. sub \in Rows /\ request[r].row \in Rows
  BY DEF TypeOK
<1>. DEFINE row == request[r].row
<1>2. row.status \in Status /\ row.cancel \in BOOLEAN
  BY <1>1 DEF Rows
<1>3. CASE ChangePlan(row)
  <2>1. PICK p \in Plans : sub' = IF p = row.plan THEN sub
                            ELSE [sub EXCEPT !.plan = p, !.status = row.status, !.cancel = FALSE]
    BY <1>3 DEF ChangePlan
  <2>2. [sub EXCEPT !.plan = p, !.status = row.status, !.cancel = FALSE] \in Rows
    BY <1>1, <1>2, RowWrites
  <2>. QED
    BY <1>1, <2>1, <2>2 DEF Rows
<1>4. CASE Cancel(row) \/ Resume(row)
  <2>1. \A c \in BOOLEAN : [sub EXCEPT !.cancel = c] \in Rows
    BY <1>1, RowWrites
  <2>. QED
    BY <1>1, <1>4, <2>1 DEF Cancel, Resume, Rows
<1>5. CASE Decline(row) \/ Settle(row)
  <2>1. \A s \in Status : [sub EXCEPT !.status = s] \in Rows
    BY <1>1, RowWrites
  <2>. QED
    BY <1>1, <1>5, <2>1 DEF Decline, Settle, Rows, Status, Entitled
<1>. QED
  BY <1>3, <1>4, <1>5 DEF Commit

\* Rolling moves the row to the next period, or leaves its period alone.
LEMMA RollRow ==
  ASSUME Typed, NEW w \in Sweeps, Roll(w)
  PROVE  /\ sub' \in Rows
         /\ \/ sub'.start = sub.start /\ sub'.end = sub.end
            \/ /\ sub'.start = job[w].row.end /\ sub'.end = job[w].row.end + Length[job[w].row.plan]
               /\ sub'.start <= now
<1>. DEFINE row == job[w].row
<1>1. sub \in Rows /\ row \in Rows /\ now \in Nat /\ row.end <= now /\ now \in Months
  BY DEF Typed, TypeOK, WorkIsDue, Roll, Working, Months
<1>2. row.status \in Status /\ row.end \in Months /\ row.plan \in Plans
  <2>1. row.status \in Status /\ row.end \in Nat /\ row.plan \in Plans
    BY <1>1 DEF Rows
  <2>. QED
    BY <1>1, <2>1, PeriodAssumption DEF Months
<1>3. row.end + Length[row.plan] \in Nat
  BY <1>2, PeriodAssumption DEF Months
<1>4. PICK s \in Status :
        s = IF row.status = "trialing" THEN "active" ELSE row.status
  BY <1>2 DEF Status, Entitled
<1>5. CASE row.cancel
  <2>1. sub' = [sub EXCEPT !.status = "canceled"] /\ "canceled" \in Status
    BY <1>5 DEF Roll, Status
  <2>. QED
    BY <1>1, <2>1, RowWrites DEF Rows
<1>6. CASE ~ row.cancel
  <2>1. sub' = [sub EXCEPT !.start = row.end, !.end = row.end + Length[row.plan], !.status = s]
    BY <1>4, <1>6 DEF Roll
  <2>2. sub' \in Rows
    BY <1>1, <1>2, <1>3, <1>4, <2>1, RowWrites
  <2>. QED
    BY <1>1, <2>1, <2>2 DEF Rows
<1>. QED
  BY <1>5, <1>6

\* A request without a copy of the row has the type of a request.
LEMMA NoRequest == Unloaded("new") \in Asked /\ Unloaded("done") \in Asked
<1>1. (CHOOSE p \in Plans : TRUE) \in Plans
  BY PeriodAssumption
<1>2. 0 \in Months
  BY PeriodAssumption DEF Months
<1>3. NoRow \in Rows
  BY <1>1, <1>2 DEF NoRow, Rows, Status, Entitled
<1>. QED
  BY <1>3 DEF Unloaded, Asked, RequestOps

LEMMA SweepTyped ==
  ASSUME Typed, NEW w \in Sweeps, SweepStep(w) \/ InvoicingFails(w) \/ LoseSweep(w)
  PROVE  Typed'
<1>1. /\ now \in Months /\ sub \in Rows /\ snapshot \in [Months -> Snapshots]
      /\ invoice \in [Months -> Invoices] /\ job \in [Sweeps -> JobRows]
      /\ request \in [Requests -> Asked] /\ faults \in Nat /\ unbilled \subseteq Months /\ job[w].row \in Rows
      /\ at \in [Sweeps -> {"idle", "close", "invoice", "issue", "roll", "reload"}]
  BY DEF Typed, TypeOK, Snapshots, Invoices, JobRows, Asked
<1>2. /\ job[w].row.start \in Months /\ job[w].row.plan \in Plans /\ job[w].row.end \in Nat
      /\ job[w].now \in Months /\ job[w].rolled \in Nat
  BY <1>1 DEF Rows, JobRows
<1>3. CASE Due(w)
  <2>1. [row |-> sub, now |-> now, rolled |-> 0] \in JobRows
    BY <1>1 DEF JobRows
  <2>2. job' \in [Sweeps -> JobRows] /\ job'[w].row = sub /\ job'[w].now = now
    BY <1>1, <1>3, <2>1 DEF Due
  <2>3. sub.end <= now /\ \A v \in Sweeps \ {w} : job'[v] = job[v] /\ at'[v] = at[v]
    BY <1>1, <1>3 DEF Due, GoTo
  <2>. QED
    BY <1>1, <1>3, <2>2, <2>3 DEF Due, GoTo, Typed, TypeOK, WorkIsDue, Snapshots, Invoices, JobRows, Asked, Months
<1>4. CASE Snapshot(w)
  <2>1. [plan |-> job[w].row.plan, end |-> job[w].row.end] \in Snapshots
    BY <1>2 DEF Snapshots
  <2>2. snapshot' \in [Months -> Snapshots]
    BY <1>1, <1>4, <2>1 DEF Snapshot
  <2>3. \A v \in Sweeps \ {w} : at'[v] = at[v]
    BY <1>1, <1>4 DEF Snapshot, GoTo
  <2>4. at[w] = "close" /\ UNCHANGED <<now, sub, job>>
    BY <1>4 DEF Snapshot
  <2>. QED
    BY <1>1, <1>4, <2>2, <2>3, <2>4 DEF Snapshot, GoTo, Typed, TypeOK, WorkIsDue, Working, Snapshots, Invoices, JobRows, Asked
<1>5. CASE Generate(w) \/ Issue(w) \/ InvoicingFails(w)
  <2>1. [status |-> "draft", plan |-> job[w].row.plan] \in Invoices
    BY <1>2 DEF Invoices
  <2>2. \A i \in Invoices : [i EXCEPT !.status = "open"] \in Invoices
    BY DEF Invoices
  <2>3. invoice' \in [Months -> Invoices]
    BY <1>1, <1>2, <1>5, <2>1, <2>2 DEF Generate, Issue, InvoicingFails
  <2>4. /\ at[w] \in {"invoice", "issue"} /\ at'[w] \in {"issue", "roll"}
        /\ at' \in [Sweeps -> {"idle", "close", "invoice", "issue", "roll", "reload"}]
        /\ \A v \in Sweeps \ {w} : at'[v] = at[v]
        /\ UNCHANGED <<now, sub, snapshot, job, request>> /\ faults' \in Nat /\ unbilled' \subseteq Months
    BY <1>1, <1>2, <1>5 DEF Generate, Issue, InvoicingFails, GoTo, Disturb
  <2>. QED
    BY <1>1, <2>3, <2>4 DEF Typed, TypeOK, WorkIsDue, Working, Snapshots, Invoices, JobRows, Asked
<1>6. CASE Roll(w)
  <2>1. sub' \in Rows /\ sub'.start <= now
    BY <1>1, <1>6, RollRow DEF Typed, WorkIsDue
  <2>2. job' \in [Sweeps -> JobRows] /\ \A v \in Sweeps : job'[v].row = job[v].row /\ job'[v].now = job[v].now
    <3>1. \A j \in JobRows : /\ [j EXCEPT !.rolled = @ + 1] \in JobRows
                            /\ [j EXCEPT !.rolled = @ + 1].row = j.row /\ [j EXCEPT !.rolled = @ + 1].now = j.now
      BY DEF JobRows
    <3>2. job' = [job EXCEPT ![w] = [job[w] EXCEPT !.rolled = job[w].rolled + 1]] /\ job[w] \in JobRows
      BY <1>1, <1>6 DEF Roll
    <3>. QED
      BY <1>1, <3>1, <3>2
  <2>3. /\ at' \in [Sweeps -> {"idle", "close", "invoice", "issue", "roll", "reload"}]
        /\ at'[w] = "reload" /\ \A v \in Sweeps \ {w} : at'[v] = at[v]
        /\ UNCHANGED <<now, snapshot, invoice, request, faults, unbilled>>
    BY <1>1, <1>6 DEF Roll, GoTo
  <2>. QED
    BY <1>1, <2>1, <2>2, <2>3 DEF Typed, TypeOK, WorkIsDue, Working, Snapshots, Invoices, JobRows, Asked
<1>7. CASE Reload(w)
  <2>1. job' \in [Sweeps -> JobRows] /\ job'[w].row = sub /\ job'[w].now = job[w].now
    BY <1>1, <1>2, <1>7 DEF Reload, JobRows
  <2>2. /\ at' \in [Sweeps -> {"idle", "close", "invoice", "issue", "roll", "reload"}]
        /\ at'[w] \in {"close", "idle"} /\ (at'[w] = "close" => sub.end <= job[w].now)
        /\ \A v \in Sweeps \ {w} : at'[v] = at[v] /\ job'[v] = job[v]
        /\ UNCHANGED <<now, sub, snapshot, invoice, request, faults, unbilled>>
    BY <1>1, <1>7 DEF Reload, GoTo
  <2>3. sub.end \in Nat /\ now \in Nat
    BY <1>1 DEF Rows, Months
  <2>4. job[w].now <= now /\ job[w].now \in Nat
    BY <1>2 DEF Typed, WorkIsDue, Months
  <2>5. at'[w] = "close" => job'[w].row.end <= now
    BY <2>1, <2>2, <2>3, <2>4
  <2>. QED
    BY <1>1, <2>1, <2>2, <2>4, <2>5 DEF Typed, TypeOK, WorkIsDue, Working, Snapshots, Invoices, JobRows, Asked
<1>8. CASE LoseSweep(w)
  <2>1. /\ at' \in [Sweeps -> {"idle", "close", "invoice", "issue", "roll", "reload"}]
        /\ at'[w] = "idle" /\ \A v \in Sweeps \ {w} : at'[v] = at[v]
        /\ UNCHANGED <<now, sub, snapshot, invoice, job, request, unbilled>> /\ faults' \in Nat
    BY <1>1, <1>8 DEF LoseSweep, GoTo, Disturb
  <2>. QED
    BY <1>1, <2>1 DEF Typed, TypeOK, WorkIsDue, Working, Snapshots, Invoices, JobRows, Asked
<1>. QED
  BY <1>3, <1>4, <1>5, <1>6, <1>7, <1>8 DEF SweepStep

LEMMA OthersTyped ==
  ASSUME Typed,
         UNCHANGED vars \/ Tick \/ \E r \in Requests : Commit(r) \/ \E op \in Ops : Load(r, op)
  PROVE  Typed'
<1>1. /\ now \in Months /\ sub \in Rows /\ request \in [Requests -> Asked]
      /\ \A w \in Sweeps : job[w].row.end \in Nat /\ job[w].now \in Nat
      /\ sub.start \in Nat /\ now \in Nat
  BY DEF Typed, TypeOK, Asked, Rows, Months
<1>2. CASE UNCHANGED vars
  BY <1>2 DEF vars, Typed, TypeOK, WorkIsDue
<1>3. CASE Tick
  <2>1. now' \in Months /\ now' = now + 1 /\ UNCHANGED <<sub, snapshot, invoice, at, job, request, faults, unbilled>>
    BY <1>1, <1>3, PeriodAssumption DEF Tick, Months, actors
  <2>2. sub.start <= now' /\ \A w \in Sweeps : job[w].now <= now' /\ (at[w] \in Working => job[w].row.end <= now')
    BY <1>1, <2>1 DEF Typed, WorkIsDue
  <2>. QED
    BY <2>1, <2>2 DEF Typed, TypeOK, WorkIsDue
<1>4. ASSUME NEW r \in Requests, Commit(r) PROVE Typed'
  <2>1. sub' \in Rows /\ sub'.start = sub.start
    BY <1>4, RequestRow DEF Typed
  <2>2. Unloaded("done") \in Asked
    BY NoRequest
  <2>3. request' \in [Requests -> Asked] /\ UNCHANGED <<now, snapshot, invoice, at, job, faults, unbilled>>
    BY <1>1, <1>4, <2>2 DEF Commit
  <2>. QED
    BY <2>1, <2>3 DEF Typed, TypeOK, WorkIsDue, Asked
<1>5. ASSUME NEW r \in Requests, NEW op \in Ops, Load(r, op) PROVE Typed'
  <2>1. [stage |-> "loaded", op |-> op, row |-> sub] \in Asked
    BY <1>1, PeriodAssumption DEF Asked
  <2>2. request' \in [Requests -> Asked] /\ UNCHANGED <<now, sub, snapshot, invoice, at, job, faults, unbilled>>
    BY <1>1, <1>5, <2>1 DEF Load
  <2>. QED
    BY <2>2 DEF Typed, TypeOK, WorkIsDue, Asked
<1>. QED
  BY <1>2, <1>3, <1>4, <1>5

LEMMA TypedHolds == Spec => []Typed
<1>1. Init => Typed
  <2>. SUFFICES ASSUME Init PROVE Typed
    OBVIOUS
  <2>1. 0 \in Months
    BY PeriodAssumption DEF Months
  <2>2. PICK p \in Plans, s \in {"trialing", "active"} :
          sub = [status |-> s, start |-> 0, end |-> Length[p], cancel |-> FALSE, plan |-> p]
    BY DEF Init
  <2>3. sub \in Rows /\ sub.start = 0
    BY <2>1, <2>2, PeriodAssumption DEF Rows, Status, Entitled
  <2>4. /\ now \in Months /\ at \in [Sweeps -> {"idle", "close", "invoice", "issue", "roll", "reload"}]
        /\ faults \in Nat /\ unbilled \subseteq Months
    BY <2>1 DEF Init
  <2>5. [plan |-> NoPlan, end |-> 0] \in Snapshots /\ [status |-> "none", plan |-> NoPlan] \in Invoices
    BY DEF Snapshots, Invoices
  <2>6. snapshot \in [Months -> Snapshots] /\ invoice \in [Months -> Invoices]
    BY <2>5 DEF Init
  <2>7. job \in [Sweeps -> JobRows] /\ request \in [Requests -> Asked]
    BY <2>1, <2>3, NoRequest DEF Init, JobRows
  <2>8. TypeOK
    BY <2>3, <2>4, <2>6, <2>7 DEF TypeOK, Snapshots, Invoices, JobRows, Asked
  <2>9. WorkIsDue
    BY <2>3 DEF Init, WorkIsDue, Working
  <2>. QED
    BY <2>8, <2>9 DEF Typed
<1>2. Typed /\ [Next]_vars => Typed'
  BY SweepTyped, OthersTyped DEF Next
<1>. QED
  BY <1>1, <1>2, PTL DEF Spec

\* Every variable keeps its type, with any number of sweeps.
THEOREM TypeCorrect == Spec => []TypeOK
<1>1. Typed => TypeOK
  BY DEF Typed
<1>. QED
  BY <1>1, TypedHolds, PTL

-----------------------------------------------------------------------------

\* The scheduler starts one sweep at a time.
OneSweep == \A v, w \in Sweeps : v = w

\* The sweep's copy names the current period, which is closed before it rolls;
\* what is closed ends where the next period starts.
TileInv ==
  /\ sub.start < sub.end
  /\ \A w \in Sweeps :
       /\ at[w] \in Working => job[w].row.start = sub.start /\ job[w].row.end = sub.end
       /\ at[w] \in Working \ {"close"} => Closed(sub.start)
  /\ \A p \in Months : Closed(p) =>
       /\ p <= sub.start
       /\ p < sub.start => snapshot[p].end <= sub.start
       /\ p = sub.start => snapshot[p].end = sub.end
  /\ ClosedPeriodsTile

\* A step that leaves the current period and the snapshots alone.
LEMMA TileStep ==
  ASSUME TileInv, UNCHANGED snapshot, sub'.start = sub.start, sub'.end = sub.end,
         \A w \in Sweeps :
           /\ at'[w] \in Working => \/ at[w] \in Working /\ job'[w].row = job[w].row
                                    \/ job'[w].row.start = sub.start /\ job'[w].row.end = sub.end
           /\ at'[w] \in Working \ {"close"} => at[w] \in Working \ {"close"}
  PROVE  TileInv'
<1>1. \A p \in Months : Closed(p)' = Closed(p) /\ snapshot'[p] = snapshot[p]
  BY DEF Closed
<1>2. ClosedPeriodsTile'
  BY <1>1 DEF TileInv, ClosedPeriodsTile, Covers, Closed
<1>3. \A w \in Sweeps :
        /\ at'[w] \in Working => job'[w].row.start = sub.start /\ job'[w].row.end = sub.end
        /\ at'[w] \in Working \ {"close"} => Closed(sub.start)
  BY DEF TileInv
<1>. QED
  BY <1>1, <1>2, <1>3 DEF TileInv, Closed

LEMMA TileSnapshot ==
  ASSUME Typed, TileInv, OneSweep, NEW w \in Sweeps, Snapshot(w)
  PROVE  TileInv'
<1>. DEFINE row == job[w].row
<1>1. /\ at[w] = "close" /\ row.start = sub.start /\ row.end = sub.end /\ row.plan \in Plans
      /\ sub.start \in Months /\ sub.end \in Nat /\ snapshot \in [Months -> Snapshots]
      /\ sub.start \in Nat
  BY DEF Typed, TypeOK, TileInv, Snapshot, Working, Rows, Snapshots, Months
<1>2. CASE Closed(row.start)
  <2>1. UNCHANGED <<sub, job, snapshot>> /\ Closed(sub.start)
    BY <1>1, <1>2 DEF Snapshot
  <2>2. \A p \in Months : Closed(p)' = Closed(p) /\ snapshot'[p] = snapshot[p]
    BY <2>1 DEF Closed
  <2>3. ClosedPeriodsTile'
    BY <2>1, <2>2 DEF TileInv, ClosedPeriodsTile, Covers, Closed
  <2>4. \A v \in Sweeps : v = w
    BY DEF OneSweep
  <2>. QED
    BY <1>1, <2>1, <2>2, <2>3, <2>4 DEF TileInv, Working, Closed
<1>3. CASE ~ Closed(row.start)
  <2>1. /\ UNCHANGED <<sub, job>>
        /\ snapshot' = [snapshot EXCEPT ![sub.start] = [plan |-> row.plan, end |-> sub.end]]
    BY <1>1, <1>3 DEF Snapshot
  <2>2. /\ snapshot'[sub.start].plan = row.plan /\ snapshot'[sub.start].end = sub.end
        /\ \A p \in Months \ {sub.start} : snapshot'[p] = snapshot[p]
    BY <1>1, <2>1
  <2>3. Closed(sub.start)' /\ \A p \in Months \ {sub.start} : Closed(p)' = Closed(p)
    BY <1>1, <2>1, <2>2, PeriodAssumption DEF Closed
  <2>4. \A m \in Months : m < sub.start => \E p \in Months : Covers(p, m)'
    <3>1. SUFFICES ASSUME NEW m \in Months, m < sub.start PROVE \E p \in Months : Covers(p, m)'
      OBVIOUS
    <3>2. PICK p \in Months : Covers(p, m)
      BY <3>1 DEF TileInv, ClosedPeriodsTile
    <3>3. p # sub.start
      BY <1>1, <1>3, <3>2 DEF Covers
    <3>. QED
      BY <2>2, <2>3, <3>2, <3>3 DEF Covers
  <2>5. \A p, q \in Months : Closed(p)' /\ Closed(q)' /\ p < q => snapshot'[p].end <= q
    <3>1. SUFFICES ASSUME NEW p \in Months, NEW q \in Months, Closed(p)', Closed(q)', p < q
                   PROVE  snapshot'[p].end <= q
      OBVIOUS
    <3>2. q <= sub.start /\ p # sub.start
      BY <1>1, <2>3, <3>1 DEF TileInv, Months
    <3>. QED
      BY <1>1, <2>2, <2>3, <3>1, <3>2 DEF TileInv, ClosedPeriodsTile
  <2>6. \A p \in Months : Closed(p)' =>
          /\ p <= sub.start
          /\ p < sub.start => snapshot'[p].end <= sub.start
          /\ p = sub.start => snapshot'[p].end = sub.end
    BY <1>1, <2>2, <2>3 DEF TileInv
  <2>7. \A v \in Sweeps : v = w
    BY DEF OneSweep
  <2>. QED
    BY <1>1, <2>1, <2>3, <2>4, <2>5, <2>6, <2>7 DEF TileInv, ClosedPeriodsTile
<1>. QED
  BY <1>2, <1>3

LEMMA TileRoll ==
  ASSUME Typed, TileInv, OneSweep, NEW w \in Sweeps, Roll(w)
  PROVE  TileInv' /\ sub'.start >= sub.start
<1>. DEFINE row == job[w].row
<1>1. /\ at[w] = "roll" /\ row.start = sub.start /\ row.end = sub.end /\ Closed(sub.start)
      /\ sub.start \in Nat /\ sub.end \in Nat /\ sub.start < sub.end /\ sub.start \in Months
      /\ row.plan \in Plans
  BY DEF Typed, TypeOK, TileInv, Roll, Working, Rows, Months
<1>2. at'[w] = "reload" /\ UNCHANGED snapshot /\ \A v \in Sweeps : v = w
  BY DEF Roll, GoTo, OneSweep, Typed, TypeOK
<1>3. CASE sub'.start = sub.start /\ sub'.end = sub.end
  <2>1. \A v \in Sweeps : at'[v] \notin Working
    BY <1>2 DEF Working
  <2>. QED
    BY <1>1, <1>2, <1>3, <2>1, TileStep
<1>4. CASE sub'.start = row.end /\ sub'.end = row.end + Length[row.plan]
  <2>1. sub'.start = sub.end /\ sub'.start < sub'.end /\ sub'.start \in Nat
    BY <1>1, <1>4, PeriodAssumption
  <2>2. \A p \in Months : Closed(p)' = Closed(p) /\ snapshot'[p] = snapshot[p]
    BY <1>2 DEF Closed
  <2>3. \A p \in Months : Closed(p) => p < sub'.start /\ snapshot[p].end <= sub'.start
    <3>1. SUFFICES ASSUME NEW p \in Months, Closed(p) PROVE p < sub'.start /\ snapshot[p].end <= sub'.start
      OBVIOUS
    <3>2. p \in Nat /\ snapshot[p].end \in Nat
      <4>1. snapshot \in [Months -> Snapshots]
        BY DEF Typed, TypeOK, Snapshots
      <4>. QED
        BY <4>1, PeriodAssumption DEF Months, Snapshots
    <3>3. p = sub.start \/ p < sub.start
      BY <1>1, <3>1, <3>2 DEF TileInv
    <3>. QED
      BY <1>1, <2>1, <3>1, <3>2, <3>3 DEF TileInv
  <2>4. \A m \in Months : m < sub'.start => \E p \in Months : Covers(p, m)'
    <3>1. SUFFICES ASSUME NEW m \in Months, m < sub.end PROVE \E p \in Months : Covers(p, m)'
      BY <2>1
    <3>2. CASE m < sub.start
      <4>1. PICK p \in Months : Covers(p, m)
        BY <3>2 DEF TileInv, ClosedPeriodsTile
      <4>. QED
        BY <2>2, <4>1 DEF Covers
    <3>3. CASE sub.start <= m
      <4>1. snapshot[sub.start].end = sub.end
        BY <1>1 DEF TileInv
      <4>2. PICK p \in Months : p = sub.start
        BY <1>1
      <4>3. Closed(p)' /\ snapshot'[p].end = sub.end /\ p <= m
        BY <1>1, <2>2, <3>3, <4>1, <4>2
      <4>. QED
        BY <3>1, <4>2, <4>3 DEF Covers
    <3>. QED
      BY <1>1, <3>2, <3>3 DEF Months
  <2>5. \A p, q \in Months : Closed(p)' /\ Closed(q)' /\ p < q => snapshot'[p].end <= q
    BY <2>2 DEF TileInv, ClosedPeriodsTile
  <2>6. \A v \in Sweeps : at'[v] \notin Working
    BY <1>2 DEF Working
  <2>7. ClosedPeriodsTile'
    BY <2>4, <2>5 DEF ClosedPeriodsTile
  <2>8. \A p \in Months : Closed(p)' =>
          /\ p <= sub'.start
          /\ p < sub'.start => snapshot'[p].end <= sub'.start
          /\ p = sub'.start => snapshot'[p].end = sub'.end
    BY <2>1, <2>2, <2>3 DEF Months
  <2>. QED
    BY <1>1, <2>1, <2>6, <2>7, <2>8 DEF TileInv
<1>. QED
  BY <1>1, <1>3, <1>4, RollRow

LEMMA TileSweep ==
  ASSUME Typed, TileInv, OneSweep, NEW w \in Sweeps,
         SweepStep(w) \/ InvoicingFails(w) \/ LoseSweep(w)
  PROVE  TileInv' /\ sub'.start >= sub.start
<1>1. /\ at \in [Sweeps -> {"idle", "close", "invoice", "issue", "roll", "reload"}]
      /\ job \in [Sweeps -> JobRows] /\ sub.start \in Nat /\ \A v \in Sweeps : v = w
  BY DEF Typed, TypeOK, JobRows, Rows, Months, OneSweep
<1>2. CASE Due(w) \/ Reload(w)
  <2>1. UNCHANGED <<sub, snapshot>> /\ at'[w] \in {"close", "idle"}
    BY <1>1, <1>2 DEF Due, Reload, GoTo
  <2>2. job'[w].row = sub
    <3>1. CASE Due(w)
      BY <1>1, <3>1 DEF Due
    <3>2. CASE Reload(w)
      <4>1. job' = [job EXCEPT ![w].row = sub] /\ job[w] \in JobRows
        BY <1>1, <3>2 DEF Reload
      <4>. QED
        BY <1>1, <4>1 DEF JobRows
    <3>. QED
      BY <1>2, <3>1, <3>2
  <2>3. \A v \in Sweeps : at'[v] \in Working => at'[v] = "close" /\ job'[v].row = sub
    BY <1>1, <2>1, <2>2 DEF Working
  <2>. QED
    BY <1>1, <2>1, <2>3, TileStep
<1>3. CASE Generate(w) \/ Issue(w) \/ InvoicingFails(w)
  <2>1. UNCHANGED <<sub, snapshot, job>> /\ at[w] \in {"invoice", "issue"} /\ at'[w] \in {"issue", "roll"}
    BY <1>1, <1>3 DEF Generate, Issue, InvoicingFails, GoTo
  <2>. QED
    BY <1>1, <2>1, TileStep DEF Working
<1>4. CASE LoseSweep(w)
  <2>1. UNCHANGED <<sub, snapshot, job>> /\ at'[w] = "idle"
    BY <1>1, <1>4 DEF LoseSweep, GoTo
  <2>. QED
    BY <1>1, <2>1, TileStep DEF Working
<1>5. CASE Snapshot(w)
  BY <1>1, <1>5, TileSnapshot DEF Snapshot
<1>. QED
  BY <1>2, <1>3, <1>4, <1>5, TileRoll DEF SweepStep

LEMMA TileOthers ==
  ASSUME Typed, TileInv,
         UNCHANGED vars \/ Tick \/ \E r \in Requests : Commit(r) \/ \E op \in Ops : Load(r, op)
  PROVE  TileInv' /\ sub'.start >= sub.start
<1>1. UNCHANGED <<snapshot, at, job>> /\ sub'.start = sub.start /\ sub'.end = sub.end
  <2>1. ASSUME NEW r \in Requests, Commit(r) PROVE UNCHANGED <<snapshot, at, job>> /\ sub'.start = sub.start /\ sub'.end = sub.end
    BY <2>1, RequestRow DEF Typed, Commit
  <2>. QED
    BY <2>1 DEF vars, actors, Tick, Load
<1>2. sub.start \in Nat
  BY DEF Typed, TypeOK, Rows, Months
<1>. QED
  BY <1>1, <1>2, TileStep

LEMMA TileHolds == ASSUME OneSweep PROVE Spec => []TileInv
<1>1. Init => TileInv
  <2>. SUFFICES ASSUME Init PROVE TileInv
    OBVIOUS
  <2>1. PICK p \in Plans, s \in {"trialing", "active"} :
          sub = [status |-> s, start |-> 0, end |-> Length[p], cancel |-> FALSE, plan |-> p]
    BY DEF Init
  <2>2. sub.start = 0 /\ sub.start < sub.end
    BY <2>1, PeriodAssumption
  <2>3. \A m \in Months : ~ Closed(m) /\ ~ (m < 0)
    BY DEF Init, Closed, Months
  <2>. QED
    BY <2>2, <2>3 DEF Init, TileInv, ClosedPeriodsTile, Working
<1>2. Typed /\ TileInv /\ [Next]_vars => TileInv'
  BY TileSweep, TileOthers DEF Next
<1>. QED
  BY <1>1, <1>2, TypedHolds, PTL DEF Spec

\* However late the one sweep runs and wherever it is lost, every month is
\* closed once.
THEOREM MonthsAreClosedOnce == ASSUME OneSweep PROVE Spec => []ClosedPeriodsTile
<1>1. TileInv => ClosedPeriodsTile
  BY DEF TileInv
<1>. QED
  BY <1>1, TileHolds, PTL

\* No request moves the period, and the one sweep only moves it forward.
THEOREM PeriodOnlyAdvances == ASSUME OneSweep PROVE Spec => PeriodsAdvance
<1>1. Typed /\ TileInv /\ [Next]_vars => [sub'.start >= sub.start]_vars
  BY TileSweep, TileOthers DEF Next
<1>. QED
  BY <1>1, TypedHolds, TileHolds, PTL DEF Spec, PeriodsAdvance

-----------------------------------------------------------------------------

\* Every plan has a price.
AllPriced == Priced = Plans

\* The period was billed, or billing it raised an error.
Billed(p) == invoice[p].status = "open" \/ p \in unbilled

\* Who is about to roll has billed its period.
BilledInv ==
  /\ \A p \in Months : Closed(p) /\ p < sub.start => Billed(p)
  /\ \A w \in Sweeps : at[w] = "roll" => Billed(job[w].row.start)

\* An invoice that is open stays open.
LEMMA BilledStays ==
  ASSUME Typed, [Next]_vars, NEW p \in Months, Billed(p)
  PROVE  Billed(p)'
<1>1. invoice \in [Months -> Invoices]
  BY DEF Typed, TypeOK, Invoices
<1>2. CASE \E w \in Sweeps : Generate(w)
  <2>1. PICK w \in Sweeps : Generate(w)
    BY <1>2
  <2>2. job[w].row.start \in Months
    BY DEF Typed, TypeOK, Rows
  <2>. QED
    BY <1>1, <2>1, <2>2 DEF Billed, Generate
<1>3. CASE \E w \in Sweeps : Issue(w)
  <2>1. PICK w \in Sweeps : Issue(w)
    BY <1>3
  <2>2. \A i \in Invoices : [i EXCEPT !.status = "open"].status = "open"
    BY DEF Invoices
  <2>. QED
    BY <1>1, <2>1, <2>2 DEF Billed, Issue
<1>4. CASE \E w \in Sweeps : InvoicingFails(w)
  BY <1>4 DEF Billed, InvoicingFails
<1>5. ASSUME UNCHANGED <<invoice, unbilled>> PROVE Billed(p)'
  BY <1>5 DEF Billed
<1>6. ASSUME NEW w \in Sweeps, Due(w) \/ Snapshot(w) \/ Roll(w) \/ Reload(w) \/ LoseSweep(w)
      PROVE  UNCHANGED <<invoice, unbilled>>
  BY <1>6 DEF Due, Snapshot, Roll, Reload, LoseSweep
<1>7. ASSUME Tick \/ UNCHANGED vars \/ \E r \in Requests : Commit(r) \/ \E op \in Ops : Load(r, op)
      PROVE  UNCHANGED <<invoice, unbilled>>
  BY <1>7 DEF Tick, vars, Commit, Load
<1>. QED
  BY <1>2, <1>3, <1>4, <1>5, <1>6, <1>7 DEF Next, SweepStep

\* A step that closes nothing, leaves the current period alone and brings
\* nobody to the roll unbilled.
LEMMA BilledStep ==
  ASSUME Typed, BilledInv, [Next]_vars, UNCHANGED snapshot, sub'.start = sub.start,
         \A w \in Sweeps : at'[w] = "roll" =>
           /\ job'[w].row.start = job[w].row.start
           /\ at[w] = "roll" \/ Billed(job[w].row.start)'
  PROVE  BilledInv'
<1>1. \A p \in Months : Closed(p)' = Closed(p)
  BY DEF Closed
<1>2. \A w \in Sweeps : job[w].row.start \in Months
  BY DEF Typed, TypeOK, Rows
<1>3. \A p \in Months : Billed(p) => Billed(p)'
  BY BilledStays
<1>4. \A p \in Months : Closed(p)' /\ p < sub'.start => Billed(p)'
  BY <1>1, <1>3 DEF BilledInv
<1>5. ASSUME NEW w \in Sweeps, at'[w] = "roll" PROVE Billed(job[w].row.start)'
  BY <1>2, <1>3, <1>5 DEF BilledInv
<1>. QED
  BY <1>4, <1>5 DEF BilledInv, Billed

LEMMA BilledSweep ==
  ASSUME Typed, TileInv, BilledInv, OneSweep, AllPriced, [Next]_vars, NEW w \in Sweeps,
         SweepStep(w) \/ InvoicingFails(w) \/ LoseSweep(w)
  PROVE  BilledInv'
<1>1. /\ at \in [Sweeps -> {"idle", "close", "invoice", "issue", "roll", "reload"}]
      /\ invoice \in [Months -> Invoices] /\ job \in [Sweeps -> JobRows]
      /\ job[w].row.start \in Months /\ job[w].row.plan \in Plans /\ \A v \in Sweeps : v = w
      /\ sub.start \in Months /\ sub.start \in Nat
  BY DEF Typed, TypeOK, Invoices, JobRows, Rows, Months, OneSweep
<1>2. CASE Due(w) \/ Reload(w) \/ LoseSweep(w)
  <2>1. UNCHANGED <<snapshot, sub>> /\ at'[w] # "roll"
    BY <1>1, <1>2 DEF Due, Reload, LoseSweep, GoTo
  <2>. QED
    BY <1>1, <2>1, BilledStep
<1>3. CASE Generate(w) \/ Issue(w) \/ InvoicingFails(w)
  <2>1. UNCHANGED <<snapshot, sub, job>>
    BY <1>3 DEF Generate, Issue, InvoicingFails
  <2>2. at'[w] = "roll" => Billed(job[w].row.start)'
    <3>1. CASE Generate(w)
      BY <1>1, <3>1 DEF Generate, GoTo, AllPriced, Billed
    <3>2. CASE Issue(w)
      <4>1. \A i \in Invoices : [i EXCEPT !.status = "open"].status = "open"
        BY DEF Invoices
      <4>2. invoice'[job[w].row.start].status = "open"
        BY <1>1, <3>2, <4>1 DEF Issue
      <4>. QED
        BY <2>1, <4>2 DEF Billed
    <3>3. CASE InvoicingFails(w)
      BY <2>1, <3>3 DEF InvoicingFails, Billed
    <3>. QED
      BY <1>3, <3>1, <3>2, <3>3
  <2>. QED
    BY <1>1, <2>1, <2>2, BilledStep
<1>4. CASE Snapshot(w)
  <2>1. UNCHANGED <<invoice, unbilled, sub, job>> /\ at'[w] = "invoice" /\ job[w].row.start = sub.start
    BY <1>1, <1>4 DEF Snapshot, GoTo, TileInv, Working
  <2>2. \A p \in Months : p # sub.start => Closed(p)' = Closed(p)
    BY <1>4, <2>1 DEF Snapshot, Closed
  <2>3. \A p \in Months : Billed(p)' = Billed(p)
    BY <2>1 DEF Billed
  <2>. QED
    BY <1>1, <2>1, <2>2, <2>3 DEF BilledInv
<1>5. CASE Roll(w)
  <2>1. /\ UNCHANGED <<invoice, unbilled, snapshot>> /\ at'[w] = "reload"
        /\ job[w].row.start = sub.start /\ Billed(job[w].row.start)
    BY <1>1, <1>5 DEF Roll, GoTo, TileInv, BilledInv, Working
  <2>2. \A p \in Months : Closed(p)' = Closed(p) /\ Billed(p)' = Billed(p)
    BY <2>1 DEF Closed, Billed
  <2>3. \A p \in Months : Closed(p) => Billed(p)
    <3>1. \A p \in Months : Closed(p) => p = sub.start \/ p < sub.start
      BY <1>1 DEF TileInv, Months
    <3>. QED
      BY <2>1, <3>1 DEF BilledInv
  <2>. QED
    BY <1>1, <2>1, <2>2, <2>3 DEF BilledInv
<1>. QED
  BY <1>2, <1>3, <1>4, <1>5 DEF SweepStep

LEMMA BilledOthers ==
  ASSUME Typed, BilledInv, [Next]_vars,
         UNCHANGED vars \/ Tick \/ \E r \in Requests : Commit(r) \/ \E op \in Ops : Load(r, op)
  PROVE  BilledInv'
<1>1. UNCHANGED <<snapshot, at, job>> /\ sub'.start = sub.start
  <2>1. ASSUME NEW r \in Requests, Commit(r) PROVE UNCHANGED <<snapshot, at, job>> /\ sub'.start = sub.start
    BY <2>1, RequestRow DEF Typed, Commit
  <2>. QED
    BY <2>1 DEF vars, actors, Tick, Load
<1>. QED
  BY <1>1, BilledStep

\* Wherever the one sweep is lost, the next one bills the period before it
\* moves on.
THEOREM PeriodsAreBilledFirst ==
  ASSUME OneSweep, AllPriced
  PROVE  Spec => []BilledBeforeRolled
<1>1. Init => BilledInv
  <2>1. Init => \A p \in Months : ~ Closed(p)
    BY DEF Init, Closed
  <2>. QED
    BY <2>1 DEF Init, BilledInv
<1>2. Typed /\ TileInv /\ BilledInv /\ [Next]_vars => BilledInv'
  BY BilledSweep, BilledOthers DEF Next
<1>3. BilledInv => BilledBeforeRolled
  BY DEF BilledInv, BilledBeforeRolled, Billed
<1>. QED
  BY <1>1, <1>2, <1>3, TypedHolds, TileHolds, PTL DEF Spec
=============================================================================
