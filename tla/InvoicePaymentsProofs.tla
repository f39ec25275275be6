------------------------ MODULE InvoicePaymentsProofs ------------------------
(***************************************************************************)
(* Proofs about InvoicePayments, for any number of collectors, handlers    *)
(* and operators, any bounds and any disturbances.                         *)
(***************************************************************************)
EXTENDS InvoicePayments, FiniteSetTheorems, TLAPS

USE DEF bank

(* Type correctness.                                                       *)

ActorsOK ==
  /\ at \in [Actors -> CollectorAt \union HandlerAt \union OperatorAt]
  /\ job \in [Actors -> Jobs]
  /\ \A c \in Collectors : at[c] \in CollectorAt /\ (at[c] \in {"insert", "charge", "record"} => job[c].attempt # 0)
  /\ \A h \in Handlers : at[h] \in HandlerAt /\ (at[h] # "idle" => job[h].attempt # 0)
  /\ \A o \in Operators : at[o] \in OperatorAt

BooksOK ==
  /\ invoice \in [status : InvoiceStatus, paid : Nat, free : BOOLEAN]
  /\ payment \in [Attempts -> {"none", "succeeded", "failed", "refunded"}]
  /\ subscription \in {"active", "past_due"}
  /\ credits \in [Attempts -> Nat]
  /\ ledger \in Nat

RestOK ==
  /\ charge \in [Attempts -> {"none", "taken", "declined"}]
  /\ notice \in [Notices -> {"none", "received", "processed", "ignored", "failed"}]
  /\ queue \in Seq(Notices)
  /\ lock \in Actors \union {Nobody}
  /\ undue \subseteq Attempts
  /\ faults \in Nat

LEMMA TypeParts == TypeOK <=> ActorsOK /\ BooksOK /\ RestOK
BY DEF TypeOK, ActorsOK, BooksOK, RestOK

\* One actor moves and remembers something else.
LEMMA MoveType ==
  ASSUME ActorsOK, NEW a \in Actors, NEW w, NEW j \in Jobs,
         GoTo(a, w), job' = [job EXCEPT ![a] = j],
         a \in Collectors => w \in CollectorAt /\ (w \in {"insert", "charge", "record"} => j.attempt # 0),
         a \in Handlers => w \in HandlerAt /\ (w # "idle" => j.attempt # 0),
         a \in Operators => w \in OperatorAt
  PROVE  ActorsOK'
<1>1. /\ \A b \in Actors \ {a} : at'[b] = at[b] /\ job'[b] = job[b]
      /\ at'[a] = w /\ job'[a] = j
      /\ job' \in [Actors -> Jobs]
  BY DEF GoTo, ActorsOK
<1>2. at' \in [Actors -> CollectorAt \union HandlerAt \union OperatorAt]
  <2>1. w \in CollectorAt \union HandlerAt \union OperatorAt
    BY DEF Actors
  <2>. QED
    BY <2>1 DEF GoTo, ActorsOK
<1>3. \A c \in Collectors :
        at'[c] \in CollectorAt /\ (at'[c] \in {"insert", "charge", "record"} => job'[c].attempt # 0)
  BY <1>1 DEF ActorsOK, Actors
<1>4. \A h \in Handlers : at'[h] \in HandlerAt /\ (at'[h] # "idle" => job'[h].attempt # 0)
  BY <1>1 DEF ActorsOK, Actors
<1>5. \A o \in Operators : at'[o] \in OperatorAt
  BY <1>1 DEF ActorsOK, Actors
<1>. QED
  BY <1>1, <1>2, <1>3, <1>4, <1>5 DEF ActorsOK

\* One actor moves and remembers what it did.
LEMMA StayType ==
  ASSUME ActorsOK, NEW a \in Actors, NEW w, GoTo(a, w), UNCHANGED job,
         a \in Collectors => w \in CollectorAt /\ (w \in {"insert", "charge", "record"} => job[a].attempt # 0),
         a \in Handlers => w \in HandlerAt /\ (w # "idle" => job[a].attempt # 0),
         a \in Operators => w \in OperatorAt
  PROVE  ActorsOK'
<1>1. job[a] \in Jobs /\ job' = [job EXCEPT ![a] = job[a]]
  BY DEF ActorsOK
<1>. QED
  BY <1>1, MoveType

LEMMA Disjoint ==
  /\ \A c \in Collectors : c \in Actors /\ c \notin Handlers /\ c \notin Operators
  /\ \A h \in Handlers : h \in Actors /\ h \notin Collectors /\ h \notin Operators
  /\ \A o \in Operators : o \in Actors /\ o \notin Collectors /\ o \notin Handlers
BY PaymentsAssumption DEF Actors

LEMMA CollectorActors ==
  ASSUME TypeOK, NEW c \in Collectors, CollectorStep(c) \/ LoseAnswer(c) \/ CrashCollector(c)
  PROVE  ActorsOK'
<1> USE Disjoint, TypeParts
<1>1. ActorsOK /\ job[c] \in Jobs
  BY DEF ActorsOK
<1>2. CASE List(c)
  <2> DEFINE j == [NoJob EXCEPT !.status = invoice.status, !.paid = invoice.paid, !.subscription = subscription]
  <2>1. j \in Jobs
    BY DEF NoJob, Jobs, BooksOK, EventKinds
  <2>. QED
    BY <1>1, <1>2, <2>1, MoveType DEF List, CollectorAt
<1>3. CASE NumberAttempt(c)
  <2>1. PICK n \in Attempts : job' = [job EXCEPT ![c].attempt = n]
    BY <1>3 DEF NumberAttempt
  <2> DEFINE j == [job[c] EXCEPT !.attempt = n]
  <2>2. j \in Jobs /\ j.attempt # 0
    BY <1>1, <2>1, PaymentsAssumption DEF Jobs, Attempts
  <2>3. job' = [job EXCEPT ![c] = j]
    BY <1>1, <2>1 DEF ActorsOK
  <2>. QED
    BY <1>1, <1>3, <2>2, <2>3, MoveType DEF NumberAttempt, CollectorAt
<1>4. CASE \E w \in {"idle", "charge", "record"} :
             GoTo(c, w) /\ UNCHANGED job /\ at[c] \in {"collect", "insert", "charge", "record"}
                        /\ (w # "idle" => at[c] \in {"insert", "charge"})
  <2>1. PICK w \in {"idle", "charge", "record"} : GoTo(c, w) /\ UNCHANGED job /\ (w # "idle" => at[c] \in {"insert", "charge"})
    BY <1>4
  <2>2. w # "idle" => job[c].attempt # 0
    BY <1>1, <2>1 DEF ActorsOK
  <2>. QED
    BY <1>1, <2>1, <2>2, StayType DEF CollectorAt
<1>5. CASE CrashCollector(c)
  BY <1>1, <1>5, StayType DEF CrashCollector, CollectorAt
<1>6. CASE MarkSettled(c) \/ InsertPayment(c) \/ Charge(c) \/ Record(c) \/ LoseAnswer(c)
  <2>1. UNCHANGED job /\ at[c] \in {"collect", "insert", "charge", "record"}
    BY <1>6 DEF MarkSettled, InsertPayment, Charge, Record, LoseAnswer
  <2>2. \E w \in {"idle", "charge", "record"} : GoTo(c, w) /\ (w # "idle" => at[c] \in {"insert", "charge"})
    BY <1>6 DEF MarkSettled, InsertPayment, Charge, Record, LoseAnswer
  <2>. QED
    BY <1>4, <2>1, <2>2
<1>. QED
  BY <1>2, <1>3, <1>5, <1>6 DEF CollectorStep

LEMMA HandlerActors ==
  ASSUME TypeOK, NEW h \in Handlers, HandlerStep(h) \/ Break(h) \/ CrashHandler(h)
  PROVE  ActorsOK'
<1> USE Disjoint, TypeParts
<1>1. ActorsOK /\ job[h] \in Jobs /\ (at[h] # "idle" => job[h].attempt # 0)
  BY DEF ActorsOK
<1>2. CASE UNCHANGED actors
  BY <1>1, <1>2 DEF actors, ActorsOK
<1>3. CASE Take(h) /\ ~ UNCHANGED actors
  <2> DEFINE j == [NoJob EXCEPT !.attempt = Head(queue)[1], !.kind = Head(queue)[2]]
  <2>1. Head(queue) \in Notices
    BY <1>3 DEF Take, RestOK
  <2>2. PICK n \in Attempts, k \in EventKinds : Head(queue) = <<n, k>>
    BY <2>1 DEF Notices
  <2>3. Head(queue)[1] = n /\ Head(queue)[2] = k /\ n # 0
    BY <2>2 DEF Attempts
  <2>4. j \in Jobs /\ j.attempt # 0
    BY <2>3 DEF NoJob, Jobs, InvoiceStatus
  <2>5. GoTo(h, "find") /\ job' = [job EXCEPT ![h] = j]
    BY <1>3 DEF Take
  <2>. QED
    BY <1>1, <2>4, <2>5, MoveType DEF HandlerAt
<1>4. CASE Find(h)
  <2>1. CASE UNCHANGED job
    <3>1. GoTo(h, "ignore") \/ GoTo(h, "apply")
      BY <1>4 DEF Find
    <3>2. job[h].attempt # 0
      BY <1>1, <1>4 DEF Find
    <3>. QED
      BY <1>1, <2>1, <3>1, <3>2, StayType DEF HandlerAt
  <2>2. CASE ~ UNCHANGED job
    <3> DEFINE j == [job[h] EXCEPT !.status = invoice.status, !.paid = invoice.paid]
    <3>1. j \in Jobs /\ j.attempt # 0
      BY <1>1, <1>4 DEF Jobs, BooksOK, Find
    <3>2. GoTo(h, "apply") /\ job' = [job EXCEPT ![h].status = invoice.status, ![h].paid = invoice.paid]
      BY <1>4, <2>2 DEF Find
    <3>3. job' = [job EXCEPT ![h] = j]
      BY <1>1, <3>2 DEF ActorsOK
    <3>. QED
      BY <1>1, <3>1, <3>2, <3>3, MoveType DEF HandlerAt
  <2>. QED
    BY <2>1, <2>2
<1>5. CASE Apply(h) \/ Close(h) \/ Break(h) \/ CrashHandler(h)
  <2>1. UNCHANGED job /\ at[h] # "idle" /\ \E w \in {"processed", "idle"} : GoTo(h, w)
    BY <1>5 DEF Apply, Close, Break, CrashHandler, Finish
  <2>. QED
    BY <1>1, <2>1, StayType DEF HandlerAt
<1>. QED
  BY <1>2, <1>3, <1>4, <1>5 DEF HandlerStep

LEMMA OtherActors ==
  ASSUME TypeOK,
         \/ \E n \in Attempts, k \in EventKinds : Deliver(n, k)
         \/ \E o \in Operators : OpenToVoid(o) \/ Void(o)
  PROVE  ActorsOK'
<1> USE Disjoint, TypeParts
<1>1. ActorsOK
  OBVIOUS
<1>2. CASE \E n \in Attempts, k \in EventKinds : Deliver(n, k)
  BY <1>1, <1>2 DEF Deliver, actors, ActorsOK
<1>3. ASSUME NEW o \in Operators, OpenToVoid(o) PROVE ActorsOK'
  <2> DEFINE j == [job[o] EXCEPT !.status = invoice.status]
  <2>1. j \in Jobs
    BY <1>1 DEF ActorsOK, BooksOK, Jobs
  <2>2. job' = [job EXCEPT ![o] = j] /\ GoTo(o, "void")
    BY <1>1, <1>3 DEF OpenToVoid, ActorsOK
  <2>. QED
    BY <1>1, <2>1, <2>2, MoveType DEF OperatorAt
<1>4. ASSUME NEW o \in Operators, Void(o) PROVE ActorsOK'
  BY <1>1, <1>4, StayType DEF Void, OperatorAt
<1>. QED
  BY <1>2, <1>3, <1>4

\* What apply_payment leaves is an invoice.
LEMMA CreditedType ==
  ASSUME BooksOK, NEW s \in InvoiceStatus, NEW p \in Nat
  PROVE  Credited(s, p) \in [status : InvoiceStatus, paid : Nat, free : BOOLEAN]
<1>1. PICK t \in InvoiceStatus : t = IF s = "open" THEN "paid" ELSE s
  BY DEF InvoiceStatus
<1>2. \A u \in InvoiceStatus, q \in Nat :
        [invoice EXCEPT !.paid = q, !.status = u] \in [status : InvoiceStatus, paid : Nat, free : BOOLEAN]
  BY DEF BooksOK
<1>3. Credited(s, p) = [invoice EXCEPT !.paid = p + 1, !.status = t]
  BY <1>1 DEF Credited
<1>4. p + 1 \in Nat
  OBVIOUS
<1>5. [invoice EXCEPT !.paid = p + 1, !.status = t] \in [status : InvoiceStatus, paid : Nat, free : BOOLEAN]
  BY <1>1, <1>2, <1>4
<1>. QED
  BY <1>3, <1>5

LEMMA BooksType ==
  ASSUME TypeOK, [Next]_vars
  PROVE  BooksOK'
<1> USE TypeParts
<1>1. BooksOK /\ ActorsOK
  OBVIOUS
<1>2. CASE UNCHANGED books
  BY <1>1, <1>2 DEF books, BooksOK
<1>3. ASSUME NEW c \in Collectors, MarkSettled(c) PROVE BooksOK'
  BY <1>1, <1>3 DEF MarkSettled, BooksOK, InvoiceStatus
<1>4. ASSUME NEW c \in Collectors, Record(c) PROVE BooksOK'
  <2>1. job[c].attempt \in Attempts
    BY <1>1, <1>4, Disjoint DEF Record, ActorsOK, Jobs
  <2>2. Credited(invoice.status, invoice.paid) \in [status : InvoiceStatus, paid : Nat, free : BOOLEAN]
    BY <1>1, CreditedType DEF BooksOK
  <2>3. invoice' \in [status : InvoiceStatus, paid : Nat, free : BOOLEAN]
    BY <1>1, <1>4, <2>2 DEF Record, BooksOK
  <2>4. payment' \in [Attempts -> {"none", "succeeded", "failed", "refunded"}]
    BY <1>1, <1>4, <2>1 DEF Record, BooksOK
  <2>5. credits' \in [Attempts -> Nat] /\ ledger' \in Nat
    BY <1>1, <1>4, <2>1 DEF Record, BooksOK
  <2>6. subscription' \in {"active", "past_due"}
    BY <1>1, <1>4 DEF Record, BooksOK, Cleared
  <2>. QED
    BY <2>3, <2>4, <2>5, <2>6 DEF BooksOK
<1>5. ASSUME NEW h \in Handlers, Apply(h) PROVE BooksOK'
  <2>1. job[h].attempt \in Attempts /\ job[h].status \in InvoiceStatus /\ job[h].paid \in Nat /\ job[h].kind \in EventKinds
    BY <1>1, <1>5, Disjoint DEF Apply, ActorsOK, Jobs
  <2>2. \A p \in Nat : LessOne(p) \in Nat
    BY DEF LessOne
  <2>3. invoice' \in [status : InvoiceStatus, paid : Nat, free : BOOLEAN]
    <3>1. CASE invoice' = invoice \/ invoice' = Credited(job[h].status, job[h].paid)
      <4>1. invoice \in [status : InvoiceStatus, paid : Nat, free : BOOLEAN]
        BY <1>1 DEF BooksOK
      <4>2. Credited(job[h].status, job[h].paid) \in [status : InvoiceStatus, paid : Nat, free : BOOLEAN]
        BY <1>1, <2>1, CreditedType
      <4>. QED
        BY <3>1, <4>1, <4>2
    <3>2. CASE \E t \in InvoiceStatus : invoice' = [invoice EXCEPT !.paid = LessOne(job[h].paid), !.status = t]
      <4>1. LessOne(job[h].paid) \in Nat
        BY <2>1, <2>2
      <4>. QED
        BY <1>1, <3>2, <4>1 DEF BooksOK
    <3>3. (IF Settled(LessOne(job[h].paid)) THEN job[h].status ELSE "open") \in InvoiceStatus
      BY <2>1 DEF InvoiceStatus
    <3>. QED
      BY <1>5, <3>1, <3>2, <3>3 DEF Apply
  <2>4. payment' \in [Attempts -> {"none", "succeeded", "failed", "refunded"}]
    BY <1>1, <1>5, <2>1 DEF Apply, BooksOK, EventKinds
  <2>5. credits' \in [Attempts -> Nat] /\ ledger' \in Nat
    BY <1>1, <1>5, <2>1, <2>2 DEF Apply, BooksOK
  <2>6. subscription' \in {"active", "past_due"}
    BY <1>1, <1>5 DEF Apply, BooksOK, Cleared
  <2>. QED
    BY <2>3, <2>4, <2>5, <2>6 DEF BooksOK
<1>6. ASSUME NEW o \in Operators, Void(o) PROVE BooksOK'
  BY <1>1, <1>6 DEF Void, BooksOK, InvoiceStatus
<1>. QED
  BY <1>2, <1>3, <1>4, <1>5, <1>6 DEF Next, vars, books, CollectorStep, HandlerStep, List, NumberAttempt,
     InsertPayment, Charge, LoseAnswer, CrashCollector, Deliver, Take, Find, Close, Break,
     CrashHandler, OpenToVoid

LEMMA RestType ==
  ASSUME TypeOK, [Next]_vars
  PROVE  RestOK'
<1> USE TypeParts, Disjoint DEF inbox, books, actors
<1>1. RestOK /\ ActorsOK
  OBVIOUS
<1>2. lock' \in Actors \union {Nobody}
  BY <1>1 DEF RestOK, Next, vars, CollectorStep, HandlerStep, List, MarkSettled, NumberAttempt,
     InsertPayment, Charge, Record, LoseAnswer, CrashCollector, Deliver, Take, Find, Apply, Close,
     Break, CrashHandler, OpenToVoid, Void
<1>3. faults' = faults \/ faults' = faults + 1
  BY DEF Next, vars, CollectorStep, HandlerStep, List, MarkSettled, NumberAttempt,
     InsertPayment, Charge, Record, LoseAnswer, CrashCollector, Deliver, Take, Find, Apply, Close,
     Break, CrashHandler, OpenToVoid, Void, Disturb
<1>4. charge' \in [Attempts -> {"none", "taken", "declined"}] /\ undue' \subseteq Attempts
  <2>1. ASSUME NEW c \in Collectors, ProviderCharges(job[c].attempt), at[c] = "charge"
        PROVE  charge' \in [Attempts -> {"none", "taken", "declined"}] /\ undue' \subseteq Attempts
    <3>1. job[c].attempt \in Attempts
      BY <1>1, <2>1 DEF ActorsOK, Jobs
    <3>. QED
      BY <1>1, <2>1, <3>1 DEF ProviderCharges, RestOK
  <2>2. UNCHANGED bank \/ \E c \in Collectors : ProviderCharges(job[c].attempt) /\ at[c] = "charge"
    BY DEF Next, vars, CollectorStep, HandlerStep, List, MarkSettled, NumberAttempt, InsertPayment,
       Charge, Record, LoseAnswer, CrashCollector, Deliver, Take, Find, Apply, Close, Break,
       CrashHandler, OpenToVoid, Void
  <2>. QED
    BY <1>1, <2>1, <2>2 DEF RestOK
<1>5. \A h \in Handlers : at[h] # "idle" => Notice(h) \in Notices
  BY <1>1 DEF Notice, Notices, ActorsOK, Jobs
<1>6. notice' \in [Notices -> {"none", "received", "processed", "ignored", "failed"}]
  <2>1. \/ notice' = notice
        \/ \E n \in Attempts, k \in EventKinds : notice' = [notice EXCEPT ![<<n, k>>] = "received"]
        \/ \E h \in Handlers, s \in {"processed", "ignored", "failed"} : notice' = [notice EXCEPT ![Notice(h)] = s]
    BY DEF Next, vars, CollectorStep, HandlerStep, List, MarkSettled, NumberAttempt, InsertPayment,
       Charge, Record, LoseAnswer, CrashCollector, Deliver, Take, Find, Apply, Close, Break, Finish,
       CrashHandler, OpenToVoid, Void
  <2>. QED
    BY <1>1, <2>1 DEF RestOK
<1>7. queue' \in Seq(Notices)
  <2>1. \/ queue' = queue
        \/ queue # <<>> /\ queue' = Tail(queue)
        \/ \E n \in Attempts, k \in EventKinds : queue' = Append(queue, <<n, k>>)
        \/ \E h \in Handlers : at[h] # "idle" /\ queue' = Append(queue, Notice(h))
    BY DEF Next, vars, CollectorStep, HandlerStep, List, MarkSettled, NumberAttempt, InsertPayment,
       Charge, Record, LoseAnswer, CrashCollector, Deliver, Take, Find, Apply, Close, Break, Finish,
       CrashHandler, OpenToVoid, Void
  <2>2. \A n \in Attempts, k \in EventKinds : <<n, k>> \in Notices
    BY DEF Notices
  <2>. QED
    <3>1. queue \in Seq(Notices)
      BY <1>1 DEF RestOK
    <3>2. \A e \in Notices : Append(queue, e) \in Seq(Notices)
      BY <3>1
    <3>3. queue # <<>> => Tail(queue) \in Seq(Notices)
      BY <3>1
    <3>. QED
      BY <1>5, <2>1, <2>2, <3>1, <3>2, <3>3
<1>8. faults' \in Nat
  BY <1>1, <1>3 DEF RestOK
<1>. QED
  BY <1>2, <1>4, <1>6, <1>7, <1>8 DEF RestOK

LEMMA InitType == Init => TypeOK
<1>1. NoJob \in Jobs
  BY DEF NoJob, Jobs, InvoiceStatus, EventKinds
<1>2. Init => ActorsOK
  BY <1>1 DEF Init, ActorsOK, CollectorAt, HandlerAt, OperatorAt, Actors
<1>3. Init => BooksOK /\ RestOK
  BY PaymentsAssumption DEF Init, BooksOK, RestOK, InvoiceStatus
<1>. QED
  BY <1>2, <1>3, TypeParts

\* Everything keeps its type in every reachable state.
THEOREM TypeCorrect == Spec => []TypeOK
<1>1. TypeOK /\ [Next]_vars => TypeOK'
  <2> SUFFICES ASSUME TypeOK, [Next]_vars PROVE TypeOK'
    OBVIOUS
  <2>1. BooksOK' /\ RestOK'
    BY BooksType, RestType
  <2>2. ActorsOK'
    <3>1. CASE UNCHANGED vars
      BY <3>1, TypeParts DEF vars, ActorsOK
    <3>. QED
      BY <3>1, CollectorActors, HandlerActors, OtherActors DEF Next
  <2>. QED
    BY <2>1, <2>2, TypeParts DEF TypeOK, ActorsOK, BooksOK, RestOK
<1>. QED
  BY <1>1, InitType, PTL DEF Spec

-----------------------------------------------------------------------------
(* The books.                                                              *)

\* An open invoice that is not free has nothing paid; whoever listed it open
\* saw that; and what a handler read under its lock is still so when it
\* writes.
BooksInv ==
  /\ BooksBalance
  /\ PaidIsSettled
  /\ invoice.status = "open" => invoice.free \/ invoice.paid = 0
  /\ \A c \in Collectors :
       /\ at[c] = "collect" => invoice.free \/ job[c].paid = 0
       /\ at[c] \in {"charge", "record"} => lock = c
  /\ \A h \in Handlers :
       at[h] = "apply" => lock = h /\ job[h].status = invoice.status /\ job[h].paid = invoice.paid

\* A step that leaves the invoice alone and lets nobody in.
LEMMA QuietStep ==
  ASSUME TypeOK, BooksInv, UNCHANGED <<invoice, ledger>>,
         \A c \in Collectors :
           /\ at'[c] = "collect" => ((at[c] = "collect" /\ job'[c] = job[c]) \/ (job'[c].paid = invoice.paid /\ invoice.status = "open"))
           /\ at'[c] \in {"charge", "record"} => lock' = c,
         \A h \in Handlers :
           at'[h] = "apply" => \/ at[h] = "apply" /\ job'[h] = job[h] /\ lock' = lock
                               \/ lock' = h /\ job'[h].status = invoice.status /\ job'[h].paid = invoice.paid
  PROVE  BooksInv'
BY DEF BooksInv, BooksBalance, PaidIsSettled, Settled

LEMMA BooksCollector ==
  ASSUME TypeOK, BooksInv, NEW c \in Collectors, CollectorStep(c) \/ LoseAnswer(c) \/ CrashCollector(c)
  PROVE  BooksInv'
<1> USE Disjoint DEF books
<1>1. /\ at \in [Actors -> CollectorAt \union HandlerAt \union OperatorAt] /\ job \in [Actors -> Jobs]
      /\ invoice \in [status : InvoiceStatus, paid : Nat, free : BOOLEAN]
      /\ Nobody \notin Actors
      /\ lock \in Actors \union {Nobody}
  BY PaymentsAssumption DEF TypeOK
<1>2. /\ \A a \in Actors \ {c} : at'[a] = at[a] /\ job'[a] = job[a]
      /\ \A a \in Actors : job'[a].paid \in Nat
  <2>1. \E w : GoTo(c, w)
    BY DEF CollectorStep, List, MarkSettled, NumberAttempt, InsertPayment, Charge, Record, LoseAnswer,
       CrashCollector
  <2>2. \A a \in Actors \ {c} : at'[a] = at[a]
    BY <1>1, <2>1 DEF GoTo
  <2>3. \A a \in Actors \ {c} : job'[a] = job[a]
    BY <1>1 DEF CollectorStep, List, MarkSettled, NumberAttempt, InsertPayment, Charge, Record,
       LoseAnswer, CrashCollector
  <2>4. job' \in [Actors -> Jobs]
    BY CollectorActors DEF ActorsOK
  <2>. QED
    BY <2>2, <2>3, <2>4 DEF Jobs
<1>3. CASE List(c)
  <2>1. UNCHANGED <<invoice, ledger, lock>> /\ at'[c] = "collect" /\ job'[c].paid = invoice.paid
        /\ invoice.status = "open"
    BY <1>1, <1>3 DEF List, GoTo
  <2>. QED
    BY <1>1, <1>2, <2>1, QuietStep DEF BooksInv
<1>4. CASE MarkSettled(c)
  <2>1. /\ invoice' = [invoice EXCEPT !.status = "paid"] /\ UNCHANGED <<ledger, lock, job>>
        /\ lock \notin Handlers /\ at'[c] = "idle"
        /\ invoice.free
    BY <1>1, <1>4 DEF MarkSettled, GoTo, Settled, BooksInv
  <2>2. invoice'.free = invoice.free /\ invoice'.paid = invoice.paid /\ invoice'.status = "paid"
    BY <1>1, <2>1
  <2>3. \A h \in Handlers : at'[h] # "apply"
    BY <1>2, <2>1 DEF BooksInv
  <2>. QED
    BY <1>2, <2>1, <2>2, <2>3 DEF BooksInv, BooksBalance, PaidIsSettled, Settled
<1>5. CASE NumberAttempt(c)
  <2>1. UNCHANGED <<invoice, ledger, lock>> /\ at'[c] = "insert"
    BY <1>1, <1>5 DEF NumberAttempt, GoTo
  <2>. QED
    BY <1>2, <2>1, QuietStep DEF BooksInv
<1>6. CASE InsertPayment(c)
  <2>1. UNCHANGED <<invoice, ledger, job>> /\ at'[c] \in {"idle", "charge"} /\ (at'[c] = "charge" => lock' = c)
        /\ lock = Nobody
    BY <1>1, <1>6 DEF InsertPayment, GoTo
  <2>. QED
    BY <1>1, <1>2, <2>1, QuietStep DEF BooksInv
<1>7. CASE Charge(c)
  <2>1. UNCHANGED <<invoice, ledger, lock, job>> /\ at'[c] = "record" /\ at[c] = "charge"
    BY <1>1, <1>7 DEF Charge, GoTo
  <2>. QED
    BY <1>2, <2>1, QuietStep DEF BooksInv
<1>8. CASE LoseAnswer(c) \/ CrashCollector(c)
  <2>1. UNCHANGED <<invoice, ledger, job>> /\ at'[c] = "idle" /\ (lock' = Nobody \/ lock' = lock)
        /\ (lock' # lock => lock = c)
    BY <1>1, <1>8 DEF LoseAnswer, CrashCollector, GoTo, BooksInv
  <2>. QED
    BY <1>1, <1>2, <2>1, QuietStep DEF BooksInv
<1>9. CASE Record(c)
  <2>1. at[c] = "record" /\ at'[c] = "idle" /\ lock' = Nobody /\ UNCHANGED job /\ lock = c
    BY <1>1, <1>9 DEF Record, GoTo, BooksInv
  <2>2. /\ \A h \in Handlers : at'[h] # "apply"
        /\ \A d \in Collectors : at'[d] \notin {"charge", "record"}
    BY <1>1, <1>2, <2>1 DEF BooksInv
  <2>3. CASE UNCHANGED <<invoice, ledger>>
    BY <1>2, <2>1, <2>2, <2>3, QuietStep DEF BooksInv
  <2>4. CASE invoice' = Credited(invoice.status, invoice.paid) /\ ledger' = ledger + 1
    <3>1. /\ invoice'.paid = invoice.paid + 1 /\ invoice'.free = invoice.free
          /\ invoice'.status = IF invoice.status = "open" THEN "paid" ELSE invoice.status
      BY <1>1, <2>4 DEF Credited
    <3>. QED
      BY <1>1, <1>2, <2>1, <2>2, <2>4, <3>1 DEF BooksInv, BooksBalance, PaidIsSettled, Settled
  <2>. QED
    BY <1>9, <2>3, <2>4 DEF Record
<1>. QED
  BY <1>3, <1>4, <1>5, <1>6, <1>7, <1>8, <1>9 DEF CollectorStep

LEMMA BooksHandler ==
  ASSUME TypeOK, BooksInv, NEW h \in Handlers, HandlerStep(h) \/ Break(h) \/ CrashHandler(h)
  PROVE  BooksInv'
<1> USE Disjoint DEF books
<1>1. /\ at \in [Actors -> CollectorAt \union HandlerAt \union OperatorAt] /\ job \in [Actors -> Jobs]
      /\ invoice \in [status : InvoiceStatus, paid : Nat, free : BOOLEAN]
      /\ Nobody \notin Actors /\ ledger \in Nat
  BY PaymentsAssumption DEF TypeOK
<1>2. \A a \in Actors \ {h} : at'[a] = at[a] /\ job'[a] = job[a]
  <2>1. UNCHANGED at \/ \E w : GoTo(h, w)
    BY DEF HandlerStep, Take, Find, Apply, Close, Break, CrashHandler, Finish, actors
  <2>2. \A a \in Actors \ {h} : at'[a] = at[a]
    BY <1>1, <2>1 DEF GoTo
  <2>3. \A a \in Actors \ {h} : job'[a] = job[a]
    <3>1. UNCHANGED job \/ (\E j : job' = [job EXCEPT ![h] = j])
          \/ job' = [job EXCEPT ![h].status = invoice.status, ![h].paid = invoice.paid]
      BY DEF HandlerStep, Take, Find, Apply, Close, Break, CrashHandler, actors
    <3>. QED
      BY <1>1, <3>1
  <2>. QED
    BY <2>2, <2>3
<1>3. CASE Take(h) \/ Close(h)
  <2>1. UNCHANGED <<invoice, ledger, lock>> /\ at'[h] # "apply"
    BY <1>1, <1>3 DEF Take, Close, Finish, GoTo, actors
  <2>. QED
    BY <1>2, <2>1, QuietStep DEF BooksInv
<1>4. CASE Break(h) \/ CrashHandler(h)
  <2>1. UNCHANGED <<invoice, ledger>> /\ at'[h] = "idle" /\ (lock' # lock => lock = h)
    BY <1>1, <1>4 DEF Break, CrashHandler, Finish, GoTo
  <2>. QED
    BY <1>1, <1>2, <2>1, QuietStep DEF BooksInv
<1>5. CASE Find(h)
  <2>1. UNCHANGED <<invoice, ledger>>
    BY <1>5 DEF Find
  <2>2. CASE UNCHANGED lock /\ at'[h] # "apply"
    BY <1>2, <2>1, <2>2, QuietStep DEF BooksInv
  <2>3. CASE lock = Nobody /\ lock' = h /\ at'[h] = "apply"
             /\ job' = [job EXCEPT ![h].status = invoice.status, ![h].paid = invoice.paid]
    <3>1. job'[h].status = invoice.status /\ job'[h].paid = invoice.paid
      BY <1>1, <2>3 DEF Jobs
    <3>. QED
      BY <1>1, <1>2, <2>1, <2>3, <3>1, QuietStep DEF BooksInv
  <2>. QED
    BY <1>1, <1>5, <2>2, <2>3 DEF Find, GoTo
<1>6. CASE Apply(h)
  <2>1. /\ at[h] = "apply" /\ at'[h] = "processed" /\ lock' = Nobody /\ UNCHANGED job /\ lock = h
        /\ job[h].status = invoice.status /\ job[h].paid = invoice.paid
    BY <1>1, <1>6 DEF Apply, GoTo, BooksInv
  <2>2. /\ \A g \in Handlers : at'[g] # "apply"
        /\ \A d \in Collectors : at'[d] \notin {"charge", "record"} /\ at'[d] = at[d] /\ job'[d] = job[d]
    BY <1>1, <1>2, <2>1 DEF BooksInv
  <2>3. CASE UNCHANGED <<invoice, ledger>>
    BY <2>1, <2>2, <2>3, QuietStep DEF BooksInv
  <2>4. CASE invoice' = Credited(invoice.status, invoice.paid) /\ ledger' = ledger + 1
    <3>1. /\ invoice'.paid = invoice.paid + 1 /\ invoice'.free = invoice.free
          /\ invoice'.status = IF invoice.status = "open" THEN "paid" ELSE invoice.status
      BY <1>1, <2>4 DEF Credited
    <3>. QED
      BY <1>1, <2>2, <2>4, <3>1 DEF BooksInv, BooksBalance, PaidIsSettled, Settled
  <2>5. ASSUME NEW left, left = LessOne(invoice.paid), ledger' = LessOne(ledger),
               invoice' = [invoice EXCEPT !.paid = left,
                                          !.status = IF Settled(left) THEN invoice.status ELSE "open"]
        PROVE  BooksInv'
    <3>1. /\ invoice'.paid = left /\ invoice'.free = invoice.free
          /\ invoice'.status = IF Settled(left) THEN invoice.status ELSE "open"
      BY <1>1, <2>5
    <3>2. left \in Nat /\ left <= invoice.paid /\ (left >= 1 => invoice.paid # 0) /\ ledger' = left
      BY <1>1, <2>5 DEF LessOne, BooksInv, BooksBalance
    <3>3. invoice'.status = "open" => invoice'.free \/ invoice'.paid = 0
      BY <1>1, <3>1, <3>2 DEF Settled, BooksInv
    <3>4. invoice'.status = "paid" => invoice'.free \/ invoice'.paid >= 1
      BY <1>1, <3>1, <3>2 DEF Settled
    <3>. QED
      BY <2>2, <3>1, <3>2, <3>3, <3>4 DEF BooksInv, BooksBalance, PaidIsSettled, Settled
  <2>. QED
    BY <1>6, <2>1, <2>3, <2>4, <2>5 DEF Apply
<1>. QED
  BY <1>3, <1>4, <1>5, <1>6 DEF HandlerStep

LEMMA BooksOther ==
  ASSUME TypeOK, BooksInv,
         \/ UNCHANGED vars
         \/ \E n \in Attempts, k \in EventKinds : Deliver(n, k)
         \/ \E o \in Operators : OpenToVoid(o) \/ Void(o)
  PROVE  BooksInv'
<1> USE Disjoint DEF books
<1>1. /\ at \in [Actors -> CollectorAt \union HandlerAt \union OperatorAt] /\ job \in [Actors -> Jobs]
      /\ invoice \in [status : InvoiceStatus, paid : Nat, free : BOOLEAN]
  BY DEF TypeOK
<1>2. CASE UNCHANGED vars \/ \E n \in Attempts, k \in EventKinds : Deliver(n, k)
  BY <1>2, QuietStep DEF vars, Deliver, actors, BooksInv
<1>3. ASSUME NEW o \in Operators, OpenToVoid(o) PROVE BooksInv'
  <2>1. UNCHANGED <<invoice, ledger, lock>> /\ \A a \in Actors \ {o} : at'[a] = at[a] /\ job'[a] = job[a]
    BY <1>1, <1>3 DEF OpenToVoid, GoTo
  <2>. QED
    BY <2>1, QuietStep DEF BooksInv
<1>4. ASSUME NEW o \in Operators, Void(o) PROVE BooksInv'
  <2>1. UNCHANGED <<ledger, lock, job>> /\ \A a \in Actors \ {o} : at'[a] = at[a]
    BY <1>1, <1>4 DEF Void, GoTo
  <2>2. CASE UNCHANGED invoice
    BY <2>1, <2>2, QuietStep DEF BooksInv
  <2>3. CASE lock \notin Handlers /\ invoice' = [invoice EXCEPT !.status = "void"]
    <3>1. invoice'.paid = invoice.paid /\ invoice'.free = invoice.free /\ invoice'.status = "void"
      BY <1>1, <2>3
    <3>. QED
      BY <2>1, <2>3, <3>1 DEF BooksInv, BooksBalance, PaidIsSettled, Settled
  <2>. QED
    BY <1>4, <2>2, <2>3 DEF Void
<1>. QED
  BY <1>2, <1>3, <1>4

LEMMA BooksHold == Spec => []BooksInv
<1>1. Init => BooksInv
  BY Disjoint DEF Init, BooksInv, BooksBalance, PaidIsSettled, Settled
<1>2. TypeOK /\ BooksInv /\ [Next]_vars => BooksInv'
  BY BooksCollector, BooksHandler, BooksOther DEF Next
<1>. QED
  BY <1>1, <1>2, TypeCorrect, PTL DEF Spec

\* No credit and no refund is ever lost to a concurrent one.
THEOREM BooksAlwaysBalance == Spec => []BooksBalance
<1>1. BooksInv => BooksBalance
  BY DEF BooksInv
<1>. QED
  BY <1>1, BooksHold, PTL

\* No interleaving leaves an invoice PAID with something due.
THEOREM PaidIsAlwaysSettled == Spec => []PaidIsSettled
<1>1. BooksInv => PaidIsSettled
  BY DEF BooksInv
<1>. QED
  BY <1>1, BooksHold, PTL
-----------------------------------------------------------------------------
(***************************************************************************)
(* Refunds.  What is taken off had been credited: an attempt that stands,  *)
(* taken by the provider and not refunded here, was credited when it was   *)
(* recorded, so the amount paid is at least the number of attempts that    *)
(* stand.  That a refund finds its attempt standing rests on what the      *)
(* provider notifies (of one taken charge a refund or a failure, and       *)
(* neither before its success) and on the lock of the invoice.             *)
(***************************************************************************)

Taken(n) == charge[n] = "taken"

\* What is stored is what the provider may have told by now.
NoticesFollow ==
  \A n \in Attempts :
    /\ Stored(n, "succeeded") => Taken(n)
    /\ Stored(n, "refunded") => Stored(n, "succeeded")
    /\ Stored(n, "failed") => charge[n] # "none" /\ (Taken(n) => Stored(n, "succeeded"))
    /\ ~(Stored(n, "refunded") /\ Stored(n, "failed"))

\* What is queued or at work was stored.
WorkIsStored ==
  /\ \A i \in 1 .. Len(queue) : notice[queue[i]] # "none"
  /\ \A h \in Handlers : at[h] # "idle" => notice[Notice(h)] # "none"

\* A payment row says what became of its charge, or what was notified since.
RowsFollow ==
  \A n \in Attempts :
    /\ payment[n] # "none" => charge[n] # "none"
    /\ payment[n] = "succeeded" => Taken(n)
    /\ payment[n] = "refunded" => Taken(n) /\ Stored(n, "refunded")
    /\ payment[n] = "failed" /\ Taken(n) => Stored(n, "failed")

\* What was read under the lock is still so.
AtWork ==
  /\ \A h \in Handlers :
       at[h] = "apply" =>
         Taken(job[h].attempt) /\ payment[job[h].attempt] \notin {"none", job[h].kind}
  /\ \A c \in Collectors :
       /\ at[c] \in {"charge", "record"} => payment[job[c].attempt] = "none"
       /\ at[c] = "record" => charge[job[c].attempt] # "none"

Standing == {n \in Attempts : Taken(n) /\ payment[n] \in {"succeeded", "failed"}}

Covered == invoice.paid >= Cardinality(Standing)

RefundInv == NoticesFollow /\ WorkIsStored /\ RowsFollow /\ AtWork /\ Covered

-----------------------------------------------------------------------------
LEMMA StandingIsFinite ==
  \A S : S \subseteq Attempts => IsFiniteSet(S) /\ Cardinality(S) \in Nat
<1>1. IsFiniteSet(Attempts)
  BY PaymentsAssumption, FS_Interval DEF Attempts
<1> QED BY <1>1, FS_Subset, FS_CardinalityType

\* Whoever works on an attempt works on one there is.
LEMMA JobTypes ==
  ASSUME TypeOK
  PROVE  /\ \A c \in Collectors : at[c] \in {"insert", "charge", "record"} => job[c].attempt \in Attempts
         /\ \A h \in Handlers : at[h] # "idle" =>
              job[h].attempt \in Attempts /\ job[h].kind \in EventKinds /\ Notice(h) \in Notices
BY Disjoint DEF TypeOK, Jobs, Notice, Notices

\* Nothing is charged, recorded or stored.
LEMMA RefundQuiet ==
  ASSUME TypeOK, RefundInv, UNCHANGED <<charge, payment>>, invoice'.paid = invoice.paid,
         \A e \in Notices : notice'[e] = "none" <=> notice[e] = "none",
         WorkIsStored', AtWork'
  PROVE  RefundInv'
<1>1. \A n \in Attempts, k \in EventKinds : Stored(n, k)' <=> Stored(n, k)
  BY DEF Stored, Notices
<1>2. NoticesFollow' /\ RowsFollow'
  BY <1>1 DEF RefundInv, NoticesFollow, RowsFollow, Taken, EventKinds
<1>3. Covered'
  BY DEF RefundInv, Covered, Standing, Taken
<1> QED BY <1>2, <1>3 DEF RefundInv

\* A sweep that neither charges nor records.
LEMMA RefundCollectorMoves ==
  ASSUME TypeOK, RefundInv, NEW c \in Collectors,
         UNCHANGED <<charge, payment, notice, queue>>, invoice'.paid = invoice.paid,
         \A a \in Actors \ {c} : at'[a] = at[a] /\ job'[a] = job[a],
         at'[c] \in {"charge", "record"} => payment[job'[c].attempt] = "none",
         at'[c] = "record" => charge[job'[c].attempt] # "none"
  PROVE  RefundInv'
<1>1. \A h \in Handlers : at'[h] = at[h] /\ job'[h] = job[h] /\ Notice(h)' = Notice(h)
  BY Disjoint DEF Notice
<1>2. \A d \in Collectors \ {c} : at'[d] = at[d] /\ job'[d] = job[d]
  BY Disjoint
<1>3. WorkIsStored'
  BY <1>1 DEF RefundInv, WorkIsStored
<1>4. AtWork'
  BY <1>1, <1>2 DEF RefundInv, AtWork, Taken
<1> QED BY <1>3, <1>4, RefundQuiet

\* The provider is asked once for each key, and a charge that answers nothing
\* yet has no row.
LEMMA RefundCharged ==
  ASSUME TypeOK, BooksInv, RefundInv, NEW c \in Collectors, at[c] = "charge",
         ProviderCharges(job[c].attempt), UNCHANGED <<payment, notice, queue, job, invoice>>,
         \A a \in Actors \ {c} : at'[a] = at[a], at'[c] \in {"idle", "record"}
  PROVE  RefundInv'
<1> DEFINE n == job[c].attempt
<1>1. n \in Attempts /\ payment[n] = "none"
  BY JobTypes DEF RefundInv, AtWork
<1>2. /\ \A m \in Attempts \ {n} : charge'[m] = charge[m]
      /\ charge'[n] # "none"
      /\ charge[n] # "none" => charge'[n] = charge[n]
  <2>1. charge \in [Attempts -> {"none", "taken", "declined"}]
    BY DEF TypeOK
  <2> QED BY <1>1, <2>1 DEF ProviderCharges
<1> HIDE DEF n
<1>3. NoticesFollow'
  BY <1>1, <1>2 DEF RefundInv, NoticesFollow, Stored, Taken
<1>4. RowsFollow'
  BY <1>1, <1>2 DEF RefundInv, RowsFollow, Stored, Taken
<1>5. /\ \A h \in Handlers : at'[h] = at[h] /\ Notice(h)' = Notice(h)
      /\ \A d \in Collectors \ {c} : at'[d] = at[d]
  BY Disjoint DEF Notice
<1>6. WorkIsStored'
  BY <1>5 DEF RefundInv, WorkIsStored
<1>7. AtWork'
  <2>1. \A h \in Handlers : at[h] = "apply" => charge'[job[h].attempt] = "taken"
    BY <1>2, JobTypes DEF RefundInv, AtWork, Taken
  <2>2. \A d \in Collectors \ {c} : at[d] # "charge" /\ at[d] # "record"
    BY DEF BooksInv
  <2>3. at'[c] = "record" => charge'[job[c].attempt] # "none" /\ payment[job[c].attempt] = "none"
    BY <1>1, <1>2 DEF n
  <2> QED BY <1>5, <2>1, <2>2, <2>3 DEF RefundInv, AtWork, Taken
<1>8. Standing' = Standing
  BY <1>1, <1>2 DEF Standing, Taken
<1>9. Covered'
  BY <1>8 DEF RefundInv, Covered
<1> QED BY <1>3, <1>4, <1>6, <1>7, <1>9 DEF RefundInv

\* A set that gains or loses one member.
LEMMA OneMore ==
  ASSUME NEW S, S \subseteq Attempts, NEW n \in Attempts
  PROVE  /\ n \notin S => Cardinality(S \cup {n}) = Cardinality(S) + 1
         /\ n \in S => S \cup {n} = S
         /\ n \in S => Cardinality(S) >= 1 /\ Cardinality(S \ {n}) = Cardinality(S) - 1
<1>1. IsFiniteSet(S) /\ Cardinality(S) \in Nat /\ Cardinality(S \ {n}) \in Nat
  BY StandingIsFinite
<1>2. n \notin S => Cardinality(S \cup {n}) = Cardinality(S) + 1
  BY <1>1, FS_AddElement
<1>3. n \in S => Cardinality(S \ {n}) = Cardinality(S) - 1
  BY <1>1, FS_RemoveElement
<1>4. n \in S => S \cup {n} = S
  OBVIOUS
<1> QED BY <1>1, <1>2, <1>3, <1>4

LEMMA RefundRecorded ==
  ASSUME TypeOK, BooksInv, RefundInv, NEW c \in Collectors, Record(c)
  PROVE  RefundInv'
<1> DEFINE n == job[c].attempt
<1>1. /\ at[c] = "record" /\ lock = c /\ n \in Attempts
      /\ payment[n] = "none" /\ charge[n] # "none"
      /\ invoice.paid \in Nat
      /\ payment \in [Attempts -> {"none", "succeeded", "failed", "refunded"}]
  BY JobTypes DEF Record, BooksInv, RefundInv, AtWork, TypeOK
<1>2. /\ UNCHANGED <<charge, notice, queue, job>> /\ at' = [at EXCEPT ![c] = "idle"]
  BY DEF Record, GoTo, inbox
<1>3. \/ Taken(n) /\ payment' = [payment EXCEPT ![n] = "succeeded"] /\ invoice'.paid = invoice.paid + 1
      \/ ~Taken(n) /\ payment' = [payment EXCEPT ![n] = "failed"] /\ invoice'.paid = invoice.paid
  BY DEF Record, Taken, Credited, TypeOK
<1> HIDE DEF n
<1>4. \A m \in Attempts \ {n} : payment'[m] = payment[m]
  BY <1>1, <1>3
<1>5. NoticesFollow'
  BY <1>2 DEF RefundInv, NoticesFollow, Stored, Taken
<1>6. RowsFollow'
  BY <1>1, <1>2, <1>3, <1>4 DEF RefundInv, RowsFollow, Stored, Taken
<1>7. /\ at'[c] = "idle" /\ \A a \in Actors \ {c} : at'[a] = at[a]
      /\ \A h \in Handlers : at'[h] = at[h] /\ Notice(h)' = Notice(h)
      /\ \A d \in Collectors \ {c} : at'[d] = at[d]
  BY <1>2, Disjoint DEF Notice, TypeOK
<1>8. WorkIsStored'
  BY <1>2, <1>7 DEF RefundInv, WorkIsStored
<1>9. AtWork'
  <2>1. /\ \A h \in Handlers : at[h] # "apply"
        /\ \A d \in Collectors \ {c} : at[d] # "charge" /\ at[d] # "record"
    BY <1>1, Disjoint DEF BooksInv
  <2> QED BY <1>7, <2>1 DEF AtWork
<1>10. Covered'
  <2>1. Standing \subseteq Attempts /\ Cardinality(Standing) \in Nat /\ invoice.paid >= Cardinality(Standing)
    BY StandingIsFinite DEF Standing, RefundInv, Covered
  <2>2. CASE Taken(n) /\ payment' = [payment EXCEPT ![n] = "succeeded"] /\ invoice'.paid = invoice.paid + 1
    <3>1. Standing' = Standing \cup {n} /\ n \notin Standing
      BY <1>1, <1>2, <2>2 DEF Standing, Taken
    <3> QED BY <1>1, <2>1, <2>2, <3>1, OneMore DEF Covered
  <2>3. CASE ~Taken(n) /\ invoice'.paid = invoice.paid
    <3>1. Standing' = Standing
      BY <1>1, <1>2, <1>4, <2>3 DEF Standing, Taken
    <3> QED BY <2>1, <2>3, <3>1 DEF Covered
  <2> QED BY <1>3, <2>2, <2>3
<1> QED BY <1>5, <1>6, <1>8, <1>9, <1>10 DEF RefundInv

LEMMA RefundCollector ==
  ASSUME TypeOK, BooksInv, RefundInv, NEW c \in Collectors,
         CollectorStep(c) \/ LoseAnswer(c) \/ CrashCollector(c)
  PROVE  RefundInv'
<1>1. /\ at \in [Actors -> CollectorAt \union HandlerAt \union OperatorAt]
      /\ job \in [Actors -> Jobs] /\ c \in Actors
      /\ invoice \in [status : InvoiceStatus, paid : Nat, free : BOOLEAN]
  BY Disjoint DEF TypeOK
<1>2. CASE List(c) \/ NumberAttempt(c) \/ MarkSettled(c) \/ CrashCollector(c)
  <2>1. UNCHANGED <<charge, payment, notice, queue>> /\ invoice'.paid = invoice.paid
    BY <1>1, <1>2 DEF List, NumberAttempt, MarkSettled, CrashCollector, books, inbox
  <2>2. \A a \in Actors \ {c} : at'[a] = at[a] /\ job'[a] = job[a]
    BY <1>1, <1>2 DEF List, NumberAttempt, MarkSettled, CrashCollector, GoTo
  <2>3. at'[c] \notin {"charge", "record"}
    BY <1>1, <1>2 DEF List, NumberAttempt, MarkSettled, CrashCollector, GoTo
  <2> QED BY <2>1, <2>2, <2>3, RefundCollectorMoves
<1>3. CASE InsertPayment(c)
  <2>1. /\ UNCHANGED <<charge, payment, notice, queue, job>> /\ invoice'.paid = invoice.paid
        /\ \A a \in Actors \ {c} : at'[a] = at[a]
        /\ at'[c] \in {"idle", "charge"}
        /\ at'[c] = "charge" => payment[job[c].attempt] = "none"
    BY <1>1, <1>3 DEF InsertPayment, GoTo, books, inbox
  <2> QED BY <2>1, RefundCollectorMoves
<1>4. CASE Charge(c) \/ LoseAnswer(c)
  <2>1. /\ at[c] = "charge" /\ ProviderCharges(job[c].attempt)
        /\ UNCHANGED <<payment, notice, queue, job, invoice>>
    BY <1>4 DEF Charge, LoseAnswer, books, inbox
  <2>2. /\ \A a \in Actors \ {c} : at'[a] = at[a]
        /\ at'[c] \in {"idle", "record"}
    BY <1>1, <1>4 DEF Charge, LoseAnswer, GoTo
  <2> QED BY <2>1, <2>2, RefundCharged
<1>5. CASE Record(c)
  BY <1>5, RefundRecorded
<1> QED BY <1>2, <1>3, <1>4, <1>5 DEF CollectorStep

\* A worker that applies nothing.
LEMMA RefundHandlerMoves ==
  ASSUME TypeOK, RefundInv, NEW h \in Handlers,
         UNCHANGED <<charge, payment, invoice>>,
         \A a \in Actors \ {h} : at'[a] = at[a] /\ job'[a] = job[a],
         \A e \in Notices : notice'[e] = "none" <=> notice[e] = "none",
         queue' \in Seq(Notices),
         \A i \in 1 .. Len(queue') : notice[queue'[i]] # "none",
         at'[h] # "idle" => Notice(h)' \in Notices /\ notice[Notice(h)'] # "none",
         at'[h] = "apply" =>
           Taken(job'[h].attempt) /\ payment[job'[h].attempt] \notin {"none", job'[h].kind}
  PROVE  RefundInv'
<1>1. /\ \A g \in Handlers \ {h} : at'[g] = at[g] /\ job'[g] = job[g] /\ Notice(g)' = Notice(g)
      /\ \A c \in Collectors : at'[c] = at[c] /\ job'[c] = job[c]
  BY Disjoint DEF Notice
<1>2. WorkIsStored'
  <2>1. \A i \in 1 .. Len(queue') : queue'[i] \in Notices
    OBVIOUS
  <2>2. \A g \in Handlers : at'[g] # "idle" => Notice(g)' \in Notices /\ notice[Notice(g)'] # "none"
    BY <1>1, JobTypes DEF RefundInv, WorkIsStored
  <2>3. \A g \in Handlers : at'[g] # "idle" => notice'[Notice(g)'] # "none"
    BY <2>2
  <2>4. \A i \in 1 .. Len(queue') : notice'[queue'[i]] # "none"
    BY <2>1
  <2> QED BY <2>3, <2>4 DEF WorkIsStored, Notice
<1>3. AtWork'
  BY <1>1 DEF RefundInv, AtWork, Taken
<1> QED BY <1>2, <1>3, RefundQuiet

LEMMA RefundApplied ==
  ASSUME TypeOK, BooksInv, RefundInv, NEW h \in Handlers, Apply(h)
  PROVE  RefundInv'
<1> DEFINE n == job[h].attempt
           kind == job[h].kind
<1>1. /\ at[h] = "apply" /\ lock = h /\ n \in Attempts /\ kind \in EventKinds
      /\ Taken(n) /\ payment[n] \notin {"none", kind} /\ Stored(n, kind)
      /\ job[h].paid = invoice.paid /\ invoice.paid \in Nat
      /\ payment \in [Attempts -> {"none", "succeeded", "failed", "refunded"}]
      /\ invoice \in [status : InvoiceStatus, paid : Nat, free : BOOLEAN]
  BY JobTypes DEF Apply, BooksInv, RefundInv, AtWork, WorkIsStored, TypeOK, Stored, Notice
<1>2. /\ UNCHANGED <<charge, notice, queue, job>> /\ at' = [at EXCEPT ![h] = "processed"]
      /\ payment' = [payment EXCEPT ![n] = kind]
  BY DEF Apply, GoTo, inbox
<1>3. \/ kind = "succeeded" /\ invoice'.paid = invoice.paid + 1
      \/ kind = "failed" /\ invoice'.paid = invoice.paid
      \/ kind = "refunded" /\ invoice'.paid = LessOne(invoice.paid)
  BY <1>1 DEF Apply, Credited
<1> HIDE DEF n, kind
<1>4. payment'[n] = kind /\ \A m \in Attempts \ {n} : payment'[m] = payment[m]
  BY <1>1, <1>2
<1>5. NoticesFollow'
  BY <1>2 DEF RefundInv, NoticesFollow, Stored, Taken
<1>6. RowsFollow'
  BY <1>1, <1>2, <1>4 DEF RefundInv, RowsFollow, Stored, Taken
<1>7. /\ at'[h] = "processed"
      /\ \A g \in Handlers \ {h} : at'[g] = at[g] /\ Notice(g)' = Notice(g)
      /\ Notice(h)' = Notice(h)
      /\ \A c \in Collectors : at'[c] = at[c]
  BY <1>2, Disjoint DEF Notice, TypeOK
<1>8. WorkIsStored'
  BY <1>1, <1>2, <1>7 DEF RefundInv, WorkIsStored
<1>9. AtWork'
  <2>1. /\ \A g \in Handlers \ {h} : at[g] # "apply"
        /\ \A c \in Collectors : at[c] # "charge" /\ at[c] # "record"
    BY <1>1, Disjoint DEF BooksInv
  <2> QED BY <1>7, <2>1 DEF AtWork
<1>10. Covered'
  <2>1. Standing \subseteq Attempts /\ Cardinality(Standing) \in Nat /\ invoice.paid >= Cardinality(Standing)
    BY StandingIsFinite DEF Standing, RefundInv, Covered
  <2>2. CASE kind = "succeeded"
    <3>1. Standing' = Standing \cup {n}
      BY <1>1, <1>2, <1>4, <2>2 DEF Standing, Taken
    <3>2. Cardinality(Standing \cup {n}) <= Cardinality(Standing) + 1
      <4>1. CASE n \in Standing
        <5>1. Standing \cup {n} = Standing
          BY <4>1
        <5>2. Cardinality(Standing \cup {n}) = Cardinality(Standing)
          BY <5>1, Zenon
        <5> QED BY <2>1, <5>2
      <4>2. CASE n \notin Standing
        BY <1>1, <2>1, <4>2, OneMore
      <4> QED BY <4>1, <4>2
    <3>3. Cardinality(Standing \cup {n}) \in Nat
      BY <1>1, <2>1, StandingIsFinite
    <3> QED BY <1>1, <1>3, <2>1, <2>2, <3>1, <3>2, <3>3 DEF Covered
  <2>3. CASE kind = "failed"
    <3>1. payment[n] = "succeeded"
      BY <1>1, <2>3 DEF RefundInv, RowsFollow, NoticesFollow
    <3>2. Standing' = Standing
      BY <1>1, <1>2, <1>4, <2>3, <3>1 DEF Standing, Taken
    <3> QED BY <1>3, <2>1, <2>3, <3>2 DEF Covered
  <2>4. CASE kind = "refunded"
    <3>1. n \in Standing /\ Standing' = Standing \ {n}
      BY <1>1, <1>2, <1>4, <2>4 DEF Standing, Taken
    <3>2. Cardinality(Standing) >= 1 /\ Cardinality(Standing \ {n}) = Cardinality(Standing) - 1
      BY <1>1, <2>1, <3>1, OneMore
    <3> QED BY <1>1, <1>3, <2>1, <2>4, <3>1, <3>2 DEF Covered, LessOne
  <2> QED BY <1>1, <2>2, <2>3, <2>4 DEF EventKinds
<1> QED BY <1>5, <1>6, <1>8, <1>9, <1>10 DEF RefundInv

LEMMA RefundHandler ==
  ASSUME TypeOK, BooksInv, RefundInv, NEW h \in Handlers,
         HandlerStep(h) \/ Break(h) \/ CrashHandler(h)
  PROVE  RefundInv'
<1>1. /\ at \in [Actors -> CollectorAt \union HandlerAt \union OperatorAt]
      /\ job \in [Actors -> Jobs] /\ h \in Actors
      /\ queue \in Seq(Notices)
      /\ notice \in [Notices -> {"none", "received", "processed", "ignored", "failed"}]
      /\ \A i \in 1 .. Len(queue) : notice[queue[i]] # "none"
  BY Disjoint DEF TypeOK, RefundInv, WorkIsStored
<1>2. CASE Take(h)
  <2>1. /\ UNCHANGED <<charge, payment, invoice, notice>> /\ queue # <<>> /\ queue' = Tail(queue)
    BY <1>2 DEF Take, books
  <2>2. /\ queue' \in Seq(Notices)
        /\ \A i \in 1 .. Len(queue') : notice[queue'[i]] # "none"
    BY <1>1, <2>1
  <2>3. Head(queue) \in Notices /\ notice[Head(queue)] # "none"
    BY <1>1, <2>1
  <2>4. CASE UNCHANGED actors
    <3>1. UNCHANGED <<at, job>> /\ at[h] = "idle"
      BY <1>2, <2>4 DEF Take, actors
    <3> QED BY <2>1, <2>2, <3>1, RefundHandlerMoves
  <2>5. CASE /\ job' = [job EXCEPT ![h] = [NoJob EXCEPT !.attempt = Head(queue)[1], !.kind = Head(queue)[2]]]
             /\ GoTo(h, "find")
    <3>1. /\ \A a \in Actors \ {h} : at'[a] = at[a] /\ job'[a] = job[a]
          /\ at'[h] = "find"
          /\ job'[h].attempt = Head(queue)[1] /\ job'[h].kind = Head(queue)[2]
      BY <1>1, <2>5 DEF GoTo, NoJob
    <3>2. Notice(h)' = Head(queue)
      BY <2>3, <3>1 DEF Notice, Notices
    <3> QED BY <2>1, <2>2, <2>3, <3>1, <3>2, RefundHandlerMoves
  <2> QED BY <1>2, <2>4, <2>5 DEF Take
<1>3. CASE Find(h)
  <2>1. /\ UNCHANGED <<charge, payment, invoice, notice, queue>> /\ at[h] = "find"
    BY <1>3 DEF Find, books, inbox
  <2>2. /\ \A a \in Actors \ {h} : at'[a] = at[a] /\ job'[a] = job[a]
        /\ job'[h].attempt = job[h].attempt /\ job'[h].kind = job[h].kind
    BY <1>1, <1>3 DEF Find, GoTo, Jobs
  <2>3. at'[h] = "apply" => Matched(job[h].attempt) /\ payment[job[h].attempt] # job[h].kind
    BY <1>1, <1>3 DEF Find, GoTo
  <2>4. Notice(h)' \in Notices /\ notice[Notice(h)'] # "none"
    BY <2>1, <2>2, JobTypes DEF Notice, RefundInv, WorkIsStored
  <2> QED BY <1>1, <2>1, <2>2, <2>3, <2>4, RefundHandlerMoves DEF Matched, Taken
<1>4. CASE Close(h) \/ Break(h)
  <2>1. /\ UNCHANGED <<charge, payment, invoice, queue, job>> /\ at[h] # "idle"
        /\ \E s \in {"processed", "ignored", "failed"} : notice' = [notice EXCEPT ![Notice(h)] = s]
        /\ GoTo(h, "idle")
    BY <1>4 DEF Close, Break, Finish, books
  <2>2. Notice(h) \in Notices /\ notice[Notice(h)] # "none"
    BY <2>1, JobTypes DEF RefundInv, WorkIsStored
  <2>3. \A e \in Notices : notice'[e] = "none" <=> notice[e] = "none"
    BY <1>1, <2>1, <2>2
  <2>4. at'[h] = "idle" /\ \A a \in Actors \ {h} : at'[a] = at[a] /\ job'[a] = job[a]
    BY <1>1, <2>1 DEF GoTo
  <2> QED BY <1>1, <2>1, <2>3, <2>4, RefundHandlerMoves
<1>5. CASE CrashHandler(h)
  <2>1. /\ UNCHANGED <<charge, payment, invoice, notice, job>> /\ at[h] # "idle"
        /\ queue' = Append(queue, Notice(h)) /\ GoTo(h, "idle")
    BY <1>5 DEF CrashHandler, books
  <2>2. Notice(h) \in Notices /\ notice[Notice(h)] # "none"
    BY <2>1, JobTypes DEF RefundInv, WorkIsStored
  <2>3. /\ queue' \in Seq(Notices)
        /\ \A i \in 1 .. Len(queue') : notice[queue'[i]] # "none"
    BY <1>1, <2>1, <2>2
  <2>4. at'[h] = "idle" /\ \A a \in Actors \ {h} : at'[a] = at[a] /\ job'[a] = job[a]
    BY <1>1, <2>1 DEF GoTo
  <2> QED BY <2>1, <2>3, <2>4, RefundHandlerMoves
<1>6. CASE Apply(h)
  BY <1>6, RefundApplied
<1> QED BY <1>2, <1>3, <1>4, <1>5, <1>6 DEF HandlerStep

LEMMA RefundDelivered ==
  ASSUME TypeOK, RefundInv, NEW n \in Attempts, NEW k \in EventKinds, Deliver(n, k)
  PROVE  RefundInv'
<1>1. /\ UNCHANGED <<charge, payment, invoice, at, job>>
      /\ Reportable(n, k) /\ ~Stored(n, k)
      /\ notice' = [notice EXCEPT ![<<n, k>>] = "received"]
      /\ queue' = queue \/ queue' = Append(queue, <<n, k>>)
  BY DEF Deliver, books, actors
<1>2. /\ notice \in [Notices -> {"none", "received", "processed", "ignored", "failed"}]
      /\ queue \in Seq(Notices) /\ <<n, k>> \in Notices
  BY DEF TypeOK, Notices
<1>3. /\ \A e \in Notices : notice'[e] # "none" <=> notice[e] # "none" \/ e = <<n, k>>
  BY <1>1, <1>2
<1>4. \A m \in Attempts, j \in EventKinds : Stored(m, j)' <=> Stored(m, j) \/ (m = n /\ j = k)
  BY <1>3 DEF Stored, Notices
<1>5. NoticesFollow'
  <2>1. k = "succeeded" => Taken(n)
    BY <1>1 DEF Reportable, Taken
  <2>2. k = "refunded" => Stored(n, "succeeded") /\ ~Stored(n, "failed")
    BY <1>1 DEF Reportable
  <2>3. k = "failed" => charge[n] = "declined" \/ (Stored(n, "succeeded") /\ ~Stored(n, "refunded"))
    BY <1>1 DEF Reportable
  <2>4. \A m \in Attempts \ {n}, j \in EventKinds : Stored(m, j)' <=> Stored(m, j)
    BY <1>4
  <2>5. \A j \in EventKinds : Stored(n, j)' <=> Stored(n, j) \/ j = k
    BY <1>4
  <2>6. {"succeeded", "failed", "refunded"} = EventKinds /\ \A m \in Attempts : Taken(m)' <=> Taken(m)
    BY <1>1 DEF EventKinds, Taken
  <2>7. \A m \in Attempts :
          /\ Stored(m, "succeeded") => Taken(m)
          /\ Stored(m, "refunded") => Stored(m, "succeeded")
          /\ Stored(m, "failed") => charge[m] # "none" /\ (Taken(m) => Stored(m, "succeeded"))
          /\ ~(Stored(m, "refunded") /\ Stored(m, "failed"))
    BY DEF RefundInv, NoticesFollow
  <2>8. charge[n] = "declined" => ~Taken(n)
    BY DEF Taken
  <2>9. charge' = charge
    BY <1>1
  <2> SUFFICES ASSUME NEW m \in Attempts
               PROVE  /\ Stored(m, "succeeded")' => Taken(m)
                      /\ Stored(m, "refunded")' => Stored(m, "succeeded")'
                      /\ Stored(m, "failed")' => charge[m] # "none" /\ (Taken(m) => Stored(m, "succeeded")')
                      /\ ~(Stored(m, "refunded")' /\ Stored(m, "failed")')
    BY <2>6, <2>9 DEF NoticesFollow
  <2>10. CASE m # n
    BY <2>4, <2>6, <2>7, <2>10
  <2>11. CASE m = n
    <3>1. CASE k = "succeeded"
      BY <2>1, <2>5, <2>6, <2>7, <2>11, <3>1
    <3>2. CASE k = "refunded"
      BY <2>2, <2>5, <2>6, <2>7, <2>11, <3>2
    <3>3. CASE k = "failed"
      <4>1. Taken(n) => charge[n] # "none"
        BY DEF Taken
      <4> QED BY <2>3, <2>5, <2>6, <2>7, <2>8, <2>11, <3>3, <4>1
    <3> QED BY <3>1, <3>2, <3>3 DEF EventKinds
  <2> QED BY <2>10, <2>11
<1>6. RowsFollow'
  BY <1>1, <1>4 DEF RefundInv, RowsFollow, Taken, EventKinds
<1>7. WorkIsStored'
  <2>1. \A i \in 1 .. Len(queue) : notice[queue[i]] # "none"
    BY DEF RefundInv, WorkIsStored
  <2>2. \A i \in 1 .. Len(queue') : queue'[i] \in Notices /\ (queue'[i] = <<n, k>> \/ notice[queue'[i]] # "none")
    <3>1. CASE queue' = queue
      BY <1>2, <2>1, <3>1
    <3>2. CASE queue' = Append(queue, <<n, k>>)
      <4>1. Len(queue') = Len(queue) + 1 /\ Len(queue) \in Nat
        BY <1>2, <3>2
      <4>2. \A i \in 1 .. Len(queue') :
              IF i \in 1 .. Len(queue) THEN queue'[i] = queue[i] ELSE queue'[i] = <<n, k>>
        BY <1>2, <3>2, <4>1
      <4>3. \A i \in 1 .. Len(queue) : queue[i] \in Notices
        BY <1>2
      <4> QED BY <1>2, <2>1, <4>2, <4>3
    <3> QED BY <1>1, <3>1, <3>2
  <2>3. \A i \in 1 .. Len(queue') : notice'[queue'[i]] # "none"
    BY <1>3, <2>2
  <2>4. \A h \in Handlers : at'[h] # "idle" => notice'[Notice(h)'] # "none"
    BY <1>1, <1>3, JobTypes DEF Notice, RefundInv, WorkIsStored
  <2> QED BY <2>3, <2>4 DEF WorkIsStored, Notice
<1>8. AtWork' /\ Covered'
  BY <1>1 DEF RefundInv, AtWork, Covered, Standing, Taken
<1> QED BY <1>5, <1>6, <1>7, <1>8 DEF RefundInv

LEMMA RefundOther ==
  ASSUME TypeOK, RefundInv,
         \/ UNCHANGED vars
         \/ \E o \in Operators : OpenToVoid(o) \/ Void(o)
  PROVE  RefundInv'
<1>1. /\ UNCHANGED <<charge, payment, notice, queue>> /\ invoice'.paid = invoice.paid
      /\ \A a \in Collectors \cup Handlers : at'[a] = at[a] /\ job'[a] = job[a]
  <2>1. CASE UNCHANGED vars
    BY <2>1 DEF vars
  <2>2. ASSUME NEW o \in Operators, OpenToVoid(o) \/ Void(o)
        PROVE  /\ UNCHANGED <<charge, payment, notice, queue>> /\ invoice'.paid = invoice.paid
               /\ \A a \in Collectors \cup Handlers : at'[a] = at[a] /\ job'[a] = job[a]
    BY <2>2, Disjoint DEF OpenToVoid, Void, GoTo, TypeOK, books, inbox
  <2> QED BY <2>1, <2>2
<1>2. WorkIsStored' /\ AtWork'
  BY <1>1 DEF RefundInv, WorkIsStored, AtWork, Notice, Taken
<1> QED BY <1>1, <1>2, RefundQuiet

LEMMA RefundsHold == Spec => []RefundInv
<1>1. Init => RefundInv
  <2> SUFFICES ASSUME Init PROVE RefundInv
    OBVIOUS
  <2>1. /\ \A e \in Notices : notice[e] = "none"
        /\ \A n \in Attempts : payment[n] = "none"
        /\ \A a \in Actors : at[a] = "idle"
        /\ queue = <<>> /\ invoice.paid = 0
    BY DEF Init
  <2>2. NoticesFollow
    BY <2>1 DEF NoticesFollow, Stored, Notices, EventKinds
  <2>3. Standing = {}
    BY <2>1 DEF Standing
  <2> QED BY <2>1, <2>2, <2>3, Disjoint, FS_EmptySet
          DEF RefundInv, WorkIsStored, RowsFollow, AtWork, Covered
<1>2. TypeOK /\ BooksInv /\ RefundInv /\ [Next]_vars => RefundInv'
  BY RefundCollector, RefundHandler, RefundDelivered, RefundOther DEF Next
<1> QED BY <1>1, <1>2, TypeCorrect, BooksHold, PTL DEF Spec

\* billing/webhooks.py, the refund under the invoice's lock: the floor at zero
\* never cuts a refund short, because what is refunded stands credited.
THEOREM RefundsAreCovered == Spec => []RefundIsCovered
<1>1. TypeOK /\ BooksInv /\ RefundInv => RefundIsCovered
  <2> SUFFICES ASSUME TypeOK, BooksInv, RefundInv, NEW h \in Handlers,
                      at[h] = "apply", job[h].kind = "refunded"
               PROVE  job[h].paid > 0
    BY DEF RefundIsCovered
  <2> DEFINE n == job[h].attempt
  <2>1. /\ n \in Attempts /\ Taken(n) /\ payment[n] \notin {"none", "refunded"}
        /\ job[h].paid = invoice.paid /\ invoice.paid \in Nat
        /\ payment \in [Attempts -> {"none", "succeeded", "failed", "refunded"}]
    BY JobTypes DEF RefundInv, AtWork, BooksInv, TypeOK
  <2>2. n \in Standing /\ Standing \subseteq Attempts
    BY <2>1 DEF Standing
  <2>3. Cardinality(Standing) \in Nat /\ Cardinality(Standing) >= 1
    BY <2>1, <2>2, OneMore, StandingIsFinite
  <2> QED BY <2>1, <2>3 DEF RefundInv, Covered
<1> QED BY <1>1, TypeCorrect, BooksHold, RefundsHold, PTL

-----------------------------------------------------------------------------
(***************************************************************************)
(* One charge.  The lock makes attempts go one by one: whoever charges is  *)
(* one ahead of the payment rows, so a charge without a row is charged     *)
(* again under its own key and no other.  A charge that was due found      *)
(* nothing standing, because what stands is covered by what was paid.  And *)
(* a payment leaves "refunded" only by being credited once more.           *)
(***************************************************************************)

\* Attempts are charged in the order of their rows, one ahead of them at most.
RowsInOrder ==
  /\ \A n \in Attempts : charge[n] # "none" => \A m \in Attempts : m < n => payment[m] # "none"
  /\ \A c \in Collectors :
       at[c] \in {"insert", "charge", "record"} =>
         \A m \in Attempts : m < job[c].attempt => payment[m] # "none"

\* What was taken and has its row was credited with it.
RowsAreCredited == \A n \in Attempts : Taken(n) /\ payment[n] # "none" => credits[n] >= 1

ChargeInv == RowsInOrder /\ RowsAreCredited /\ ChargedOnce

-----------------------------------------------------------------------------
\* No row is lost, and nobody sets out for an attempt beyond the next.
LEMMA OrderKept ==
  ASSUME TypeOK, RowsInOrder, UNCHANGED charge,
         \A n \in Attempts : payment[n] # "none" => payment'[n] # "none",
         \A c \in Collectors :
           at'[c] \in {"insert", "charge", "record"} =>
             \/ at[c] \in {"insert", "charge", "record"} /\ job'[c] = job[c]
             \/ \A m \in Attempts : m < job'[c].attempt => payment[m] # "none"
  PROVE  RowsInOrder'
BY DEF RowsInOrder

\* Nothing is charged, credited or recorded.
LEMMA ChargeQuiet ==
  ASSUME ChargeInv, UNCHANGED <<charge, undue, payment, credits>>, RowsInOrder'
  PROVE  ChargeInv'
BY DEF ChargeInv, RowsAreCredited, ChargedOnce, Taken

LEMMA ChargeCollectorMoves ==
  ASSUME TypeOK, ChargeInv, NEW c \in Collectors,
         List(c) \/ MarkSettled(c) \/ NumberAttempt(c) \/ InsertPayment(c) \/ CrashCollector(c)
  PROVE  ChargeInv'
<1>1. /\ at \in [Actors -> CollectorAt \union HandlerAt \union OperatorAt]
      /\ job \in [Actors -> Jobs] /\ c \in Actors
  BY Disjoint DEF TypeOK
<1>2. /\ UNCHANGED <<charge, undue, payment, credits>>
      /\ \A a \in Actors \ {c} : at'[a] = at[a] /\ job'[a] = job[a]
  BY <1>1 DEF List, NumberAttempt, MarkSettled, InsertPayment, CrashCollector, books, inbox, GoTo
<1>3. \/ at'[c] \in {"idle", "collect"}
      \/ NumberAttempt(c) /\ at'[c] = "insert"
      \/ at[c] = "insert" /\ at'[c] = "charge" /\ job'[c] = job[c]
  BY <1>1 DEF List, NumberAttempt, MarkSettled, InsertPayment, CrashCollector, GoTo
<1>4. NumberAttempt(c) => \A m \in Attempts : m < job'[c].attempt => payment[m] # "none"
  <2> SUFFICES ASSUME NumberAttempt(c), NEW m \in Attempts, m < job'[c].attempt PROVE payment[m] # "none"
    OBVIOUS
  <2>1. PICK n \in Attempts : Rows = 1..(n - 1) /\ job' = [job EXCEPT ![c].attempt = n]
    BY DEF NumberAttempt
  <2>2. job'[c].attempt = n
    BY <1>1, <2>1 DEF Jobs
  <2>3. m \in Rows
    BY <2>1, <2>2, PaymentsAssumption DEF Attempts
  <2> QED BY <2>3 DEF Rows
<1>5. \A d \in Collectors \ {c} : at'[d] = at[d] /\ job'[d] = job[d]
  BY <1>2, Disjoint
<1>6. RowsInOrder'
  BY <1>2, <1>3, <1>4, <1>5, OrderKept DEF ChargeInv
<1> QED BY <1>2, <1>6, ChargeQuiet

LEMMA ChargeCharged ==
  ASSUME TypeOK, RefundInv, ChargeInv, NEW c \in Collectors, Charge(c) \/ LoseAnswer(c)
  PROVE  ChargeInv'
<1> DEFINE n == job[c].attempt
<1>1. /\ at \in [Actors -> CollectorAt \union HandlerAt \union OperatorAt] /\ c \in Actors
      /\ charge \in [Attempts -> {"none", "taken", "declined"}]
      /\ payment \in [Attempts -> {"none", "succeeded", "failed", "refunded"}]
      /\ invoice.paid \in Nat
  BY Disjoint DEF TypeOK
<1>2. /\ at[c] = "charge" /\ ProviderCharges(n)
      /\ UNCHANGED <<payment, job, credits>>
      /\ \A a \in Actors \ {c} : at'[a] = at[a]
      /\ at'[c] \in {"idle", "record"}
  BY <1>1 DEF Charge, LoseAnswer, books, GoTo
<1>3. /\ n \in Attempts /\ payment[n] = "none"
      /\ \A m \in Attempts : m < n => payment[m] # "none"
  BY <1>2, JobTypes DEF ChargeInv, RowsInOrder, RefundInv, AtWork
<1>4. /\ \A m \in Attempts \ {n} : charge'[m] = charge[m]
      /\ \/ UNCHANGED bank
         \/ charge[n] = "none" /\ undue' = IF Settled(invoice.paid) THEN undue \union {n} ELSE undue
  BY <1>1, <1>2, <1>3 DEF ProviderCharges
<1> HIDE DEF n
<1>5. RowsInOrder'
  <2>1. \A d \in Collectors : at'[d] \in {"insert", "charge", "record"} => at[d] \in {"insert", "charge", "record"}
    BY <1>2, Disjoint
  <2> QED BY <1>2, <1>3, <1>4, <2>1 DEF ChargeInv, RowsInOrder
<1>6. RowsAreCredited'
  BY <1>2, <1>3, <1>4 DEF ChargeInv, RowsAreCredited, Taken
<1>7. \A m \in Attempts \ {n} : Taken(m) => payment[m] # "none"
  BY <1>3 DEF ChargeInv, RowsInOrder, Taken, Attempts
<1>8. charge[n] = "none" /\ ~ Settled(invoice.paid) =>
        \A m \in Attempts \ {n} : Taken(m) => payment[m] = "refunded"
  <2> SUFFICES ASSUME ~ Settled(invoice.paid), NEW m \in Attempts \ {n}, Taken(m)
               PROVE  payment[m] = "refunded"
    OBVIOUS
  <2>1. invoice.paid = 0
    BY <1>1 DEF Settled
  <2>2. Standing \subseteq Attempts /\ Cardinality(Standing) = 0
    BY <2>1, StandingIsFinite DEF Standing, RefundInv, Covered
  <2>3. m \in Standing => Cardinality(Standing) >= 1
    BY <2>2, OneMore
  <2> QED BY <1>1, <1>7, <2>2, <2>3 DEF Standing
<1>9. ChargedOnce'
  <2> SUFFICES ASSUME NEW m \in Attempts, NEW k \in Attempts,
                      charge'[m] = "taken", charge'[k] = "taken", m # k
               PROVE  \/ "refunded" \in {payment[m], payment[k]}
                      \/ {m, k} \intersect undue' # {}
                      \/ credits[m] > 1 \/ credits[k] > 1
    BY <1>2 DEF ChargedOnce
  <2>1. CASE UNCHANGED bank
    BY <2>1 DEF ChargeInv, ChargedOnce
  <2>2. CASE charge[n] = "none" /\ undue' = (IF Settled(invoice.paid) THEN undue \union {n} ELSE undue)
    <3>1. CASE n \notin {m, k}
      BY <1>4, <2>2, <3>1 DEF ChargeInv, ChargedOnce
    <3>2. CASE n \in {m, k} /\ Settled(invoice.paid)
      BY <2>2, <3>2
    <3>3. CASE n \in {m, k} /\ ~ Settled(invoice.paid)
      BY <1>4, <1>8, <2>2, <3>3 DEF Taken
    <3> QED BY <3>1, <3>2, <3>3
  <2> QED BY <1>4, <2>1, <2>2
<1> QED BY <1>5, <1>6, <1>9 DEF ChargeInv

LEMMA ChargeRecorded ==
  ASSUME TypeOK, RefundInv, ChargeInv, NEW c \in Collectors, Record(c)
  PROVE  ChargeInv'
<1> DEFINE n == job[c].attempt
<1>1. /\ at \in [Actors -> CollectorAt \union HandlerAt \union OperatorAt] /\ c \in Actors
      /\ payment \in [Attempts -> {"none", "succeeded", "failed", "refunded"}]
      /\ credits \in [Attempts -> Nat]
  BY Disjoint DEF TypeOK
<1>2. n \in Attempts /\ payment[n] = "none"
  BY JobTypes DEF Record, RefundInv, AtWork
<1>3. /\ UNCHANGED <<charge, undue, job>> /\ at' = [at EXCEPT ![c] = "idle"]
      /\ \/ payment' = [payment EXCEPT ![n] = "succeeded"] /\ credits' = [credits EXCEPT ![n] = @ + 1]
         \/ ~Taken(n) /\ payment' = [payment EXCEPT ![n] = "failed"] /\ UNCHANGED credits
  BY DEF Record, GoTo, Taken
<1> HIDE DEF n
<1>4. /\ \A m \in Attempts : /\ payment[m] # "none" => payment'[m] # "none"
                             /\ payment[m] = "refunded" => payment'[m] = "refunded"
                             /\ credits'[m] >= credits[m]
      /\ \A m \in Attempts : Taken(m) /\ payment'[m] # "none" => credits'[m] >= 1
  BY <1>1, <1>2, <1>3 DEF ChargeInv, RowsAreCredited
<1>5. \A d \in Collectors : at'[d] \in {"insert", "charge", "record"} =>
        at[d] \in {"insert", "charge", "record"} /\ job'[d] = job[d]
  BY <1>1, <1>3, Disjoint
<1>6. RowsInOrder'
  BY <1>3, <1>4, <1>5, OrderKept DEF ChargeInv
<1>7. credits' \in [Attempts -> Nat]
  BY <1>1, <1>2, <1>3
<1>8. ChargedOnce'
  BY <1>1, <1>3, <1>4, <1>7 DEF ChargeInv, ChargedOnce
<1> QED BY <1>3, <1>4, <1>6, <1>8 DEF ChargeInv, RowsAreCredited, Taken

\* Out of "refunded" a payment comes only with a second credit: a failure is
\* never notified of what was refunded.
LEMMA ChargeApplied ==
  ASSUME TypeOK, RefundInv, ChargeInv, NEW h \in Handlers, Apply(h)
  PROVE  ChargeInv'
<1> DEFINE n == job[h].attempt
           kind == job[h].kind
<1>1. /\ at \in [Actors -> CollectorAt \union HandlerAt \union OperatorAt] /\ h \in Actors
      /\ payment \in [Attempts -> {"none", "succeeded", "failed", "refunded"}]
      /\ credits \in [Attempts -> Nat]
  BY Disjoint DEF TypeOK
<1>2. /\ n \in Attempts /\ kind \in EventKinds /\ Taken(n) /\ payment[n] \notin {"none", kind}
      /\ Stored(n, kind)
  BY JobTypes DEF Apply, RefundInv, AtWork, WorkIsStored, Stored, Notice
<1>3. /\ UNCHANGED <<charge, undue, job>> /\ at' = [at EXCEPT ![h] = "processed"]
      /\ payment' = [payment EXCEPT ![n] = kind]
      /\ \/ kind = "succeeded" /\ credits' = [credits EXCEPT ![n] = @ + 1]
         \/ kind # "succeeded" /\ UNCHANGED credits
  BY DEF Apply, GoTo
<1> HIDE DEF n, kind
<1>4. /\ payment'[n] = kind /\ \A m \in Attempts \ {n} : payment'[m] = payment[m] /\ credits'[m] = credits[m]
      /\ credits'[n] = IF kind = "succeeded" THEN credits[n] + 1 ELSE credits[n]
  BY <1>1, <1>2, <1>3
<1>5. credits[n] \in Nat /\ credits[n] >= 1
  BY <1>1, <1>2 DEF ChargeInv, RowsAreCredited
<1>6. payment[n] = "refunded" => credits'[n] > 1
  <2>1. payment[n] = "refunded" => kind = "succeeded"
    BY <1>2 DEF RefundInv, RowsFollow, NoticesFollow, EventKinds
  <2> QED BY <1>4, <1>5, <2>1
<1>7. \A d \in Collectors : at'[d] = at[d] /\ job'[d] = job[d]
  BY <1>1, <1>3, Disjoint
<1>8. RowsInOrder'
  <2>1. \A m \in Attempts : payment[m] # "none" => payment'[m] # "none"
    BY <1>2, <1>4 DEF EventKinds
  <2> QED BY <1>3, <1>7, <2>1, OrderKept DEF ChargeInv
<1>9. RowsAreCredited'
  BY <1>3, <1>4, <1>5 DEF ChargeInv, RowsAreCredited, Taken
<1>10. ChargedOnce'
  BY <1>3, <1>4, <1>5, <1>6 DEF ChargeInv, ChargedOnce
<1> QED BY <1>8, <1>9, <1>10 DEF ChargeInv

\* Everybody else leaves charges, payments and the sweeps alone.
LEMMA ChargeOther ==
  ASSUME TypeOK, ChargeInv,
         \/ UNCHANGED vars
         \/ \E n \in Attempts, k \in EventKinds : Deliver(n, k)
         \/ \E h \in Handlers : Take(h) \/ Find(h) \/ Close(h) \/ Break(h) \/ CrashHandler(h)
         \/ \E o \in Operators : OpenToVoid(o) \/ Void(o)
  PROVE  ChargeInv'
<1>1. UNCHANGED <<charge, undue, payment, credits>>
  BY DEF vars, Deliver, Take, Find, Close, Break, CrashHandler, OpenToVoid, Void, books
<1>2. \A c \in Collectors : at'[c] = at[c] /\ job'[c] = job[c]
  <2>1. ASSUME UNCHANGED vars \/ \E n \in Attempts, k \in EventKinds : Deliver(n, k)
        PROVE  UNCHANGED <<at, job>>
    BY <2>1 DEF vars, actors, Deliver
  <2>2. ASSUME NEW h \in Handlers, Take(h) \/ Find(h) \/ Close(h) \/ Break(h) \/ CrashHandler(h)
        PROVE  \A a \in Actors \ {h} : at'[a] = at[a] /\ job'[a] = job[a]
    <3>1. UNCHANGED at \/ \E w : GoTo(h, w)
      BY <2>2 DEF Take, Find, Close, Break, Finish, CrashHandler, actors
    <3>2. UNCHANGED job \/ \E j : job' = [job EXCEPT ![h] = j]
                       \/ job' = [job EXCEPT ![h].status = invoice.status, ![h].paid = invoice.paid]
      BY <2>2 DEF Take, Find, Close, Break, CrashHandler, actors
    <3> QED BY <3>1, <3>2 DEF GoTo, TypeOK
  <2>3. ASSUME NEW o \in Operators, OpenToVoid(o) \/ Void(o)
        PROVE  \A a \in Actors \ {o} : at'[a] = at[a] /\ job'[a] = job[a]
    BY <2>3 DEF OpenToVoid, Void, GoTo, TypeOK
  <2> QED BY <2>1, <2>2, <2>3, Disjoint
<1>3. RowsInOrder'
  BY <1>1, <1>2, OrderKept DEF ChargeInv
<1> QED BY <1>1, <1>3, ChargeQuiet

LEMMA ChargeHolds == Spec => []ChargeInv
<1>1. Init => ChargeInv
  BY Disjoint DEF Init, ChargeInv, RowsInOrder, RowsAreCredited, ChargedOnce, Taken
<1>2. TypeOK /\ RefundInv /\ ChargeInv /\ [Next]_vars => ChargeInv'
  BY ChargeCollectorMoves, ChargeCharged, ChargeRecorded, ChargeApplied, ChargeOther
     DEF Next, CollectorStep, HandlerStep
<1> QED BY <1>1, <1>2, TypeCorrect, RefundsHold, PTL DEF Spec

\* billing/payments.py, the idempotency key of an attempt, for any number of
\* sweeps, handlers and operators: whatever answers, workers or tasks were
\* lost, and whatever was refunded and charged again, two charges stand only
\* if one was asked for when nothing was due, or a refunded one was credited
\* again.
THEOREM CustomersPayOnce == Spec => []ChargedOnce
<1>1. ChargeInv => ChargedOnce
  BY DEF ChargeInv
<1> QED BY <1>1, ChargeHolds, PTL

=============================================================================
