------------------------------ MODULE Ledger --------------------------------
(***************************************************************************)
(* The numbers of invoices.  Sweeps that close periods ask for an invoice  *)
(* (generate_invoice) and issue it in a second transaction, beside staff   *)
(* who edit invoices and counters in the admin.                            *)
(*                                                                         *)
(* A number is last_number + 1 of the year's InvoiceSequence row, locked   *)
(* until the transaction, or the savepoint around the insert, ends.  The   *)
(* insert waits for another uncommitted one of the same period.            *)
(***************************************************************************)
EXTENDS Integers, FiniteSets

CONSTANTS
  Billers,   \* sweeps
  Periods,   \* an organization and the period to be billed
  Years,
  Price,     \* Plan.price, in cents
  MaxAsked,  \* bound: invoices asked for
  MaxEdits,  \* bound: what staff do
  MaxLines,  \* bound: lines of an invoice
  Typed      \* bound: what staff write into last_number

ASSUME LedgerAssumption ==
  /\ Years \subseteq Nat /\ Typed \subseteq Nat
  /\ {Price, MaxAsked, MaxEdits, MaxLines} \subseteq Nat

Statuses == {"draft", "open", "void"}

\* ISSUED_STATUSES; InvoicePayments has the paid one.
IssuedStatuses == Statuses \ {"draft"}

VARIABLES
  year,      \* timezone.now().year
  counter,   \* InvoiceSequence.last_number
  invoice,   \* the Invoice of each period, with the number of its lines
  biller,    \* how far each call is
  form,      \* an invoice loaded by a request to the admin
  tampered,  \* history: staff wrote a counter
  asked,
  edits

ledgerVars == <<year, counter, invoice, biller, form, tampered, asked, edits>>

NoInvoice == [number |-> 0, year |-> 0, status |-> "none", total |-> 0, lines |-> 0]
Billed == {p \in Periods : invoice[p] # NoInvoice}
IsIssued(inv) == inv.status \in IssuedStatuses

Off == [at |-> "off", period |-> "none", year |-> 0, number |-> 0, copy |-> "none"]
Is(b, stage) == biller[b].at = stage
Moves(b, stage) == biller' = [biller EXCEPT ![b].at = stage]
NoForm == [period |-> "none"]

\* money: ROUND_HALF_UP of ten-thousandths to cents.
Money(v) == (v + 50) \div 100

\* InvoiceLine.save: the quantity, in hundredths, times the unit amount.
Amount(quantity, unit) == Money(quantity * unit)

\* Invoice.recalculate: the sum of the lines, without tax.
Recalculated(lines) == lines * Amount(100, Price)

-----------------------------------------------------------------------------
(* generate_invoice *)

\* The row of the year is locked.
Held(y) == \E b \in Billers : biller[b].at \in {"numbered", "inserted"} /\ biller[b].year = y

\* An invoice of the period is inserted and not committed.
Entered(p) == \E b \in Billers : biller[b].at = "inserted" /\ biller[b].period = p

\* The first query finds an invoice, or the call goes on; now is read here.
Ask(b, p) ==
  /\ biller[b].at \in {"off", "done"} /\ asked < MaxAsked
  /\ asked' = asked + 1
  /\ biller' = [biller EXCEPT ![b] =
       IF p \in Billed
       THEN [Off EXCEPT !.at = "made", !.period = p, !.copy = invoice[p].status]
       ELSE [Off EXCEPT !.at = "asking", !.period = p, !.year = year]]
  /\ UNCHANGED <<year, counter, invoice, form, tampered, edits>>

\* next_number, when the row can be locked.
NextNumber(b) ==
  /\ Is(b, "asking") /\ ~Held(biller[b].year)
  /\ biller' = [biller EXCEPT ![b].at = "numbered", ![b].number = counter[biller[b].year] + 1]
  /\ UNCHANGED <<year, counter, invoice, form, tampered, asked, edits>>

NumberTaken(b) ==
  \E p \in Billed : invoice[p].number = biller[b].number /\ invoice[p].year = biller[b].year

\* Invoice.objects.create, and what an IntegrityError of it leads to: the
\* savepoint and its lock are gone; the period's invoice is used, if it is that.
Insert(b) ==
  LET p == biller[b].period
  IN /\ Is(b, "numbered") /\ ~Entered(p)
     /\ \/ p \notin Billed /\ ~NumberTaken(b) /\ Moves(b, "inserted")
        \/ /\ p \in Billed
           /\ biller' = [biller EXCEPT ![b] =
                [Off EXCEPT !.at = "made", !.period = p, !.copy = invoice[p].status]]
        \/ p \notin Billed /\ NumberTaken(b) /\ biller' = [biller EXCEPT ![b] = Off]
  /\ UNCHANGED <<year, counter, invoice, form, tampered, asked, edits>>

\* The line is written, the total made of it, and all is committed.
CommitInvoice(b) ==
  LET made == biller[b]
  IN /\ Is(b, "inserted")
     /\ counter' = [counter EXCEPT ![made.year] = made.number]
     /\ invoice' = [invoice EXCEPT ![made.period] =
          [number |-> made.number, year |-> made.year, status |-> "draft",
           total |-> Recalculated(1), lines |-> 1]]
     /\ biller' = [biller EXCEPT ![b] =
          [Off EXCEPT !.at = "made", !.period = made.period, !.copy = "draft"]]
  /\ UNCHANGED <<year, form, tampered, asked, edits>>

\* Faulty: the number is drawn from a database sequence.
AbandonKeeping(b) ==
  /\ biller[b].at \in {"numbered", "inserted", "made"}
  /\ counter' = IF Is(b, "made") THEN counter
                ELSE [counter EXCEPT ![biller[b].year] = biller[b].number]
  /\ biller' = [biller EXCEPT ![b] = Off]
  /\ UNCHANGED <<year, invoice, form, tampered, asked, edits>>

\* An exception or a lost worker: nothing uncommitted stays.
Abandon(b) ==
  /\ biller[b].at \in {"numbered", "inserted", "made"}
  /\ biller' = [biller EXCEPT ![b] = Off]
  /\ UNCHANGED <<year, counter, invoice, form, tampered, asked, edits>>

\* issue: what the copy says decides, and only the status is written.
IssueInvoice(b) ==
  LET made == biller[b]
  IN /\ Is(b, "made")
     /\ IF made.copy \in IssuedStatuses
        THEN Moves(b, "done") /\ UNCHANGED invoice
        ELSE /\ invoice' = [invoice EXCEPT ![made.period].status = "open"]
             /\ biller' = [biller EXCEPT ![b].at = "done", ![b].copy = "open"]
  /\ UNCHANGED <<year, counter, form, tampered, asked, edits>>

-----------------------------------------------------------------------------
(* Staff *)

Edits == edits < MaxEdits /\ edits' = edits + 1
Desk == UNCHANGED <<year, counter, biller, tampered, asked>>

\* void; a call of it loads and writes.
Void(p) ==
  /\ Edits /\ p \in Billed
  /\ invoice' = [invoice EXCEPT ![p].status = "void"]
  /\ UNCHANGED form /\ Desk

\* InvoiceAdmin's form for a new one: it has no field for the number, which is
\* unique, and any field for the rest.
AddByHand(p, status) ==
  /\ Edits /\ p \notin Billed /\ ~Entered(p)
  /\ \A q \in Billed : invoice[q].number # 0
  /\ invoice' = [invoice EXCEPT ![p] =
       [number |-> 0, year |-> year, status |-> status, total |-> Recalculated(1), lines |-> 1]]
  /\ UNCHANGED form /\ Desk

\* A request with the filled form loads the invoice.
Load(p) ==
  /\ Edits /\ form = NoForm /\ p \in Billed
  /\ form' = [period |-> p, row |-> invoice[p]]
  /\ UNCHANGED invoice /\ Desk

\* Then it saves the whole row, with the fields of the form if it loaded a
\* draft; lines are added, and taken from drafts only.
Save(status, lines) ==
  /\ form # NoForm
  /\ LET p == form.period
     IN /\ IF IsIssued(form.row)
           THEN status = form.row.status /\ lines >= invoice[p].lines
           ELSE TRUE
        /\ invoice' = [invoice EXCEPT ![p] =
                         [form.row EXCEPT !.status = status, !.lines = lines]]
  /\ form' = NoForm
  /\ UNCHANGED edits /\ Desk

\* InvoiceSequenceAdmin: the counter is a field like any other.
EditCounter(y, n) ==
  /\ Edits /\ ~Held(y)
  /\ counter' = [counter EXCEPT ![y] = n]
  /\ tampered' = TRUE
  /\ UNCHANGED <<year, invoice, biller, form, asked>>

NewYear ==
  /\ year + 1 \in Years
  /\ year' = year + 1
  /\ UNCHANGED <<counter, invoice, biller, form, tampered, asked, edits>>

-----------------------------------------------------------------------------
LedgerInit ==
  /\ year \in Years /\ year - 1 \notin Years
  /\ counter = [y \in Years |-> 0]
  /\ invoice = [p \in Periods |-> NoInvoice]
  /\ biller = [b \in Billers |-> Off]
  /\ form = NoForm
  /\ tampered = FALSE
  /\ asked = 0
  /\ edits = 0

LedgerNext ==
  \/ \E b \in Billers :
       \/ \E p \in Periods : Ask(b, p)
       \/ NextNumber(b) \/ Insert(b) \/ CommitInvoice(b) \/ Abandon(b) \/ IssueInvoice(b)
  \/ \E p \in Periods : Void(p) \/ Load(p) \/ \E s \in Statuses : AddByHand(p, s)
  \/ \E s \in Statuses, n \in 0 .. MaxLines : Save(s, n)
  \/ \E y \in Years, n \in Typed : EditCounter(y, n)
  \/ NewYear

LedgerTypeOK ==
  /\ year \in Years
  /\ counter \in [Years -> Nat]
  /\ \A p \in Billed :
       invoice[p] \in [number : Nat, year : Years, status : Statuses, total : Nat,
                       lines : 0 .. MaxLines]
  /\ form = NoForm \/ form.period \in Billed

-----------------------------------------------------------------------------
\* Unless staff wrote a counter, the numbers of a year's invoices run from 1 to
\* its counter, each given once, whatever sweeps ran beside each other, lost a
\* race for a period, or were rolled back.
NumbersAreGapless ==
  ~tampered =>
    \A y \in Years :
      LET numbered == {p \in Billed : invoice[p].year = y /\ invoice[p].number # 0}
      IN /\ {invoice[p].number : p \in numbered} = 1 .. counter[y]
         /\ Cardinality(numbered) = counter[y]

-----------------------------------------------------------------------------
(* What the code does not keep (see the README) *)

\* billing/invoicing.py:122: an invoice has a number that is sequential.
IssuedIsNumbered == \A p \in Billed : IsIssued(invoice[p]) => invoice[p].number > 0

\* billing/admin.py:174: an invoice "is voided and reissued": the next call for
\* its period ends with one that is not void.
VoidedIsReissued == \A b \in Billers : Is(b, "done") => biller[b].copy # "void"

\* billing/payments.py:141: issuing "an already-issued invoice is a no-op".
VoidedStaysVoid ==
  [][\A p \in Periods : invoice[p].status = "void" => invoice'[p].status = "void"]_ledgerVars

\* billing/invoicing.py:82: after issuing, "the invoice's numbers may no longer
\* change"; its total is that of its lines.
TotalIsItsLines ==
  \A p \in Billed : IsIssued(invoice[p]) => invoice[p].total = Recalculated(invoice[p].lines)

=============================================================================
