----------------------------- MODULE ImportFile ------------------------------
(***************************************************************************)
(* One uploaded file: checked, parsed row by row, matched with the         *)
(* contacts that have its numbers, whichever organization holds them, and  *)
(* written, while other requests add, delete and change contacts.          *)
(*                                                                         *)
(* A file is its columns and its rows; a row is one cell per column.       *)
(* Cells are told apart by how the importer reads them.  Every other       *)
(* organization is one here, "other"; what an import does to groups and to *)
(* messages is in Contacts.                                                *)
(***************************************************************************)
EXTENDS Naturals, FiniteSets, SequencesExt

CONSTANTS
  Numbers,     \* E.164 numbers
  Spellings,   \* what a phone cell may hold
  E164,        \* parse_phone_number: the number a spelling stands for, or "bad"
  Headers,     \* the sets of columns files come with
  RowKinds,    \* the rows files are made of, a cell for each column
  MaxFileRows, \* bound: rows of a file, but for one that is too long
  MaxRows,     \* CSV_IMPORT_MAX_ROWS
  MaxBesides   \* bound: what other requests do meanwhile

ASSUME ImportFileAssumption ==
  /\ E164 \in [Spellings -> Numbers \cup {"bad"}]
  /\ RowKinds # {} /\ \A kind \in RowKinds : kind.phone \in Spellings \cup {""}
  /\ {MaxFileRows, MaxRows, MaxBesides} \subseteq Nat

VARIABLES
  file,     \* the upload: a defect of the whole file, its columns, its rows
  updating, \* update_existing
  import,   \* the ContactImport row, and how far the request is
  held,     \* the contacts of each organization: by number, opted in or not
  besides   \* history: contacts other requests touched since the lookup

importFileVars == <<file, updating, import, held, besides>>

Defects == {"none", "extension", "empty", "large", "undecodable"}
Consents == {"in", "out"}
Owners == {"own", "other"}

-----------------------------------------------------------------------------
(* parse_rows *)

\* _map_headers: the name and number columns must be there.
Mapped == {"name", "phone"} \subseteq file.columns

\* The cell of a column the file has no such header for is that of the column
\* without a name, should it have one: raw.get(mapping.get("opted_in", "")).
ConsentCell(i) ==
  CASE "consent" \in file.columns -> file.rows[i].consent
    [] "consent" \notin file.columns /\ "unnamed" \in file.columns -> file.rows[i].unnamed
    [] OTHER -> ""

\* parse_consent over CONSENT_TRUE_VALUES
ParseConsent(cell) == cell \in {"yes", "1"}

Blank(i) == \A column \in file.columns : file.rows[i][column] = ""

\* The checks of one row, up to the number's.
Sound(i) ==
  /\ file.rows[i].name \notin {"", "too long"}
  /\ file.rows[i].phone # ""
  /\ E164[file.rows[i].phone] # "bad"

NumberOf(i) == E164[file.rows[i].phone]

Kept == {i \in DOMAIN file.rows : ~Blank(i)}

\* Faulty: rows are compared as they are spelled.
RepeatsSpelling(i) ==
  \E j \in Kept : j < i /\ Sound(j) /\ file.rows[j].phone = file.rows[i].phone

\* seen_numbers: an earlier row of the file stands for the same number.
Repeats(i) ==
  \E j \in Kept : j < i /\ Sound(j) /\ NumberOf(j) = NumberOf(i)

Invalid == {i \in Kept : ~Sound(i)}
Repeated == {i \in Kept : Sound(i) /\ Repeats(i)}
Valid == {i \in Kept : Sound(i) /\ ~Repeats(i)}
OptedIn(i) == ParseConsent(ConsentCell(i))

-----------------------------------------------------------------------------
(* The request *)

NoImport == [at |-> "upload", status |-> "none"]

\* validate_upload: a file refused here leaves no ContactImport row.
Refuse ==
  /\ import.at = "upload" /\ file.defect # "none"
  /\ import' = [at |-> "over", status |-> "none"]
  /\ UNCHANGED <<file, updating, held, besides>>

\* import_contacts_from_file creates the row; run_import commits PROCESSING.
Start ==
  /\ import.at = "upload" /\ file.defect = "none"
  /\ import' = [at |-> "parse", status |-> "processing"]
  /\ UNCHANGED <<file, updating, held, besides>>

\* run_import: a file that cannot be parsed is FAILED, and that is committed.
ParseFails ==
  /\ import.at = "parse"
  /\ ~Mapped \/ Len(file.rows) > MaxRows
  /\ import' = [at |-> "over", status |-> "failed"]
  /\ UNCHANGED <<file, updating, held, besides>>

\* _persist_import: one query finds the contacts that have the numbers.  It
\* names no organization, and of two contacts with a number one is kept.
Match ==
  /\ import.at = "parse" /\ Mapped /\ Len(file.rows) <= MaxRows
  /\ LET holders(n) == {o \in Owners : held[o][n] # "absent"}
         found == {n \in {NumberOf(i) : i \in Valid} : holders(n) # {}}
     IN \E whose \in [found -> Owners] :
          /\ \A n \in found : whose[n] \in holders(n)
          /\ import' =
               [at |-> "write", status |-> "processing",
                found |-> [n \in found |-> [of |-> whose[n], consent |-> held[whose[n]][n]]]]
  /\ UNCHANGED <<file, updating, held, besides>>

Existing == DOMAIN import.found
ToCreate == {i \in Valid : NumberOf(i) \notin Existing}
ToUpdate == {i \in Valid : updating /\ NumberOf(i) \in Existing}
Collides == {i \in Valid : ~updating /\ NumberOf(i) \in Existing}

\* Consent a row leaves its contact with: granted by the file, never revoked.
ConsentAfter(i) ==
  IF OptedIn(i) \/ (NumberOf(i) \in Existing /\ import.found[NumberOf(i)].consent = "in")
  THEN "in" ELSE "out"

\* The contact a row is about: a new one of the organization, or the one found.
Contact(i) ==
  <<IF NumberOf(i) \in Existing THEN import.found[NumberOf(i)].of ELSE "own", NumberOf(i)>>

Gone(i) == held[Contact(i)[1]][NumberOf(i)] = "absent"

\* bulk_create, then bulk_update of the copies: a row deleted since stays so.
Writes(i) == i \in ToCreate \/ (i \in ToUpdate /\ ~Gone(i))

HeldAfter ==
  [o \in Owners |-> [n \in Numbers |->
     IF \E i \in Valid : Writes(i) /\ Contact(i) = <<o, n>>
     THEN ConsentAfter(CHOOSE i \in Valid : Writes(i) /\ Contact(i) = <<o, n>>)
     ELSE held[o][n]]]

\* Nobody has added a number that is to be new, and every contact a row of the
\* report refers to is still there.
Write ==
  /\ import.at = "write"
  /\ \A i \in ToCreate : Gone(i)
  /\ \A i \in Collides : ~Gone(i)
  /\ held' = HeldAfter
  /\ import' =
       [at |-> "over", status |-> "completed", found |-> import.found,
        total |-> Cardinality(Kept),
        imported |-> Cardinality(ToCreate),
        updated |-> Cardinality(ToUpdate),
        duplicates |-> Cardinality(Repeated) + Cardinality(Collides),
        invalid |-> Cardinality(Invalid),
        notOptedIn |-> Cardinality({i \in ToCreate \cup ToUpdate : ConsentAfter(i) = "out"}),
        before |-> held]
  /\ UNCHANGED <<file, updating, besides>>

\* unique_contact_phone_per_organization refuses a contact somebody else has
\* added meanwhile, and a report row, or the membership of the group asked for,
\* has no contact to refer to if it was deleted: everything is rolled back but
\* PROCESSING, which was committed.
WriteFails ==
  /\ import.at = "write"
  /\ (\E i \in ToCreate : ~Gone(i)) \/ (\E i \in Collides \cup ToUpdate : Gone(i))
  /\ import' = [at |-> "over", status |-> "processing"]
  /\ UNCHANGED <<file, updating, held, besides>>

\* Another request adds a contact, deletes one or changes its consent, after
\* the lookup (before it, these are the contacts the import starts from).
Beside(o, n, consent) ==
  /\ import.at = "write" /\ Cardinality(besides) < MaxBesides
  /\ held[o][n] # consent /\ <<o, n>> \notin besides
  /\ held' = [held EXCEPT ![o][n] = consent]
  /\ besides' = besides \cup {<<o, n>>}
  /\ UNCHANGED <<file, updating, import>>

-----------------------------------------------------------------------------
\* Any few rows, or too many.
Overlong == [i \in 1 .. MaxRows + 1 |-> CHOOSE kind \in RowKinds : TRUE]
Files ==
  [defect : {"none"}, columns : Headers, rows : BoundedSeq(RowKinds, MaxFileRows) \cup {Overlong}]
    \cup [defect : Defects \ {"none"}, columns : {{}}, rows : {<<>>}]

ImportFileInit ==
  /\ file \in Files
  /\ updating \in BOOLEAN
  /\ import = NoImport
  /\ held \in [Owners -> [Numbers -> Consents \cup {"absent"}]]
  /\ besides = {}

ImportFileNext ==
  \/ Refuse \/ Start \/ ParseFails \/ Match \/ Write \/ WriteFails
  \/ \E o \in Owners, n \in Numbers, consent \in Consents \cup {"absent"} : Beside(o, n, consent)

ImportFileTypeOK ==
  /\ file \in Files
  /\ import.at \in {"upload", "parse", "write", "over"}
  /\ import.status \in {"none", "processing", "completed", "failed"}
  /\ held \in [Owners -> [Numbers -> Consents \cup {"absent"}]]

-----------------------------------------------------------------------------
\* Every row of a completed import that holds anything is counted once, under
\* one outcome.  The contacts it says it imported are those that are new to its
\* organization.  Those it says lack consent are the ones it wrote and left
\* without, in whichever organization it found them.  And nobody, anywhere, is
\* opted in but by a row about that contact or as the contact already was.
FileRowsAddUp ==
  import.status = "completed" =>
    LET new == {n \in Numbers : import.before["own"][n] = "absent" /\ held["own"][n] # "absent"}
        wrote == {Contact(i) : i \in ToCreate \cup ToUpdate}
        granted == {Contact(i) : i \in {j \in ToCreate \cup ToUpdate : OptedIn(j)}}
        stood == {Contact(i) : i \in {j \in ToUpdate : import.found[NumberOf(j)].consent = "in"}}
    IN /\ import.total = import.imported + import.updated + import.duplicates + import.invalid
       /\ import.imported = Cardinality(new)
       /\ besides = {} => import.notOptedIn = Cardinality({w \in wrote : held[w[1]][w[2]] = "out"})
       /\ \A o \in Owners, n \in Numbers :
            held[o][n] = "in" => import.before[o][n] = "in" \/ <<o, n>> \in granted \cup stood

-----------------------------------------------------------------------------
(* What the code does not keep (see the README) *)

\* importers.py:6, a row is opted in "only when a recognised consent column
\* holds an explicitly affirmative value".
ConsentHasItsColumn ==
  import.status = "completed" /\ "consent" \notin file.columns =>
    \A n \in Numbers : import.before["own"][n] = "absent" => held["own"][n] # "in"

\* contacts/models.py:327, the record is kept so that an operator can revisit
\* "exactly which rows were rejected and why": an ended import has an outcome.
ImportSettles == import.at = "over" => import.status # "processing"

=============================================================================
