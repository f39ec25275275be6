---------------------------- MODULE FiguresProofs ----------------------------
(***************************************************************************)
(* Proofs about Figures.  For any file and any contacts, the outcome of an *)
(* import adds up.  For any campaigns, messages and period, the chart      *)
(* counts every message of the period once, and the parts of a page, read  *)
(* one after the other, add up.                                            *)
(*                                                                         *)
(* What the code sums is what a set of rows counts, part by part:          *)
(* SumCounts is the one fact about sums that the rest needs.               *)
(***************************************************************************)
EXTENDS Figures, FiniteSetTheorems, WellFoundedInduction, TLAPS

-----------------------------------------------------------------------------
(* The rows of a file *)

LEMMA Bounds == MaxFileRows \in Nat /\ MaxRows \in Nat
<1>1. MaxFileRows \in {MaxFileRows, MaxRows, MaxBesides} /\ MaxRows \in {MaxFileRows, MaxRows, MaxBesides}
  OBVIOUS
<1> QED BY <1>1, ImportFileAssumption

LEMMA RowsAreFew ==
  ASSUME file \in Files
  PROVE  /\ IsFiniteSet(DOMAIN file.rows) /\ DOMAIN file.rows \subseteq Nat
         /\ \A i \in DOMAIN file.rows : file.rows[i] \in RowKinds
<1>1. file.rows \in BoundedSeq(RowKinds, MaxFileRows) \cup {Overlong, <<>>}
  BY DEF Files
<1>2. CASE file.rows \in BoundedSeq(RowKinds, MaxFileRows)
  <2>1. PICK m \in 0 .. MaxFileRows : file.rows \in [1 .. m -> RowKinds]
    BY <1>2 DEF BoundedSeq, SeqOf
  <2>2. DOMAIN file.rows = 1 .. m /\ m \in Int /\ 1 \in Int
    BY <2>1, Bounds
  <2>3. IsFiniteSet(1 .. m)
    BY <2>2, FS_Interval
  <2> QED BY <2>1, <2>2, <2>3
<1>3. CASE file.rows = Overlong
  <2>1. DOMAIN file.rows = 1 .. MaxRows + 1 /\ MaxRows + 1 \in Int
    BY <1>3, Bounds DEF Overlong
  <2>2. IsFiniteSet(1 .. MaxRows + 1)
    BY <2>1, FS_Interval
  <2>3. (CHOOSE kind \in RowKinds : TRUE) \in RowKinds
    BY ImportFileAssumption
  <2>4. \A i \in DOMAIN file.rows : file.rows[i] = CHOOSE kind \in RowKinds : TRUE
    BY <1>3 DEF Overlong
  <2> QED BY <2>1, <2>2, <2>3, <2>4
<1>4. CASE file.rows = <<>>
  <2>1. DOMAIN file.rows = {}
    BY <1>4
  <2> QED BY <2>1, FS_EmptySet
<1> QED BY <1>1, <1>2, <1>3, <1>4

\* What is made of the rows depends on the file alone.
LEMMA RowsStand ==
  ASSUME UNCHANGED file
  PROVE  /\ Kept' = Kept /\ Valid' = Valid /\ Repeated' = Repeated /\ Invalid' = Invalid
         /\ \A i : NumberOf(i)' = NumberOf(i) /\ OptedIn(i)' = OptedIn(i)
<1>1. \A i : NumberOf(i)' = NumberOf(i)
  BY DEF NumberOf
<1>2. \A i : Sound(i)' <=> Sound(i)
  BY DEF Sound
<1>3. \A i : OptedIn(i)' = OptedIn(i)
  BY DEF OptedIn, ConsentCell
<1>4. Kept' = Kept
  BY DEF Kept, Blank
<1>5. \A i : Repeats(i)' <=> Repeats(i)
  BY <1>1, <1>2, <1>4 DEF Repeats
<1>6. Valid' = Valid /\ Repeated' = Repeated /\ Invalid' = Invalid
  BY <1>2, <1>4, <1>5 DEF Valid, Repeated, Invalid
<1> QED BY <1>1, <1>3, <1>4, <1>6

LEMMA KeptAreFew ==
  ASSUME file \in Files, NEW S \in SUBSET Kept
  PROVE  IsFiniteSet(S) /\ Cardinality(S) \in Nat
<1>1. S \subseteq DOMAIN file.rows
  BY DEF Kept
<1> QED BY <1>1, RowsAreFew, FS_Subset, FS_CardinalityType

\* A sound row stands for a number.
LEMMA SoundRowsHaveNumbers ==
  ASSUME file \in Files, NEW i \in Kept, Sound(i)
  PROVE  NumberOf(i) \in Numbers
BY RowsAreFew, ImportFileAssumption DEF Kept, Sound, NumberOf

\* No two of the rows that are written stand for the same number.
LEMMA OneRowEach ==
  ASSUME file \in Files, NEW i \in Valid, NEW j \in Valid, NumberOf(i) = NumberOf(j)
  PROVE  i = j
<1>1. i \in Nat /\ j \in Nat
  BY RowsAreFew DEF Valid, Kept
<1>2. ~(i < j) /\ ~(j < i)
  BY DEF Valid, Repeats
<1> QED BY <1>1, <1>2

LEMMA AsManyNumbers ==
  ASSUME file \in Files, NEW S \in SUBSET Valid
  PROVE  Cardinality({NumberOf(i) : i \in S}) = Cardinality(S)
<1> DEFINE T == {NumberOf(i) : i \in S}
           f == [i \in S |-> NumberOf(i)]
<1>1. IsFiniteSet(S)
  BY KeptAreFew DEF Valid
<1>2. f \in Bijection(S, T)
  <2>1. f \in [S -> T] /\ \A i \in S : f[i] = NumberOf(i)
    OBVIOUS
  <2>2. \A i, j \in S : f[i] = f[j] => i = j
    BY <2>1, OneRowEach
  <2>3. \A n \in T : \E i \in S : f[i] = n
    BY <2>1
  <2> QED BY <2>1, <2>2, <2>3 DEF Bijection, Injection, Surjection, IsInjective
<1>3. ExistsBijection(S, T)
  BY <1>2 DEF ExistsBijection
<1> QED BY <1>1, <1>3, FS_Bijection

-----------------------------------------------------------------------------
(* Every row that holds anything has one outcome *)

LEMMA TwoParts ==
  ASSUME NEW S, NEW T, IsFiniteSet(S), IsFiniteSet(T), S \cap T = {}
  PROVE  Cardinality(S \cup T) = Cardinality(S) + Cardinality(T)
<1>1. Cardinality(S \cap T) = 0
  BY FS_EmptySet, Zenon
<1>2. Cardinality(S) \in Nat /\ Cardinality(T) \in Nat
  BY FS_CardinalityType
<1>3. Cardinality(S \cup T) = Cardinality(S) + Cardinality(T) - Cardinality(S \cap T)
  BY FS_Union
<1> QED BY <1>1, <1>2, <1>3

LEMMA RowsArePartitioned ==
  ASSUME file \in Files, updating \in BOOLEAN
  PROVE  /\ Cardinality(Kept) =
              Cardinality(ToCreate) + Cardinality(ToUpdate)
                + (Cardinality(Repeated) + Cardinality(Collides)) + Cardinality(Invalid)
<1> DEFINE A == ToCreate \cup ToUpdate
           B == Repeated \cup Collides
<1>1. Kept = (A \cup B) \cup Invalid
  BY DEF Valid, Repeated, Invalid, ToCreate, ToUpdate, Collides
<1>2. /\ ToCreate \cap ToUpdate = {} /\ Repeated \cap Collides = {}
      /\ A \cap B = {} /\ (A \cup B) \cap Invalid = {}
  BY DEF Valid, Repeated, Invalid, ToCreate, ToUpdate, Collides
<1>3. \A S \in SUBSET Kept : IsFiniteSet(S) /\ Cardinality(S) \in Nat
  BY KeptAreFew
<1>4. {A, B, A \cup B, ToCreate, ToUpdate, Repeated, Collides, Invalid} \subseteq SUBSET Kept
  BY DEF Valid, Repeated, Invalid, ToCreate, ToUpdate, Collides
<1>5. Cardinality(A) = Cardinality(ToCreate) + Cardinality(ToUpdate)
  BY <1>2, <1>3, <1>4, TwoParts
<1>6. Cardinality(B) = Cardinality(Repeated) + Cardinality(Collides)
  BY <1>2, <1>3, <1>4, TwoParts
<1> HIDE DEF A, B
<1>7. Cardinality(A \cup B) = Cardinality(A) + Cardinality(B)
  BY <1>2, <1>3, <1>4, TwoParts
<1>8. Cardinality((A \cup B) \cup Invalid) = Cardinality(A \cup B) + Cardinality(Invalid)
  BY <1>2, <1>3, <1>4, TwoParts
<1>9. Cardinality(Kept) = Cardinality((A \cup B) \cup Invalid)
  BY <1>1, Zenon
<1> QED BY <1>3, <1>4, <1>5, <1>6, <1>7, <1>8, <1>9

-----------------------------------------------------------------------------
(***************************************************************************)
(* The write.  Only the rows to create bring contacts the organization did *)
(* not have: the database refuses one that somebody else has added.  And a *)
(* contact that was found is still there, unless another request deleted   *)
(* it meanwhile.                                                           *)
(***************************************************************************)

Holdings == [Owners -> [Numbers -> Consents \cup {"absent"}]]

FoundContacts == [of : Owners, consent : Consents]

MatchHolds ==
  import.at = "write" =>
    /\ import.status = "processing"
    /\ import.found \in [Existing -> FoundContacts]
    /\ besides = {} => \A i \in Valid : NumberOf(i) \in Existing => ~Gone(i)

FileInv ==
  /\ file \in Files /\ updating \in BOOLEAN
  /\ held \in Holdings
  /\ import.status = "completed" => import.at = "over"
  /\ MatchHolds
  /\ FileRowsAddUp

\* Each row that is written is about a contact of its own.
LEMMA RowsHaveTheirContact ==
  ASSUME FileInv, import.at = "write"
  PROVE  /\ ToCreate \subseteq Valid /\ ToUpdate \subseteq Valid /\ Valid \subseteq Kept
         /\ \A i \in Valid :
              /\ NumberOf(i) \in Numbers /\ Contact(i)[1] \in Owners
              /\ Contact(i) = <<Contact(i)[1], NumberOf(i)>>
         /\ \A i, j \in Valid : Contact(i) = Contact(j) => i = j
         /\ \A i \in ToCreate : Contact(i) = <<"own", NumberOf(i)>>
<1>1. ToCreate \subseteq Valid /\ ToUpdate \subseteq Valid /\ Valid \subseteq Kept
  BY DEF ToCreate, ToUpdate, Valid
<1>2. \A i \in Valid : NumberOf(i) \in Numbers
  BY SoundRowsHaveNumbers DEF FileInv, Valid
<1>3. \A i \in Valid : Contact(i) = <<Contact(i)[1], NumberOf(i)>> /\ Contact(i)[2] = NumberOf(i)
  BY DEF Contact
<1>4. \A i \in Valid : Contact(i)[1] \in Owners
  BY DEF FileInv, MatchHolds, FoundContacts, Contact, Owners
<1>5. \A i, j \in Valid : Contact(i) = Contact(j) => i = j
  BY <1>3, OneRowEach DEF FileInv
<1>6. \A i \in ToCreate : Contact(i) = <<"own", NumberOf(i)>>
  BY DEF Contact, ToCreate
<1> QED BY <1>1, <1>2, <1>3, <1>4, <1>5, <1>6

LEMMA AsManyContacts ==
  ASSUME FileInv, import.at = "write", NEW S \in SUBSET Valid
  PROVE  Cardinality({Contact(i) : i \in S}) = Cardinality(S)
<1> DEFINE T == {Contact(i) : i \in S}
           f == [i \in S |-> Contact(i)]
<1>1. IsFiniteSet(S)
  BY KeptAreFew DEF Valid, FileInv
<1>2. f \in Bijection(S, T)
  <2>1. f \in [S -> T] /\ \A i \in S : f[i] = Contact(i)
    OBVIOUS
  <2>2. \A i, j \in S : f[i] = f[j] => i = j
    BY <2>1, RowsHaveTheirContact
  <2>3. \A w \in T : \E i \in S : f[i] = w
    BY <2>1
  <2> QED BY <2>1, <2>2, <2>3 DEF Bijection, Injection, Surjection, IsInjective
<1>3. ExistsBijection(S, T)
  BY <1>2 DEF ExistsBijection
<1> QED BY <1>1, <1>3, FS_Bijection

\* What a contact is after the write.
LEMMA HeldAfterWrite ==
  ASSUME FileInv, Write
  PROVE  /\ \A i \in Valid : Writes(i) => held'[Contact(i)[1]][NumberOf(i)] = ConsentAfter(i)
         /\ \A o \in Owners, n \in Numbers :
              (\A i \in Valid : Writes(i) => Contact(i) # <<o, n>>) => held'[o][n] = held[o][n]
         /\ held' \in Holdings
<1>1. held' = HeldAfter /\ import.at = "write"
  BY DEF Write
<1>2. ASSUME NEW i \in Valid, Writes(i)
      PROVE  held'[Contact(i)[1]][NumberOf(i)] = ConsentAfter(i)
  <2> DEFINE o == Contact(i)[1]
             n == NumberOf(i)
             j == CHOOSE k \in Valid : Writes(k) /\ Contact(k) = <<o, n>>
  <2>1. o \in Owners /\ n \in Numbers /\ Contact(i) = <<o, n>>
    BY <1>1, RowsHaveTheirContact
  <2>2. j \in Valid /\ Contact(j) = <<o, n>>
    BY <1>2, <2>1
  <2>3. i = j
    BY <1>1, <2>1, <2>2, RowsHaveTheirContact
  <2>4. HeldAfter[o][n] = ConsentAfter(j)
    BY <1>2, <2>1 DEF HeldAfter
  <2> QED BY <1>1, <2>3, <2>4
<1>3. \A o \in Owners, n \in Numbers :
        (\A i \in Valid : Writes(i) => Contact(i) # <<o, n>>) => held'[o][n] = held[o][n]
  BY <1>1 DEF HeldAfter
<1>4. HeldAfter \in Holdings
  <2>1. \A i : ConsentAfter(i) \in Consents \cup {"absent"}
    BY DEF ConsentAfter, Consents
  <2> QED BY <2>1 DEF HeldAfter, FileInv, Holdings
<1> QED BY <1>1, <1>2, <1>3, <1>4

\* The contacts a completed import says it imported are the new ones.
LEMMA NewContactsAreCreated ==
  ASSUME FileInv, Write
  PROVE  Cardinality(ToCreate)
           = Cardinality({n \in Numbers : held["own"][n] = "absent" /\ held'["own"][n] # "absent"})
<1> DEFINE new == {n \in Numbers : held["own"][n] = "absent" /\ held'["own"][n] # "absent"}
<1>1. import.at = "write" /\ "own" \in Owners
  BY DEF Write, Owners
<1>2. ASSUME NEW i \in ToCreate PROVE NumberOf(i) \in new
  <2>1. i \in Valid /\ NumberOf(i) \in Numbers /\ Contact(i) = <<"own", NumberOf(i)>> /\ Gone(i)
    BY <1>1, RowsHaveTheirContact DEF Write
  <2>2. Contact(i)[1] = "own" /\ ConsentAfter(i) # "absent"
    BY <2>1 DEF ConsentAfter
  <2>3. held'["own"][NumberOf(i)] = ConsentAfter(i)
    BY <2>1, <2>2, HeldAfterWrite DEF Writes
  <2> QED BY <2>1, <2>2, <2>3 DEF Gone
<1>3. ASSUME NEW n \in new PROVE \E i \in ToCreate : NumberOf(i) = n
  <2>1. PICK i \in Valid : Writes(i) /\ Contact(i) = <<"own", n>>
    BY <1>1, HeldAfterWrite
  <2>2. NumberOf(i) = n /\ Contact(i)[1] = "own"
    BY <1>1, <2>1, RowsHaveTheirContact
  <2>3. Gone(i)
    BY <2>2 DEF Gone
  <2> QED BY <2>1, <2>2, <2>3 DEF Writes
<1>4. new = {NumberOf(i) : i \in ToCreate}
  BY <1>2, <1>3
<1>5. Cardinality({NumberOf(i) : i \in ToCreate}) = Cardinality(ToCreate)
  BY <1>1, RowsHaveTheirContact, AsManyNumbers DEF FileInv
<1>6. Cardinality(new) = Cardinality({NumberOf(i) : i \in ToCreate})
  BY <1>4, Zenon
<1> QED BY <1>5, <1>6

\* With nobody beside it, those it says lack consent do.
LEMMA BareContactsAreCounted ==
  ASSUME FileInv, Write, besides = {}
  PROVE  Cardinality({i \in ToCreate \cup ToUpdate : ConsentAfter(i) = "out"})
           = Cardinality({w \in {Contact(i) : i \in ToCreate \cup ToUpdate} : held'[w[1]][w[2]] = "out"})
<1> DEFINE bare == {i \in ToCreate \cup ToUpdate : ConsentAfter(i) = "out"}
           left == {w \in {Contact(i) : i \in ToCreate \cup ToUpdate} : held'[w[1]][w[2]] = "out"}
<1>1. import.at = "write"
  BY DEF Write
<1>2. ASSUME NEW i \in ToCreate \cup ToUpdate
      PROVE  i \in Valid /\ held'[Contact(i)[1]][Contact(i)[2]] = ConsentAfter(i)
  <2>1. i \in Valid /\ Contact(i) = <<Contact(i)[1], NumberOf(i)>>
    BY <1>1, RowsHaveTheirContact
  <2>2. Writes(i)
    BY <1>1 DEF FileInv, MatchHolds, ToUpdate, Writes
  <2>3. Contact(i)[2] = NumberOf(i)
    BY <2>1
  <2> QED BY <2>1, <2>2, <2>3, HeldAfterWrite
<1>3. left = {Contact(i) : i \in bare}
  BY <1>2
<1>4. bare \in SUBSET Valid
  BY <1>2
<1>5. Cardinality({Contact(i) : i \in bare}) = Cardinality(bare)
  BY <1>1, <1>4, AsManyContacts
<1>6. Cardinality(left) = Cardinality({Contact(i) : i \in bare})
  BY <1>3, Zenon
<1> QED BY <1>5, <1>6

\* Consent comes from a row about the contact, or was there.
LEMMA ConsentHasASource ==
  ASSUME FileInv, Write, NEW o \in Owners, NEW n \in Numbers, held'[o][n] = "in"
  PROVE  \/ held[o][n] = "in"
         \/ \E i \in ToCreate \cup ToUpdate :
              Contact(i) = <<o, n>> /\ i \in Valid /\ OptedIn(i)
         \/ \E i \in ToUpdate : Contact(i) = <<o, n>> /\ import.found[NumberOf(i)].consent = "in"
<1>1. import.at = "write"
  BY DEF Write
<1>2. CASE \A i \in Valid : Writes(i) => Contact(i) # <<o, n>>
  BY <1>2, HeldAfterWrite
<1>3. CASE \E i \in Valid : Writes(i) /\ Contact(i) = <<o, n>>
  <2>1. PICK i \in Valid : Writes(i) /\ Contact(i) = <<o, n>>
    BY <1>3
  <2>2. Contact(i)[1] = o /\ NumberOf(i) = n
    BY <1>1, <2>1, RowsHaveTheirContact
  <2>3. ConsentAfter(i) = "in"
    BY <2>1, <2>2, HeldAfterWrite
  <2>4. OptedIn(i) \/ (NumberOf(i) \in Existing /\ import.found[NumberOf(i)].consent = "in")
    BY <2>3 DEF ConsentAfter
  <2> QED BY <2>1, <2>4 DEF Writes, ToCreate
<1> QED BY <1>2, <1>3

\* The counts and the contacts of an import that completes.
LEMMA WrittenRowsAddUp ==
  ASSUME FileInv, Write
  PROVE  FileRowsAddUp'
<1> DEFINE new == {n \in Numbers : held["own"][n] = "absent" /\ held'["own"][n] # "absent"}
           wrote == {Contact(i) : i \in ToCreate \cup ToUpdate}
           granted == {Contact(i) : i \in {j \in ToCreate \cup ToUpdate : OptedIn(j)}}
           stood == {Contact(i) : i \in {j \in ToUpdate : import.found[NumberOf(j)].consent = "in"}}
           left == {w \in wrote : held'[w[1]][w[2]] = "out"}
<1>1. /\ UNCHANGED <<file, updating, besides>> /\ import.at = "write"
      /\ import'.found = import.found /\ import'.before = held
      /\ import'.total = Cardinality(Kept)
      /\ import'.imported = Cardinality(ToCreate)
      /\ import'.updated = Cardinality(ToUpdate)
      /\ import'.duplicates = Cardinality(Repeated) + Cardinality(Collides)
      /\ import'.invalid = Cardinality(Invalid)
      /\ import'.notOptedIn = Cardinality({i \in ToCreate \cup ToUpdate : ConsentAfter(i) = "out"})
  BY DEF Write
<1>2. /\ ToCreate' = ToCreate /\ ToUpdate' = ToUpdate
      /\ \A i : NumberOf(i)' = NumberOf(i) /\ OptedIn(i)' = OptedIn(i) /\ Contact(i)' = Contact(i)
  BY <1>1, RowsStand DEF ToCreate, ToUpdate, Existing, Contact
<1>3. import'.total = import'.imported + import'.updated + import'.duplicates + import'.invalid
  BY <1>1, RowsArePartitioned DEF FileInv
<1>4. import'.imported = Cardinality(new)
  BY <1>1, NewContactsAreCreated
<1>5. besides' = {} => import'.notOptedIn = Cardinality(left)
  BY <1>1, BareContactsAreCounted
<1>6. \A o \in Owners, n \in Numbers :
        held'[o][n] = "in" => held[o][n] = "in" \/ <<o, n>> \in granted \cup stood
  BY ConsentHasASource
<1>7. /\ wrote' = wrote /\ granted' = granted
      /\ stood' = stood
  BY <1>1, <1>2
<1>8. new = {n \in Numbers : import'.before["own"][n] = "absent" /\ held'["own"][n] # "absent"}
  BY <1>1
<1>9. \A o \in Owners, n \in Numbers :
        held'[o][n] = "in" => import'.before[o][n] = "in" \/ <<o, n>> \in granted' \cup stood'
  BY <1>1, <1>6, <1>7
<1>10. left = {w \in wrote' : held'[w[1]][w[2]] = "out"}
  BY <1>7
<1> HIDE DEF new, wrote, granted, stood, left
<1> QED BY <1>3, <1>4, <1>5, <1>8, <1>9, <1>10 DEF FileRowsAddUp, new, wrote, granted, stood

LEMMA FileStays ==
  ASSUME FileInv, UNCHANGED importFileVars
  PROVE  FileInv'
<1>1. UNCHANGED <<file, updating, import, held, besides>>
  BY DEF importFileVars
<1>2. /\ Valid' = Valid /\ Existing' = Existing
      /\ ToCreate' = ToCreate /\ ToUpdate' = ToUpdate
      /\ \A i : NumberOf(i)' = NumberOf(i) /\ OptedIn(i)' = OptedIn(i)
      /\ \A i : Contact(i)' = Contact(i)
  BY <1>1, RowsStand DEF Existing, ToCreate, ToUpdate, Contact
<1>3. \A i : Gone(i)' = Gone(i)
  BY <1>1, <1>2 DEF Gone
<1>4. MatchHolds'
  BY <1>1, <1>2, <1>3 DEF FileInv, MatchHolds
<1>5. FileRowsAddUp'
  BY <1>1, <1>2 DEF FileInv, FileRowsAddUp
<1> QED BY <1>1, <1>4, <1>5 DEF FileInv

LEMMA MatchedRowsAreHeld ==
  ASSUME FileInv, Match
  PROVE  FileInv'
<1> DEFINE found == {n \in {NumberOf(i) : i \in Valid} : {o \in Owners : held[o][n] # "absent"} # {}}
<1>1. PICK whose \in [found -> Owners] :
        /\ \A n \in found : whose[n] \in {o \in Owners : held[o][n] # "absent"}
        /\ import' =
             [at |-> "write", status |-> "processing",
              found |-> [n \in found |-> [of |-> whose[n], consent |-> held[whose[n]][n]]]]
  BY DEF Match
<1>2. UNCHANGED <<file, updating, held, besides>>
  BY DEF Match
<1>3. Valid' = Valid /\ \A i : NumberOf(i)' = NumberOf(i)
  BY <1>2, RowsStand
<1>4. \A n \in found : n \in Numbers
  BY SoundRowsHaveNumbers DEF FileInv, Valid
<1>5. \A n \in found : whose[n] \in Owners /\ held[whose[n]][n] \in Consents
  BY <1>1, <1>4 DEF FileInv, Holdings
<1>6. /\ import'.at = "write" /\ import'.status = "processing"
      /\ Existing' = found /\ import'.found \in [found -> FoundContacts]
      /\ \A n \in found : import'.found[n].of = whose[n]
  BY <1>1, <1>5 DEF Existing, FoundContacts
<1>7. ASSUME NEW i \in Valid, NumberOf(i) \in found PROVE ~Gone(i)'
  <2>1. Contact(i)' = <<whose[NumberOf(i)], NumberOf(i)>>
    BY <1>3, <1>6, <1>7 DEF Contact
  <2> QED BY <1>1, <1>2, <1>3, <1>7, <2>1 DEF Gone
<1> HIDE DEF found
<1>8. MatchHolds'
  BY <1>3, <1>6, <1>7 DEF MatchHolds
<1>9. FileRowsAddUp'
  BY <1>6 DEF FileRowsAddUp
<1> QED BY <1>2, <1>6, <1>8, <1>9 DEF FileInv

\* Another request: what it touches is no longer as it was found.
LEMMA BesideTouches ==
  ASSUME FileInv, NEW o \in Owners, NEW n \in Numbers, NEW consent \in Consents \cup {"absent"},
         Beside(o, n, consent)
  PROVE  FileInv'
<1>1. /\ UNCHANGED <<file, updating, import>> /\ import.at = "write"
      /\ held' = [held EXCEPT ![o][n] = consent] /\ besides' # {}
  BY DEF Beside
<1>2. held' \in Holdings
  BY <1>1 DEF FileInv, Holdings
<1>3. Existing' = Existing
  BY <1>1 DEF Existing
<1>4. MatchHolds' /\ FileRowsAddUp'
  BY <1>1, <1>3 DEF FileInv, MatchHolds, FileRowsAddUp
<1> QED BY <1>1, <1>2, <1>4 DEF FileInv

LEMMA FileHolds == Spec => []FileInv
<1>1. Init => FileInv
  <2> SUFFICES ASSUME Init PROVE FileInv
    OBVIOUS
  <2>1. ImportFileInit /\ import.at = "upload" /\ import.status = "none"
    BY DEF Init, ImportFileInit, NoImport
  <2> QED BY <2>1 DEF ImportFileInit, FileInv, Holdings, MatchHolds, FileRowsAddUp
<1>2. ASSUME FileInv, Next PROVE FileInv'
  <2>1. CASE UNCHANGED importFileVars
    BY <1>2, <2>1, FileStays
  <2>2. CASE Refuse \/ Start \/ ParseFails \/ WriteFails
    <3>1. /\ UNCHANGED <<file, updating, held>>
          /\ import'.at # "write" /\ import'.status # "completed"
      BY <2>2 DEF Refuse, Start, ParseFails, WriteFails
    <3> QED BY <1>2, <3>1 DEF FileInv, MatchHolds, FileRowsAddUp
  <2>3. CASE Match
    BY <1>2, <2>3, MatchedRowsAreHeld
  <2>4. CASE Write
    <3>1. UNCHANGED <<file, updating>> /\ import'.at = "over"
      BY <2>4 DEF Write
    <3>2. held' \in Holdings /\ FileRowsAddUp'
      BY <1>2, <2>4, HeldAfterWrite, WrittenRowsAddUp
    <3> QED BY <1>2, <3>1, <3>2 DEF FileInv, MatchHolds
  <2>5. ASSUME NEW o \in Owners, NEW n \in Numbers, NEW consent \in Consents \cup {"absent"},
               Beside(o, n, consent)
        PROVE  FileInv'
    BY <1>2, <2>5, BesideTouches
  <2>6. ImportFileNext \/ UNCHANGED importFileVars
    BY <1>2 DEF Next, ReportsMove, ImportMoves
  <2> QED BY <2>1, <2>2, <2>3, <2>4, <2>5, <2>6 DEF ImportFileNext
<1>3. FileInv /\ [Next]_vars => FileInv'
  <2>1. ASSUME FileInv, UNCHANGED vars PROVE FileInv'
    BY <2>1, FileStays DEF vars
  <2> QED BY <1>2, <2>1
<1> QED BY <1>1, <1>3, PTL DEF Spec

\* contacts/importers.py, import_contacts_from_file beside other requests: the
\* counts a completed import reports are those of its rows and of the contacts
\* it wrote, and nobody of any organization is opted in but by a row about them.
THEOREM ImportsAddUp == Spec => []FileRowsAddUp
<1>1. FileInv => FileRowsAddUp
  BY DEF FileInv
<1> QED BY <1>1, FileHolds, PTL

-----------------------------------------------------------------------------
(* Sums, and the cardinalities they are of *)

\* What has zero, and n + 1 with every n, has every number.
LEMMA NatSetInduction ==
  ASSUME NEW T, 0 \in T, \A n \in Nat : n \in T => n + 1 \in T
  PROVE  Nat \subseteq T
<1> SUFFICES ASSUME Nat \ T # {} PROVE FALSE
  OBVIOUS
<1>1. PICK n \in Nat \ T : \A k \in Nat \ T : ~ (<<k, n>> \in OpToRel(<, Nat))
  BY NatLessThanWellFounded, WFMin
<1>2. n # 0 /\ n - 1 \in Nat /\ n - 1 < n
  OBVIOUS
<1>3. n - 1 \notin T
  OBVIOUS
<1>4. <<n - 1, n>> \in OpToRel(<, Nat)
  BY <1>2 DEF OpToRel
<1> QED BY <1>1, <1>2, <1>3, <1>4

\* A set of numbers that is not empty has a least one,
LEMMA LeastExists ==
  ASSUME NEW T \in SUBSET Nat, T # {}
  PROVE  \E n \in T : \A m \in T : n <= m
<1>1. PICK n \in T : \A k \in T : ~ (<<k, n>> \in OpToRel(<, Nat))
  BY NatLessThanWellFounded, WFMin
<1>2. ASSUME NEW m \in T, m < n PROVE FALSE
  <2>1. <<m, n>> \in OpToRel(<, Nat)
    BY <1>2 DEF OpToRel
  <2> QED BY <1>1, <2>1
<1> QED BY <1>2

\* and, below a bound, a greatest one.
LEMMA GreatestExists ==
  ASSUME NEW T \in SUBSET Nat, T # {}, NEW top \in Nat, \A n \in T : n <= top
  PROVE  \E n \in T : \A m \in T : m <= n
<1> DEFINE U == {u \in Nat : \A n \in T : n <= u}
<1>1. PICK u \in U : \A m \in U : u <= m
  <2>1. U \in SUBSET Nat /\ top \in U
    OBVIOUS
  <2> HIDE DEF U
  <2> QED BY <2>1, LeastExists
<1>2. u \in T
  <2>1. SUFFICES ASSUME u \notin T PROVE FALSE
    OBVIOUS
  <2>2. \A n \in T : n < u
    BY <2>1
  <2>3. u # 0
    <3>1. PICK n \in T : n \in Nat
      OBVIOUS
    <3> QED BY <2>2, <3>1
  <2>4. u - 1 \in U
    BY <2>2, <2>3
  <2> QED BY <1>1, <2>4
<1> QED BY <1>2

\* The powers of ten are what their equation says.
LEMMA TenToExists ==
  TenTo = [e \in Nat |-> IF e = 0 THEN 1 ELSE 10 * TenTo[e - 1]]
<1> DEFINE Upto(f, n) ==
             /\ f \in [0 .. n -> Nat]
             /\ f[0] = 1
             /\ \A e \in 1 .. n : f[e] = 10 * f[e - 1]
           Some == {n \in Nat : \E f : Upto(f, n)}
           h == [e \in Nat |-> (CHOOSE f : Upto(f, e))[e]]
<1>1. Nat \subseteq Some
  <2>1. 0 \in Some
    <3>1. Upto([e \in 0 .. 0 |-> 1], 0)
      OBVIOUS
    <3> QED BY <3>1
  <2>2. ASSUME NEW n \in Nat, n \in Some PROVE n + 1 \in Some
    <3>1. PICK f : Upto(f, n)
      BY <2>2
    <3> DEFINE g == [e \in 0 .. n + 1 |-> IF e = n + 1 THEN 10 * f[n] ELSE f[e]]
    <3>2. Upto(g, n + 1)
      BY <3>1
    <3> HIDE DEF g, Upto
    <3> QED BY <3>2
  <2> HIDE DEF Some
  <2> QED BY <2>1, <2>2, NatSetInduction
<1>2. ASSUME NEW n \in Nat PROVE Upto(CHOOSE f : Upto(f, n), n)
  <2>1. \E f : Upto(f, n)
    BY <1>1
  <2> HIDE DEF Upto
  <2> QED BY <2>1
<1>3. ASSUME NEW n \in Nat, NEW f, NEW g, Upto(f, n), Upto(g, n + 1) PROVE f[n] = g[n]
  <2> DEFINE T == {e \in Nat : e <= n => f[e] = g[e]}
  <2>1. 0 \in T
    BY <1>3
  <2>2. ASSUME NEW e \in Nat, e \in T PROVE e + 1 \in T
    <3>1. CASE e + 1 <= n
      <4>1. e + 1 \in 1 .. n /\ e + 1 \in 1 .. n + 1 /\ (e + 1) - 1 = e
        BY <3>1
      <4>2. f[e + 1] = 10 * f[e] /\ g[e + 1] = 10 * g[e]
        BY <1>3, <4>1
      <4> QED BY <2>2, <3>1, <4>2
    <3> QED BY <3>1
  <2>3. n \in T
    <3> HIDE DEF T
    <3> QED BY <2>1, <2>2, NatSetInduction
  <2> QED BY <2>3
<1>4. ASSUME NEW e \in Nat PROVE h[e] = IF e = 0 THEN 1 ELSE 10 * h[e - 1]
  <2>1. h[e] = (CHOOSE f : Upto(f, e))[e]
    OBVIOUS
  <2>2. CASE e = 0
    <3>1. Upto(CHOOSE f : Upto(f, 0), 0)
      BY <1>2
    <3> QED BY <2>1, <2>2, <3>1
  <2>3. CASE e # 0
    <3>1. e - 1 \in Nat /\ (e - 1) + 1 = e
      BY <2>3
    <3>2. h[e - 1] = (CHOOSE f : Upto(f, e - 1))[e - 1]
      BY <3>1
    <3> HIDE DEF h
    <3>3. PICK f : f = CHOOSE g : Upto(g, e - 1)
      OBVIOUS
    <3>4. PICK g : g = CHOOSE k : Upto(k, e)
      OBVIOUS
    <3>5. Upto(f, e - 1) /\ Upto(g, e)
      <4> HIDE DEF Upto
      <4> QED BY <1>2, <3>1, <3>3, <3>4
    <3>6. f[e - 1] = g[e - 1]
      <4> HIDE DEF Upto
      <4> QED BY <1>3, <3>1, <3>5
    <3>7. g[e] = 10 * g[e - 1]
      BY <2>3, <3>5
    <3> QED BY <2>1, <2>3, <3>2, <3>3, <3>4, <3>6, <3>7
  <2> QED BY <2>2, <2>3
<1>5. h = [e \in Nat |-> IF e = 0 THEN 1 ELSE 10 * h[e - 1]]
  <2> DEFINE value(e) == (CHOOSE f : Upto(f, e))[e]
             k == [e \in Nat |-> value(e)]
  <2>1. k = [e \in Nat |-> k[e]]
    <3> HIDE DEF value
    <3> QED OBVIOUS
  <2>2. h = k
    OBVIOUS
  <2> HIDE DEF h, k
  <2> QED BY <1>4, <2>1, <2>2
<1> HIDE DEF h
<1> QED BY <1>5 DEF TenTo
\* What a sum over parts of a function's domain satisfies.
AddsUp(f, h) ==
  /\ h = [s \in SUBSET DOMAIN f |-> h[s]]
  /\ h[{}] = 0
  /\ \A s \in SUBSET DOMAIN f : \A x \in s : h[s] = f[x] + h[s \ {x}]

\* The fold of Functions, one step: a sum is of what one of the rest leaves.
LEMMA SumUnfolds ==
  ASSUME NEW f, NEW h, AddsUp(f, h)
  PROVE  \E iter :
           /\ SumFunction(f) = iter[DOMAIN f]
           /\ iter[{}] = 0
           /\ \A s \in SUBSET DOMAIN f :
                s # {} => \E x \in s : iter[s] = f[x] + iter[s \ {x}]
<1>1. \A s \in SUBSET DOMAIN f :
        h[s] = IF s = {} THEN 0
               ELSE f[CHOOSE x \in s : TRUE] + h[s \ {CHOOSE x \in s : TRUE}]
  BY DEF AddsUp
<1>2. h = [s \in SUBSET DOMAIN f |->
             IF s = {} THEN 0
             ELSE f[CHOOSE x \in s : TRUE] + h[s \ {CHOOSE x \in s : TRUE}]]
  BY <1>1 DEF AddsUp
<1> DEFINE it == CHOOSE iter : iter = [s \in SUBSET DOMAIN f |->
                   IF s = {} THEN 0
                   ELSE f[CHOOSE x \in s : TRUE] + iter[s \ {CHOOSE x \in s : TRUE}]]
<1>3. it = [s \in SUBSET DOMAIN f |->
             IF s = {} THEN 0
             ELSE f[CHOOSE x \in s : TRUE] + it[s \ {CHOOSE x \in s : TRUE}]]
  BY <1>2
<1>4. SumFunction(f) = it[DOMAIN f]
  BY Zenon DEF SumFunction, SumFunctionOnSet, FoldFunctionOnSet, MapThenFoldSet
<1> HIDE DEF it
<1>5. it[{}] = 0
  BY <1>3
<1>6. ASSUME NEW s \in SUBSET DOMAIN f, s # {}
      PROVE  \E x \in s : it[s] = f[x] + it[s \ {x}]
  BY <1>3, <1>6
<1> QED BY <1>4, <1>5, <1>6

\* Whatever adds up one by one is that sum.
LEMMA SumIsTheOnlyOne ==
  ASSUME NEW f, IsFiniteSet(DOMAIN f), NEW h, AddsUp(f, h)
  PROVE  SumFunction(f) = h[DOMAIN f]
<1> DEFINE D == DOMAIN f
<1>3. PICK iter :
        /\ SumFunction(f) = iter[D]
        /\ iter[{}] = 0
        /\ \A s \in SUBSET D :
             s # {} => \E x \in s : iter[s] = f[x] + iter[s \ {x}]
  BY SumUnfolds, Zenon
<1> DEFINE T == {n \in Nat : \A s \in SUBSET D : Cardinality(s) = n => iter[s] = h[s]}
<1>4. ASSUME NEW s \in SUBSET D PROVE IsFiniteSet(s) /\ Cardinality(s) \in Nat
  BY FS_Subset, FS_CardinalityType
<1>5. 0 \in T
  BY <1>3, <1>4, FS_EmptySet DEF AddsUp
<1>6. ASSUME NEW n \in Nat, \A s \in SUBSET D : Cardinality(s) = n => iter[s] = h[s],
             NEW s \in SUBSET D, Cardinality(s) = n + 1
      PROVE  iter[s] = h[s]
  <2>1. s # {}
    BY <1>6, FS_EmptySet
  <2>2. PICK x \in s : iter[s] = f[x] + iter[s \ {x}]
    BY <1>3, <2>1
  <2>3. Cardinality(s \ {x}) = n
    <3>1. Cardinality(s \ {x}) = Cardinality(s) - 1
      BY <1>4, FS_RemoveElement
    <3> QED BY <1>6, <3>1
  <2>4. iter[s \ {x}] = h[s \ {x}]
    BY <1>6, <2>3
  <2>5. h[s] = f[x] + h[s \ {x}]
    BY DEF AddsUp
  <2> QED BY <2>2, <2>4, <2>5
<1>7. Cardinality(D) \in T
  <2>1. \A n \in Nat : n \in T => n + 1 \in T
    BY <1>6
  <2> HIDE DEF T
  <2> QED BY <1>4, <1>5, <2>1, NatSetInduction
<1> QED BY <1>3, <1>7

\* The sum of how many are in each of several parts, no two of which meet, is
\* how many are in any of them.
LEMMA SumCounts ==
  ASSUME NEW f, NEW share, IsFiniteSet(DOMAIN f),
         \A x \in DOMAIN f : IsFiniteSet(share[x]) /\ f[x] = Cardinality(share[x]),
         \A x, y \in DOMAIN f : x # y => share[x] \cap share[y] = {}
  PROVE  SumFunction(f) = Cardinality(UNION {share[x] : x \in DOMAIN f})
<1> DEFINE D == DOMAIN f
           all(s) == UNION {share[x] : x \in s}
           h == [s \in SUBSET D |-> Cardinality(all(s))]
<1>1. ASSUME NEW s \in SUBSET D PROVE IsFiniteSet(all(s))
  <2>1. IsFiniteSet(s)
    BY FS_Subset
  <2>2. [x \in s |-> share[x]] \in Surjection(s, {share[x] : x \in s})
    BY DEF Surjection
  <2>3. IsFiniteSet({share[x] : x \in s})
    BY <2>1, <2>2, FS_Surjection
  <2> QED BY <2>3, FS_UNION
<1>2. ASSUME NEW s \in SUBSET D, NEW x \in s
      PROVE  h[s] = f[x] + h[s \ {x}]
  <2>1. all(s) = share[x] \cup all(s \ {x}) /\ share[x] \cap all(s \ {x}) = {}
    OBVIOUS
  <2>2. IsFiniteSet(all(s \ {x})) /\ IsFiniteSet(share[x])
    BY <1>1
  <2>3. Cardinality(share[x] \cap all(s \ {x})) = 0
    BY <2>1, FS_EmptySet
  <2>4. Cardinality(share[x] \cup all(s \ {x}))
        = Cardinality(share[x]) + Cardinality(all(s \ {x})) - Cardinality(share[x] \cap all(s \ {x}))
    BY <2>2, FS_Union
  <2>5. Cardinality(share[x]) \in Nat /\ Cardinality(all(s \ {x})) \in Nat
    BY <2>2, FS_CardinalityType
  <2>6. f[x] = Cardinality(share[x]) /\ s \ {x} \in SUBSET D
    OBVIOUS
  <2>7. h[s] = Cardinality(all(s)) /\ h[s \ {x}] = Cardinality(all(s \ {x}))
    BY <2>6
  <2> HIDE DEF all, h
  <2> QED BY <2>1, <2>3, <2>4, <2>5, <2>6, <2>7
<1>3. h[{}] = 0
  BY FS_EmptySet
<1>4. h = [s \in SUBSET DOMAIN f |-> h[s]] /\ h[D] = Cardinality(all(D))
  OBVIOUS
<1> HIDE DEF h
<1> QED BY <1>2, <1>3, <1>4, SumIsTheOnlyOne DEF AddsUp

-----------------------------------------------------------------------------
(* The axis of a chart, and the least size of its chunks *)

LEMMA TenToGrows ==
  ASSUME NEW e \in Nat
  PROVE  TenTo[e] \in Nat /\ TenTo[e] > e /\ TenTo[e + 1] = 10 * TenTo[e]
<1> DEFINE T == {i \in Nat : TenTo[i] \in Nat /\ TenTo[i] > i}
<1>1. ASSUME NEW i \in Nat PROVE TenTo[i + 1] = 10 * TenTo[i]
  <2>1. i + 1 \in Nat /\ i + 1 # 0 /\ (i + 1) - 1 = i
    OBVIOUS
  <2> QED BY <2>1, TenToExists
<1>2. 0 \in T
  BY TenToExists
<1>3. ASSUME NEW i \in Nat, i \in T PROVE i + 1 \in T
  BY <1>1, <1>3
<1>4. e \in T
  <2> HIDE DEF T
  <2> QED BY <1>2, <1>3, NatSetInduction
<1> QED BY <1>1, <1>4

\* axis_scale finds a power of ten.
LEMMA ExponentFits ==
  ASSUME NEW n \in Nat \ {0}
  PROVE  /\ Exponent(n) \in Nat
         /\ n < TenTo[Exponent(n) + 2]
         /\ Exponent(n) > 0 => TenTo[Exponent(n) + 1] <= n
<1> DEFINE T == {e \in Nat : n < TenTo[e + 2]}
           Fits(e) == n < TenTo[e + 2] /\ (e > 0 => TenTo[e + 1] <= n)
<1>1. n \in T
  <2>1. n + 2 \in Nat /\ TenTo[n + 2] \in Nat /\ TenTo[n + 2] > n + 2
    BY TenToGrows
  <2> QED BY <2>1
<1>2. PICK e \in T : \A m \in T : e <= m
  <2>1. T \in SUBSET Nat
    OBVIOUS
  <2> HIDE DEF T
  <2> QED BY <1>1, <2>1, LeastExists
<1>3. e \in 0 .. n /\ Fits(e)
  <2>1. e \in Nat /\ e <= n
    BY <1>1, <1>2
  <2>2. ASSUME e > 0 PROVE TenTo[e + 1] <= n
    <3>1. e - 1 \in Nat /\ e - 1 < e /\ (e - 1) + 2 = e + 1
      BY <2>1, <2>2
    <3>2. e - 1 \notin T
      BY <1>2, <3>1
    <3>3. TenTo[e + 1] \in Nat
      BY <2>1, TenToGrows
    <3> QED BY <3>1, <3>2, <3>3
  <2> QED BY <1>2, <2>1, <2>2
<1>4. Exponent(n) \in 0 .. n /\ Fits(Exponent(n))
  <2>1. Exponent(n) = CHOOSE x \in 0 .. n : Fits(x)
    BY DEF Exponent
  <2> HIDE DEF Fits
  <2> QED BY <1>3, <2>1
<1> QED BY <1>4

\* axis_scale: the axis reaches n, and is at most twice as high.
LEMMA AxisFits ==
  ASSUME NEW n \in Nat \ {0}
  PROVE  AxisTop(n) \in Nat /\ n <= AxisTop(n) /\ AxisTop(n) <= 2 * n
<1> DEFINE e == Exponent(n)
           p == TenTo[e]
           tops == {step * d : step \in Steps(n), d \in 2 .. 5}
           reaching == {t \in tops : t >= n}
<1>1. /\ e \in Nat /\ p \in Nat /\ p >= 1
      /\ TenTo[e + 1] = 10 * p /\ TenTo[e + 2] = 100 * p
  <2>1. e \in Nat /\ e + 1 \in Nat /\ (e + 1) + 1 = e + 2
    BY ExponentFits
  <2>2. p \in Nat /\ p > e /\ TenTo[e + 1] = 10 * p
    BY <2>1, TenToGrows
  <2>3. TenTo[e + 2] = 10 * TenTo[e + 1]
    BY <2>1, TenToGrows
  <2> HIDE DEF p, e
  <2> QED BY <2>1, <2>2, <2>3
<1>2. n < 100 * p /\ (e > 0 => 10 * p <= n) /\ (e = 0 => p = 1)
  <2>1. n < TenTo[e + 2] /\ (e > 0 => TenTo[e + 1] <= n)
    BY ExponentFits
  <2>2. TenTo[0] = 1
    BY TenToExists
  <2> QED BY <1>1, <2>1, <2>2
<1>3. /\ Steps(n) \subseteq Nat
      /\ {k * q : k \in {1, 2, 5}, q \in {p, 10 * p, 100 * p}} \subseteq Steps(n)
  <2> DEFINE powers == {TenTo[i] : i \in e .. e + 2}
  <2>1. Steps(n) = {k * q : k \in {1, 2, 5}, q \in powers}
                   \cup {5 * (q \div 2) : q \in powers \ {1}}
    BY DEF Steps
  <2>2. powers = {p, 10 * p, 100 * p}
    <3>1. e .. e + 2 = {e, e + 1, e + 2}
      BY <1>1
    <3> HIDE DEF p, e
    <3> QED BY <1>1, <3>1 DEF p
  <2>3. {p, 10 * p, 100 * p} \subseteq powers /\ \A q \in powers : q \in Nat /\ q \div 2 \in Nat
    BY <1>1, <2>2
  <2> HIDE DEF p, e, powers
  <2> QED BY <2>1, <2>3
<1>4. tops \subseteq Nat
  BY <1>3
<1>5. \A k \in {1, 2, 5}, q \in {p, 10 * p}, d \in 2 .. 5 : (k * q) * d \in tops
  BY <1>3
<1>6. \E t \in reaching : t <= 2 * n
  <2> HIDE DEF p, e, tops
  <2>1. CASE e = 0
    <3>1. p = 1 /\ n \in 1 .. 99
      BY <1>2, <2>1
    <3>2. /\ (1 * p) * 2 \in tops /\ (2 * p) * 2 \in tops /\ (2 * p) * 4 \in tops
          /\ (5 * p) * 3 \in tops /\ (1 * (10 * p)) * 3 \in tops
          /\ (2 * (10 * p)) * 3 \in tops /\ (5 * (10 * p)) * 2 \in tops
      BY <1>5
    <3>3. {2, 4, 8, 15, 30, 60, 100} \subseteq tops
      BY <3>1, <3>2
    <3> QED BY <3>1, <3>3
  <2>2. CASE e > 0
    <3>1. /\ (1 * (10 * p)) * 2 \in tops /\ (2 * (10 * p)) * 2 \in tops
          /\ (2 * (10 * p)) * 4 \in tops /\ (5 * (10 * p)) * 2 \in tops
      BY <1>5
    <3>2. {20 * p, 40 * p, 80 * p, 100 * p} \subseteq tops
      BY <1>1, <3>1
    <3>3. 10 * p <= n /\ n < 100 * p
      BY <1>2, <2>2
    <3> QED BY <1>1, <3>2, <3>3
  <2> QED BY <1>1, <2>1, <2>2
<1>7. AxisTop(n) = Min(reaching)
  BY DEF AxisTop
<1>8. reaching \in SUBSET Nat /\ reaching # {} /\ \A t \in reaching : t >= n
  BY <1>4, <1>6
<1> HIDE DEF reaching
<1>9. AxisTop(n) \in reaching /\ \A t \in reaching : AxisTop(n) <= t
  BY <1>7, <1>8, LeastExists DEF Min
<1>10. PICK t \in reaching : t <= 2 * n
  BY <1>6
<1>11. AxisTop(n) \in Nat /\ t \in Nat /\ n <= AxisTop(n) /\ AxisTop(n) <= t
  BY <1>8, <1>9
<1> QED BY <1>10, <1>11

-----------------------------------------------------------------------------
\* Division, rounded up.
LEMMA Ceiling ==
  ASSUME NEW a \in Nat, NEW b \in Nat \ {0}
  PROVE  /\ CeilDiv(a, b) \in Nat
         /\ a <= CeilDiv(a, b) * b /\ (CeilDiv(a, b) - 1) * b < a
BY DEF CeilDiv

-----------------------------------------------------------------------------
(* The columns of a chart tile the days of its period *)

\* bucket_activity, for n days: how many to a chunk, how many chunks, and the
\* last and the first day of each.
ChunkSize(n) == Greatest(1, CeilDiv(n, MaxColumns))
Chunks(n) == CeilDiv(n, ChunkSize(n))
LastOf(n, i) == n - (Chunks(n) - i) * ChunkSize(n)
FirstOf(n, i) == Greatest(1, LastOf(n, i) - ChunkSize(n) + 1)

LEMMA ColumnsAreSome == MaxColumns \in Nat \ {0}
<1>1. MaxColumns \in {MaxPeriodDays, DefaultPeriodDays, MaxColumns, ReasonLimit, FileLimit,
                      DashboardDays, RecentLimit}
  OBVIOUS
<1> QED BY <1>1, ReportingAssumption

\* bucket_activity: chunks of one size that cover n days are no more than MaxColumns.
LEMMA FewChunks ==
  ASSUME NEW n \in Nat \ {0}
  PROVE  /\ ChunkSize(n) \in Nat \ {0} /\ Chunks(n) \in 1 .. MaxColumns
         /\ n <= Chunks(n) * ChunkSize(n) /\ (Chunks(n) - 1) * ChunkSize(n) < n
<1> DEFINE k == ChunkSize(n)
           c == Chunks(n)
<1>1. CeilDiv(n, MaxColumns) \in Nat /\ n <= CeilDiv(n, MaxColumns) * MaxColumns
  BY ColumnsAreSome, Ceiling
<1>2. k \in Nat \ {0} /\ CeilDiv(n, MaxColumns) <= k
  BY <1>1 DEF ChunkSize, Greatest
<1>3. n <= k * MaxColumns
  <2>1. \A a, b, m \in Nat : a <= b => a * m <= b * m
    OBVIOUS
  <2> QED BY <1>1, <1>2, <2>1, ColumnsAreSome
<1>4. c \in Nat /\ n <= c * k /\ (c - 1) * k < n
  <2> HIDE DEF k
  <2> QED BY <1>2, Ceiling DEF k, Chunks
<1>5. c >= 1
  <2>1. 0 * k = 0
    BY <1>2
  <2> HIDE DEF k, c
  <2> QED BY <1>4, <2>1
<1>6. c <= MaxColumns
  <2> HIDE DEF k, c
  <2>1. ASSUME c >= MaxColumns + 1 PROVE FALSE
    <3>1. \A a, b, m \in Nat : a <= b => a * m <= b * m
      OBVIOUS
    <3>2. MaxColumns * k <= (c - 1) * k
      BY <1>2, <1>4, <1>5, <2>1, <3>1, ColumnsAreSome
    <3> QED BY <1>2, <1>3, <1>4, <3>2, ColumnsAreSome
  <2> QED BY <1>4, <2>1, ColumnsAreSome
<1> HIDE DEF k, c
<1>7. c \in 1 .. MaxColumns
  BY <1>4, <1>5, <1>6, ColumnsAreSome
<1> QED BY <1>2, <1>4, <1>7 DEF k, c

\* Chunks counted back from the newest day follow each other, every day is in
\* one, and only the oldest may be shorter.
LEMMA ChunksTile ==
  ASSUME NEW n \in Nat \ {0}
  PROVE  /\ \A i \in 1 .. Chunks(n) :
              /\ FirstOf(n, i) \in Nat /\ LastOf(n, i) \in Nat
              /\ 1 <= FirstOf(n, i) /\ FirstOf(n, i) <= LastOf(n, i) /\ LastOf(n, i) <= n
         /\ FirstOf(n, 1) = 1 /\ LastOf(n, Chunks(n)) = n
         /\ LastOf(n, 1) - FirstOf(n, 1) <= ChunkSize(n) - 1
         /\ \A i \in 2 .. Chunks(n) :
              /\ FirstOf(n, i) = LastOf(n, i - 1) + 1
              /\ LastOf(n, i) - FirstOf(n, i) = ChunkSize(n) - 1
         /\ \A i, j \in 1 .. Chunks(n) : i < j => LastOf(n, i) < FirstOf(n, j)
         /\ \A d \in 1 .. n : \E i \in 1 .. Chunks(n) : FirstOf(n, i) <= d /\ d <= LastOf(n, i)
<1> DEFINE k == ChunkSize(n)
           c == Chunks(n)
           last(i) == LastOf(n, i)
           first(i) == FirstOf(n, i)
<1>1. /\ k \in Nat \ {0} /\ c \in Nat \ {0}
      /\ n <= c * k /\ (c - 1) * k < n
  BY FewChunks, ColumnsAreSome
<1> HIDE DEF k, c
<1>2. \A i \in Int : last(i) = n - (c - i) * k /\ first(i) = Greatest(1, last(i) - k + 1)
  BY DEF LastOf, FirstOf, k, c
<1>3. ASSUME NEW i \in 1 .. c
      PROVE  last(i) \in Int /\ 1 <= last(i) /\ last(i) <= n
  <2>1. (c - i) * k <= (c - 1) * k /\ (c - i) * k >= 0 /\ (c - i) * k \in Int /\ (c - 1) * k \in Int
    <3>1. \A a, b \in Nat : a <= b => a * k <= b * k /\ a * k >= 0
      BY <1>1
    <3>2. c - i \in Nat /\ c - 1 \in Nat /\ c - i <= c - 1
      BY <1>1
    <3> QED BY <1>1, <3>1, <3>2
  <2>2. PICK x \in Int, y \in Int : x = (c - i) * k /\ y = (c - 1) * k
    BY <2>1
  <2>3. last(i) = n - x
    BY <1>2, <2>2
  <2>4. x <= y /\ x >= 0 /\ y < n
    BY <1>1, <2>1, <2>2
  <2> QED BY <2>3, <2>4
<1>4. ASSUME NEW i \in 2 .. c
      PROVE  first(i) = last(i - 1) + 1 /\ last(i) - first(i) = k - 1 /\ last(i) - k = last(i - 1)
  <2>1. i - 1 \in 1 .. c /\ i \in 1 .. c
    BY <1>1
  <2>2. (c - (i - 1)) * k = (c - i) * k + k
    BY <1>1
  <2>3. last(i - 1) = last(i) - k
    BY <1>1, <1>2, <2>1, <2>2
  <2>4. last(i - 1) >= 1 /\ last(i - 1) \in Int /\ last(i) \in Int
    BY <1>3, <2>1
  <2> QED BY <1>1, <1>2, <2>1, <2>3, <2>4 DEF Greatest
<1>5. first(1) = 1 /\ last(1) - first(1) <= k - 1
  <2>1. (c - 1) * k = c * k - k
    BY <1>1
  <2>2. last(1) <= k /\ last(1) \in Int /\ last(1) >= 1
    BY <1>1, <1>2, <1>3, <2>1
  <2> QED BY <1>1, <1>2, <2>2 DEF Greatest
<1>6. last(c) = n
  BY <1>1, <1>2
<1>7. ASSUME NEW i \in 1 .. c, NEW j \in 1 .. c, i < j PROVE last(i) < first(j)
  <2>1. j \in 2 .. c /\ j - 1 \in 1 .. c
    BY <1>1, <1>7
  <2>2. first(j) = last(j - 1) + 1
    BY <1>4, <2>1
  <2>3. (c - (j - 1)) * k <= (c - i) * k
    <3>1. \A a, b \in Nat : a <= b => a * k <= b * k
      BY <1>1
    <3>2. c - (j - 1) \in Nat /\ c - i \in Nat /\ c - (j - 1) <= c - i
      BY <1>1, <1>7
    <3> QED BY <3>1, <3>2
  <2>4. last(i) <= last(j - 1)
    <3>1. PICK x \in Int, y \in Int : x = (c - (j - 1)) * k /\ y = (c - i) * k
      BY <1>1
    <3>2. last(i) = n - y /\ last(j - 1) = n - x
      BY <1>2, <2>1, <3>1
    <3> QED BY <2>3, <3>1, <3>2
  <2> QED BY <1>3, <2>1, <2>2, <2>4
<1>8. ASSUME NEW d \in 1 .. n PROVE \E i \in 1 .. c : first(i) <= d /\ d <= last(i)
  <2> DEFINE U == {i \in Nat : 1 <= i /\ i <= c /\ d <= last(i)}
  <2>1. c \in U
    BY <1>1, <1>6
  <2>2. PICK i \in U : \A m \in U : i <= m
    <3>1. U \in SUBSET Nat
      OBVIOUS
    <3> HIDE DEF U
    <3> QED BY <2>1, <3>1, LeastExists
  <2>3. CASE i = 1
    BY <1>1, <1>5, <2>2, <2>3
  <2>4. CASE i # 1
    <3>1. i \in 2 .. c /\ i - 1 \in 1 .. c
      BY <1>1, <2>2, <2>4
    <3>2. i - 1 \notin U
      BY <2>2, <3>1
    <3>3. last(i - 1) < d
      BY <1>3, <3>1, <3>2
    <3> QED BY <1>3, <1>4, <2>2, <3>1, <3>3
  <2> QED BY <2>3, <2>4
<1>9. ASSUME NEW i \in 1 .. c
      PROVE  /\ first(i) \in Nat /\ last(i) \in Nat
             /\ 1 <= first(i) /\ first(i) <= last(i) /\ last(i) <= n
  <2> DEFINE x == last(i)
  <2>1. x \in Nat /\ 1 <= x /\ x <= n /\ k \in Nat \ {0}
    BY <1>1, <1>3
  <2>2. first(i) = Greatest(1, x - k + 1)
    BY <1>1, <1>2
  <2> HIDE DEF x, first, k
  <2>3. first(i) \in Nat /\ 1 <= first(i) /\ first(i) <= x
    BY <2>1, <2>2 DEF Greatest
  <2> QED BY <2>1, <2>3 DEF x
<1> HIDE DEF first, last
<1>10. /\ \A i \in 2 .. c : first(i) = last(i - 1) + 1 /\ last(i) - first(i) = k - 1
       /\ \A i, j \in 1 .. c : i < j => last(i) < first(j)
  BY <1>4, <1>7
<1> QED BY <1>5, <1>6, <1>8, <1>9, <1>10 DEF first, last, k, c

-----------------------------------------------------------------------------
(* The days, and what a chart counts of them *)

\* The status and the day of a row.
RowsTyped == \A m \in Rows : row[m].status \in MessageStatus /\ row[m].day \in Int

\* ReportPeriod: it has a day at least.
IsPeriod(p) == p \in [start : Int, end : Int] /\ p.start <= p.end

\* The rows of some days that are in one of the statuses.
Between(from, to, statuses) ==
  {m \in Rows : row[m].day \in from .. to /\ row[m].status \in statuses}

\* The statuses a band of the chart is of.
BandStatuses(band) == UNION {BucketStatuses[b] : b \in Series[band]}

\* There are finitely many rows, at any moment.
LEMMA RowsAreFinite ==
  IsFiniteSet(RowIds) /\ \A R \in SUBSET RowIds : IsFiniteSet(R) /\ Cardinality(R) \in Nat
<1>1. IsFiniteSet({Audience[c] : c \in Campaigns})
  <2>1. [c \in Campaigns |-> Audience[c]] \in Surjection(Campaigns, {Audience[c] : c \in Campaigns})
    BY DEF Surjection
  <2> QED BY <2>1, FS_Surjection, ReportingAssumption
<1>2. IsFiniteSet(UNION {Audience[c] : c \in Campaigns})
  BY <1>1, FS_UNION, ReportingAssumption
<1>3. IsFiniteSet(Campaigns \X UNION {Audience[c] : c \in Campaigns})
  BY <1>2, FS_Product, ReportingAssumption
<1>4. RowIds \in SUBSET (Campaigns \X UNION {Audience[c] : c \in Campaigns})
  BY DEF RowIds
<1>5. IsFiniteSet(RowIds)
  BY <1>3, <1>4, FS_Subset
<1> QED BY <1>5, FS_Subset, FS_CardinalityType

LEMMA BetweenFinite ==
  ASSUME NEW from, NEW to, NEW statuses
  PROVE  /\ IsFiniteSet(Between(from, to, statuses))
         /\ Cardinality(Between(from, to, statuses)) \in Nat
<1>1. Between(from, to, statuses) \in SUBSET RowIds
  BY DEF Between, Rows
<1> QED BY <1>1, RowsAreFinite

\* BUCKET_STATUSES and SERIES: the bands are of every status, each once.
LEMMA Partition ==
  /\ Bands = {"delivered", "sent", "pending", "failed"}
  /\ Buckets = {"pending", "sent", "delivered", "read", "failed"}
  /\ \A band \in Bands : Series[band] \subseteq Buckets
  /\ \A b, d \in Buckets : b # d => BucketStatuses[b] \cap BucketStatuses[d] = {}
  /\ \A b, d \in Bands : b # d => BandStatuses(b) \cap BandStatuses(d) = {}
  /\ UNION {BandStatuses(b) : b \in Bands} = MessageStatus
  /\ BandStatuses("failed") = {"failed"}
<1>1. Bands = {"delivered", "sent", "pending", "failed"}
  BY DEF Bands, Series
<1>2. Buckets = {"pending", "sent", "delivered", "read", "failed"}
  BY DEF Buckets, BucketStatuses
<1>3. \A band \in Bands : Series[band] \subseteq Buckets
  BY <1>1, <1>2 DEF Series
<1>4. \A b, d \in Buckets : b # d => BucketStatuses[b] \cap BucketStatuses[d] = {}
  BY <1>2 DEF BucketStatuses
<1>5. /\ BandStatuses("delivered") = {"read", "delivered"} /\ BandStatuses("sent") = {"sent"}
      /\ BandStatuses("pending") = {"pending", "queued", "sending"}
      /\ BandStatuses("failed") = {"failed"}
  BY DEF BandStatuses, Series, BucketStatuses
<1>6. \A b, d \in Bands : b # d => BandStatuses(b) \cap BandStatuses(d) = {}
  BY <1>1, <1>5
<1>7. UNION {BandStatuses(b) : b \in Bands} = MessageStatus
  BY <1>1, <1>5 DEF MessageStatus
<1> QED BY <1>1, <1>2, <1>3, <1>4, <1>5, <1>6, <1>7

\* daily_activity: a day for each of the period, with what it created.
LEMMA ActivityCounts ==
  ASSUME NEW p, IsPeriod(p)
  PROVE  /\ LengthOf(p) \in Nat \ {0}
         /\ Len(DailyActivity(p)) = LengthOf(p)
         /\ \A i \in 1 .. LengthOf(p), b \in Buckets :
              DailyActivity(p)[i][b]
              = Cardinality(Between(p.start + i - 1, p.start + i - 1, BucketStatuses[b]))
<1>1. LengthOf(p) \in Nat \ {0}
  BY DEF LengthOf, IsPeriod
<1>2. Len(DailyActivity(p)) = LengthOf(p)
  BY <1>1 DEF DailyActivity
<1>3. ASSUME NEW i \in 1 .. LengthOf(p), NEW b \in Buckets
      PROVE  DailyActivity(p)[i][b]
             = Cardinality(Between(p.start + i - 1, p.start + i - 1, BucketStatuses[b]))
  <2> DEFINE day == p.start + i - 1
  <2>1. day \in Int
    BY <1>1 DEF IsPeriod
  <2>2. DailyActivity(p)[i] = DayActivity(day)
    BY DEF DailyActivity
  <2> HIDE DEF day
  <2>3. DayActivity(day)[b]
        = Cardinality({m \in {m \in Rows : row[m].day = day} : row[m].status \in BucketStatuses[b]})
    BY DEF DayActivity, Counting
  <2>4. {m \in {m \in Rows : row[m].day = day} : row[m].status \in BucketStatuses[b]}
        = Between(day, day, BucketStatuses[b])
    <3>1. day .. day = {day}
      BY <2>1
    <3> QED BY <3>1 DEF Between
  <2> QED BY <2>2, <2>3, <2>4 DEF day
<1> QED BY <1>1, <1>2, <1>3

\* A band of one day counts its rows in the statuses of the band,
LEMMA BandOfADay ==
  ASSUME NEW p, IsPeriod(p), NEW i \in 1 .. LengthOf(p), NEW band \in Bands
  PROVE  SumFunction([b \in Series[band] |-> DailyActivity(p)[i][b]])
         = Cardinality(Between(p.start + i - 1, p.start + i - 1, BandStatuses(band)))
<1> DEFINE day == p.start + i - 1
           f == [b \in Series[band] |-> DailyActivity(p)[i][b]]
           share == [b \in Series[band] |-> Between(day, day, BucketStatuses[b])]
<1>1. IsFiniteSet(DOMAIN f)
  <2>1. IsFiniteSet({"read", "delivered"}) /\ IsFiniteSet({"sent"}) /\ IsFiniteSet({"pending"})
        /\ IsFiniteSet({"failed"})
    <3>1. IsFiniteSet({"read"}) /\ IsFiniteSet({"delivered"})
      BY FS_Singleton
    <3>2. {"read", "delivered"} = {"read"} \cup {"delivered"}
      OBVIOUS
    <3>3. IsFiniteSet({"read", "delivered"})
      BY <3>1, <3>2, FS_Union
    <3> QED BY <3>3, FS_Singleton
  <2>2. DOMAIN f = Series[band]
    OBVIOUS
  <2>3. Series[band] \in {{"read", "delivered"}, {"sent"}, {"pending"}, {"failed"}}
    BY Partition DEF Series
  <2> QED BY <2>1, <2>2, <2>3
<1>2. \A b \in DOMAIN f : IsFiniteSet(share[b]) /\ f[b] = Cardinality(share[b])
  <2>1. \A b \in Series[band] : b \in Buckets
    BY Partition
  <2>2. \A b \in Series[band] : f[b] = Cardinality(share[b])
    BY <2>1, ActivityCounts
  <2> QED BY <2>2, BetweenFinite
<1>3. \A b, d \in DOMAIN f : b # d => share[b] \cap share[d] = {}
  BY Partition DEF Between
<1>4. UNION {share[b] : b \in DOMAIN f} = Between(day, day, BandStatuses(band))
  <2>1. \A m : m \in Between(day, day, BandStatuses(band))
               <=> \E b \in Series[band] : m \in Between(day, day, BucketStatuses[b])
    <3> HIDE DEF day
    <3> QED BY DEF Between, BandStatuses
  <2>2. \A m : m \in UNION {share[b] : b \in DOMAIN f}
               <=> \E b \in Series[band] : m \in Between(day, day, BucketStatuses[b])
    OBVIOUS
  <2> QED BY <2>1, <2>2
<1>5. SumFunction(f) = Cardinality(UNION {share[b] : b \in DOMAIN f})
  <2> HIDE DEF f, share
  <2> QED BY <1>1, <1>2, <1>3, SumCounts
<1> QED BY <1>4, <1>5

\* and a band of a column those of all its days.
LEMMA ColumnCounts ==
  ASSUME RowsTyped, NEW p, IsPeriod(p), NEW first \in Int, NEW last \in Int,
         1 <= first, last <= LengthOf(p), NEW band \in Bands
  PROVE  Column(DailyActivity(p), first, last).counts[band]
         = Cardinality(Between(p.start + first - 1, p.start + last - 1, BandStatuses(band)))
<1> DEFINE f == [i \in first .. last |->
                   SumFunction([b \in Series[band] |-> DailyActivity(p)[i][b]])]
           share == [i \in first .. last |->
                      Between(p.start + i - 1, p.start + i - 1, BandStatuses(band))]
<1>1. Column(DailyActivity(p), first, last).counts[band] = SumFunction(f)
  BY DEF Column
<1>2. IsFiniteSet(DOMAIN f)
  BY FS_Interval
<1>3. \A i \in DOMAIN f : IsFiniteSet(share[i]) /\ f[i] = Cardinality(share[i])
  <2>1. \A i \in first .. last : i \in 1 .. LengthOf(p)
    BY ActivityCounts
  <2>2. \A i \in first .. last : f[i] = Cardinality(share[i])
    BY <2>1, BandOfADay
  <2> QED BY <2>2, BetweenFinite
<1>4. \A i, j \in DOMAIN f : i # j => share[i] \cap share[j] = {}
  BY DEF Between, IsPeriod, RowsTyped
<1>5. UNION {share[i] : i \in DOMAIN f}
      = Between(p.start + first - 1, p.start + last - 1, BandStatuses(band))
  <2>1. ASSUME NEW m \in Between(p.start + first - 1, p.start + last - 1, BandStatuses(band))
        PROVE  m \in UNION {share[i] : i \in DOMAIN f}
    <3> DEFINE i == row[m].day - p.start + 1
    <3>1. i \in first .. last /\ m \in Rows /\ row[m].status \in BandStatuses(band)
          /\ row[m].day = p.start + i - 1
      BY DEF Between, RowsTyped, IsPeriod
    <3> HIDE DEF i
    <3>2. m \in share[i]
      BY <3>1 DEF Between, IsPeriod
    <3> QED BY <3>1, <3>2
  <2>2. ASSUME NEW i \in first .. last, NEW m \in share[i]
        PROVE  m \in Between(p.start + first - 1, p.start + last - 1, BandStatuses(band))
    BY DEF Between, RowsTyped, IsPeriod
  <2> QED BY <2>1, <2>2
<1>6. SumFunction(f) = Cardinality(UNION {share[i] : i \in DOMAIN f})
  <2> HIDE DEF f, share
  <2> QED BY <1>2, <1>3, <1>4, SumCounts
<1> QED BY <1>1, <1>5, <1>6

\* The chart of a period, and its columns.
Chart(p) == StackedColumnChart(DailyActivity(p))
Columns(p) == BucketActivity(DailyActivity(p))

LEMMA BandsAreFinite == IsFiniteSet(Bands)
<1>1. IsFiniteSet({"delivered"} \cup {"sent"} \cup {"pending"} \cup {"failed"})
  BY FS_Singleton, FS_Union
<1>2. Bands = {"delivered"} \cup {"sent"} \cup {"pending"} \cup {"failed"}
  BY Partition
<1> QED BY <1>1, <1>2

\* What the bands count of some days is what those days created.
LEMMA SumOfBands ==
  ASSUME NEW f, DOMAIN f = Bands, NEW from \in Int, NEW to \in Int, RowsTyped,
         \A band \in Bands : f[band] = Cardinality(Between(from, to, BandStatuses(band)))
  PROVE  SumFunction(f) = Cardinality(Between(from, to, MessageStatus))
<1> DEFINE share == [band \in Bands |-> Between(from, to, BandStatuses(band))]
<1>1. \A band \in DOMAIN f : IsFiniteSet(share[band]) /\ f[band] = Cardinality(share[band])
  BY BetweenFinite
<1>2. \A b, d \in DOMAIN f : b # d => share[b] \cap share[d] = {}
  BY Partition DEF Between
<1>3. UNION {share[band] : band \in DOMAIN f} = Between(from, to, MessageStatus)
  <2>1. \A m : m \in Between(from, to, MessageStatus)
               <=> \E band \in Bands : m \in Between(from, to, BandStatuses(band))
    BY Partition DEF Between
  <2> QED BY <2>1
<1>4. SumFunction(f) = Cardinality(UNION {share[band] : band \in DOMAIN f})
  <2> HIDE DEF share
  <2> QED BY <1>1, <1>2, BandsAreFinite, SumCounts
<1> QED BY <1>3, <1>4

LEMMA ColumnHolds ==
  ASSUME RowsTyped, NEW p, IsPeriod(p), NEW first \in Int, NEW last \in Int,
         1 <= first, last <= LengthOf(p)
  PROVE  ColumnTotal(Column(DailyActivity(p), first, last))
         = Cardinality(Between(p.start + first - 1, p.start + last - 1, MessageStatus))
<1> DEFINE f == Column(DailyActivity(p), first, last).counts
<1>1. DOMAIN f = Bands
  BY DEF Column
<1>2. \A band \in Bands :
        f[band] = Cardinality(Between(p.start + first - 1, p.start + last - 1, BandStatuses(band)))
  BY ColumnCounts
<1>3. p.start + first - 1 \in Int /\ p.start + last - 1 \in Int
  BY DEF IsPeriod
<1> HIDE DEF f
<1>4. SumFunction(f) = Cardinality(Between(p.start + first - 1, p.start + last - 1, MessageStatus))
  BY <1>1, <1>2, <1>3, SumOfBands
<1> QED BY <1>4 DEF ColumnTotal, f

\* The columns of a chart are its chunks.
LEMMA ColumnsAre ==
  ASSUME NEW p, IsPeriod(p)
  PROVE  /\ Len(Columns(p)) = Chunks(LengthOf(p))
         /\ DOMAIN Columns(p) = 1 .. Chunks(LengthOf(p))
         /\ \A i \in 1 .. Chunks(LengthOf(p)) :
              /\ Columns(p)[i] = Column(DailyActivity(p), FirstOf(LengthOf(p), i), LastOf(LengthOf(p), i))
              /\ Columns(p)[i].first = FirstOf(LengthOf(p), i)
              /\ Columns(p)[i].last = LastOf(LengthOf(p), i)
<1> DEFINE n == LengthOf(p)
<1>1. n \in Nat \ {0} /\ Len(DailyActivity(p)) = n
  BY ActivityCounts
<1>2. Chunks(n) \in Nat
  <2> HIDE DEF n
  <2>1. Chunks(n) \in 1 .. MaxColumns
    BY <1>1, FewChunks
  <2> QED BY <2>1, ColumnsAreSome
<1>3. Columns(p) = [i \in 1 .. Chunks(n) |-> Column(DailyActivity(p), FirstOf(n, i), LastOf(n, i))]
  <2> HIDE DEF n
  <2> QED BY <1>1 DEF Columns, BucketActivity, Chunks, FirstOf, LastOf, ChunkSize
<1>4. Len(Columns(p)) = Chunks(n) /\ DOMAIN Columns(p) = 1 .. Chunks(n)
  <2> HIDE DEF n
  <2> QED BY <1>2, <1>3
<1> HIDE DEF n
<1>5. \A i \in 1 .. Chunks(n) :
        /\ Columns(p)[i] = Column(DailyActivity(p), FirstOf(n, i), LastOf(n, i))
        /\ Columns(p)[i].first = FirstOf(n, i)
        /\ Columns(p)[i].last = LastOf(n, i)
  BY <1>3 DEF Column
<1> QED BY <1>4, <1>5 DEF n

\* The legend counts the rows of the period in each band.
LEMMA LegendCounts ==
  ASSUME RowsTyped, NEW p, IsPeriod(p), NEW band \in Bands
  PROVE  SumFunction([i \in DOMAIN Columns(p) |-> Columns(p)[i].counts[band]])
         = Cardinality(Between(p.start, p.end, BandStatuses(band)))
<1> DEFINE n == LengthOf(p)
           f == [i \in DOMAIN Columns(p) |-> Columns(p)[i].counts[band]]
           share == [i \in 1 .. Chunks(n) |->
                      Between(p.start + FirstOf(n, i) - 1, p.start + LastOf(n, i) - 1,
                              BandStatuses(band))]
<1>1. n \in Nat \ {0} /\ n = p.end - p.start + 1
  BY ActivityCounts DEF LengthOf
<1> HIDE DEF n
<1>2. DOMAIN f = 1 .. Chunks(n) /\ Chunks(n) \in Int
  BY <1>1, ColumnsAre, FewChunks, ColumnsAreSome DEF n
<1>3. \A i \in 1 .. Chunks(n) :
        /\ FirstOf(n, i) \in Int /\ LastOf(n, i) \in Int
        /\ 1 <= FirstOf(n, i) /\ LastOf(n, i) <= n
  <2>1. \A i \in 1 .. Chunks(n) :
          /\ FirstOf(n, i) \in Nat /\ LastOf(n, i) \in Nat
          /\ 1 <= FirstOf(n, i) /\ FirstOf(n, i) <= LastOf(n, i) /\ LastOf(n, i) <= n
    BY <1>1, ChunksTile
  <2> QED BY <2>1
<1>4. \A i \in 1 .. Chunks(n) : IsFiniteSet(share[i]) /\ f[i] = Cardinality(share[i])
  <2> SUFFICES ASSUME NEW i \in 1 .. Chunks(n)
               PROVE  IsFiniteSet(share[i]) /\ f[i] = Cardinality(share[i])
    OBVIOUS
  <2>1. f[i] = Column(DailyActivity(p), FirstOf(n, i), LastOf(n, i)).counts[band]
    BY <1>2, ColumnsAre DEF n
  <2>2. Column(DailyActivity(p), FirstOf(n, i), LastOf(n, i)).counts[band] = Cardinality(share[i])
    BY <1>3, ColumnCounts DEF n
  <2> QED BY <2>1, <2>2, BetweenFinite
<1>5. \A i, j \in 1 .. Chunks(n) : i # j => share[i] \cap share[j] = {}
  <2>1. ASSUME NEW i \in 1 .. Chunks(n), NEW j \in 1 .. Chunks(n), i < j
        PROVE  share[i] \cap share[j] = {}
    <3>1. LastOf(n, i) < FirstOf(n, j)
      BY <1>1, <2>1, ChunksTile
    <3> QED BY <1>3, <3>1 DEF Between, RowsTyped, IsPeriod
  <2> HIDE DEF share
  <2>2. \A i, j \in 1 .. Chunks(n) : i # j => i < j \/ j < i
    BY <1>2
  <2> QED BY <2>1, <2>2
<1>6. UNION {share[i] : i \in 1 .. Chunks(n)} = Between(p.start, p.end, BandStatuses(band))
  <2>1. ASSUME NEW m \in Between(p.start, p.end, BandStatuses(band))
        PROVE  \E i \in 1 .. Chunks(n) : m \in share[i]
    <3>1. PICK d \in 1 .. n : row[m].day = p.start + d - 1
      <4>1. m \in Rows /\ row[m].day \in Int /\ p.start <= row[m].day /\ row[m].day <= p.end
        BY DEF Between, RowsTyped, IsPeriod
      <4>2. row[m].day - p.start + 1 \in 1 .. n /\ row[m].day = p.start + (row[m].day - p.start + 1) - 1
        BY <1>1, <4>1 DEF IsPeriod
      <4> QED BY <4>2
    <3>2. PICK i \in 1 .. Chunks(n) : FirstOf(n, i) <= d /\ d <= LastOf(n, i)
      BY <1>1, ChunksTile
    <3>3. row[m].day \in p.start + FirstOf(n, i) - 1 .. p.start + LastOf(n, i) - 1
      BY <1>1, <1>3, <3>1, <3>2 DEF IsPeriod
    <3> QED BY <3>3 DEF Between
  <2>2. ASSUME NEW i \in 1 .. Chunks(n), NEW m \in share[i]
        PROVE  m \in Between(p.start, p.end, BandStatuses(band))
    BY <1>1, <1>3 DEF Between, RowsTyped, IsPeriod
  <2> QED BY <2>1, <2>2
<1>7. SumFunction(f) = Cardinality(UNION {share[i] : i \in DOMAIN f})
  <2>1. IsFiniteSet(DOMAIN f)
    BY <1>2, FS_Interval
  <2>2. \A i \in DOMAIN f : IsFiniteSet(share[i]) /\ f[i] = Cardinality(share[i])
    BY <1>2, <1>4
  <2>3. \A i, j \in DOMAIN f : i # j => share[i] \cap share[j] = {}
    BY <1>2, <1>5
  <2> HIDE DEF f, share
  <2> QED BY <2>1, <2>2, <2>3, SumCounts
<1> QED BY <1>2, <1>6, <1>7

\* stacked_column_chart: what a chart shows, in cardinalities.
LEMMA ChartCounts ==
  ASSUME RowsTyped, NEW p, IsPeriod(p)
  PROVE  /\ Chart(p).total = Cardinality(CreatedIn(p))
         /\ Chart(p).legend["failed"] = Counting(CreatedIn(p), {"failed"})
         /\ Chart(p).columns = IF Chart(p).total = 0 THEN <<>> ELSE Columns(p)
         /\ Chart(p).top = IF Chart(p).total = 0 THEN 0
              ELSE AxisTop(Max({ColumnTotal(Columns(p)[i]) : i \in DOMAIN Columns(p)}))
<1> DEFINE legend == [band \in Bands |->
                        SumFunction([i \in DOMAIN Columns(p) |-> Columns(p)[i].counts[band]])]
<1>1. /\ Chart(p).total = SumFunction(legend)
      /\ Chart(p).legend = legend
      /\ Chart(p).columns = IF Chart(p).total = 0 THEN <<>> ELSE Columns(p)
      /\ Chart(p).top = IF Chart(p).total = 0 THEN 0
           ELSE AxisTop(Max({ColumnTotal(Columns(p)[i]) : i \in DOMAIN Columns(p)}))
  BY DEF Chart, StackedColumnChart, Columns
<1>2. \A band \in Bands : legend[band] = Cardinality(Between(p.start, p.end, BandStatuses(band)))
  BY LegendCounts
<1>3. SumFunction(legend) = Cardinality(Between(p.start, p.end, MessageStatus))
  <2>1. DOMAIN legend = Bands
    OBVIOUS
  <2> HIDE DEF legend
  <2> QED BY <1>2, <2>1, SumOfBands DEF IsPeriod
<1>4. Between(p.start, p.end, MessageStatus) = CreatedIn(p)
  BY DEF Between, CreatedIn, RowsTyped, Days
<1>5. Between(p.start, p.end, BandStatuses("failed")) = {m \in CreatedIn(p) : row[m].status \in {"failed"}}
  BY Partition DEF Between, CreatedIn, Days
<1>6. legend["failed"] = Counting(CreatedIn(p), {"failed"})
  BY <1>2, <1>5, Partition DEF Counting
<1> HIDE DEF legend
<1> QED BY <1>1, <1>3, <1>4, <1>6

-----------------------------------------------------------------------------
(* The bars, and the chart as a whole *)

LEMMA CountingIsFinite ==
  ASSUME NEW R \in SUBSET Rows, NEW S
  PROVE  IsFiniteSet({m \in R : row[m].status \in S}) /\ Counting(R, S) \in Nat
<1>1. {m \in R : row[m].status \in S} \in SUBSET RowIds
  BY DEF Rows
<1> QED BY <1>1, RowsAreFinite DEF Counting

LEMMA CountingSplits ==
  ASSUME NEW R \in SUBSET Rows, NEW S, NEW T, S \cap T = {}
  PROVE  Counting(R, S \cup T) = Counting(R, S) + Counting(R, T)
<1> DEFINE s == {m \in R : row[m].status \in S}
           t == {m \in R : row[m].status \in T}
<1>1. {m \in R : row[m].status \in S \cup T} = s \cup t /\ s \cap t = {}
  OBVIOUS
<1>2. IsFiniteSet(s) /\ IsFiniteSet(t) /\ Cardinality(s) \in Nat /\ Cardinality(t) \in Nat
  BY CountingIsFinite DEF Counting
<1>3. Counting(R, S) = Cardinality(s) /\ Counting(R, T) = Cardinality(t)
      /\ Counting(R, S \cup T) = Cardinality(s \cup t)
  BY <1>1 DEF Counting
<1> HIDE DEF s, t
<1>4. Cardinality(s \cap t) = 0
  BY <1>1, FS_EmptySet
<1>5. Cardinality(s \cup t) = Cardinality(s) + Cardinality(t) - Cardinality(s \cap t)
  BY <1>2, FS_Union
<1> QED BY <1>2, <1>3, <1>4, <1>5

\* stats_proportions: the bar of a campaign counts each of its rows once,
LEMMA BarsCount ==
  ASSUME RowsTyped, NEW c
  PROVE  Total(StatsProportions(CampaignStats(c))) = Cardinality(RowsOf(c))
<1> DEFINE f == StatsProportions(CampaignStats(c))
           share == [band \in Bands |-> {m \in RowsOf(c) : row[m].status \in BandStatuses(band)}]
           n(s) == Counting(RowsOf(c), {s})
<1>1. RowsOf(c) \in SUBSET Rows
  BY DEF RowsOf
<1>2. DOMAIN f = Bands
  BY Partition DEF StatsProportions
<1>3. /\ f["delivered"] = n("delivered") + n("read") /\ f["sent"] = n("sent")
      /\ f["pending"] = n("pending") + n("queued") + n("sending") /\ f["failed"] = n("failed")
  BY DEF StatsProportions, CampaignStats, MessageStatus
<1>4. Counting(RowsOf(c), {"delivered", "read"}) = n("delivered") + n("read")
  <2>1. Counting(RowsOf(c), {"delivered"} \cup {"read"}) = n("delivered") + n("read")
    BY <1>1, CountingSplits
  <2>2. {"delivered"} \cup {"read"} = {"delivered", "read"}
    OBVIOUS
  <2> QED BY <2>1, <2>2
<1>5. Counting(RowsOf(c), {"pending", "queued", "sending"}) = n("pending") + n("queued") + n("sending")
  <2>1. Counting(RowsOf(c), {"pending"} \cup {"queued"}) = n("pending") + n("queued")
    BY <1>1, CountingSplits
  <2>2. Counting(RowsOf(c), ({"pending"} \cup {"queued"}) \cup {"sending"})
        = Counting(RowsOf(c), {"pending"} \cup {"queued"}) + n("sending")
    BY <1>1, CountingSplits
  <2>3. ({"pending"} \cup {"queued"}) \cup {"sending"} = {"pending", "queued", "sending"}
    OBVIOUS
  <2> QED BY <2>1, <2>2, <2>3
<1>6. /\ BandStatuses("delivered") = {"delivered", "read"} /\ BandStatuses("sent") = {"sent"}
      /\ BandStatuses("pending") = {"pending", "queued", "sending"}
      /\ BandStatuses("failed") = {"failed"}
  BY DEF BandStatuses, Series, BucketStatuses
<1>7. \A band \in Bands : IsFiniteSet(share[band]) /\ f[band] = Cardinality(share[band])
  <2>1. \A band \in Bands : f[band] = Counting(RowsOf(c), BandStatuses(band))
    <3> HIDE DEF f
    <3> QED BY <1>3, <1>4, <1>5, <1>6, Partition
  <2>2. \A band \in Bands : Counting(RowsOf(c), BandStatuses(band)) = Cardinality(share[band])
    BY DEF Counting
  <2>3. \A band \in Bands : IsFiniteSet(share[band])
    BY <1>1, CountingIsFinite
  <2> HIDE DEF f, share
  <2> QED BY <2>1, <2>2, <2>3
<1>8. \A b, d \in Bands : b # d => share[b] \cap share[d] = {}
  BY Partition
<1>9. UNION {share[band] : band \in Bands} = RowsOf(c)
  <2>1. \A m \in RowsOf(c) : \E band \in Bands : row[m].status \in BandStatuses(band)
    BY <1>1, Partition DEF RowsTyped
  <2> QED BY <2>1
<1>10. SumFunction(f) = Cardinality(UNION {share[band] : band \in Bands})
  <2> HIDE DEF f, share
  <2>1. IsFiniteSet(DOMAIN f)
    BY <1>2, BandsAreFinite
  <2>2. SumFunction(f) = Cardinality(UNION {share[band] : band \in DOMAIN f})
    BY <1>2, <1>7, <1>8, <2>1, SumCounts
  <2> QED BY <1>2, <2>2
<1> QED BY <1>9, <1>10 DEF Total

\* and so do its statistics.
LEMMA StatsCount ==
  ASSUME RowsTyped, NEW c
  PROVE  Total(CampaignStats(c)) = Cardinality(RowsOf(c))
<1> DEFINE f == CampaignStats(c)
           share == [s \in MessageStatus |-> {m \in RowsOf(c) : row[m].status \in {s}}]
<1>1. RowsOf(c) \in SUBSET Rows
  BY DEF RowsOf
<1>2. DOMAIN f = MessageStatus
  BY DEF CampaignStats
<1>3. IsFiniteSet(MessageStatus)
  <2>1. IsFiniteSet({"pending"} \cup {"queued"} \cup {"sending"} \cup {"sent"} \cup {"delivered"}
                    \cup {"read"} \cup {"failed"})
    BY FS_Singleton, FS_Union
  <2>2. {"pending"} \cup {"queued"} \cup {"sending"} \cup {"sent"} \cup {"delivered"}
        \cup {"read"} \cup {"failed"} = MessageStatus
    BY DEF MessageStatus
  <2> QED BY <2>1, <2>2
<1>4. \A s \in MessageStatus : IsFiniteSet(share[s]) /\ f[s] = Cardinality(share[s])
  <2>1. \A s \in MessageStatus : f[s] = Cardinality(share[s])
    BY DEF Counting, CampaignStats
  <2>2. \A s \in MessageStatus : IsFiniteSet(share[s])
    BY <1>1, CountingIsFinite
  <2> HIDE DEF f, share
  <2> QED BY <2>1, <2>2
<1>5. \A s, t \in MessageStatus : s # t => share[s] \cap share[t] = {}
  OBVIOUS
<1>6. UNION {share[s] : s \in MessageStatus} = RowsOf(c)
  BY <1>1 DEF RowsTyped
<1>7. SumFunction(f) = Cardinality(UNION {share[s] : s \in DOMAIN f})
  <2> HIDE DEF f, share
  <2> QED BY <1>2, <1>3, <1>4, <1>5, SumCounts
<1> QED BY <1>2, <1>6, <1>7 DEF Total

\* Everything that is said of a chart holds of any period.
LEMMA ChartIsSound ==
  ASSUME RowsTyped, IsPeriod(page.period)
  PROVE  ChartCountsEveryMessage
<1> DEFINE p == page.period
           n == LengthOf(p)
           c == Chunks(n)
           total(i) == ColumnTotal(Columns(p)[i])
           totals == {total(i) : i \in 1 .. c}
<1>1. n \in Nat \ {0} /\ Len(DailyActivity(p)) = n
  BY ActivityCounts
<1>2. c \in Nat \ {0} /\ c <= MaxColumns /\ c \in 1 .. c
  <2> HIDE DEF n
  <2>1. c \in 1 .. MaxColumns
    BY <1>1, FewChunks
  <2> QED BY <2>1, ColumnsAreSome
<1>3. /\ Len(Columns(p)) = c /\ DOMAIN Columns(p) = 1 .. c
      /\ \A i \in 1 .. c : Columns(p)[i].first = FirstOf(n, i) /\ Columns(p)[i].last = LastOf(n, i)
  BY ColumnsAre
<1>4. \A i \in 1 .. c : total(i) \in Nat
  <2> SUFFICES ASSUME NEW i \in 1 .. c PROVE total(i) \in Nat
    OBVIOUS
  <2>1. Columns(p)[i] = Column(DailyActivity(p), FirstOf(n, i), LastOf(n, i))
    BY ColumnsAre
  <2>2. FirstOf(n, i) \in Int /\ LastOf(n, i) \in Int /\ 1 <= FirstOf(n, i) /\ LastOf(n, i) <= n
    <3> HIDE DEF n
    <3>1. /\ FirstOf(n, i) \in Nat /\ LastOf(n, i) \in Nat
          /\ 1 <= FirstOf(n, i) /\ FirstOf(n, i) <= LastOf(n, i) /\ LastOf(n, i) <= n
      BY <1>1, ChunksTile
    <3> QED BY <3>1
  <2>3. total(i) = Cardinality(Between(p.start + FirstOf(n, i) - 1, p.start + LastOf(n, i) - 1,
                                      MessageStatus))
    BY <2>1, <2>2, ColumnHolds
  <2>4. Cardinality(Between(p.start + FirstOf(n, i) - 1, p.start + LastOf(n, i) - 1,
                            MessageStatus)) \in Nat
    BY BetweenFinite
  <2> QED BY <2>3, <2>4
<1>5. \A i \in 1 .. c : total(i) <= Cardinality(RowIds)
  <2> SUFFICES ASSUME NEW i \in 1 .. c PROVE total(i) <= Cardinality(RowIds)
    OBVIOUS
  <2>1. Columns(p)[i] = Column(DailyActivity(p), FirstOf(n, i), LastOf(n, i))
    BY ColumnsAre
  <2>2. FirstOf(n, i) \in Int /\ LastOf(n, i) \in Int /\ 1 <= FirstOf(n, i) /\ LastOf(n, i) <= n
    <3> HIDE DEF n
    <3>1. /\ FirstOf(n, i) \in Nat /\ LastOf(n, i) \in Nat
          /\ 1 <= FirstOf(n, i) /\ FirstOf(n, i) <= LastOf(n, i) /\ LastOf(n, i) <= n
      BY <1>1, ChunksTile
    <3> QED BY <3>1
  <2>3. PICK from, to : total(i) = Cardinality(Between(from, to, MessageStatus))
    <3>1. total(i) = Cardinality(Between(p.start + FirstOf(n, i) - 1, p.start + LastOf(n, i) - 1,
                                         MessageStatus))
      BY <2>1, <2>2, ColumnHolds
    <3> HIDE DEF total, n
    <3> QED BY <3>1
  <2>4. Between(from, to, MessageStatus) \in SUBSET RowIds
    BY DEF Between, Rows
  <2> QED BY <2>3, <2>4, RowsAreFinite, FS_Subset
<1>6. ASSUME Chart(p).total # 0
      PROVE  /\ \A i \in 1 .. c : total(i) <= Chart(p).top
             /\ \E i \in 1 .. c : Chart(p).top <= 2 * total(i)
  <2>1. PICK m \in totals : \A t \in totals : t <= m
    <3>1. totals \in SUBSET Nat /\ totals # {} /\ \A t \in totals : t <= Cardinality(RowIds)
      BY <1>2, <1>4, <1>5
    <3>2. Cardinality(RowIds) \in Nat
      BY RowsAreFinite
    <3> HIDE DEF totals
    <3> QED BY <3>1, <3>2, GreatestExists
  <2>2. m = Max(totals)
    <3>1. Max(totals) \in totals /\ \A t \in totals : Max(totals) >= t
      <4> HIDE DEF totals
      <4>1. \A t \in totals : m >= t
        BY <2>1
      <4> QED BY <4>1 DEF Max
    <3>2. \A t \in totals : t \in Nat
      BY <1>4
    <3> HIDE DEF totals
    <3> QED BY <2>1, <3>1, <3>2
  <2>3. Chart(p).top = AxisTop(m)
    <3>1. {ColumnTotal(Columns(p)[i]) : i \in DOMAIN Columns(p)} = totals
      BY <1>3
    <3> QED BY <1>6, <2>2, <3>1, ChartCounts
  <2>4. m \in Nat \ {0}
    <3>1. Cardinality(CreatedIn(p)) # 0 /\ CreatedIn(p) # {}
      BY <1>6, ChartCounts, FS_EmptySet
    <3>2. PICK r \in CreatedIn(p) : TRUE
      BY <3>1
    <3>3. r \in Rows /\ row[r].day \in p.start .. p.end /\ row[r].status \in MessageStatus
          /\ row[r].day \in Int
      BY <3>2 DEF CreatedIn, Days, RowsTyped
    <3>4. PICK d \in 1 .. n : row[r].day = p.start + d - 1
      <4>1. row[r].day - p.start + 1 \in 1 .. n /\ row[r].day = p.start + (row[r].day - p.start + 1) - 1
        BY <3>3 DEF IsPeriod, LengthOf
      <4> QED BY <4>1
    <3>5. PICK i \in 1 .. c : FirstOf(n, i) <= d /\ d <= LastOf(n, i)
      <4> HIDE DEF n
      <4> QED BY <1>1, ChunksTile
    <3>6. FirstOf(n, i) \in Nat /\ LastOf(n, i) \in Nat /\ 1 <= FirstOf(n, i) /\ LastOf(n, i) <= n
      <4> HIDE DEF n
      <4>1. /\ FirstOf(n, i) \in Nat /\ LastOf(n, i) \in Nat
            /\ 1 <= FirstOf(n, i) /\ FirstOf(n, i) <= LastOf(n, i) /\ LastOf(n, i) <= n
        BY <1>1, ChunksTile
      <4> QED BY <4>1
    <3> DEFINE inLine == Between(p.start + FirstOf(n, i) - 1, p.start + LastOf(n, i) - 1, MessageStatus)
    <3>7. r \in inLine
      <4> HIDE DEF n
      <4> QED BY <3>3, <3>4, <3>5, <3>6 DEF Between, IsPeriod
    <3>8. total(i) = Cardinality(inLine)
      <4>1. Columns(p)[i] = Column(DailyActivity(p), FirstOf(n, i), LastOf(n, i))
        BY ColumnsAre
      <4> HIDE DEF n
      <4>2. FirstOf(n, i) \in Int /\ LastOf(n, i) \in Int
        BY <3>6
      <4>3. ColumnTotal(Column(DailyActivity(p), FirstOf(n, i), LastOf(n, i))) = Cardinality(inLine)
        BY <3>6, <4>2, ColumnHolds DEF n
      <4> QED BY <4>1, <4>3
    <3>9. Cardinality(inLine) # 0 /\ Cardinality(inLine) \in Nat
      <4>1. IsFiniteSet(inLine) /\ Cardinality(inLine) \in Nat
        BY BetweenFinite
      <4>2. inLine # {}
        BY <3>7
      <4> HIDE DEF inLine
      <4> QED BY <4>1, <4>2, FS_EmptySet
    <3>10. total(i) \in totals
      OBVIOUS
    <3>11. m \in Nat
      BY <1>4, <2>1
    <3> HIDE DEF totals, total, inLine, c
    <3> QED BY <2>1, <3>8, <3>9, <3>10, <3>11
  <2>5. m <= AxisTop(m) /\ AxisTop(m) <= 2 * m /\ AxisTop(m) \in Nat
    BY <2>4, AxisFits
  <2>6. PICK i \in 1 .. c : m = total(i)
    BY <2>1
  <2>7. \A j \in 1 .. c : total(j) <= AxisTop(m)
    <3>1. \A j \in 1 .. c : total(j) <= m /\ total(j) \in Nat
      BY <1>4, <2>1
    <3> HIDE DEF total, c
    <3> QED BY <2>4, <2>5, <3>1
  <2> HIDE DEF total, c
  <2> QED BY <2>3, <2>5, <2>6, <2>7
<1>7. /\ FirstOf(n, 1) = 1 /\ LastOf(n, c) = n
      /\ \A i \in 2 .. c :
           /\ FirstOf(n, i) = LastOf(n, i - 1) + 1
           /\ LastOf(n, i) - FirstOf(n, i) = LastOf(n, c) - FirstOf(n, c)
           /\ LastOf(n, i) - FirstOf(n, i) >= LastOf(n, 1) - FirstOf(n, 1)
  <2> HIDE DEF n
  <2>1. \A i \in 2 .. c : c \in 2 .. c
    BY <1>2
  <2>2. ChunkSize(n) \in Nat /\ \A i \in 1 .. c : FirstOf(n, i) \in Nat /\ LastOf(n, i) \in Nat
    BY <1>1, FewChunks, ChunksTile
  <2>3. /\ FirstOf(n, 1) = 1 /\ LastOf(n, c) = n
        /\ LastOf(n, 1) - FirstOf(n, 1) <= ChunkSize(n) - 1
        /\ \A i \in 2 .. c :
             /\ FirstOf(n, i) = LastOf(n, i - 1) + 1
             /\ LastOf(n, i) - FirstOf(n, i) = ChunkSize(n) - 1
    BY <1>1, ChunksTile
  <2> HIDE DEF c
  <2>4. 1 \in 1 .. c
    BY <1>2
  <2> QED BY <2>1, <2>2, <2>3, <2>4
<1>8. \A i \in 2 .. c : i - 1 \in 1 .. c /\ i \in 1 .. c
  BY <1>2
<1>9. /\ Columns(p)[1].first = 1 /\ Columns(p)[c].last = n
      /\ \A i \in 2 .. c :
           /\ Columns(p)[i].first = Columns(p)[i - 1].last + 1
           /\ Columns(p)[i].last - Columns(p)[i].first = Columns(p)[c].last - Columns(p)[c].first
           /\ Columns(p)[i].last - Columns(p)[i].first >= Columns(p)[1].last - Columns(p)[1].first
  <2>1. 1 \in 1 .. c
    BY <1>2
  <2> HIDE DEF n, c
  <2> QED BY <1>2, <1>3, <1>7, <1>8, <2>1
<1>10. Chart(p).total = Cardinality(CreatedIn(p))
  BY ChartCounts
<1>11. Chart(p).columns = IF Chart(p).total = 0 THEN <<>> ELSE Columns(p)
  BY ChartCounts
<1>12. \A i \in DOMAIN Chart(p).columns : total(i) <= Chart(p).top
  <2>1. CASE Chart(p).total = 0
    BY <1>11, <2>1
  <2>2. CASE Chart(p).total # 0
    BY <1>3, <1>6, <1>11, <2>2
  <2> QED BY <2>1, <2>2
<1>13. Chart(p).total > 0 => \E i \in DOMAIN Columns(p) : Chart(p).top <= 2 * total(i)
  <2>1. Chart(p).total > 0 => Chart(p).total # 0
    OBVIOUS
  <2> QED BY <1>3, <1>6, <2>1
<1>14. \A d \in StartedIn(p) : Total(StatsProportions(CampaignStats(d))) = Cardinality(RowsOf(d))
  BY BarsCount
<1> HIDE DEF n, c, total, totals
<1> QED
  BY <1>1, <1>2, <1>3, <1>9, <1>10, <1>12, <1>13, <1>14
  DEF ChartCountsEveryMessage, Chart, Columns, total

-----------------------------------------------------------------------------
(* The reasons of the failures *)

\* The failures of a period that have the error e.
FailedWith(p, e) == {m \in CreatedIn(p) : row[m].status = "failed" /\ ErrorFor[m[2]] = e}

\* The errors of a period, and those that come before one of them.
Found(p) == {e \in Range(ErrorFor) : Failed(p, e) > 0}
Ahead(p, e) == {d \in Found(p) : Before(p, d, e)}

LEMMA ErrorsAreFinite == IsFiniteSet(Range(ErrorFor)) /\ Range(ErrorFor) \subseteq Nat
<1> DEFINE people == UNION {Audience[c] : c \in Campaigns}
<1>1. IsFiniteSet({Audience[c] : c \in Campaigns})
  <2>1. [c \in Campaigns |-> Audience[c]] \in Surjection(Campaigns, {Audience[c] : c \in Campaigns})
    BY DEF Surjection
  <2> QED BY <2>1, FS_Surjection, ReportingAssumption
<1>2. IsFiniteSet(people)
  BY <1>1, FS_UNION, ReportingAssumption
<1>3. ErrorFor \in [people -> Nat]
  BY ReportingAssumption
<1> HIDE DEF people
<1>4. ErrorFor \in Surjection(people, Range(ErrorFor))
  BY <1>3 DEF Surjection, Range
<1> QED BY <1>2, <1>3, <1>4, FS_Surjection DEF Range

LEMMA FailedIsFinite ==
  ASSUME NEW p, NEW e
  PROVE  /\ IsFiniteSet(FailedWith(p, e)) /\ Failed(p, e) = Cardinality(FailedWith(p, e))
         /\ Failed(p, e) \in Nat
<1>1. FailedWith(p, e) \in SUBSET RowIds
  BY DEF FailedWith, CreatedIn, Rows
<1>2. Failed(p, e) = Cardinality(FailedWith(p, e))
  BY DEF Failed, FailedWith
<1> QED BY <1>1, <1>2, RowsAreFinite

LEMMA AheadIsFinite ==
  ASSUME NEW p
  PROVE  IsFiniteSet(Found(p)) /\ \A e : IsFiniteSet(Ahead(p, e)) /\ Cardinality(Ahead(p, e)) \in Nat
<1>1. IsFiniteSet(Found(p))
  BY ErrorsAreFinite, FS_Subset DEF Found
<1>2. \A e : Ahead(p, e) \in SUBSET Found(p)
  BY DEF Ahead
<1> QED BY <1>1, <1>2, FS_Subset, FS_CardinalityType

\* A list to a limit that is not reached is of everything: the last in the order
\* would have been as many places down as there are others.
LEMMA ListedIsAll ==
  ASSUME NEW p, NEW limit \in Nat, NEW listed,
         listed = {e \in Found(p) : Cardinality(Ahead(p, e)) < limit},
         Cardinality(listed) < limit
  PROVE  listed = Found(p)
<1> DEFINE X == Found(p) \ listed
           ranks == {Cardinality(Ahead(p, e)) : e \in X}
<1> SUFFICES ASSUME X # {} PROVE FALSE
  OBVIOUS
<1>1. PICK e \in X : \A d \in X : Cardinality(Ahead(p, e)) <= Cardinality(Ahead(p, d))
  <2>1. ranks \in SUBSET Nat /\ ranks # {}
    BY AheadIsFinite
  <2>2. PICK n \in ranks : \A m \in ranks : n <= m
    <3> HIDE DEF ranks
    <3> QED BY <2>1, LeastExists
  <2> QED BY <2>2
<1>2. ASSUME NEW d \in Ahead(p, e) PROVE d \in listed
  <2>1. d \in Found(p) /\ d \in Nat /\ e \in Nat /\ Before(p, d, e)
    BY ErrorsAreFinite DEF Ahead, Found
  <2>2. \A x : Failed(p, x) \in Nat
    BY FailedIsFinite
  <2>3. Ahead(p, d) \subseteq Ahead(p, e) /\ d \notin Ahead(p, d)
    <3>1. ASSUME NEW x \in Ahead(p, d) PROVE x \in Ahead(p, e)
      <4>1. x \in Found(p) /\ x \in Nat /\ Before(p, x, d)
        BY ErrorsAreFinite DEF Found, Ahead
      <4>2. Failed(p, x) \in Nat /\ Failed(p, d) \in Nat /\ Failed(p, e) \in Nat
        BY <2>2
      <4>3. Before(p, x, e)
        BY <2>1, <4>1, <4>2 DEF Before
      <4> QED BY <4>1, <4>3 DEF Ahead
    <3>2. ~ Before(p, d, d)
      <4>1. Failed(p, d) \in Nat
        BY <2>2
      <4> QED BY <2>1, <4>1 DEF Before
    <3> QED BY <3>1, <3>2 DEF Ahead
  <2>4. Cardinality(Ahead(p, d)) < Cardinality(Ahead(p, e))
    <3>1. Ahead(p, d) # Ahead(p, e)
      BY <1>2, <2>3
    <3>2. IsFiniteSet(Ahead(p, e)) /\ Cardinality(Ahead(p, e)) \in Nat /\ Cardinality(Ahead(p, d)) \in Nat
      BY AheadIsFinite
    <3>3. Cardinality(Ahead(p, d)) <= Cardinality(Ahead(p, e))
          /\ (Cardinality(Ahead(p, e)) = Cardinality(Ahead(p, d)) => Ahead(p, e) = Ahead(p, d))
      BY <2>3, <3>2, FS_Subset
    <3> QED BY <3>1, <3>2, <3>3
  <2>5. Cardinality(Ahead(p, e)) \in Nat /\ Cardinality(Ahead(p, d)) \in Nat
    BY AheadIsFinite
  <2>6. d \notin X
    BY <1>1, <2>4, <2>5
  <2> QED BY <2>1, <2>6
<1>3. Cardinality(Ahead(p, e)) <= Cardinality(listed) /\ Cardinality(listed) \in Nat
  <2>1. listed \in SUBSET Found(p) /\ Ahead(p, e) \in SUBSET listed
    BY <1>2
  <2>2. IsFiniteSet(listed)
    BY <2>1, AheadIsFinite, FS_Subset
  <2> QED BY <2>1, <2>2, FS_Subset, FS_CardinalityType
<1>4. Cardinality(Ahead(p, e)) < limit
  BY <1>3, AheadIsFinite
<1> QED BY <1>1, <1>4

\* failure_breakdown: what is listed, and when that is all.
LEMMA ReasonsAre ==
  ASSUME NEW p, NEW limit \in Nat
  PROVE  LET reasons == FailureReasons(p, limit)
         IN /\ DOMAIN reasons \subseteq Found(p) /\ IsFiniteSet(DOMAIN reasons)
            /\ \A e \in DOMAIN reasons : reasons[e] = Cardinality(FailedWith(p, e))
            /\ Cardinality(DOMAIN reasons) < limit => DOMAIN reasons = Found(p)
<1> DEFINE listed == {e \in Found(p) : Cardinality(Ahead(p, e)) < limit}
<1>1. FailureReasons(p, limit) = [e \in listed |-> Failed(p, e)]
  BY DEF FailureReasons, Found, Ahead
<1>2. listed \in SUBSET Found(p)
  OBVIOUS
<1>3. IsFiniteSet(listed)
  BY <1>2, AheadIsFinite, FS_Subset
<1>4. Cardinality(listed) < limit => listed = Found(p)
  BY ListedIsAll
<1>5. \A e : Failed(p, e) = Cardinality(FailedWith(p, e))
  BY FailedIsFinite
<1> HIDE DEF listed
<1> QED BY <1>1, <1>2, <1>3, <1>4, <1>5

\* Every failure of a period has one error, and that error is found.
LEMMA FoundIsEveryFailure ==
  ASSUME NEW p
  PROVE  /\ UNION {FailedWith(p, e) : e \in Found(p)} = {m \in CreatedIn(p) : row[m].status \in {"failed"}}
         /\ \A d, e : d # e => FailedWith(p, d) \cap FailedWith(p, e) = {}
<1>1. ASSUME NEW m \in CreatedIn(p), row[m].status = "failed"
      PROVE  \E e \in Found(p) : m \in FailedWith(p, e)
  <2> DEFINE e == ErrorFor[m[2]]
  <2>1. m[2] \in UNION {Audience[c] : c \in Campaigns}
    BY DEF CreatedIn, Rows, RowIds
  <2>2. e \in Range(ErrorFor)
    BY <2>1, ReportingAssumption DEF Range
  <2>3. m \in FailedWith(p, e)
    BY <1>1 DEF FailedWith
  <2> HIDE DEF e
  <2>4. Failed(p, e) # 0
    BY <2>3, FailedIsFinite, FS_EmptySet
  <2>5. e \in Found(p)
    BY <2>2, <2>4, FailedIsFinite DEF Found
  <2> QED BY <2>3, <2>5
<1>2. \A e, m : m \in FailedWith(p, e) => m \in CreatedIn(p) /\ row[m].status = "failed"
  BY DEF FailedWith
<1>3. \A d, e : d # e => FailedWith(p, d) \cap FailedWith(p, e) = {}
  BY DEF FailedWith
<1> QED BY <1>1, <1>2, <1>3

\* Reasons short of the limit count every failure of the period.
LEMMA ReasonsCount ==
  ASSUME NEW p, NEW limit \in Nat, Cardinality(DOMAIN FailureReasons(p, limit)) < limit
  PROVE  SumFunction(FailureReasons(p, limit)) = Counting(CreatedIn(p), {"failed"})
<1> DEFINE f == FailureReasons(p, limit)
           share == [e \in Found(p) |-> FailedWith(p, e)]
<1>1. DOMAIN f = Found(p) /\ IsFiniteSet(DOMAIN f)
      /\ \A e \in DOMAIN f : f[e] = Cardinality(FailedWith(p, e))
  BY ReasonsAre
<1> HIDE DEF f
<1>2. \A e \in DOMAIN f : IsFiniteSet(share[e]) /\ f[e] = Cardinality(share[e])
  BY <1>1, FailedIsFinite
<1>3. \A d, e \in DOMAIN f : d # e => share[d] \cap share[e] = {}
  BY <1>1, FoundIsEveryFailure
<1>4. SumFunction(f) = Cardinality(UNION {share[e] : e \in DOMAIN f})
  <2> HIDE DEF share
  <2> QED BY <1>1, <1>2, <1>3, SumCounts
<1>5. UNION {share[e] : e \in DOMAIN f} = {m \in CreatedIn(p) : row[m].status \in {"failed"}}
  BY <1>1, FoundIsEveryFailure
<1> QED BY <1>4, <1>5 DEF f, Counting

-----------------------------------------------------------------------------
(* The tables, and the tiles of the dashboard *)

\* A file of messages has a line for each.
LEMMA FileRowsCount ==
  ASSUME NEW R \in SUBSET Rows
  PROVE  Cardinality(FileRows(R)) = Cardinality(R) /\ IsFiniteSet(FileRows(R))
<1> DEFINE line(m) == [message |-> m, status |-> row[m].status]
           f == [m \in R |-> line(m)]
<1>1. FileRows(R) = {line(m) : m \in R}
  BY DEF FileRows
<1>2. f \in Bijection(R, {line(m) : m \in R})
  <2>1. f \in [R -> {line(m) : m \in R}]
    OBVIOUS
  <2>2. \A m, k \in R : f[m] = f[k] => m = k
    <3>1. \A m \in R : f[m].message = m
      OBVIOUS
    <3> QED BY <3>1
  <2>3. \A l \in {line(m) : m \in R} : \E m \in R : f[m] = l
    OBVIOUS
  <2> HIDE DEF f, line
  <2> QED BY <2>1, <2>2, <2>3 DEF Bijection, Injection, Surjection, IsInjective
<1>3. IsFiniteSet(R)
  BY RowsAreFinite DEF Rows
<1>4. ExistsBijection(R, {line(m) : m \in R})
  BY <1>2 DEF ExistsBijection
<1> HIDE DEF line
<1> QED BY <1>1, <1>3, <1>4, FS_Bijection

LEMMA CampaignsAreFinite == \A C \in SUBSET Campaigns : IsFiniteSet(C)
  BY ReportingAssumption, FS_Subset

\* The rows of the campaigns launched in a period.
JoinedIn(p) == {m \in Rows : m[1] \in StartedIn(p)}

\* A row is of one campaign.
LEMMA RowsOfApart ==
  /\ \A c : RowsOf(c) \in SUBSET Rows /\ IsFiniteSet(RowsOf(c))
  /\ \A c, d : c # d => RowsOf(c) \cap RowsOf(d) = {}
  /\ \A p : UNION {RowsOf(c) : c \in StartedIn(p)} = JoinedIn(p)
<1>1. \A c : RowsOf(c) \in SUBSET Rows /\ RowsOf(c) \in SUBSET RowIds
  BY DEF RowsOf, Rows
<1>2. \A c : IsFiniteSet(RowsOf(c))
  BY <1>1, RowsAreFinite
<1>3. \A c, d : c # d => RowsOf(c) \cap RowsOf(d) = {}
  BY DEF RowsOf
<1>4. \A p : UNION {RowsOf(c) : c \in StartedIn(p)} = JoinedIn(p)
  BY DEF RowsOf, JoinedIn
<1> QED BY <1>1, <1>2, <1>3, <1>4

\* campaign_performance: the table counts the rows of the campaigns it lists.
LEMMA PerformanceCounts ==
  ASSUME RowsTyped, NEW p
  PROVE  LET rows == CampaignPerformance(p)
         IN SumFunction([c \in DOMAIN rows |-> Total(rows[c])]) = Cardinality(JoinedIn(p))
<1> DEFINE rows == CampaignPerformance(p)
           f == [c \in DOMAIN rows |-> Total(rows[c])]
           share == [c \in StartedIn(p) |-> RowsOf(c)]
<1>1. DOMAIN f = StartedIn(p) /\ StartedIn(p) \in SUBSET Campaigns
  BY DEF CampaignPerformance, StartedIn
<1>2. \A c \in StartedIn(p) : f[c] = Cardinality(share[c])
  BY StatsCount DEF CampaignPerformance
<1>3. \A c \in StartedIn(p) : IsFiniteSet(share[c])
  BY RowsOfApart
<1>4. \A c, d \in StartedIn(p) : c # d => share[c] \cap share[d] = {}
  BY RowsOfApart
<1>5. UNION {share[c] : c \in StartedIn(p)} = JoinedIn(p)
  BY RowsOfApart
<1>6. SumFunction(f) = Cardinality(UNION {share[c] : c \in DOMAIN f})
  <2>1. IsFiniteSet(DOMAIN f)
    BY <1>1, CampaignsAreFinite
  <2> HIDE DEF f, share
  <2> QED BY <1>1, <1>2, <1>3, <1>4, <2>1, SumCounts
<1> QED BY <1>1, <1>5, <1>6

\* HomeView._recent_campaigns: the campaigns that are left have all the rows.
LEMMA RecentCount ==
  ASSUME \A m \in Rows : launch[m[1]].stage # "deleted"
  PROVE  LET recent == RecentCampaigns
             sum(field) == SumFunction([c \in DOMAIN recent |-> recent[c][field]])
         IN /\ sum("messages") = Cardinality(Rows)
            /\ sum("delivered") = Counting(Rows, {"delivered", "read"})
            /\ sum("failed") = Counting(Rows, {"failed"})
<1> DEFINE kept == {d \in Campaigns : launch[d].stage # "deleted"}
<1>1. DOMAIN RecentCampaigns = kept /\ IsFiniteSet(kept)
  BY CampaignsAreFinite DEF RecentCampaigns
<1>2. \A m \in Rows : m[1] \in kept
  BY DEF Rows, RowIds
<1>3. ASSUME NEW f, NEW R \in SUBSET Rows, DOMAIN f = kept,
             \A c \in kept : f[c] = Cardinality({m \in R : m[1] = c})
      PROVE  SumFunction(f) = Cardinality(R)
  <2> DEFINE share == [c \in kept |-> {m \in R : m[1] = c}]
  <2>1. \A c \in kept : IsFiniteSet(share[c])
    <3>1. \A c : {m \in R : m[1] = c} \in SUBSET RowIds
      BY DEF Rows
    <3> QED BY <3>1, RowsAreFinite
  <2>2. \A c, d \in kept : c # d => share[c] \cap share[d] = {}
    OBVIOUS
  <2>3. UNION {share[c] : c \in kept} = R
    <3>1. \A m \in R : m[1] \in kept /\ m \in share[m[1]]
      BY <1>2
    <3>2. \A c \in kept : share[c] \subseteq R
      OBVIOUS
    <3> HIDE DEF share, kept
    <3> QED BY <3>1, <3>2
  <2>4. \A c \in kept : f[c] = Cardinality(share[c])
    BY <1>3
  <2> HIDE DEF share, kept
  <2> QED BY <1>1, <1>3, <2>1, <2>2, <2>3, <2>4, SumCounts
<1> DEFINE summand(field) == [c \in kept |-> RecentCampaigns[c][field]]
<1>4. \A c \in kept :
        /\ RecentCampaigns[c]["messages"] = Cardinality(RowsOf(c))
        /\ RecentCampaigns[c]["failed"] = Counting(RowsOf(c), {"failed"})
        /\ RecentCampaigns[c]["delivered"] = Counting(RowsOf(c), {"delivered", "read"})
  BY DEF RecentCampaigns
<1>5. ASSUME NEW S
      PROVE  \A c : Counting(RowsOf(c), S) = Cardinality({m \in {k \in Rows : row[k].status \in S} : m[1] = c})
  <2>1. \A c : {m \in RowsOf(c) : row[m].status \in S} = {m \in {k \in Rows : row[k].status \in S} : m[1] = c}
    BY DEF RowsOf
  <2> QED BY <2>1 DEF Counting
<1>6. SumFunction(summand("messages")) = Cardinality(Rows)
  <2>1. \A c \in kept : summand("messages")[c] = Cardinality({m \in Rows : m[1] = c})
    BY <1>4 DEF RowsOf
  <2>2. DOMAIN summand("messages") = kept
    OBVIOUS
  <2> HIDE DEF kept, summand
  <2> QED BY <1>3, <2>1, <2>2
<1>7. SumFunction(summand("delivered")) = Counting(Rows, {"delivered", "read"})
  <2>1. \A c \in kept : summand("delivered")[c]
          = Cardinality({m \in {k \in Rows : row[k].status \in {"delivered", "read"}} : m[1] = c})
    BY <1>4, <1>5
  <2>2. DOMAIN summand("delivered") = kept
    OBVIOUS
  <2>3. {k \in Rows : row[k].status \in {"delivered", "read"}} \in SUBSET Rows
    OBVIOUS
  <2> HIDE DEF kept, summand
  <2> QED BY <1>3, <2>1, <2>2, <2>3 DEF Counting
<1>8. SumFunction(summand("failed")) = Counting(Rows, {"failed"})
  <2>1. \A c \in kept : summand("failed")[c]
          = Cardinality({m \in {k \in Rows : row[k].status \in {"failed"}} : m[1] = c})
    BY <1>4, <1>5
  <2>2. DOMAIN summand("failed") = kept
    OBVIOUS
  <2>3. {k \in Rows : row[k].status \in {"failed"}} \in SUBSET Rows
    OBVIOUS
  <2> HIDE DEF kept, summand
  <2> QED BY <1>3, <2>1, <2>2, <2>3 DEF Counting
<1> HIDE DEF kept
<1> QED BY <1>1, <1>6, <1>7, <1>8

\* global_stats: a row is sent, pending or failed, and read only if delivered.
LEMMA TilesCount ==
  ASSUME RowsTyped
  PROVE  /\ GlobalStats.total = Cardinality(Rows)
         /\ GlobalStats.delivered = Counting(Rows, {"delivered", "read"})
         /\ GlobalStats.failed = Counting(Rows, {"failed"})
         /\ GlobalStats.total = GlobalStats.sent + GlobalStats.pending + GlobalStats.failed
         /\ GlobalStats.read <= GlobalStats.delivered /\ GlobalStats.delivered <= GlobalStats.sent
<1> DEFINE n(S) == Counting(Rows, S)
           tiles == GlobalStats
<1>1. /\ tiles.total = Cardinality(Rows) /\ tiles.sent = n({"sent", "delivered", "read"})
      /\ tiles.delivered = n({"delivered", "read"}) /\ tiles.read = n({"read"})
      /\ tiles.failed = n({"failed"}) /\ tiles.pending = n({"pending", "queued", "sending"})
  BY DEF GlobalStats
<1>2. \A S, T : S \cap T = {} => n(S \cup T) = n(S) + n(T)
  BY CountingSplits
<1>3. \A S : n(S) \in Nat
  BY CountingIsFinite
<1>4. n({"delivered", "read"}) = n({"delivered"}) + n({"read"})
  <2>1. {"delivered", "read"} = {"delivered"} \cup {"read"} /\ {"delivered"} \cap {"read"} = {}
    OBVIOUS
  <2> HIDE DEF n
  <2> QED BY <1>2, <2>1
<1>5. n({"sent", "delivered", "read"}) = n({"sent"}) + n({"delivered", "read"})
  <2>1. {"sent", "delivered", "read"} = {"sent"} \cup {"delivered", "read"}
        /\ {"sent"} \cap {"delivered", "read"} = {}
    OBVIOUS
  <2> HIDE DEF n
  <2> QED BY <1>2, <2>1
<1>6. n(MessageStatus)
      = (n({"sent", "delivered", "read"}) + n({"pending", "queued", "sending"})) + n({"failed"})
  <2> DEFINE good == {"sent", "delivered", "read"}
             open == {"pending", "queued", "sending"}
  <2>1. MessageStatus = (good \cup open) \cup {"failed"} /\ (good \cup open) \cap {"failed"} = {}
        /\ good \cap open = {}
    BY DEF MessageStatus
  <2> HIDE DEF n, good, open
  <2>2. n(good \cup open) = n(good) + n(open)
    BY <1>2, <2>1
  <2>3. n((good \cup open) \cup {"failed"}) = n(good \cup open) + n({"failed"})
    BY <1>2, <2>1
  <2> QED BY <2>1, <2>2, <2>3 DEF good, open
<1>7. n(MessageStatus) = Cardinality(Rows)
  <2>1. {m \in Rows : row[m].status \in MessageStatus} = Rows
    BY DEF RowsTyped
  <2> QED BY <2>1 DEF Counting
<1> HIDE DEF n, tiles
<1>8. \A S : n(S) \in Nat
  BY <1>3
<1> QED BY <1>1, <1>4, <1>5, <1>6, <1>7, <1>8 DEF n, tiles

-----------------------------------------------------------------------------
(* The pages that are read while the rows change *)

\* What the parts of a page count, now.
Created == CreatedIn(page.period)
FailedOfPage == {m \in Created : row[m].status \in {"failed"}}
Joined == JoinedIn(page.period)

\* What lowers a count of messages, and what a count of failures; what takes
\* messages out of a period's campaigns is Unlisting.  And what raises a count.
Deleted == {"shrank"}
Lost == {"shrank", "overwritten"}
Grown == {"grew", "relaunched"}

\* A later count is of what an earlier one counted and of what came since.
Since(losses, earlier, later) ==
  /\ earlier \in Nat /\ later \in Nat
  /\ Range(meanwhile) \cap losses = {} => later >= earlier
  /\ meanwhile = <<>> => later = earlier

\* The values of a campaign, of a launch that is open and of what is noted.
LaunchStages == {"draft", "launched", "deleted"}
CampaignValues == [stage : LaunchStages, started : Nat]
People == UNION {Audience[c] : c \in Campaigns}
OpenLaunches == [at : {"writing"}, campaign : Campaigns, created : Nat, new : SUBSET People]
Happenings == {"grew", "relaunched", "undone", "moved", "overwritten", "shrank"}

\* An open launch is to write rows that are not there.
RequestsHold ==
  /\ request = [r \in Requests |-> request[r]]
  /\ \A r \in Requests : request[r].at = "writing" =>
       /\ request[r] \in OpenLaunches
       /\ request[r].created \in FirstDay .. today
       /\ \A k \in request[r].new : <<request[r].campaign, k>> \notin Rows

\* A campaign's rows appear when a launch commits, with a day of that launch,
\* and go with it.
RowsHold ==
  /\ today \in Nat /\ FirstDay <= today
  /\ launch \in [Campaigns -> CampaignValues]
  /\ row \in [RowIds -> [status : MessageStatus \cup {"absent"}, day : Nat, wired : BOOLEAN]]
  /\ \A m \in Rows :
       /\ row[m].status \in MessageStatus /\ row[m].day \in FirstDay .. today
       /\ launch[m[1]].stage # "deleted"
  /\ RequestsHold
  /\ meanwhile \in Seq(Happenings)
  /\ page = NoPage => meanwhile = <<>>

\* The page has been read so far.
After(stages) == page.stage \in stages

\* Of the reports page: each part, at each moment since it was read, against what
\* it would count now, and against the parts that were read before it.
ReportHolds ==
  /\ After({"opened", "charted", "counted", "tiled", "listed", "shown"}) => IsPeriod(page.period)
  /\ After({"charted", "counted", "tiled", "listed", "shown"}) =>
       Since(Deleted, page.total, Cardinality(Created)) /\ Since(Lost, page.failures, Cardinality(FailedOfPage))
  /\ After({"counted", "tiled", "listed", "shown"}) =>
       /\ Since(Deleted, page.messages, Cardinality(Created)) /\ Since(Lost, page.failed, Cardinality(FailedOfPage))
       /\ Since(Deleted, page.total, page.messages) /\ Since(Lost, page.failures, page.failed)
  /\ After({"tiled", "listed", "shown"}) => Since(Unlisting, page.recipients, Cardinality(Joined))
  /\ After({"listed", "shown"}) =>
       Since(Unlisting, page.listed, Cardinality(Joined)) /\ Since(Unlisting, page.recipients, page.listed)
  /\ After({"shown"}) => (page.complete => Since(Lost, page.failed, page.reasons))

\* Of the dashboard: the tiles hold every row there is, unless some came since.
HomeHolds ==
  LET tiles == page.tiles
  IN /\ After({"home", "homeCharted", "homeListed", "homeShown"}) =>
          /\ tiles.total = tiles.sent + tiles.pending + tiles.failed
          /\ tiles.read <= tiles.delivered /\ tiles.delivered <= tiles.sent
          /\ tiles.total \in Nat
          /\ Range(meanwhile) \cap Grown = {} => Cardinality(Rows) <= tiles.total
          /\ meanwhile = <<>> => tiles = GlobalStats
     /\ After({"homeCharted", "homeListed", "homeShown"}) =>
          /\ Range(meanwhile) \cap Grown = {} => page.total <= tiles.total
          /\ meanwhile = <<>> /\ page.period.start <= FirstDay => page.total = tiles.total
     /\ After({"homeListed", "homeShown"}) =>
          (meanwhile = <<>> => page.listed = Least(RecentLimit, tiles.failed))
     /\ After({"homeShown"}) =>
          /\ Range(meanwhile) \cap Grown = {} => page.recent.messages <= tiles.total
          /\ meanwhile = <<>> =>
               /\ page.recent.messages = tiles.total
               /\ page.recent.delivered = tiles.delivered
               /\ page.recent.failed = tiles.failed

\* The inductive invariant of the pages.
ReportingInv == RowsHold /\ ReportHolds /\ HomeHolds

-----------------------------------------------------------------------------
(* A page rests while the rows change *)

LEMMA RowsHoldTyped == RowsHold => RowsTyped
  BY ReportingAssumption DEF RowsHold, RowsTyped

LEMMA HappeningsGrow ==
  ASSUME NEW s \in Seq(Happenings), NEW x \in Happenings
  PROVE  /\ Append(s, x) \in Seq(Happenings) /\ Append(s, x) # <<>>
         /\ Range(Append(s, x)) = Range(s) \cup {x}
<1>1. Append(s, x) \in Seq(Happenings) /\ Len(Append(s, x)) = Len(s) + 1 /\ Len(s) \in Nat
  OBVIOUS
<1>2. DOMAIN s = 1 .. Len(s) /\ DOMAIN Append(s, x) = 1 .. Len(s) + 1
  OBVIOUS
<1>3. \A i \in 1 .. Len(s) : Append(s, x)[i] = s[i]
  OBVIOUS
<1>4. Append(s, x)[Len(s) + 1] = x
  OBVIOUS
<1>5. Range(Append(s, x)) = Range(s) \cup {x}
  <2>1. \A i \in 1 .. Len(s) + 1 : i \in 1 .. Len(s) \/ i = Len(s) + 1
    BY <1>1
  <2>2. \A i \in 1 .. Len(s) : i \in 1 .. Len(s) + 1
    BY <1>1
  <2>3. Len(s) + 1 \in 1 .. Len(s) + 1
    BY <1>1
  <2> QED BY <1>2, <1>3, <1>4, <2>1, <2>2, <2>3 DEF Range
<1> QED BY <1>1, <1>5

LEMMA CreatedFinite ==
  /\ Created \in SUBSET RowIds /\ FailedOfPage \in SUBSET RowIds /\ Joined \in SUBSET RowIds
  /\ Rows \in SUBSET RowIds
  BY DEF Created, FailedOfPage, Joined, CreatedIn, JoinedIn, Rows

\* A page that was opened stays as it is while the rows change: what happened to
\* them is noted.
Noted ==
  /\ meanwhile' # <<>> /\ Range(meanwhile) \subseteq Range(meanwhile')
  /\ Range(meanwhile') \cap Deleted = {} => Created \subseteq Created'
  /\ Range(meanwhile') \cap Unlisting = {} => Joined \subseteq Joined'
  /\ Range(meanwhile') \cap Lost = {} => FailedOfPage \subseteq FailedOfPage'
  /\ Range(meanwhile') \cap Grown = {} => Rows' \subseteq Rows

\* What a page has read stays true of it when rows change, for they only grow or
\* it is noted that they did not.
LEMMA PageStays ==
  ASSUME ReportHolds, HomeHolds, page' = page,
         page # NoPage => Noted
  PROVE  ReportHolds' /\ HomeHolds'
<1>1. CASE page = NoPage
  BY <1>1 DEF ReportHolds, HomeHolds, After, NoPage
<1>2. CASE page # NoPage
  <2> DEFINE sound(S, T) == S \subseteq T /\ S \in SUBSET RowIds /\ T \in SUBSET RowIds
  <2>1. ASSUME NEW S \in SUBSET RowIds, NEW T \in SUBSET RowIds, S \subseteq T
        PROVE  Cardinality(S) \in Nat /\ Cardinality(T) \in Nat /\ Cardinality(S) <= Cardinality(T)
    BY <2>1, RowsAreFinite, FS_Subset
  <2>2. /\ Cardinality(Created) \in Nat /\ Cardinality(Created') \in Nat
        /\ Cardinality(FailedOfPage) \in Nat /\ Cardinality(FailedOfPage') \in Nat
        /\ Cardinality(Joined) \in Nat /\ Cardinality(Joined') \in Nat
        /\ Cardinality(Rows) \in Nat /\ Cardinality(Rows') \in Nat
    <3>1. /\ Created' \in SUBSET RowIds /\ FailedOfPage' \in SUBSET RowIds
          /\ Joined' \in SUBSET RowIds /\ Rows' \in SUBSET RowIds
      BY DEF Created, FailedOfPage, Joined, CreatedIn, JoinedIn, Rows
    <3> QED BY <3>1, CreatedFinite, RowsAreFinite
  <2>3. /\ Range(meanwhile') \cap Deleted = {} => Cardinality(Created) <= Cardinality(Created')
        /\ Range(meanwhile') \cap Unlisting = {} => Cardinality(Joined) <= Cardinality(Joined')
        /\ Range(meanwhile') \cap Lost = {} =>
             Cardinality(FailedOfPage) <= Cardinality(FailedOfPage')
        /\ Range(meanwhile') \cap Grown = {} =>
             Range(meanwhile) \cap Grown = {} /\ Cardinality(Rows') <= Cardinality(Rows)
        /\ meanwhile' # <<>>
    <3>1. /\ Created' \in SUBSET RowIds /\ FailedOfPage' \in SUBSET RowIds
          /\ Joined' \in SUBSET RowIds /\ Rows' \in SUBSET RowIds
      BY DEF Created, FailedOfPage, Joined, CreatedIn, JoinedIn, Rows
    <3> QED BY <1>2, <2>1, <3>1, CreatedFinite DEF Noted
  <2>4. ASSUME NEW losses, NEW n, NEW m, Since(losses, n, m)
        PROVE  /\ n \in Nat /\ m \in Nat
               /\ Range(meanwhile') \cap losses = {} => m >= n
    BY <1>2, <2>4 DEF Since, Noted
  <2>5. ReportHolds'
    <3>1. After({"charted", "counted", "tiled", "listed", "shown"}) =>
            /\ Since(Deleted, page.total, Cardinality(Created))'
            /\ Since(Lost, page.failures, Cardinality(FailedOfPage))'
      BY <2>2, <2>3, <2>4 DEF ReportHolds, Since
    <3>2. After({"counted", "tiled", "listed", "shown"}) =>
            /\ Since(Deleted, page.messages, Cardinality(Created))'
            /\ Since(Lost, page.failed, Cardinality(FailedOfPage))'
            /\ Since(Deleted, page.total, page.messages)'
            /\ Since(Lost, page.failures, page.failed)'
      <4> SUFFICES ASSUME After({"counted", "tiled", "listed", "shown"})
                   PROVE  /\ Since(Deleted, page.messages, Cardinality(Created))'
                          /\ Since(Lost, page.failed, Cardinality(FailedOfPage))'
                          /\ Since(Deleted, page.total, page.messages)'
                          /\ Since(Lost, page.failures, page.failed)'
        OBVIOUS
      <4>1. /\ Since(Deleted, page.messages, Cardinality(Created))
            /\ Since(Lost, page.failed, Cardinality(FailedOfPage))
            /\ Since(Deleted, page.total, page.messages)
            /\ Since(Lost, page.failures, page.failed)
        BY DEF ReportHolds
      <4>2. /\ Since(Deleted, page.messages, Cardinality(Created))'
            /\ Since(Lost, page.failed, Cardinality(FailedOfPage))'
        <5>1. Since(Deleted, page.messages, Cardinality(Created))'
          BY <2>2, <2>3, <2>4, <4>1 DEF Since
        <5>2. Since(Lost, page.failed, Cardinality(FailedOfPage))'
          BY <2>2, <2>3, <2>4, <4>1 DEF Since
        <5> QED BY <5>1, <5>2
      <4>3. Since(Deleted, page.total, page.messages)' /\ Since(Lost, page.failures, page.failed)'
        BY <2>3, <2>4, <4>1 DEF Since
      <4> QED BY <4>2, <4>3
    <3>3. After({"tiled", "listed", "shown"}) => Since(Unlisting, page.recipients, Cardinality(Joined))'
      BY <2>2, <2>3, <2>4 DEF ReportHolds, Since
    <3>4. After({"listed", "shown"}) =>
            /\ Since(Unlisting, page.listed, Cardinality(Joined))'
            /\ Since(Unlisting, page.recipients, page.listed)'
      BY <2>2, <2>3, <2>4 DEF ReportHolds, Since
    <3>5. After({"shown"}) => (page.complete => Since(Lost, page.failed, page.reasons)')
      BY <2>3, <2>4 DEF ReportHolds, Since
    <3>6. After({"opened", "charted", "counted", "tiled", "listed", "shown"}) => IsPeriod(page.period)
      BY DEF ReportHolds
    <3> QED BY <3>1, <3>2, <3>3, <3>4, <3>5, <3>6 DEF ReportHolds, After, IsPeriod
  <2>6. HomeHolds'
    <3> DEFINE tiles == page.tiles
    <3>1. After({"home", "homeCharted", "homeListed", "homeShown"}) =>
            /\ tiles.total = tiles.sent + tiles.pending + tiles.failed
            /\ tiles.read <= tiles.delivered /\ tiles.delivered <= tiles.sent
            /\ tiles.total \in Nat
            /\ Range(meanwhile') \cap Grown = {} => Cardinality(Rows') <= tiles.total
      BY <2>2, <2>3 DEF HomeHolds
    <3>2. After({"homeCharted", "homeListed", "homeShown"}) =>
            (Range(meanwhile') \cap Grown = {} => page.total <= tiles.total)
      BY <2>3 DEF HomeHolds
    <3>3. After({"homeShown"}) =>
            (Range(meanwhile') \cap Grown = {} => page.recent.messages <= tiles.total)
      BY <2>3 DEF HomeHolds
    <3> QED BY <2>3, <3>1, <3>2, <3>3 DEF HomeHolds, After
  <2> QED BY <2>5, <2>6
<1> QED BY <1>1, <1>2

\* And when nothing happens to them it stays as it is.
LEMMA PageRests ==
  ASSUME ReportHolds, HomeHolds, UNCHANGED <<page, launch, row, meanwhile>>
  PROVE  ReportHolds' /\ HomeHolds'
<1>1. StartedIn(page.period)' = StartedIn(page.period)
  BY DEF StartedIn, Days
<1>2. Created' = Created /\ FailedOfPage' = FailedOfPage /\ Rows' = Rows
  BY DEF Created, CreatedIn, FailedOfPage, Rows, Days
<1>3. Joined' = Joined
  BY <1>1, <1>2 DEF Joined, JoinedIn, StartedIn, Days
<1>4. GlobalStats' = GlobalStats
  BY DEF GlobalStats, Counting, Rows
<1>5. ReportHolds'
  BY <1>2, <1>3 DEF ReportHolds, Since, After, IsPeriod
<1>6. HomeHolds'
  BY <1>2, <1>4 DEF HomeHolds, After
<1> QED BY <1>5, <1>6

\* Each change is noted, while a page is read.
LEMMA ChangesAreNoted ==
  ASSUME RowsHold, NEW change \in Happenings, Notes(change), page' = page
  PROVE  /\ meanwhile' \in Seq(Happenings)
         /\ page' = NoPage => meanwhile' = <<>>
         /\ page # NoPage =>
              meanwhile' # <<>> /\ Range(meanwhile') = Range(meanwhile) \cup {change}
<1>1. /\ Append(meanwhile, change) \in Seq(Happenings) /\ Append(meanwhile, change) # <<>>
      /\ Range(Append(meanwhile, change)) = Range(meanwhile) \cup {change}
  BY HappeningsGrow DEF RowsHold
<1>2. <<>> \in Seq(Happenings)
  OBVIOUS
<1> QED BY <1>1, <1>2 DEF Notes

\* Unless rows are deleted, what was counted is counted again, and unless a
\* campaign leaves the period so is what was listed.
LEMMA RowsGrow ==
  ASSUME page' = page,
         \A m \in Rows : m \in Rows' /\ row'[m].day = row[m].day
  PROVE  /\ Created \subseteq Created'
         /\ (\A c \in Campaigns : launch[c].stage = "launched" => launch'[c] = launch[c]) =>
              Joined \subseteq Joined'
         /\ (\A m \in Rows : row[m].status = "failed" => row'[m].status = "failed") =>
              FailedOfPage \subseteq FailedOfPage'
<1>1. Created \subseteq Created'
  BY DEF Created, CreatedIn, Days
<1>2. ASSUME \A m \in Rows : row[m].status = "failed" => row'[m].status = "failed"
      PROVE  FailedOfPage \subseteq FailedOfPage'
  BY <1>1, <1>2 DEF FailedOfPage, Created, CreatedIn
<1>3. ASSUME \A c \in Campaigns : launch[c].stage = "launched" => launch'[c] = launch[c]
      PROVE  Joined \subseteq Joined'
  <2>1. \A c \in StartedIn(page.period) :
          c \in Campaigns /\ launch'[c].stage = "launched" /\ launch'[c].started \in Days(page'.period)
    BY <1>3 DEF StartedIn, Days
  <2> QED BY <2>1 DEF Joined, JoinedIn, StartedIn, Days
<1> QED BY <1>1, <1>2, <1>3

\* While rows only go, what open launches are to write is still not there.
LEMMA RequestsRest ==
  ASSUME RequestsHold, request' = request, today' = today \/ today' = today + 1,
         today \in Nat, Rows' \subseteq Rows
  PROVE  RequestsHold'
<1>1. \A d : d \in FirstDay .. today => d \in FirstDay .. today'
  BY ReportingAssumption
<1> QED BY <1>1 DEF RequestsHold

\* The values of a row.
RowValues == [status : MessageStatus \cup {"absent"}, day : Nat, wired : BOOLEAN]

\* launch_campaign, first half: no row that can be seen.
LEMMA MaterializeHolds ==
  ASSUME ReportingInv, NEW r \in Requests, NEW c \in Campaigns, Materialize(r, c)
  PROVE  ReportingInv'
<1>1. UNCHANGED <<today, launch, row, page, meanwhile>> /\ Rows' = Rows
  BY DEF Materialize, Rows
<1>2. PICK to \in SUBSET (Audience[c] \cap contacts) \ {{}} :
        request' = [request EXCEPT ![r] =
          [at |-> "writing", campaign |-> c, created |-> today,
           new |-> {k \in to : <<c, k>> \notin Rows}]]
  BY DEF Materialize
<1> DEFINE open == [at |-> "writing", campaign |-> c, created |-> today,
                    new |-> {k \in to : <<c, k>> \notin Rows}]
<1>3. /\ open \in OpenLaunches /\ open.created = today /\ open.campaign = c
      /\ \A k \in open.new : <<c, k>> \notin Rows
  BY DEF OpenLaunches, People, ReportingInv, RowsHold
<1>4. /\ request' = [q \in Requests |-> request'[q]] /\ request'[r] = open
      /\ \A q \in Requests : q # r => request'[q] = request[q]
  BY <1>2 DEF ReportingInv, RowsHold, RequestsHold
<1> HIDE DEF open
<1>5. today \in FirstDay .. today
  BY ReportingAssumption DEF ReportingInv, RowsHold
<1>6. RequestsHold'
  <2> SUFFICES ASSUME NEW q \in Requests, request'[q].at = "writing"
               PROVE  /\ request'[q] \in OpenLaunches
                      /\ request'[q].created \in FirstDay .. today
                      /\ \A k \in request'[q].new : <<request'[q].campaign, k>> \notin Rows
    BY <1>1, <1>4 DEF RequestsHold
  <2>1. CASE q = r
    BY <1>3, <1>4, <1>5, <2>1
  <2>2. CASE q # r
    BY <1>4, <2>2 DEF ReportingInv, RowsHold, RequestsHold
  <2> QED BY <2>1, <2>2
<1>7. RowsHold'
  BY <1>1, <1>6 DEF ReportingInv, RowsHold
<1>8. ReportHolds' /\ HomeHolds'
  BY <1>1, PageRests DEF ReportingInv
<1> QED BY <1>7, <1>8 DEF ReportingInv

\* Second half: the rows come that the launch is to write, and none that another
\* open launch of the campaign still is to.
LEMMA LaunchedRowsCome ==
  ASSUME ReportingInv, NEW r \in Requests, NEW c \in Campaigns, CommitLaunch(r, c)
  PROVE  /\ row' \in [RowIds -> RowValues]
         /\ \A m \in Rows : m \in Rows' /\ row'[m] = row[m]
         /\ \A m \in Rows' :
              \/ m \in Rows /\ row'[m] = row[m]
              \/ /\ m[1] = c /\ m[2] \in request[r].new
                 /\ row'[m].status \in MessageStatus /\ row'[m].day \in FirstDay .. today
         /\ RequestsHold'
<1>1. /\ Writing(r, c) /\ request[r] \in OpenLaunches /\ request[r].campaign = c
      /\ request[r].created \in FirstDay .. today
      /\ \A k \in request[r].new : <<c, k>> \notin Rows
      /\ today' = today
  BY DEF CommitLaunch, Writing, ReportingInv, RowsHold, RequestsHold
<1> DEFINE new == [status |-> "pending", day |-> request[r].created, wired |-> FALSE]
<1>2. new \in RowValues /\ new # NoRow /\ new.status \in MessageStatus /\ new.day = request[r].created
  BY <1>1 DEF RowValues, MessageStatus, NoRow, OpenLaunches
<1>3. row' = [m \in RowIds |-> IF m[1] = c /\ m[2] \in request[r].new THEN new ELSE row[m]]
  BY DEF CommitLaunch
<1> HIDE DEF new
<1>4. row' \in [RowIds -> RowValues]
  BY <1>2, <1>3 DEF ReportingInv, RowsHold, RowValues
<1>5. \A m \in RowIds : m = <<m[1], m[2]>>
  BY DEF RowIds
<1>6. \A m \in Rows : m \in RowIds /\ ~(m[1] = c /\ m[2] \in request[r].new)
  BY <1>1, <1>5 DEF Rows
<1>7. \A m \in Rows : m \in Rows' /\ row'[m] = row[m]
  BY <1>3, <1>6 DEF Rows
<1>8. ASSUME NEW m \in Rows'
      PROVE  \/ m \in Rows /\ row'[m] = row[m]
             \/ m[1] = c /\ m[2] \in request[r].new /\ row'[m] = new
  <2>1. m \in RowIds /\ row'[m] # NoRow
    BY DEF Rows
  <2>2. CASE m[1] = c /\ m[2] \in request[r].new
    BY <1>3, <2>1, <2>2
  <2>3. CASE ~(m[1] = c /\ m[2] \in request[r].new)
    BY <1>3, <2>1, <2>3 DEF Rows
  <2> QED BY <2>2, <2>3
<1>9. /\ request' = [q \in Requests |-> request'[q]]
      /\ \A q \in Requests :
           request'[q] = CASE q = r -> Over
                           [] q # r /\ Writing(q, c) ->
                                [request[q] EXCEPT !.new = request[q].new \ request[r].new]
                           [] OTHER -> request[q]
  BY DEF CommitLaunch
<1>10. ASSUME NEW q \in Requests, request'[q].at = "writing"
       PROVE  /\ request'[q] \in OpenLaunches
              /\ request'[q].created \in FirstDay .. today
              /\ \A k \in request'[q].new : <<request'[q].campaign, k>> \notin Rows'
  <2>1. q # r
    BY <1>9, <1>10 DEF Over
  <2>2. CASE Writing(q, c)
    <3>1. /\ request[q] \in OpenLaunches /\ request[q].created \in FirstDay .. today
          /\ \A k \in request[q].new : <<c, k>> \notin Rows
      BY <2>2 DEF Writing, ReportingInv, RowsHold, RequestsHold
    <3>2. request'[q] = [request[q] EXCEPT !.new = request[q].new \ request[r].new]
      BY <1>9, <2>1, <2>2
    <3>3. /\ request'[q] \in OpenLaunches /\ request'[q].created = request[q].created
          /\ request'[q].new = request[q].new \ request[r].new /\ request'[q].campaign = c
      BY <2>2, <3>1, <3>2 DEF OpenLaunches, Writing
    <3>4. \A k : <<c, k>> \in Rows' => <<c, k>> \in Rows \/ k \in request[r].new
      BY <1>8
    <3> QED BY <3>1, <3>3, <3>4
  <2>3. CASE ~Writing(q, c)
    <3>1. request'[q] = request[q] /\ request[q].campaign # c
      BY <1>9, <1>10, <2>1, <2>3 DEF Writing
    <3>2. /\ request[q] \in OpenLaunches /\ request[q].created \in FirstDay .. today
          /\ \A k \in request[q].new : <<request[q].campaign, k>> \notin Rows
      BY <1>10, <3>1 DEF ReportingInv, RowsHold, RequestsHold
    <3>3. \A d, k : d # c /\ <<d, k>> \in Rows' => <<d, k>> \in Rows
      BY <1>8
    <3> QED BY <3>1, <3>2, <3>3
  <2> QED BY <2>2, <2>3
<1>11. RequestsHold'
  BY <1>1, <1>9, <1>10 DEF RequestsHold
<1>12. \A m \in Rows' :
         \/ m \in Rows /\ row'[m] = row[m]
         \/ /\ m[1] = c /\ m[2] \in request[r].new
            /\ row'[m].status \in MessageStatus /\ row'[m].day \in FirstDay .. today
  BY <1>1, <1>2, <1>8
<1> QED BY <1>4, <1>7, <1>11, <1>12

LEMMA CommitLaunchHolds ==
  ASSUME ReportingInv, NEW r \in Requests, NEW c \in Campaigns, CommitLaunch(r, c)
  PROVE  ReportingInv'
<1>1. PICK day \in request[r].created .. today :
        /\ launch' = [launch EXCEPT ![c] = [stage |-> "launched", started |-> day]]
        /\ Notes(IF launch[c].stage = "launched" /\ launch[c].started # day
                 THEN "relaunched" ELSE "grew")
  BY DEF CommitLaunch
<1> DEFINE change == IF launch[c].stage = "launched" /\ launch[c].started # day
                     THEN "relaunched" ELSE "grew"
<1>2. today' = today /\ page' = page /\ launch[c].stage # "deleted"
      /\ change \in Happenings /\ Notes(change)
  BY <1>1 DEF CommitLaunch, Happenings
<1>3. /\ launch' \in [Campaigns -> CampaignValues] /\ launch'[c] = [stage |-> "launched", started |-> day]
      /\ \A d \in Campaigns : d # c => launch'[d] = launch[d]
  <2>1. day \in Nat
    <3>1. request[r].created \in Nat /\ today \in Nat
      BY DEF CommitLaunch, Writing, ReportingInv, RowsHold, RequestsHold, OpenLaunches
    <3> QED BY <3>1
  <2>2. [stage |-> "launched", started |-> day] \in CampaignValues
    BY <2>1 DEF CampaignValues, LaunchStages
  <2> QED BY <1>1, <2>2 DEF ReportingInv, RowsHold
<1>4. /\ row' \in [RowIds -> RowValues]
      /\ \A m \in Rows : m \in Rows' /\ row'[m] = row[m]
      /\ \A m \in Rows' :
           \/ m \in Rows /\ row'[m] = row[m]
           \/ /\ m[1] = c /\ m[2] \in request[r].new
              /\ row'[m].status \in MessageStatus /\ row'[m].day \in FirstDay .. today
      /\ RequestsHold'
  BY LaunchedRowsCome
<1>5. /\ meanwhile' \in Seq(Happenings)
      /\ page' = NoPage => meanwhile' = <<>>
      /\ page # NoPage => meanwhile' # <<>> /\ Range(meanwhile') = Range(meanwhile) \cup {change}
  <2> HIDE DEF change
  <2> QED BY <1>2, ChangesAreNoted DEF ReportingInv
<1>6. RowsHold'
  <2>1. \A m \in Rows' : m[1] \in Campaigns
    BY DEF Rows, RowIds
  <2>2. launch'[c].stage # "deleted"
    BY <1>3
  <2>3. \A m \in Rows' : /\ row'[m].status \in MessageStatus /\ row'[m].day \in FirstDay .. today
                         /\ launch'[m[1]].stage # "deleted"
    BY <1>3, <1>4, <2>1, <2>2 DEF ReportingInv, RowsHold
  <2> QED BY <1>2, <1>3, <1>4, <1>5, <2>3 DEF ReportingInv, RowsHold, RowValues
<1>7. page # NoPage => Noted
  <2>1. \A m \in Rows : m \in Rows' /\ row'[m].day = row[m].day
        /\ (row[m].status = "failed" => row'[m].status = "failed")
    BY <1>4
  <2>2. Created \subseteq Created' /\ FailedOfPage \subseteq FailedOfPage'
    BY <1>2, <2>1, RowsGrow
  <2>3. change # "relaunched" => Joined \subseteq Joined'
    <3> SUFFICES ASSUME change # "relaunched" PROVE Joined \subseteq Joined'
      OBVIOUS
    <3>1. ~(launch[c].stage = "launched" /\ launch[c].started # day)
      OBVIOUS
    <3>2. launch[c].stage = "launched" => launch'[c] = launch[c]
      BY <1>3, <3>1 DEF ReportingInv, RowsHold, CampaignValues
    <3>3. \A d \in Campaigns : launch[d].stage = "launched" => launch'[d] = launch[d]
      BY <1>3, <3>2
    <3> QED BY <1>2, <2>1, <3>3, RowsGrow
  <2>4. change \in Grown /\ (change = "relaunched" => change \in Unlisting)
    BY DEF Grown, Unlisting
  <2> HIDE DEF change
  <2> QED BY <1>5, <2>2, <2>3, <2>4 DEF Noted
<1>8. ReportHolds' /\ HomeHolds'
  BY <1>2, <1>7, PageStays DEF ReportingInv
<1> QED BY <1>6, <1>8 DEF ReportingInv

\* A request that is over is to write nothing.
LEMMA RequestsEnd ==
  ASSUME RowsHold, NEW r \in Requests, request' = [request EXCEPT ![r] = Over],
         UNCHANGED <<today, row>>
  PROVE  RequestsHold'
<1>1. /\ request' = [q \in Requests |-> request'[q]] /\ request'[r] = Over
      /\ \A q \in Requests : q # r => request'[q] = request[q]
  BY DEF RowsHold, RequestsHold
<1>2. Rows' = Rows
  BY DEF Rows
<1> QED BY <1>1, <1>2 DEF RowsHold, RequestsHold, Over

LEMMA LaunchFailsHolds ==
  ASSUME ReportingInv, NEW r \in Requests, NEW c \in Campaigns, LaunchFails(r, c)
  PROVE  ReportingInv'
<1>1. /\ UNCHANGED <<today, launch, row, page, meanwhile>> /\ Rows' = Rows
      /\ request' = [request EXCEPT ![r] = Over]
  BY DEF LaunchFails, Rows
<1>2. RowsHold'
  BY <1>1, RequestsEnd DEF ReportingInv, RowsHold
<1>3. ReportHolds' /\ HomeHolds'
  BY <1>1, PageRests DEF ReportingInv
<1> QED BY <1>2, <1>3 DEF ReportingInv

\* A draft saved over a launch takes the campaign out of its period, and no row.
LEMMA SaveDraftHolds ==
  ASSUME ReportingInv, NEW r \in Requests, NEW c \in Campaigns, SaveDraft(r, c)
  PROVE  ReportingInv'
<1>1. /\ UNCHANGED <<today, row, page>> /\ Rows' = Rows /\ Notes("undone")
      /\ request' = [request EXCEPT ![r] = Over] /\ launch' = [launch EXCEPT ![c] = Draft]
  BY DEF SaveDraft, Rows
<1>2. /\ launch' \in [Campaigns -> CampaignValues] /\ launch'[c].stage # "deleted"
      /\ \A d \in Campaigns : d # c => launch'[d] = launch[d]
  BY <1>1 DEF ReportingInv, RowsHold, CampaignValues, LaunchStages, Draft
<1>3. /\ meanwhile' \in Seq(Happenings)
      /\ page' = NoPage => meanwhile' = <<>>
      /\ page # NoPage => meanwhile' # <<>> /\ Range(meanwhile') = Range(meanwhile) \cup {"undone"}
  BY <1>1, ChangesAreNoted DEF ReportingInv, Happenings
<1>4. RowsHold'
  <2>1. \A m \in Rows : m[1] \in Campaigns
    BY DEF Rows, RowIds
  <2>2. \A m \in Rows : launch'[m[1]].stage # "deleted"
    BY <1>2, <2>1 DEF ReportingInv, RowsHold
  <2>3. RequestsHold'
    BY <1>1, RequestsEnd DEF ReportingInv
  <2> QED BY <1>1, <1>2, <1>3, <2>2, <2>3 DEF ReportingInv, RowsHold
<1>5. page # NoPage => Noted
  <2>1. \A m \in Rows : m \in Rows' /\ row'[m].day = row[m].day
        /\ (row[m].status = "failed" => row'[m].status = "failed")
    BY <1>1
  <2>2. Created \subseteq Created' /\ FailedOfPage \subseteq FailedOfPage'
    BY <1>1, <2>1, RowsGrow
  <2> QED BY <1>1, <1>3, <2>2 DEF Noted, Unlisting
<1>6. ReportHolds' /\ HomeHolds'
  BY <1>1, <1>5, PageStays DEF ReportingInv
<1> QED BY <1>4, <1>6 DEF ReportingInv

\* A row that moves stays where it was counted, but for a failure overwritten.
LEMMA MovesHold ==
  ASSUME ReportingInv, NEW k \in Rows, NEW status \in MessageStatus, NEW change \in Happenings,
         Moves(k, status, change), row[k].status = "failed" => change = "overwritten"
  PROVE  ReportingInv'
<1>1. /\ UNCHANGED <<today, launch, request, page>> /\ Notes(change) /\ k \in RowIds
  BY DEF Moves, Rows
<1>2. /\ row' \in [RowIds -> RowValues] /\ row'[k].status = status /\ row'[k].day = row[k].day
      /\ \A m \in RowIds : m # k => row'[m] = row[m]
  <2>1. row \in [RowIds -> RowValues]
    BY DEF ReportingInv, RowsHold, RowValues
  <2>2. row' = [row EXCEPT ![k] =
                  [@ EXCEPT !.status = status,
                            !.wired = @ \/ status \in {"sent", "delivered", "read"}]]
    BY DEF Moves
  <2>3. row[k] \in RowValues
    BY <1>1, <2>1
  <2>4. [row[k] EXCEPT !.status = status,
                       !.wired = @ \/ status \in {"sent", "delivered", "read"}] \in RowValues
    BY <2>3 DEF RowValues
  <2> QED BY <1>1, <2>1, <2>2, <2>3, <2>4 DEF RowValues
<1>3. Rows' = Rows
  <2>1. row'[k] # NoRow
    BY <1>2 DEF NoRow, MessageStatus
  <2> QED BY <1>1, <1>2, <2>1 DEF Rows
<1>4. /\ meanwhile' \in Seq(Happenings)
      /\ page' = NoPage => meanwhile' = <<>>
      /\ page # NoPage => meanwhile' # <<>> /\ Range(meanwhile') = Range(meanwhile) \cup {change}
  BY <1>1, ChangesAreNoted DEF ReportingInv
<1>5. \A m \in Rows : m \in RowIds
  BY DEF Rows
<1>6. RowsHold'
  <2>1. \A m \in Rows : /\ row'[m].status \in MessageStatus /\ row'[m].day \in FirstDay .. today
                        /\ launch[m[1]].stage # "deleted"
    BY <1>1, <1>2, <1>5 DEF ReportingInv, RowsHold
  <2>2. RequestsHold'
    BY <1>1, <1>3, RequestsRest DEF ReportingInv, RowsHold
  <2> QED BY <1>1, <1>2, <1>3, <1>4, <2>1, <2>2 DEF ReportingInv, RowsHold, RowValues
<1>7. page # NoPage => Noted
  <2>1. \A m \in Rows : m \in Rows' /\ row'[m].day = row[m].day
    BY <1>2, <1>3, <1>5
  <2>2. change # "overwritten" => \A m \in Rows : row[m].status = "failed" => row'[m].status = "failed"
    BY <1>2, <1>5
  <2>3. /\ Created \subseteq Created' /\ Joined \subseteq Joined'
        /\ change # "overwritten" => FailedOfPage \subseteq FailedOfPage'
    BY <1>1, <2>1, <2>2, RowsGrow
  <2> QED BY <1>3, <1>4, <2>3 DEF Noted, Lost
<1>8. ReportHolds' /\ HomeHolds'
  BY <1>1, <1>7, PageStays DEF ReportingInv
<1> QED BY <1>6, <1>8 DEF ReportingInv

\* No failure is above another status, so none is lost by going up.
LEMMA ProgressHolds ==
  ASSUME ReportingInv, NEW k \in RowIds, NEW status \in Observed, Progress(k, status)
  PROVE  ReportingInv'
<1>1. /\ k \in Rows /\ status \in MessageStatus /\ Moves(k, status, "moved")
      /\ row[k].status \in Terminal => ~Outranks(row[k].status, status)
  BY ReportingAssumption DEF Progress
<1>2. row[k].status # "failed"
  BY <1>1 DEF Terminal, Outranks, StatusRank, MessageStatus
<1> QED BY <1>1, <1>2, MovesHold DEF Happenings

LEMMA OverwriteHolds ==
  ASSUME ReportingInv, NEW k \in RowIds, NEW status \in Observed, Overwrite(k, status)
  PROVE  ReportingInv'
<1>1. k \in Rows /\ status \in MessageStatus /\ Moves(k, status, "overwritten")
  BY ReportingAssumption DEF Overwrite
<1> QED BY <1>1, MovesHold DEF Happenings

\* Rows that go are noted.
LEMMA DeletesAreNoted ==
  ASSUME ReportingInv, NEW gonerows \in SUBSET Rows, Delete(gonerows), page' = page
  PROVE  /\ row' \in [RowIds -> RowValues]
         /\ Rows' = Rows \ gonerows /\ \A m \in Rows' : row'[m] = row[m]
         /\ meanwhile' \in Seq(Happenings) /\ (page' = NoPage => meanwhile' = <<>>)
         /\ ReportHolds' /\ HomeHolds'
<1>1. NoRow \in RowValues
  BY DEF NoRow, RowValues
<1>2. row' = [m \in RowIds |-> IF m \in gonerows THEN NoRow ELSE row[m]]
  BY DEF Delete
<1>3. row' \in [RowIds -> RowValues]
  BY <1>1, <1>2 DEF ReportingInv, RowsHold, RowValues
<1>4. Rows' = Rows \ gonerows /\ \A m \in Rows' : row'[m] = row[m]
  BY <1>2 DEF Rows
<1>5. /\ meanwhile' \in Seq(Happenings)
      /\ page' = NoPage => meanwhile' = <<>>
      /\ page # NoPage => meanwhile' # <<>> /\ Range(meanwhile') = Range(meanwhile) \cup {"shrank"}
  BY ChangesAreNoted DEF ReportingInv, Happenings, Delete
<1>6. page # NoPage => Noted
  BY <1>4, <1>5 DEF Noted, Deleted, Lost, Unlisting
<1>7. ReportHolds' /\ HomeHolds'
  BY <1>6, PageStays DEF ReportingInv
<1> QED BY <1>3, <1>4, <1>5, <1>7

\* delete_contact.
LEMMA DeleteContactHolds ==
  ASSUME ReportingInv, NEW k \in contacts, DeleteContact(k)
  PROVE  ReportingInv'
<1>1. /\ UNCHANGED <<today, launch, request, page>> /\ Delete({m \in Rows : m[2] = k})
      /\ {m \in Rows : m[2] = k} \in SUBSET Rows
  BY DEF DeleteContact
<1>2. /\ row' \in [RowIds -> RowValues]
      /\ Rows' \subseteq Rows /\ \A m \in Rows' : row'[m] = row[m]
      /\ meanwhile' \in Seq(Happenings) /\ (page' = NoPage => meanwhile' = <<>>)
      /\ ReportHolds' /\ HomeHolds'
  BY <1>1, DeletesAreNoted
<1>3. RequestsHold'
  BY <1>1, <1>2, RequestsRest DEF ReportingInv, RowsHold
<1>4. RowsHold'
  BY <1>1, <1>2, <1>3 DEF ReportingInv, RowsHold, RowValues
<1> QED BY <1>2, <1>4 DEF ReportingInv

\* CampaignDeleteView.form_valid.
LEMMA DeleteCampaignHolds ==
  ASSUME ReportingInv, NEW c \in Campaigns, DeleteCampaign(c)
  PROVE  ReportingInv'
<1>1. /\ UNCHANGED <<today, request, page>> /\ Delete(RowsOf(c)) /\ RowsOf(c) \in SUBSET Rows
      /\ \A m \in Rows \ RowsOf(c) : m[1] # c /\ m[1] \in Campaigns
  BY DEF DeleteCampaign, RowsOf, Rows, RowIds
<1>2. /\ row' \in [RowIds -> RowValues]
      /\ Rows' = Rows \ RowsOf(c) /\ \A m \in Rows' : row'[m] = row[m]
      /\ meanwhile' \in Seq(Happenings) /\ (page' = NoPage => meanwhile' = <<>>)
      /\ ReportHolds' /\ HomeHolds'
  BY <1>1, DeletesAreNoted
<1>3. /\ launch' \in [Campaigns -> CampaignValues]
      /\ launch'[c].stage = "deleted" /\ \A d \in Campaigns : d # c => launch'[d] = launch[d]
  BY DEF ReportingInv, RowsHold, DeleteCampaign, CampaignValues, LaunchStages, Draft
<1>4. RowsHold'
  <2>1. RequestsHold'
    BY <1>1, <1>2, RequestsRest DEF ReportingInv, RowsHold
  <2>2. \A m \in Rows' : /\ row'[m].status \in MessageStatus /\ row'[m].day \in FirstDay .. today
                         /\ launch'[m[1]].stage # "deleted"
    BY <1>1, <1>2, <1>3 DEF ReportingInv, RowsHold
  <2> QED BY <1>1, <1>2, <1>3, <2>1, <2>2 DEF ReportingInv, RowsHold, RowValues
<1> QED BY <1>2, <1>4 DEF ReportingInv

\* Midnight: the page has its period already.
LEMMA MidnightHolds ==
  ASSUME ReportingInv, Midnight
  PROVE  ReportingInv'
<1>1. UNCHANGED <<launch, request, row, page, meanwhile>> /\ today' = today + 1 /\ Rows' = Rows
  BY DEF Midnight, Rows
<1>2. ReportHolds' /\ HomeHolds'
  BY <1>1, PageRests DEF ReportingInv
<1>3. FirstDay \in Nat /\ today \in Nat
  BY ReportingAssumption DEF ReportingInv, RowsHold
<1>4. \A d : d \in FirstDay .. today => d \in FirstDay .. today + 1
  BY <1>3
<1>5. RequestsHold'
  BY <1>1, <1>3, RequestsRest DEF ReportingInv, RowsHold
<1>6. RowsHold'
  BY <1>1, <1>3, <1>4, <1>5 DEF ReportingInv, RowsHold
<1> QED BY <1>2, <1>6 DEF ReportingInv

-----------------------------------------------------------------------------
(* A page is read further *)

\* A query changes the page and nothing else.
LEMMA ReadsLeave ==
  ASSUME RowsHold, Reads, page'.stage # "none"
  PROVE  /\ RowsHold' /\ Rows' = Rows /\ GlobalStats' = GlobalStats
         /\ page'.period = page.period =>
              Created' = Created /\ FailedOfPage' = FailedOfPage /\ Joined' = Joined
<1>1. UNCHANGED <<today, launch, request, row, meanwhile>>
  BY DEF Reads
<1>2. page' # NoPage
  BY DEF NoPage
<1>3. Rows' = Rows
  BY <1>1 DEF Rows
<1>4. GlobalStats' = GlobalStats
  BY <1>1, <1>3 DEF GlobalStats, Counting
<1>5. RowsHold'
  <2>1. RequestsHold'
    BY <1>1, <1>3, RequestsRest DEF RowsHold
  <2> QED BY <1>1, <1>2, <1>3, <2>1 DEF RowsHold
<1>6. ASSUME page'.period = page.period
      PROVE  Created' = Created /\ FailedOfPage' = FailedOfPage /\ Joined' = Joined
  <2>1. StartedIn(page.period)' = StartedIn(page.period)
    BY <1>1, <1>6 DEF StartedIn, Days
  <2>2. Created' = Created
    BY <1>1, <1>3, <1>6 DEF Created, CreatedIn, Days
  <2> QED BY <1>1, <1>3, <1>6, <2>1, <2>2 DEF FailedOfPage, Joined, JoinedIn
<1> QED BY <1>3, <1>4, <1>5, <1>6

LEMMA CountsAreNumbers ==
  /\ Cardinality(Created) \in Nat /\ Cardinality(FailedOfPage) \in Nat
  /\ Cardinality(Joined) \in Nat /\ Cardinality(Rows) \in Nat
  BY CreatedFinite, RowsAreFinite

\* ReportPeriod.last_days: never an empty period, whatever number is asked for.
LEMMA LastDaysIsPeriod ==
  ASSUME today \in Nat, NEW days \in Int
  PROVE  IsPeriod(LastDays(days)) /\ LastDays(days).end = today
<1>1. MaxPeriodDays \in Nat /\ MaxPeriodDays > 0
  BY ReportingAssumption
<1> DEFINE kept == Greatest(1, Least(days, MaxPeriodDays))
<1>2. kept \in Nat /\ kept >= 1
  BY <1>1 DEF Greatest, Least
<1>3. LastDays(days) = [start |-> today - kept + 1, end |-> today]
  BY DEF LastDays
<1> HIDE DEF kept
<1> QED BY <1>2, <1>3 DEF IsPeriod

\* resolve_period: never an empty period, whatever is asked for.
LEMMA ResolvedIsPeriod ==
  ASSUME today \in Nat, NEW asked \in Asked
  PROVE  IsPeriod(ResolvePeriod(asked))
<1> DEFINE given == DOMAIN asked
<1>1. MaxPeriodDays \in Nat \ {0} /\ DefaultPeriodDays \in Nat \ {0}
  BY ReportingAssumption
<1>2. \A k \in given \cap {"start", "end", "days"} : asked[k] \in Int
  BY ReportingAssumption
<1>3. CASE {"start", "end"} \subseteq given /\ asked.end >= asked.start
  <2>1. ResolvePeriod(asked)
        = [start |-> Greatest(asked.start, asked.end - MaxPeriodDays + 1), end |-> asked.end]
    BY <1>3 DEF ResolvePeriod
  <2>2. asked.start \in Int /\ asked.end \in Int
    BY <1>2, <1>3
  <2> QED BY <1>1, <1>3, <2>1, <2>2 DEF IsPeriod, Greatest
<1>4. CASE "start" \in given /\ "end" \notin given
  <2>1. ResolvePeriod(asked) = [start |-> asked.start, end |-> Greatest(asked.start, today)]
    BY <1>4 DEF ResolvePeriod
  <2>2. asked.start \in Int
    BY <1>2, <1>4
  <2> QED BY <2>1, <2>2 DEF IsPeriod, Greatest
<1>5. CASE "end" \in given /\ "start" \notin given
  <2>1. ResolvePeriod(asked) = [start |-> asked.end - DefaultPeriodDays + 1, end |-> asked.end]
    BY <1>5 DEF ResolvePeriod
  <2>2. asked.end \in Int
    BY <1>2, <1>5
  <2> QED BY <1>1, <2>1, <2>2 DEF IsPeriod
<1>6. CASE ~(\/ {"start", "end"} \subseteq given /\ asked.end >= asked.start
             \/ "start" \in given /\ "end" \notin given
             \/ "end" \in given /\ "start" \notin given)
  <2> DEFINE days == IF "days" \in given THEN asked.days ELSE DefaultPeriodDays
  <2>1. ResolvePeriod(asked) = LastDays(days)
    BY <1>6 DEF ResolvePeriod
  <2>2. days \in Int
    BY <1>1, <1>2
  <2> QED BY <2>1, <2>2, LastDaysIsPeriod
<1> QED BY <1>3, <1>4, <1>5, <1>6

\* ReportsView, from the period to the last query.
LEMMA OpenPageHolds ==
  ASSUME ReportingInv, NEW asked \in Asked, OpenPage(asked)
  PROVE  ReportingInv'
<1>1. page'.stage = "opened" /\ page'.period = ResolvePeriod(asked) /\ Reads
  BY DEF OpenPage
<1>2. RowsHold'
  BY <1>1, ReadsLeave DEF ReportingInv
<1>3. IsPeriod(ResolvePeriod(asked))
  BY ResolvedIsPeriod DEF ReportingInv, RowsHold
<1>4. ReportHolds' /\ HomeHolds'
  BY <1>1, <1>3 DEF ReportHolds, HomeHolds, After, IsPeriod
<1> QED BY <1>2, <1>4 DEF ReportingInv

LEMMA ReadActivityHolds ==
  ASSUME ReportingInv, ReadActivity
  PROVE  ReportingInv'
<1>1. /\ page.stage = "opened" /\ page'.stage = "charted" /\ page'.period = page.period /\ Reads
      /\ page'.total = Chart(page.period).total
      /\ page'.failures = Chart(page.period).legend["failed"]
  BY DEF ReadActivity, Chart
<1>2. RowsHold' /\ Created' = Created /\ FailedOfPage' = FailedOfPage
  BY <1>1, ReadsLeave DEF ReportingInv
<1>3. IsPeriod(page.period)
  BY <1>1 DEF ReportingInv, ReportHolds, After
<1>4. page'.total = Cardinality(Created) /\ page'.failures = Cardinality(FailedOfPage)
  BY <1>1, <1>3, ChartCounts, RowsHoldTyped DEF ReportingInv, Created, FailedOfPage, Counting
<1>5. Since(Deleted, page.total, Cardinality(Created))' /\ Since(Lost, page.failures, Cardinality(FailedOfPage))'
  BY <1>2, <1>4, CountsAreNumbers DEF Since
<1>6. ReportHolds' /\ HomeHolds'
  BY <1>1, <1>3, <1>5 DEF ReportHolds, HomeHolds, After, IsPeriod
<1> QED BY <1>2, <1>6 DEF ReportingInv

LEMMA ReadMessagesHolds ==
  ASSUME ReportingInv, ReadMessages
  PROVE  ReportingInv'
<1>1. /\ page.stage = "charted" /\ page'.stage = "counted" /\ page'.period = page.period /\ Reads
      /\ page'.total = page.total /\ page'.failures = page.failures
      /\ page'.messages = Cardinality(Created) /\ page'.failed = Cardinality(FailedOfPage)
  BY DEF ReadMessages, Created, FailedOfPage, Counting
<1>2. RowsHold' /\ Created' = Created /\ FailedOfPage' = FailedOfPage /\ meanwhile' = meanwhile
  BY <1>1, ReadsLeave DEF ReportingInv, Reads
<1>3. IsPeriod(page.period)
  BY <1>1 DEF ReportingInv, ReportHolds, After
<1>4. Since(Deleted, page.total, Cardinality(Created)) /\ Since(Lost, page.failures, Cardinality(FailedOfPage))
  BY <1>1 DEF ReportingInv, ReportHolds, After
<1>5. /\ Since(Deleted, page.total, Cardinality(Created))' /\ Since(Lost, page.failures, Cardinality(FailedOfPage))'
      /\ Since(Deleted, page.total, page.messages)' /\ Since(Lost, page.failures, page.failed)'
      /\ Since(Deleted, page.messages, Cardinality(Created))' /\ Since(Lost, page.failed, Cardinality(FailedOfPage))'
  BY <1>1, <1>2, <1>4, CountsAreNumbers DEF Since
<1>6. ReportHolds' /\ HomeHolds'
  BY <1>1, <1>3, <1>5 DEF ReportHolds, HomeHolds, After, IsPeriod
<1> QED BY <1>2, <1>6 DEF ReportingInv

LEMMA ReadCampaignsHolds ==
  ASSUME ReportingInv, ReadCampaigns
  PROVE  ReportingInv'
<1>1. /\ page.stage = "counted" /\ page'.stage = "tiled" /\ page'.period = page.period /\ Reads
      /\ page'.total = page.total /\ page'.failures = page.failures
      /\ page'.messages = page.messages /\ page'.failed = page.failed
      /\ page'.recipients = Cardinality(Joined)
  BY DEF ReadCampaigns, Joined, JoinedIn
<1>2. /\ RowsHold' /\ Created' = Created /\ FailedOfPage' = FailedOfPage /\ Joined' = Joined
      /\ meanwhile' = meanwhile
  BY <1>1, ReadsLeave DEF ReportingInv, Reads
<1>3. /\ IsPeriod(page.period)
      /\ Since(Deleted, page.total, Cardinality(Created)) /\ Since(Lost, page.failures, Cardinality(FailedOfPage))
      /\ Since(Deleted, page.messages, Cardinality(Created)) /\ Since(Lost, page.failed, Cardinality(FailedOfPage))
      /\ Since(Deleted, page.total, page.messages) /\ Since(Lost, page.failures, page.failed)
  BY <1>1 DEF ReportingInv, ReportHolds, After
<1>4. /\ Since(Deleted, page.total, Cardinality(Created))' /\ Since(Lost, page.failures, Cardinality(FailedOfPage))'
      /\ Since(Deleted, page.messages, Cardinality(Created))' /\ Since(Lost, page.failed, Cardinality(FailedOfPage))'
      /\ Since(Deleted, page.total, page.messages)' /\ Since(Lost, page.failures, page.failed)'
      /\ Since(Unlisting, page.recipients, Cardinality(Joined))'
  BY <1>1, <1>2, <1>3, CountsAreNumbers DEF Since
<1>5. ReportHolds' /\ HomeHolds'
  BY <1>1, <1>3, <1>4 DEF ReportHolds, HomeHolds, After, IsPeriod
<1> QED BY <1>2, <1>5 DEF ReportingInv

LEMMA ReadPerformanceHolds ==
  ASSUME ReportingInv, ReadPerformance
  PROVE  ReportingInv'
<1> DEFINE rows == CampaignPerformance(page.period)
<1>1. /\ page.stage = "tiled" /\ page'.stage = "listed" /\ page'.period = page.period /\ Reads
      /\ page'.total = page.total /\ page'.failures = page.failures
      /\ page'.messages = page.messages /\ page'.failed = page.failed
      /\ page'.recipients = page.recipients
      /\ page'.listed = SumFunction([c \in DOMAIN rows |-> Total(rows[c])])
  BY DEF ReadPerformance
<1>2. /\ RowsHold' /\ Created' = Created /\ FailedOfPage' = FailedOfPage /\ Joined' = Joined
      /\ meanwhile' = meanwhile
  BY <1>1, ReadsLeave DEF ReportingInv, Reads
<1>3. /\ IsPeriod(page.period)
      /\ Since(Deleted, page.total, Cardinality(Created)) /\ Since(Lost, page.failures, Cardinality(FailedOfPage))
      /\ Since(Deleted, page.messages, Cardinality(Created)) /\ Since(Lost, page.failed, Cardinality(FailedOfPage))
      /\ Since(Deleted, page.total, page.messages) /\ Since(Lost, page.failures, page.failed)
      /\ Since(Unlisting, page.recipients, Cardinality(Joined))
  BY <1>1 DEF ReportingInv, ReportHolds, After
<1>4. page'.listed = Cardinality(Joined)
  BY <1>1, PerformanceCounts, RowsHoldTyped DEF ReportingInv, Joined
<1> HIDE DEF rows
<1>5. /\ Since(Deleted, page.total, Cardinality(Created))' /\ Since(Lost, page.failures, Cardinality(FailedOfPage))'
      /\ Since(Deleted, page.messages, Cardinality(Created))' /\ Since(Lost, page.failed, Cardinality(FailedOfPage))'
      /\ Since(Deleted, page.total, page.messages)' /\ Since(Lost, page.failures, page.failed)'
      /\ Since(Unlisting, page.recipients, Cardinality(Joined))'
  BY <1>1, <1>2, <1>3 DEF Since
<1>6. /\ Since(Unlisting, page.listed, Cardinality(Joined))'
      /\ Since(Unlisting, page.recipients, page.listed)'
  BY <1>1, <1>2, <1>3, <1>4, CountsAreNumbers DEF Since
<1>7. ReportHolds' /\ HomeHolds'
  BY <1>1, <1>3, <1>5, <1>6 DEF ReportHolds, HomeHolds, After, IsPeriod
<1> QED BY <1>2, <1>7 DEF ReportingInv

LEMMA ReadReasonsHolds ==
  ASSUME ReportingInv, ReadReasons
  PROVE  ReportingInv'
<1> DEFINE reasons == FailureReasons(page.period, ReasonLimit)
<1>1. /\ page.stage = "listed" /\ page'.stage = "shown" /\ page'.period = page.period /\ Reads
      /\ page'.total = page.total /\ page'.failures = page.failures
      /\ page'.messages = page.messages /\ page'.failed = page.failed
      /\ page'.recipients = page.recipients /\ page'.listed = page.listed
      /\ page'.reasons = SumFunction(reasons)
      /\ page'.complete <=> Cardinality(DOMAIN reasons) < ReasonLimit
  BY DEF ReadReasons
<1>2. /\ RowsHold' /\ Created' = Created /\ FailedOfPage' = FailedOfPage /\ Joined' = Joined
      /\ meanwhile' = meanwhile
  BY <1>1, ReadsLeave DEF ReportingInv, Reads
<1>3. /\ IsPeriod(page.period)
      /\ Since(Deleted, page.total, Cardinality(Created)) /\ Since(Lost, page.failures, Cardinality(FailedOfPage))
      /\ Since(Deleted, page.messages, Cardinality(Created)) /\ Since(Lost, page.failed, Cardinality(FailedOfPage))
      /\ Since(Deleted, page.total, page.messages) /\ Since(Lost, page.failures, page.failed)
      /\ Since(Unlisting, page.recipients, Cardinality(Joined))
      /\ Since(Unlisting, page.listed, Cardinality(Joined)) /\ Since(Unlisting, page.recipients, page.listed)
  BY <1>1 DEF ReportingInv, ReportHolds, After
<1>4. page'.complete => page'.reasons = Cardinality(FailedOfPage)
  <2>1. ReasonLimit \in Nat
    BY ReportingAssumption
  <2> QED BY <1>1, <2>1, ReasonsCount DEF FailedOfPage, Created, Counting
<1> HIDE DEF reasons
<1>5. /\ Since(Deleted, page.total, Cardinality(Created))' /\ Since(Lost, page.failures, Cardinality(FailedOfPage))'
      /\ Since(Deleted, page.messages, Cardinality(Created))' /\ Since(Lost, page.failed, Cardinality(FailedOfPage))'
      /\ Since(Deleted, page.total, page.messages)' /\ Since(Lost, page.failures, page.failed)'
  BY <1>1, <1>2, <1>3 DEF Since
<1>6. /\ Since(Unlisting, page.recipients, Cardinality(Joined))'
      /\ Since(Unlisting, page.listed, Cardinality(Joined))'
      /\ Since(Unlisting, page.recipients, page.listed)'
  BY <1>1, <1>2, <1>3 DEF Since
<1>7. page'.complete => Since(Lost, page.failed, page.reasons)'
  BY <1>1, <1>2, <1>3, <1>4, CountsAreNumbers DEF Since
<1>8. ReportHolds' /\ HomeHolds'
  BY <1>1, <1>3, <1>5, <1>6, <1>7 DEF ReportHolds, HomeHolds, After, IsPeriod
<1> QED BY <1>2, <1>8 DEF ReportingInv

\* HomeView, from the tiles to the lists.
LEMMA OpenHomeHolds ==
  ASSUME ReportingInv, OpenHome
  PROVE  ReportingInv'
<1>1. page'.stage = "home" /\ page'.tiles = GlobalStats /\ Reads
  BY DEF OpenHome
<1>2. RowsHold' /\ Rows' = Rows /\ GlobalStats' = GlobalStats
  BY <1>1, ReadsLeave DEF ReportingInv
<1>3. /\ GlobalStats.total = Cardinality(Rows)
      /\ GlobalStats.total = GlobalStats.sent + GlobalStats.pending + GlobalStats.failed
      /\ GlobalStats.read <= GlobalStats.delivered /\ GlobalStats.delivered <= GlobalStats.sent
  BY TilesCount, RowsHoldTyped DEF ReportingInv
<1>4. Cardinality(Rows) \in Nat
  BY CountsAreNumbers
<1> DEFINE tiles == GlobalStats
<1>5. /\ tiles.total = tiles.sent + tiles.pending + tiles.failed
      /\ tiles.read <= tiles.delivered /\ tiles.delivered <= tiles.sent
      /\ tiles.total = Cardinality(Rows) /\ tiles.total \in Nat /\ page'.tiles = tiles
  BY <1>1, <1>3, <1>4
<1> HIDE DEF tiles
<1>6. ReportHolds' /\ HomeHolds'
  BY <1>1, <1>2, <1>5 DEF ReportHolds, HomeHolds, After, tiles
<1> QED BY <1>2, <1>6 DEF ReportingInv

LEMMA ReadHomeChartHolds ==
  ASSUME ReportingInv, ReadHomeChart
  PROVE  ReportingInv'
<1> DEFINE period == LastDays(DashboardDays)
<1>1. /\ page.stage = "home" /\ page'.stage = "homeCharted" /\ page'.tiles = page.tiles
      /\ page'.period = period /\ page'.total = Chart(period).total /\ Reads
  BY DEF ReadHomeChart, Chart
<1>2. /\ RowsHold' /\ Rows' = Rows /\ GlobalStats' = GlobalStats /\ meanwhile' = meanwhile
  BY <1>1, ReadsLeave DEF ReportingInv, Reads
<1>3. /\ page.tiles.total = page.tiles.sent + page.tiles.pending + page.tiles.failed
      /\ page.tiles.read <= page.tiles.delivered /\ page.tiles.delivered <= page.tiles.sent
      /\ page.tiles.total \in Nat
      /\ Range(meanwhile) \cap Grown = {} => Cardinality(Rows) <= page.tiles.total
      /\ meanwhile = <<>> => page.tiles = GlobalStats
  BY <1>1 DEF ReportingInv, HomeHolds, After
<1>4. IsPeriod(period) /\ period.end = today /\ today \in Nat
  <2>1. DashboardDays \in Int
    BY ReportingAssumption
  <2> QED BY <2>1, LastDaysIsPeriod DEF ReportingInv, RowsHold
<1>5. page'.total = Cardinality(CreatedIn(period))
  BY <1>1, <1>4, ChartCounts, RowsHoldTyped DEF ReportingInv
<1>6. /\ CreatedIn(period) \subseteq Rows /\ CreatedIn(period) \in SUBSET RowIds
      /\ Rows \in SUBSET RowIds
  BY DEF CreatedIn, Rows
<1>7. /\ Cardinality(CreatedIn(period)) \in Nat /\ Cardinality(Rows) \in Nat
      /\ Cardinality(CreatedIn(period)) <= Cardinality(Rows)
  BY <1>6, RowsAreFinite, FS_Subset
<1>8. period.start <= FirstDay => CreatedIn(period) = Rows
  <2>1. \A m \in Rows : row[m].day \in FirstDay .. today
    BY DEF ReportingInv, RowsHold
  <2>2. FirstDay \in Int /\ period.start \in Int
    BY <1>4, ReportingAssumption DEF IsPeriod
  <2> QED BY <1>4, <2>1, <2>2 DEF CreatedIn, Days
<1>9. GlobalStats.total = Cardinality(Rows)
  BY TilesCount, RowsHoldTyped DEF ReportingInv
<1> HIDE DEF period
<1>10. /\ Range(meanwhile) \cap Grown = {} => page'.total <= page.tiles.total
       /\ meanwhile = <<>> /\ period.start <= FirstDay => page'.total = page.tiles.total
  BY <1>3, <1>5, <1>7, <1>8, <1>9
<1>11. ReportHolds' /\ HomeHolds'
  BY <1>1, <1>2, <1>3, <1>10 DEF ReportHolds, HomeHolds, After
<1> QED BY <1>2, <1>11 DEF ReportingInv

LEMMA ReadHomeFailuresHolds ==
  ASSUME ReportingInv, ReadHomeFailures
  PROVE  ReportingInv'
<1>1. /\ page.stage = "homeCharted" /\ page'.stage = "homeListed" /\ page'.tiles = page.tiles
      /\ page'.period = page.period /\ page'.total = page.total /\ Reads
      /\ page'.listed = RecentFailures
  BY DEF ReadHomeFailures
<1>2. RowsHold' /\ Rows' = Rows /\ GlobalStats' = GlobalStats /\ meanwhile' = meanwhile
  BY <1>1, ReadsLeave DEF ReportingInv, Reads
<1>3. /\ page.tiles.total = page.tiles.sent + page.tiles.pending + page.tiles.failed
      /\ page.tiles.read <= page.tiles.delivered /\ page.tiles.delivered <= page.tiles.sent
      /\ page.tiles.total \in Nat
      /\ Range(meanwhile) \cap Grown = {} => Cardinality(Rows) <= page.tiles.total
      /\ meanwhile = <<>> => page.tiles = GlobalStats
      /\ Range(meanwhile) \cap Grown = {} => page.total <= page.tiles.total
      /\ meanwhile = <<>> /\ page.period.start <= FirstDay => page.total = page.tiles.total
  BY <1>1 DEF ReportingInv, HomeHolds, After
<1>4. GlobalStats.failed = Counting(Rows, {"failed"})
  BY TilesCount, RowsHoldTyped DEF ReportingInv
<1>5. page'.listed = Least(RecentLimit, GlobalStats.failed)
  BY <1>1, <1>4 DEF RecentFailures
<1>6. meanwhile = <<>> => page'.listed = Least(RecentLimit, page.tiles.failed)
  BY <1>3, <1>5
<1>7. ReportHolds' /\ HomeHolds'
  BY <1>1, <1>2, <1>3, <1>6 DEF ReportHolds, HomeHolds, After, Least
<1> QED BY <1>2, <1>7 DEF ReportingInv

LEMMA ReadHomeCampaignsHolds ==
  ASSUME ReportingInv, ReadHomeCampaigns
  PROVE  ReportingInv'
<1> DEFINE recent == RecentCampaigns
           sum(field) == SumFunction([c \in DOMAIN recent |-> recent[c][field]])
<1>1. /\ page.stage = "homeListed" /\ page'.stage = "homeShown" /\ page'.tiles = page.tiles
      /\ page'.period = page.period /\ page'.total = page.total /\ page'.listed = page.listed
      /\ page'.recent.messages = sum("messages") /\ page'.recent.delivered = sum("delivered")
      /\ page'.recent.failed = sum("failed") /\ Reads
  BY DEF ReadHomeCampaigns
<1>2. RowsHold' /\ Rows' = Rows /\ GlobalStats' = GlobalStats /\ meanwhile' = meanwhile
  BY <1>1, ReadsLeave DEF ReportingInv, Reads
<1>3. /\ page.tiles.total = page.tiles.sent + page.tiles.pending + page.tiles.failed
      /\ page.tiles.read <= page.tiles.delivered /\ page.tiles.delivered <= page.tiles.sent
      /\ page.tiles.total \in Nat
      /\ Range(meanwhile) \cap Grown = {} => Cardinality(Rows) <= page.tiles.total
      /\ meanwhile = <<>> => page.tiles = GlobalStats
      /\ Range(meanwhile) \cap Grown = {} => page.total <= page.tiles.total
      /\ meanwhile = <<>> /\ page.period.start <= FirstDay => page.total = page.tiles.total
      /\ meanwhile = <<>> => page.listed = Least(RecentLimit, page.tiles.failed)
  BY <1>1 DEF ReportingInv, HomeHolds, After
<1>4. /\ sum("messages") = Cardinality(Rows)
      /\ sum("delivered") = Counting(Rows, {"delivered", "read"})
      /\ sum("failed") = Counting(Rows, {"failed"})
  BY RecentCount DEF ReportingInv, RowsHold
<1>5. /\ GlobalStats.total = Cardinality(Rows)
      /\ GlobalStats.delivered = Counting(Rows, {"delivered", "read"})
      /\ GlobalStats.failed = Counting(Rows, {"failed"})
  BY TilesCount, RowsHoldTyped DEF ReportingInv
<1> HIDE DEF recent, sum
<1>6. /\ Range(meanwhile) \cap Grown = {} => page'.recent.messages <= page.tiles.total
      /\ meanwhile = <<>> =>
           /\ page'.recent.messages = page.tiles.total
           /\ page'.recent.delivered = page.tiles.delivered
           /\ page'.recent.failed = page.tiles.failed
  BY <1>1, <1>3, <1>4, <1>5
<1>7. ReportHolds' /\ HomeHolds'
  BY <1>1, <1>2, <1>3, <1>6 DEF ReportHolds, HomeHolds, After, Least
<1> QED BY <1>2, <1>7 DEF ReportingInv

LEMMA ClosePageHolds ==
  ASSUME ReportingInv, ClosePage
  PROVE  ReportingInv'
<1>1. page' = NoPage /\ meanwhile' = <<>> /\ UNCHANGED <<today, launch, request, row>> /\ Rows' = Rows
  BY DEF ClosePage, Rows
<1>2. <<>> \in Seq(Happenings)
  OBVIOUS
<1>3. RowsHold'
  <2>1. RequestsHold'
    BY <1>1, RequestsRest DEF ReportingInv, RowsHold
  <2> QED BY <1>1, <1>2, <2>1 DEF ReportingInv, RowsHold
<1>4. ReportHolds' /\ HomeHolds'
  BY <1>1 DEF ReportHolds, HomeHolds, After, NoPage
<1> QED BY <1>3, <1>4 DEF ReportingInv

\* Each action of the rows and of the page keeps the invariant.
LEMMA ReportingSteps ==
  ASSUME ReportingInv, ReportingNext
  PROVE  ReportingInv'
<1>1. ASSUME NEW r \in Requests, NEW c \in Campaigns,
             Materialize(r, c) \/ CommitLaunch(r, c) \/ LaunchFails(r, c) \/ SaveDraft(r, c)
      PROVE  ReportingInv'
  BY <1>1, MaterializeHolds, CommitLaunchHolds, LaunchFailsHolds, SaveDraftHolds
<1>2. ASSUME NEW m \in RowIds, NEW s \in Observed, Progress(m, s) \/ Overwrite(m, s)
      PROVE  ReportingInv'
  BY <1>2, ProgressHolds, OverwriteHolds
<1>3. ASSUME NEW k \in contacts, DeleteContact(k)
      PROVE  ReportingInv'
  BY <1>3, DeleteContactHolds
<1>4. ASSUME NEW asked \in Asked, OpenPage(asked)
      PROVE  ReportingInv'
  BY <1>4, OpenPageHolds
<1>5. ASSUME NEW c \in Campaigns, DeleteCampaign(c)
      PROVE  ReportingInv'
  BY <1>5, DeleteCampaignHolds
<1>6. CASE Midnight \/ ReadActivity \/ ReadMessages \/ ReadCampaigns \/ ReadPerformance \/ ReadReasons
  BY <1>6, MidnightHolds, ReadActivityHolds, ReadMessagesHolds, ReadCampaignsHolds,
     ReadPerformanceHolds, ReadReasonsHolds
<1>7. CASE OpenHome \/ ReadHomeChart \/ ReadHomeFailures \/ ReadHomeCampaigns \/ ClosePage
  BY <1>7, OpenHomeHolds, ReadHomeChartHolds, ReadHomeFailuresHolds, ReadHomeCampaignsHolds,
     ClosePageHolds
<1> QED BY <1>1, <1>2, <1>3, <1>4, <1>5, <1>6, <1>7 DEF ReportingNext

\* The first state.
LEMMA ReportingStarts ==
  ASSUME ReportingInit
  PROVE  ReportingInv
<1>1. /\ today = FirstDay /\ launch = [c \in Campaigns |-> Draft]
      /\ request = [r \in Requests |-> Loaded]
      /\ row = [m \in RowIds |-> NoRow] /\ page = NoPage /\ meanwhile = <<>>
  BY DEF ReportingInit
<1>2. Rows = {}
  BY <1>1 DEF Rows
<1>3. Draft \in CampaignValues /\ RequestsHold
  BY <1>1 DEF Draft, CampaignValues, LaunchStages, RequestsHold, Loaded
<1>4. NoRow \in RowValues /\ FirstDay \in Nat /\ <<>> \in Seq(Happenings)
  BY ReportingAssumption DEF NoRow, RowValues
<1>5. RowsHold
  BY <1>1, <1>2, <1>3, <1>4 DEF RowsHold, RowValues
<1>6. ReportHolds /\ HomeHolds
  BY <1>1 DEF ReportHolds, HomeHolds, After, NoPage
<1> QED BY <1>5, <1>6 DEF ReportingInv

-----------------------------------------------------------------------------
(* The files, and the pages as a whole *)

\* As many lines as there are things, when no line is of two of them.
LEMMA LinesCount ==
  ASSUME NEW S, IsFiniteSet(S), NEW f, \A x, y \in S : f[x] = f[y] => x = y
  PROVE  IsFiniteSet({f[x] : x \in S}) /\ Cardinality({f[x] : x \in S}) = Cardinality(S)
<1> DEFINE lines == {f[x] : x \in S}
           g == [x \in S |-> f[x]]
<1>1. g \in [S -> lines] /\ (\A x, y \in S : g[x] = g[y] => x = y)
      /\ (\A l \in lines : \E x \in S : g[x] = l)
  OBVIOUS
<1> HIDE DEF g, lines
<1>2. g \in Bijection(S, lines)
  BY <1>1 DEF Bijection, Injection, Surjection, IsInjective
<1>3. ExistsBijection(S, lines)
  BY <1>2 DEF ExistsBijection
<1>4. IsFiniteSet(lines) /\ Cardinality(lines) = Cardinality(S)
  BY <1>3, FS_Bijection
<1> QED BY <1>4 DEF lines

\* The link of a page asks for the period the page is of.
LEMMA LinkIsThePeriod ==
  ASSUME NEW p, IsPeriod(p), LengthOf(p) <= MaxPeriodDays
  PROVE  ResolvePeriod(PeriodQuery(p)) = p
<1> DEFINE asked == PeriodQuery(p)
<1>1. DOMAIN asked = {"start", "end"} /\ asked.start = p.start /\ asked.end = p.end
  BY DEF PeriodQuery
<1>2. p.start \in Int /\ p.end \in Int /\ p.start <= p.end /\ MaxPeriodDays \in Nat
  BY ReportingAssumption DEF IsPeriod
<1>3. Greatest(p.start, p.end - MaxPeriodDays + 1) = p.start
  BY <1>2 DEF Greatest, LengthOf
<1> HIDE DEF asked
<1>4. ResolvePeriod(asked) = [start |-> p.start, end |-> p.end]
  BY <1>1, <1>2, <1>3 DEF ResolvePeriod
<1> QED BY <1>4 DEF asked, IsPeriod

\* campaign_rows: a line counts what the file of its campaign has, and all of them
\* count what the page's table did.
LEMMA CampaignFileCounts ==
  ASSUME RowsTyped, NEW p
  PROVE  /\ \A r \in CampaignRows(p) :
              r.recipients = Cardinality(CampaignMessageRows(r.campaign))
         /\ SumFunction([r \in CampaignRows(p) |-> r.recipients]) = Cardinality(JoinedIn(p))
<1> DEFINE S == StartedIn(p)
           line == [c \in S |-> [campaign |-> c, recipients |-> Total(CampaignStats(c)),
                                 outcomes |-> StatsProportions(CampaignStats(c))]]
           f == [r \in CampaignRows(p) |-> r.recipients]
<1>1. CampaignRows(p) = {line[c] : c \in S}
  BY DEF CampaignRows
<1>2. \A c \in S : line[c].campaign = c /\ line[c].recipients = Total(CampaignStats(c))
  OBVIOUS
<1> HIDE DEF line
<1>3. IsFiniteSet(S)
  BY CampaignsAreFinite DEF StartedIn
<1>4. \A c, d \in S : line[c] = line[d] => c = d
  BY <1>2
<1> HIDE DEF S
<1>5. IsFiniteSet(CampaignRows(p))
  BY <1>1, <1>3, <1>4, LinesCount
<1>6. \A r \in CampaignRows(p) : /\ r.campaign \in S /\ r = line[r.campaign]
                                 /\ r.recipients = Cardinality(RowsOf(r.campaign))
  BY <1>1, <1>2, StatsCount
<1>7. DOMAIN f = CampaignRows(p) /\ \A r \in CampaignRows(p) : f[r] = Cardinality(RowsOf(r.campaign))
  BY <1>6
<1> DEFINE share == [r \in CampaignRows(p) |-> RowsOf(r.campaign)]
<1>8. \A r \in CampaignRows(p) : IsFiniteSet(share[r]) /\ f[r] = Cardinality(share[r])
  BY <1>7, RowsOfApart
<1>9. \A r, s \in CampaignRows(p) : r # s => share[r] \cap share[s] = {}
  <2>1. \A r, s \in CampaignRows(p) : r # s => r.campaign # s.campaign
    BY <1>6
  <2> QED BY <2>1, RowsOfApart
<1>10. UNION {share[r] : r \in CampaignRows(p)} = UNION {RowsOf(c) : c \in S}
  <2>1. \A c \in S : line[c] \in CampaignRows(p) /\ share[line[c]] = RowsOf(c)
    BY <1>1, <1>2
  <2>2. \A r \in CampaignRows(p) : share[r] = RowsOf(r.campaign) /\ r.campaign \in S
    BY <1>6
  <2> HIDE DEF share
  <2> QED BY <2>1, <2>2
<1>11. SumFunction(f) = Cardinality(UNION {share[r] : r \in CampaignRows(p)})
  <2> HIDE DEF f, share
  <2> QED BY <1>5, <1>7, <1>8, <1>9, SumCounts
<1>12. SumFunction(f) = Cardinality(JoinedIn(p))
  BY <1>10, <1>11, RowsOfApart DEF S
<1>13. \A r \in CampaignRows(p) : r.recipients = Cardinality(CampaignMessageRows(r.campaign))
  <2>1. \A c : RowsOf(c) \in SUBSET Rows
    BY RowsOfApart
  <2> QED BY <1>6, <2>1, FileRowsCount DEF CampaignMessageRows
<1> QED BY <1>12, <1>13

\* failure_rows, short of the limit, count every failure of the period.
LEMMA FailureFileCounts ==
  ASSUME NEW p, Cardinality(FailureRows(p)) < FileLimit
  PROVE  SumFunction([r \in FailureRows(p) |-> r.messages]) = Counting(CreatedIn(p), {"failed"})
<1> DEFINE reasons == FailureReasons(p, FileLimit)
           S == DOMAIN reasons
           line == [e \in S |-> [code |-> e, messages |-> reasons[e]]]
           f == [r \in FailureRows(p) |-> r.messages]
<1>1. FailureRows(p) = {line[e] : e \in S}
  BY DEF FailureRows
<1>2. \A e \in S : line[e].code = e /\ line[e].messages = reasons[e]
  OBVIOUS
<1>3. FileLimit \in Nat
  BY ReportingAssumption
<1>4. /\ IsFiniteSet(S) /\ \A e \in S : reasons[e] = Cardinality(FailedWith(p, e))
      /\ Cardinality(S) < FileLimit => S = Found(p)
  BY <1>3, ReasonsAre
<1> HIDE DEF line, S, reasons
<1>5. \A d, e \in S : line[d] = line[e] => d = e
  BY <1>2
<1>6. IsFiniteSet(FailureRows(p)) /\ Cardinality(FailureRows(p)) = Cardinality(S)
  BY <1>1, <1>4, <1>5, LinesCount
<1>7. S = Found(p)
  BY <1>4, <1>6
<1>8. \A r \in FailureRows(p) : /\ r.code \in S /\ r = line[r.code]
                                /\ r.messages = Cardinality(FailedWith(p, r.code))
  BY <1>1, <1>2, <1>4
<1>9. DOMAIN f = FailureRows(p)
      /\ \A r \in FailureRows(p) : f[r] = Cardinality(FailedWith(p, r.code))
  BY <1>8
<1> DEFINE share == [r \in FailureRows(p) |-> FailedWith(p, r.code)]
<1>10. \A r \in FailureRows(p) : IsFiniteSet(share[r]) /\ f[r] = Cardinality(share[r])
  BY <1>9, FailedIsFinite
<1>11. \A r, s \in FailureRows(p) : r # s => share[r] \cap share[s] = {}
  <2>1. \A r, s \in FailureRows(p) : r # s => r.code # s.code
    BY <1>8
  <2> QED BY <2>1, FoundIsEveryFailure
<1>12. UNION {share[r] : r \in FailureRows(p)} = UNION {FailedWith(p, e) : e \in S}
  <2>1. \A e \in S : line[e] \in FailureRows(p) /\ share[line[e]] = FailedWith(p, e)
    BY <1>1, <1>2
  <2>2. \A r \in FailureRows(p) : share[r] = FailedWith(p, r.code) /\ r.code \in S
    BY <1>8
  <2> HIDE DEF share
  <2> QED BY <2>1, <2>2
<1>13. SumFunction(f) = Cardinality(UNION {share[r] : r \in FailureRows(p)})
  <2> HIDE DEF f, share
  <2> QED BY <1>6, <1>9, <1>10, <1>11, SumCounts
<1> QED BY <1>7, <1>12, <1>13, FoundIsEveryFailure DEF Counting

\* The failed lines of the file of messages.
LEMMA FailedLinesCount ==
  ASSUME NEW p
  PROVE  Cardinality({r \in MessageRows(p) : r.status = "failed"}) = Counting(CreatedIn(p), {"failed"})
<1> DEFINE failed == {m \in CreatedIn(p) : row[m].status \in {"failed"}}
<1>1. {r \in MessageRows(p) : r.status = "failed"} = FileRows(failed)
  <2>1. \A r : r \in MessageRows(p)
               <=> \E m \in CreatedIn(p) : r = [message |-> m, status |-> row[m].status]
    BY DEF MessageRows, FileRows
  <2>2. \A r : r \in FileRows(failed)
               <=> \E m \in CreatedIn(p) : row[m].status = "failed"
                                           /\ r = [message |-> m, status |-> row[m].status]
    BY DEF FileRows
  <2>3. \A m : [message |-> m, status |-> row[m].status].status = row[m].status
    OBVIOUS
  <2> HIDE DEF failed
  <2> QED BY <2>1, <2>2, <2>3
<1>2. failed \in SUBSET Rows
  BY DEF CreatedIn
<1> QED BY <1>1, <1>2, FileRowsCount DEF Counting

\* What is said of the files holds of a page that was read in full,
LEMMA FilesAreSound ==
  ASSUME ReportingInv
  PROVE  FilesAddUp
<1> SUFFICES ASSUME page.stage = "shown", LengthOf(page.period) <= MaxPeriodDays
             PROVE  FilesAddUp
  BY DEF FilesAddUp
<1> DEFINE p == page.period
           files == [report \in {"campaigns", "messages", "failures"} |->
                       Download(report, PeriodQuery(p))]
           recipients == SumFunction([r \in files.campaigns |-> r.recipients])
           failures == SumFunction([r \in files.failures |-> r.messages])
<1>1. /\ IsPeriod(p) /\ Since(Deleted, page.messages, Cardinality(Created))
      /\ Since(Unlisting, page.listed, Cardinality(Joined))
  BY DEF ReportingInv, ReportHolds, After
<1>2. /\ files.campaigns = CampaignRows(p) /\ files.messages = MessageRows(p)
      /\ files.failures = FailureRows(p)
  <2>1. ResolvePeriod(PeriodQuery(p)) = p
    BY <1>1, LinkIsThePeriod
  <2> QED BY <2>1 DEF Download, Reports
<1>3. RowsTyped
  BY RowsHoldTyped DEF ReportingInv
<1> HIDE DEF files
<1>4. /\ \A r \in files.campaigns : r.recipients = Cardinality(CampaignMessageRows(r.campaign))
      /\ recipients = Cardinality(Joined)
  BY <1>2, <1>3, CampaignFileCounts DEF Joined
<1>5. Cardinality(files.failures) < FileLimit =>
        failures = Cardinality({r \in files.messages : r.status = "failed"})
  BY <1>2, FailureFileCounts, FailedLinesCount
<1>6. Cardinality(files.messages) = Cardinality(Created)
  <2>1. CreatedIn(p) \in SUBSET Rows
    BY DEF CreatedIn
  <2> QED BY <1>2, <2>1, FileRowsCount DEF MessageRows, Created
<1> HIDE DEF recipients, failures
<1>7. /\ "shrank" \notin Range(meanwhile) => Cardinality(files.messages) >= page.messages
      /\ Range(meanwhile) \cap Unlisting = {} => recipients >= page.listed
      /\ meanwhile = <<>> =>
           Cardinality(files.messages) = page.messages /\ recipients = page.listed
  BY <1>1, <1>4, <1>6 DEF Since, Deleted
<1> QED BY <1>4, <1>5, <1>7 DEF FilesAddUp, files, recipients, failures

\* and so does what is said of the page.
LEMMA PagesAreSound ==
  ASSUME ReportingInv
  PROVE  PageAddsUp
<1>1. ReportsPageAddsUp
  <2> SUFFICES ASSUME page.stage = "shown"
               PROVE  ReportsPageAddsUp
    BY DEF ReportsPageAddsUp
  <2>1. /\ Since(Deleted, page.total, page.messages) /\ Since(Lost, page.failures, page.failed)
        /\ Since(Unlisting, page.recipients, page.listed)
        /\ page.complete => Since(Lost, page.failed, page.reasons)
    BY DEF ReportingInv, ReportHolds, After
  <2> QED BY <2>1 DEF ReportsPageAddsUp, Since, Deleted, Lost
<1>2. HomeAddsUp
  <2> SUFFICES ASSUME page.stage = "homeShown" PROVE HomeAddsUp
    BY DEF HomeAddsUp
  <2> QED BY DEF ReportingInv, HomeHolds, After, HomeAddsUp, Grown
<1> QED BY <1>1, <1>2, FilesAreSound DEF PageAddsUp

\* Imports write no row that is counted here.
LEMMA ReportingHolds == Spec => []ReportingInv
<1>1. Init => ReportingInv
  BY ReportingStarts DEF Init
<1>2. ASSUME ReportingInv, UNCHANGED reportingVars PROVE ReportingInv'
  <2>1. UNCHANGED <<today, launch, request, row, page, meanwhile>> /\ Rows' = Rows
    BY <1>2 DEF reportingVars, Rows
  <2>2. RowsHold'
    BY <1>2, <2>1, RequestsRest DEF ReportingInv, RowsHold
  <2>3. ReportHolds' /\ HomeHolds'
    BY <1>2, <2>1, PageRests DEF ReportingInv
  <2> QED BY <2>2, <2>3 DEF ReportingInv
<1>3. ReportingInv /\ [Next]_vars => ReportingInv'
  <2> SUFFICES ASSUME ReportingInv, [Next]_vars PROVE ReportingInv'
    OBVIOUS
  <2>1. ReportingNext \/ UNCHANGED reportingVars
    BY DEF Next, ReportsMove, ImportMoves, vars
  <2> QED BY <1>2, <2>1, ReportingSteps
<1> QED BY <1>1, <1>3, PTL DEF Spec

\* dashboard/charts.py, stacked_column_chart over daily_activity: whatever the
\* period and the rows, a chart's columns tile its days, its bands are of every
\* message of them once, and its axis holds the tallest column; and so does a
\* campaign's bar of its messages.
THEOREM ChartsCount == Spec => []ChartCountsEveryMessage
<1>1. ReportingInv => ChartCountsEveryMessage
  <2> SUFFICES ASSUME ReportingInv, page.stage = "opened"
               PROVE  ChartCountsEveryMessage
    BY DEF ChartCountsEveryMessage
  <2>1. RowsTyped /\ IsPeriod(page.period)
    BY RowsHoldTyped DEF ReportingInv, ReportHolds, After
  <2> QED BY <2>1, ChartIsSound
<1> QED BY <1>1, ReportingHolds, PTL

\* dashboard/views.py, ReportsView and HomeView, and reports.py: the parts of a
\* page and the files it links to are queries of different moments, and the later
\* ones count what the earlier did and more, unless rows were deleted, failures
\* overwritten, or campaigns launched again or made drafts between them.
THEOREM PagesAddUp == Spec => []PageAddsUp
<1>1. ReportingInv => PageAddsUp
  BY PagesAreSound
<1> QED BY <1>1, ReportingHolds, PTL

=============================================================================
