------------------------------ MODULE MCFigures ------------------------------
EXTENDS Figures

CONSTANTS c1, c2, k1, k2, r1, r2

\* A request is nothing but which one it is.
SameRequests == Permutations(Requests)

Lists == (c1 :> {k1, k2}) @@ (c2 :> {k1})

Codes == (k1 :> 1) @@ (k2 :> 2)

\* A preset that is clamped, none, a range with one end that is longer than is
\* allowed, one that reaches back before the first date, and a reversed one
\* (which is the default).  The links of a page ask for a range with both ends.
Queries ==
  {[days |-> 9], [none |-> TRUE], [start |-> 3], [end |-> 2], [start |-> 7, end |-> 6]}

\* "a" and "a2" spell one number.
Parsed == ("a" :> "n1") @@ ("a2" :> "n1") @@ ("b" :> "n2") @@ ("x" :> "bad")

Cells(name, phone, consent) ==
  [name |-> name, phone |-> phone, consent |-> consent, unnamed |-> "1"]

Kinds ==
  {Cells("n", "a", "yes"), Cells("n", "a2", "no"), Cells("n", "b", "yes"), Cells("n", "x", "yes"),
   Cells("", "a", "yes"),
   [name |-> "", phone |-> "", consent |-> "", unnamed |-> ""]}

Columns ==
  {{"name", "phone", "consent"}, {"name", "phone", "unnamed"}, {"name", "phone"},
   {"name", "consent"}}

\* The bands of a column are made of every status, each once, and the axis fits
\* whatever the tallest column holds.
ASSUME BandsPartition ==
  \A s \in MessageStatus :
    Cardinality({band \in Bands : \E b \in Series[band] : s \in BucketStatuses[b]}) = 1

ASSUME AxisFits ==
  \A n \in 1 .. 2000 : n <= AxisTop(n) /\ AxisTop(n) <= 2 * n
=============================================================================
