----------------------------- MODULE MCAudience -----------------------------
EXTENDS Audience, TLC

CONSTANTS k1, k2, o1, o2, g1, g2

\* One contact in each of two organizations; two groups of the first.
Homes == (k1 :> o1) @@ (k2 :> o2)
Lists == [g \in Groups |-> IF g = g1 THEN o1 ELSE o2]

Twins == Permutations(Requests)
=============================================================================
