--------------------------- MODULE MCStatusReports ---------------------------
EXTENDS StatusReports, TLC

CONSTANTS m1, m2

Report(m, s, t) == [msg |-> m, status |-> s, stamp |-> t]

\* One message: single reports, a batch in order, an undated report.
OneMessage ==
  {<<Report(m1, "delivered", 1)>>, <<Report(m1, "delivered", 1), Report(m1, "read", 2)>>,
   <<Report(m1, "failed", 3)>>, <<Report(m1, "read", NoStamp)>>}

\* Two messages of one campaign; the reports of one may overtake each other.
TwoMessages ==
  {<<Report(m1, "delivered", 1)>>, <<Report(m2, "read", NoStamp), Report(m1, "read", 2)>>}

Symmetry == Permutations(Handlers) \union Permutations(Events)
=============================================================================
