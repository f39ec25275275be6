--------------------------- MODULE MCBillingPeriod ---------------------------
EXTENDS BillingPeriod

CONSTANTS monthly, yearly

\* A year is two months here.
Interval == [p \in Plans |-> IF p = yearly THEN 2 ELSE 1]
=============================================================================
