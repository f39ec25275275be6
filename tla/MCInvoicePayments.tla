------------------------- MODULE MCInvoicePayments -------------------------
EXTENDS InvoicePayments, TLC

Symmetry == Permutations(Collectors) \union Permutations(Handlers)
=============================================================================
