--------------------------- MODULE MCSendPipeline ---------------------------
EXTENDS SendPipeline, TLC

Symmetry == Permutations(Messages) \union Permutations(Workers) \union Permutations(Requests)
=============================================================================
