--------------------------- MODULE MCMemoryAdapter ---------------------------
EXTENDS MemoryAdapter, TLC

Interchangeable == Permutations(Writers)
=============================================================================
