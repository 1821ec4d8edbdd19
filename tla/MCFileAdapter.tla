---------------------------- MODULE MCFileAdapter ----------------------------
EXTENDS FileAdapter, TLC

Interchangeable == Permutations(Writers)
=============================================================================
