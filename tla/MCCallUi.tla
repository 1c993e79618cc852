------------------------------- MODULE MCCallUi -------------------------------
EXTENDS CallUi, TLC

Interchangeable == Permutations(Slots)

===============================================================================
