----------------------------- MODULE MCRecording -----------------------------
(* Recording on small instances.                                           *)
EXTENDS Recording, TLC

\* Calls and the starts that wait in Dart are interchangeable.
Interchangeable == Permutations(Calls) \cup Permutations(Asyncs)
=============================================================================
