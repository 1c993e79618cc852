---------------------------- MODULE MCEngineCalls ----------------------------
(***************************************************************************)
(* EngineCalls on small sets.  The slots and the threads of a run are      *)
(* model values; calls are numbered from 1 and are not interchangeable.    *)
(***************************************************************************)
EXTENDS EngineCallsRegistry, TLC

Interchangeable == Permutations(Slots) \cup Permutations(Threads)
=============================================================================
