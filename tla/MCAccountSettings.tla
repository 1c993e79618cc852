-------------------------- MODULE MCAccountSettings --------------------------
(* AccountSettings on small instances.                                     *)
EXTENDS AccountSettings, TLC

\* Accounts and threads are interchangeable; pjsua slots are not, since the
\* first free one is taken.
Interchangeable == Permutations(Accounts) \cup Permutations(Threads)

\* Commands overlap only where there has been no setting and no result.
Bound ==
  overlapped' =>
    /\ missed' = {} /\ report' = NoReport
    /\ \A a \in Accounts : shown'[a] \in {"Unregistered", "Registering"}
    /\ \A p \in PjIds : setting'[p] = NoAccount
    /\ \A s \in Setters : pending'[s] = NoWrite
==============================================================================
