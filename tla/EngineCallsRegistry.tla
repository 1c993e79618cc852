-------------------------- MODULE EngineCallsRegistry --------------------------
(***************************************************************************)
(* The call table of EngineCalls, seen as a CallRegistry.                  *)
(***************************************************************************)
EXTENDS EngineCalls

\* What push_call_state shows of an entry.
Shown(call) == [state |-> call.state, dir |-> call.dir,
                on_hold |-> call.on_hold, muted |-> call.muted]

Book == [c \in CallIds |-> Shown(calls[c])]

Registry == INSTANCE CallRegistry WITH Ids <- CallIds, book <- Book

\* Threads, callbacks, late inserts and slots that come back: the table the
\* clients see keeps the promises of CallRegistry, as long as clients forget
\* the calls that have ended (cmd_call_hold and cmd_call_mute change whatever
\* entry they are given).
ImplementsRegistry == Registry!Spec

=============================================================================
