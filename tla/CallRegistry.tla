----------------------------- MODULE CallRegistry -----------------------------
(***************************************************************************)
(* What the engine promises about calls, whatever happens inside it: the   *)
(* entries of CALLS as its clients see them (the fields of a               *)
(* CallStateChanged event), changing one call at a time.                   *)
(*                                                                         *)
(*   - a call enters once, ringing, and never leaves;                      *)
(*   - its direction does not change;                                      *)
(*   - only its user mutes it, unmutes it and takes it off hold;           *)
(*   - a call shown as on hold has on_hold set;                            *)
(*   - once it has ended nothing about it changes.                         *)
(***************************************************************************)

CONSTANT Ids

VARIABLE book

Direction == {"Outgoing", "Incoming"}

Live(c) == book[c].state \in {"Ringing", "InCall", "OnHold"}

Init ==
  book = [c \in Ids |-> [state |-> "Absent", dir |-> "Outgoing",
                         on_hold |-> FALSE, muted |-> FALSE]]

Enter(c) ==
  /\ book[c].state = "Absent"
  /\ \E dir \in Direction :
       book' = [book EXCEPT ![c] =
         [state |-> "Ringing", dir |-> dir, on_hold |-> FALSE, muted |-> FALSE]]

\* PJSIP reports how far the call is; what the user asked for stays.
Progress(c) ==
  /\ Live(c)
  /\ \E state \in {"Ringing", "InCall"} : book' = [book EXCEPT ![c].state = state]

\* The media has stopped, or was stopped by the user.
Hold(c) ==
  /\ Live(c)
  /\ book' = [book EXCEPT ![c].state = "OnHold", ![c].on_hold = TRUE]

\* By the user.
Resume(c) ==
  /\ Live(c)
  /\ book' = [book EXCEPT ![c].state = "InCall", ![c].on_hold = FALSE]

Mute(c) ==
  /\ Live(c)
  /\ \E muted \in BOOLEAN : book' = [book EXCEPT ![c].muted = muted]

End(c) ==
  /\ Live(c)
  /\ book' = [book EXCEPT ![c].state = "Ended"]

Next ==
  \E c \in Ids : Enter(c) \/ Progress(c) \/ Hold(c) \/ Resume(c) \/ Mute(c) \/ End(c)

Spec == Init /\ [][Next]_book

=============================================================================
