---------------------- MODULE EngineCallsHistoryProofs ----------------------
(***************************************************************************)
(* What the call table remembers: a call that has been reported as ended   *)
(* stays ended, only the user takes a call off hold, a muted call has no   *)
(* microphone, and every step changes the table as one operation of        *)
(* CallRegistry, or not at all.  All rest on the routing invariant of      *)
(* EngineCallsProofs and on a list of all the ways in which a step can     *)
(* change CALLS.                                                           *)
(***************************************************************************)
EXTENDS EngineCallsLiveProofs, EngineCallsRegistry

\* A callback about slot p.
StateReported ==
  \E p \in Slots, own \in CallIds \cup {NoCall},
     new \in {"Ringing", "InCall", "Ended"} : OnCallState(p, own, new)

MediaStateReported ==
  \E p \in Slots, own \in CallIds \cup {NoCall}, active \in BOOLEAN :
    OnCallMedia(p, own, active)

\* A new call enters the table.
CallEntered ==
  /\ \E c \in CallIds \ Known, dir \in Direction, p \in Slots :
       c \notin ended /\ calls' = [calls EXCEPT ![c] = NewCall(dir, p)]
  /\ UNCHANGED ended

\* A client holds or mutes one of the calls it may name.
CallSet ==
  /\ \E t \in Threads, c \in Named, on \in BOOLEAN :
       CallHold(t, c, on) \/ CallMute(t, c, on)
  /\ UNCHANGED ended

TableChange ==
  \/ UNCHANGED <<calls, ended>>
  \/ StateReported
  \/ MediaStateReported
  \/ CallEntered
  \/ CallSet

-----------------------------------------------------------------------------
(* Every step is one of these. *)

LEMMA ThreadStepChange ==
  ASSUME IInv, NEW t \in Threads, ThreadStep(t)
  PROVE  TableChange
<1>1. /\ cmd[t] \in Command
      /\ cmd[t].op # "idle" => cmd[t].slot \in Slots
  BY DEF IInv, TypeOK, HoldsSlot
<1>2. \A p \in Slots : sess[p].own \in CallIds \cup {NoCall}
  BY DEF IInv, TypeOK, Session
<1>3. CASE CallsInsert(t)
  <2>1. /\ cmd[t].call \in CallIds \ Known
        /\ cmd[t].call \notin ended
        /\ cmd[t].slot \in Slots
    BY <1>1, <1>3 DEF CallsInsert, IInv, HoldsNewCall, Starting
  <2> QED
    BY <1>3, <2>1 DEF CallsInsert, TableChange, CallEntered, Direction
<1>4. CASE MapInsert(t)
  BY <1>4 DEF MapInsert, TableChange
<1>5. CASE PjAnswer(t)
  BY <1>1, <1>2, <1>5 DEF PjAnswer, TableChange, StateReported, table
<1>6. CASE AnswerSent(t)
  BY <1>1, <1>2, <1>6 DEF AnswerSent, TableChange, StateReported, table
<1>7. CASE PjHangup(t)
  BY <1>7 DEF PjHangup, TableChange, table
<1>8. CASE HangupReported(t)
  BY <1>1, <1>2, <1>8 DEF HangupReported, TableChange, StateReported
<1>9. CASE PjHold(t)
  BY <1>9 DEF PjHold, TableChange, table
<1>10. CASE PjMute(t)
  BY <1>10 DEF PjMute, TableChange, table
<1>11. CASE PjStartAttendedXfer(t)
  BY <1>11 DEF PjStartAttendedXfer, TableChange, StateReported, table
<1>12. CASE PjMergeConference(t)
  BY <1>12 DEF PjMergeConference, TableChange, table
<1>13. CASE LogFailure(t)
  BY <1>13 DEF LogFailure, TableChange, table
<1> QED
  BY <1>3, <1>4, <1>5, <1>6, <1>7, <1>8, <1>9, <1>10, <1>11, <1>12, <1>13
     DEF ThreadStep

LEMMA NewCommandChange ==
  ASSUME IInv, NEW t \in Threads, NewCommand(t)
  PROVE  TableChange
<1>1. CASE CallStart(t)
  BY <1>1 DEF CallStart, CallMade, TableChange, StateReported, table
<1>2. CASE SetGlobalDnd(t)
  BY <1>2 DEF SetGlobalDnd, TableChange, table
<1>3. ASSUME NEW c \in Named, NEW b \in Named,
             \/ CallAnswer(t, c)
             \/ CallHangup(t, c)
             \/ StartAttendedXfer(t, c)
             \/ CompleteXfer(t, c, b)
             \/ MergeConference(t, c, b)
      PROVE  TableChange
  BY <1>3 DEF CallAnswer, CallHangup, StartAttendedXfer, CompleteXfer,
              MergeConference, TableChange, table
<1>4. ASSUME NEW c \in Named, NEW on \in BOOLEAN,
             CallHold(t, c, on) \/ CallMute(t, c, on)
      PROVE  TableChange
  <2>1. UNCHANGED ended
    BY <1>4 DEF CallHold, CallMute
  <2> QED
    BY <1>4, <2>1 DEF TableChange, CallSet
<1> QED
  BY <1>1, <1>2, <1>3, <1>4 DEF NewCommand

LEMMA WorkerStepChange ==
  ASSUME IInv, NEW p \in Slots, WorkerStep(p)
  PROVE  TableChange
<1>1. sess[p].own \in CallIds \cup {NoCall} /\ NoCall \in CallIds \cup {NoCall}
  BY DEF IInv, TypeOK, Session
<1>2. ASSUME NEW own \in CallIds \cup {NoCall},
             NEW new \in {"Ringing", "InCall", "Ended"}, OnCallState(p, own, new)
      PROVE  TableChange
  BY <1>2 DEF TableChange, StateReported
<1>4. CASE IncomingRejected(p)
  BY <1>1, <1>2, <1>4 DEF IncomingRejected
<1>5. CASE \/ IncomingUnknownAccount(p) \/ EarlyMedia(p) \/ AcceptedMedia(p)
           \/ ReinviteAnswered(p) \/ ReinviteRefused(p) \/ RemoteReinvite(p)
           \/ RemoteAck(p) \/ SlotFreed(p)
  BY <1>5 DEF IncomingUnknownAccount, EarlyMedia, AcceptedMedia, ReinviteAnswered,
              ReinviteRefused, RemoteReinvite, RemoteAck, SlotFreed, TableChange, table
<1>6. CASE IncomingCall(p)
  <2>1. nextId \in CallIds \ Known /\ nextId \notin ended
    BY <1>6 DEF IncomingCall, IInv, FreshIds, CallIds
  <2> QED
    BY <1>6, <2>1 DEF IncomingCall, TableChange, CallEntered, Direction
<1>7. CASE Early(p)
  BY <1>1, <1>2, <1>7 DEF Early
<1>8. CASE MediaReport(p)
  <2>1. sess[p].active \in BOOLEAN
    BY DEF IInv, TypeOK, Session
  <2> QED
    BY <1>1, <1>8, <2>1 DEF MediaReport, TableChange, MediaStateReported
<1>9. CASE Accepted(p)
  BY <1>1, <1>2, <1>9 DEF Accepted
<1>11. CASE Confirmed(p)
  BY <1>1, <1>2, <1>11 DEF Confirmed
<1>14. CASE RemoteEnd(p)
  BY <1>1, <1>2, <1>14 DEF RemoteEnd
<1> QED
  BY <1>4, <1>5, <1>6, <1>7, <1>8, <1>9, <1>11, <1>14 DEF WorkerStep

LEMMA EveryStepChange ==
  ASSUME IInv, [Next]_vars
  PROVE  TableChange
<1>1. CASE UNCHANGED vars
  BY <1>1 DEF vars, TableChange
<1>2. CASE Next
  BY <1>2, ThreadStepChange, NewCommandChange, WorkerStepChange DEF Next
<1> QED
  BY <1>1, <1>2

-----------------------------------------------------------------------------
(* Ended is final *)

LEMMA EndedStaysStep ==
  ASSUME IInv, EndedStays, TableChange
  PROVE  EndedStays'
<1> SUFFICES ASSUME ~StaleIds, NEW c \in ended'
             PROVE  calls'[c].state = "Ended"
  BY DEF EndedStays
<1>1. /\ calls \in [CallIds -> Call] /\ ended \subseteq CallIds
      /\ \A d \in ended : calls[d].state = "Ended"
  BY DEF IInv, TypeOK, EndedStays
\* The call a slot belongs to has not ended: its callbacks reach no other.
<1>2. \A p \in Slots : pjMap[p] # NoCall => pjMap[p] \in CallIds \ ended
  BY DEF IInv, RoutesToItsSlot, Known
<1>3. CASE UNCHANGED <<calls, ended>>
  BY <1>1, <1>3
<1>4. CASE StateReported
  <2> PICK p \in Slots, own \in CallIds \cup {NoCall},
           new \in {"Ringing", "InCall", "Ended"} : OnCallState(p, own, new)
    BY <1>4 DEF StateReported
  <2>1. CASE c \in ended
    BY <1>1, <1>2, <2>1 DEF OnCallState
  <2>2. CASE c \notin ended
    <3>1. c = pjMap[p] /\ pjMap[p] # NoCall /\ new = "Ended"
      BY <2>2 DEF OnCallState
    <3>2. calls' = [calls EXCEPT ![c] = Reported(calls[c], new)]
      BY <3>1 DEF OnCallState
    <3>3. c \in CallIds /\ Reported(calls[c], new).state = "Ended"
      BY <1>1, <1>2, <3>1, ReportedType DEF CallState
    <3> QED
      BY <1>1, <3>2, <3>3
  <2> QED
    BY <2>1, <2>2
<1>5. CASE MediaStateReported
  BY <1>1, <1>2, <1>5 DEF MediaStateReported, OnCallMedia
<1>6. CASE CallEntered
  BY <1>1, <1>6 DEF CallEntered
<1>7. CASE CallSet
  <2> PICK t \in Threads, d \in Named, on \in BOOLEAN :
             CallHold(t, d, on) \/ CallMute(t, d, on)
    BY <1>7 DEF CallSet
  <2>1. c \in ended /\ d \in CallIds /\ calls[d].state # "Ended"
    BY <1>7 DEF CallSet, Named, Known
  <2>2. c # d /\ calls[c].state = "Ended"
    BY <1>1, <2>1
  <2> QED
    BY <1>1, <2>1, <2>2 DEF CallHold, CallMute
<1> QED
  BY <1>3, <1>4, <1>5, <1>6, <1>7 DEF TableChange

\* No callback brings a call back that has been reported as ended
\* (pjsip_on_call_state, pjsip_on_call_media, the inserts of cmd_call_start),
\* for clients that do not name calls that have ended.
THEOREM EndedIsFinal == Spec => []EndedStays
<1>1. Init => EndedStays
  BY DEF Init, EndedStays
<1>2. IInv /\ EndedStays /\ [Next]_vars => EndedStays'
  BY EveryStepChange, EndedStaysStep
<1> QED
  BY <1>1, <1>2, Inductive, PTL DEF Spec

-----------------------------------------------------------------------------
(* Hold is the user's *)

\* Where the table has no entry nothing is on hold.
AbsentFree == \A c \in CallIds \ Known : ~calls[c].on_hold

LEMMA AbsentFreeStep ==
  ASSUME IInv, AbsentFree, TableChange
  PROVE  AbsentFree'
<1> SUFFICES ASSUME NEW c \in CallIds, calls'[c].state = "Absent"
             PROVE  ~calls'[c].on_hold
  BY DEF AbsentFree, Known
<1>1. /\ calls \in [CallIds -> Call]
      /\ calls[c].state = "Absent" => ~calls[c].on_hold
  BY DEF IInv, TypeOK, AbsentFree, Known
<1>2. \A p \in Slots : pjMap[p] # NoCall => pjMap[p] \in Known
  BY DEF IInv, RoutesToItsSlot
<1>3. CASE UNCHANGED <<calls, ended>>
  BY <1>1, <1>3
<1>4. CASE StateReported
  BY <1>1, <1>2, <1>4 DEF StateReported, OnCallState, Reported, Known, Call
<1>5. CASE MediaStateReported
  BY <1>1, <1>2, <1>5 DEF MediaStateReported, OnCallMedia, MediaReported, Known, Call
<1>6. CASE CallEntered
  BY <1>1, <1>6 DEF CallEntered, NewCall
<1>7. CASE CallSet
  BY <1>1, <1>7 DEF CallSet, CallHold, CallMute, Named, Known, Call
<1> QED
  BY <1>3, <1>4, <1>5, <1>6, <1>7 DEF TableChange

\* A thread that had nothing to do takes call c off hold.
Unholds(c) == \E t \in Threads : cmd[t] = Idle /\ cmd'[t].op = "unhold"
                                 /\ cmd'[t].call = c

\* The two callbacks never clear on_hold.
LEMMA CallbacksKeepHold ==
  ASSUME NEW call \in Call, call.on_hold
  PROVE  /\ \A new : Reported(call, new).on_hold
         /\ \A active : MediaReported(call, active).on_hold
  BY DEF Reported, MediaReported, Call

LEMMA StickyHoldStep ==
  ASSUME IInv, AbsentFree, TableChange,
         NEW c \in CallIds, calls[c].on_hold, ~calls'[c].on_hold
  PROVE  Unholds(c)
<1>1. calls \in [CallIds -> Call] /\ cmd \in [Threads -> Command] /\ c \in Known
  BY DEF IInv, TypeOK, AbsentFree
<1>2. \A p \in Slots : pjMap[p] # NoCall => pjMap[p] \in CallIds
  BY DEF IInv, RoutesToItsSlot, Known
<1>3. ~UNCHANGED <<calls, ended>>
  OBVIOUS
<1>4. ~StateReported
  BY <1>1, <1>2, CallbacksKeepHold DEF StateReported, OnCallState
<1>5. ~MediaStateReported
  BY <1>1, <1>2, CallbacksKeepHold DEF MediaStateReported, OnCallMedia
<1>6. ~CallEntered
  BY <1>1 DEF CallEntered
<1>7. CASE CallSet
  <2> PICK t \in Threads, d \in Named, on \in BOOLEAN :
             CallHold(t, d, on) \/ CallMute(t, d, on)
    BY <1>7 DEF CallSet
  <2>1. d \in CallIds
    BY DEF Named, Known
  <2>2. ~CallMute(t, d, on)
    BY <1>1, <2>1 DEF CallMute, Call
  <2>3. CallHold(t, d, on) /\ c = d /\ ~on
    BY <1>1, <2>1, <2>2 DEF CallHold, Call
  <2>4. cmd[t] = Idle /\ cmd' = [cmd EXCEPT ![t] = Doing("unhold", c, calls[c].pj)]
    BY <2>3 DEF CallHold, Accepts
  <2> QED
    BY <1>1, <2>4 DEF Unholds, Doing
<1> QED
  BY <1>3, <1>4, <1>5, <1>6, <1>7 DEF TableChange

\* Whatever the callbacks report, a call the user has put on hold is taken off
\* hold by CallHold(false) and by nothing else (cmd_call_hold,
\* pjsip_on_call_media).
THEOREM OnlyTheUserUnholds == Spec => StickyHold
<1>1. Init => AbsentFree
  BY DEF Init, AbsentFree, Absent, NewCall
<1>2. IInv /\ AbsentFree /\ [Next]_vars => AbsentFree'
  BY EveryStepChange, AbsentFreeStep
<1>3. IInv /\ AbsentFree /\ [Next]_vars
        => [\A c \in CallIds :
              calls[c].on_hold /\ ~calls'[c].on_hold =>
                \E t \in Threads : cmd[t] = Idle /\ cmd'[t].op = "unhold"
                                   /\ cmd'[t].call = c]_vars
  BY EveryStepChange, StickyHoldStep DEF Unholds
<1> QED
  BY <1>1, <1>2, <1>3, Inductive, PTL DEF Spec, StickyHold

-----------------------------------------------------------------------------
(* A muted call stays muted *)

\* Only one command is under way at a time, as when no client uses the pipe.
OneThread == \A t, u \in Threads : t = u

\* The call a slot is routed to is shown as muted, and no other call that has
\* not ended has the slot.
Muted(p) == pjMap[p] # NoCall /\ calls[pjMap[p]].muted
Alone(p) ==
  \A d \in Known \ {pjMap[p]} : calls[d].pj = p => calls[d].state = "Ended"

\* A muted call sends outside its media callbacks only while the mute is under
\* way, and no unmute is under way.
MuteUnderWay ==
  \A p \in Slots :
    Muted(p) /\ Alone(p) =>
      /\ Sends(sess[p]) => \E t \in Threads : cmd[t].op = "mute" /\ cmd[t].slot = p
      /\ \A t \in Threads : cmd[t].op = "unmute" => cmd[t].slot # p

\* A call nobody can name yet is not muted.
EnteredUnmuted ==
  \A t \in Threads : cmd[t].op = "inserted" => ~calls[cmd[t].call].muted

NoMerge == \A t \in Threads : cmd[t].op # "merge"

\* A call becomes muted only by a command that names it.
LEMMA MutedChange ==
  ASSUME IInv, TableChange, NEW c \in CallIds, calls'[c].muted, ~calls[c].muted
  PROVE  \E t \in Threads : c \in Named /\ CallMute(t, c, TRUE)
<1>1. calls \in [CallIds -> Call] /\ CallIds \subseteq Nat \ {NoCall}
      /\ \A p \in Slots : pjMap[p] \in CallIds \cup {NoCall}
  BY CallsAssumption DEF IInv, TypeOK, CallIds, NoCall
<1>2. CASE UNCHANGED calls
  BY <1>2
<1>3. ASSUME NEW p \in Slots, NEW own, NEW new, OnCallState(p, own, new) PROVE FALSE
  BY <1>1, <1>3 DEF OnCallState, Reported, Call
<1>4. ASSUME NEW p \in Slots, NEW own, NEW active \in BOOLEAN, OnCallMedia(p, own, active)
      PROVE  FALSE
  <2>1. \A d \in CallIds : MediaReported(calls[d], active).muted = calls[d].muted
    BY <1>1 DEF MediaReported, Call
  <2> QED
    BY <1>1, <1>4, <2>1 DEF OnCallMedia
<1>5. ~CallEntered
  BY <1>1 DEF CallEntered, NewCall
<1>6. ASSUME NEW t \in Threads, NEW d \in Named, NEW on \in BOOLEAN, CallHold(t, d, on)
      PROVE  FALSE
  BY <1>1, <1>6 DEF CallHold, Call, Named, Known
<1>7. ASSUME NEW t \in Threads, NEW d \in Named, NEW on \in BOOLEAN, CallMute(t, d, on)
      PROVE  \E u \in Threads : c \in Named /\ CallMute(u, c, TRUE)
  <2>1. d = c /\ on
    BY <1>1, <1>7 DEF CallMute, Call, Named, Known
  <2> QED
    BY <1>7, <2>1
<1> QED
  BY <1>2, <1>3, <1>4, <1>5, <1>6, <1>7
     DEF TableChange, StateReported, MediaStateReported, CallSet

\* A call keeps its slot, and one that ends leaves the map at once.
LEMMA EndedChange ==
  ASSUME IInv, TableChange, NEW d \in Known
  PROVE  /\ d \in Known' /\ calls'[d].pj = calls[d].pj
         /\ calls'[d].state = "Ended" /\ calls[d].state # "Ended" =>
              pjMap[calls[d].pj] = d /\ pjMap'[calls[d].pj] = NoCall
<1>1. /\ calls \in [CallIds -> Call] /\ CallIds \subseteq Nat \ {NoCall}
      /\ d \in CallIds /\ calls[d] \in Call
      /\ pjMap \in [Slots -> CallIds \cup {NoCall}]
  BY CallsAssumption DEF IInv, TypeOK, CallIds, NoCall, Known
<1>2. CASE UNCHANGED calls
  BY <1>1, <1>2 DEF Known
<1>3. ASSUME NEW p \in Slots, NEW own, NEW new \in {"Ringing", "InCall", "Ended"},
             OnCallState(p, own, new)
      PROVE  /\ d \in Known' /\ calls'[d].pj = calls[d].pj
             /\ calls'[d].state = "Ended" /\ calls[d].state # "Ended" =>
                  pjMap[calls[d].pj] = d /\ pjMap'[calls[d].pj] = NoCall
  <2>1. CASE pjMap[p] # d
    <3>1. calls'[d] = calls[d]
      BY <1>1, <1>3, <2>1 DEF OnCallState
    <3> QED
      BY <1>1, <3>1 DEF Known
  <2>2. CASE pjMap[p] = d
    <3>1. calls' = [calls EXCEPT ![d] = Reported(calls[d], new)]
      BY <1>1, <1>3, <2>2 DEF OnCallState
    <3>2. /\ Reported(calls[d], new).pj = calls[d].pj
          /\ Reported(calls[d], new).state = new
      BY <1>1, ReportedType DEF CallState
    <3>3. calls[d].pj = p
      BY <1>1, <2>2 DEF IInv, RoutesToItsSlot
    <3>4. new = "Ended" => pjMap'[p] = NoCall
      BY <1>1, <1>3 DEF OnCallState, Unrouted
    <3> QED
      BY <1>1, <2>2, <3>1, <3>2, <3>3, <3>4 DEF Known
  <2> QED
    BY <2>1, <2>2
<1>4. ASSUME NEW p \in Slots, NEW own, NEW active \in BOOLEAN, OnCallMedia(p, own, active)
      PROVE  /\ d \in Known' /\ calls'[d].pj = calls[d].pj
             /\ calls'[d].state = "Ended" => calls[d].state = "Ended"
  <2>1. /\ MediaReported(calls[d], active).pj = calls[d].pj
        /\ MediaReported(calls[d], active).state \in {"InCall", "OnHold"}
    BY <1>1, MediaReportedType
  <2>2. calls'[d] \in {calls[d], MediaReported(calls[d], active)}
    BY <1>1, <1>4 DEF OnCallMedia
  <2> QED
    BY <1>1, <2>1, <2>2 DEF Known
<1>5. CASE CallEntered
  <2>1. calls'[d] = calls[d]
    BY <1>1, <1>5 DEF CallEntered, Known
  <2> QED
    BY <1>1, <2>1 DEF Known
<1>6. ASSUME NEW t \in Threads, NEW c \in Named, NEW on \in BOOLEAN,
             CallHold(t, c, on) \/ CallMute(t, c, on)
      PROVE  /\ d \in Known' /\ calls'[d].pj = calls[d].pj
             /\ calls'[d].state = "Ended" => calls[d].state = "Ended"
  <2>1. /\ calls'[d].pj = calls[d].pj
        /\ calls'[d].state \in {calls[d].state, "InCall", "OnHold"}
    BY <1>1, <1>6 DEF CallHold, CallMute, Call, Named, Known
  <2> QED
    BY <1>1, <2>1 DEF Known
<1> QED
  BY <1>2, <1>3, <1>4, <1>5, <1>6
     DEF TableChange, StateReported, MediaStateReported, CallSet

\* The map is extended only where a call is entered.
LEMMA MapChange ==
  ASSUME IInv, StepKind, NEW p \in Slots, pjMap'[p] \notin {pjMap[p], NoCall}
  PROVE  \/ \E t \in Threads : MapInsert(t) /\ cmd[t].slot = p
         \/ IncomingCall(p)
<1>1. pjMap \in [Slots -> CallIds \cup {NoCall}]
  BY DEF IInv, TypeOK
<1>2. ~UNCHANGED pjMap /\ ~\E q \in Slots : pjMap' = [pjMap EXCEPT ![q] = NoCall]
  BY <1>1
<1>3. ~QuietStep /\ ~LostId
  BY <1>2 DEF QuietStep, LostId
<1>4. ASSUME NEW q \in Slots
      PROVE  /\ ~CallbackStep(q) /\ ~FreeStep(q) /\ ~IncomingUnknownAccount(q)
             /\ ~EndStep(q)
             /\ IncomingCall(q) => q = p
             /\ \A t \in Threads : ~HangupStep(t, q) /\ ~MadeStep(t, q)
  <2>1. ~CallbackStep(q) /\ ~FreeStep(q) /\ ~IncomingUnknownAccount(q)
    BY <1>2 DEF CallbackStep, FreeStep, IncomingUnknownAccount, table
  <2>2. ~EndStep(q)
    BY <1>2 DEF EndStep
  <2>3. IncomingCall(q) => q = p
    BY <1>1 DEF IncomingCall
  <2>4. \A t \in Threads : ~HangupStep(t, q) /\ ~MadeStep(t, q)
    BY <1>2 DEF HangupStep, MadeStep
  <2> QED
    BY <2>1, <2>2, <2>3, <2>4
<1>5. ASSUME NEW t \in Threads
      PROVE  ~CallsInsert(t) /\ (MapInsert(t) => cmd[t].slot = p)
  <2>1. ~CallsInsert(t)
    BY <1>2 DEF CallsInsert
  <2>2. MapInsert(t) => cmd[t].slot = p
    BY <1>1 DEF MapInsert
  <2> QED
    BY <2>1, <2>2
<1> QED
  BY <1>3, <1>4, <1>5 DEF StepKind

\* The only way out of a mute, the only way into an unmute, no way into a
\* merge.
LEMMA MuteCommands ==
  ASSUME IInv, [Next]_vars, NEW u \in Threads
  PROVE  /\ cmd[u].op = "mute" => cmd'[u] = cmd[u] \/ PjMute(u)
         /\ cmd'[u].op = "unmute" =>
              cmd'[u] = cmd[u] \/ \E c \in Named : CallMute(u, c, FALSE)
         /\ cmd'[u].op = "merge" => cmd'[u] = cmd[u] \/ "merge" \in Ops
         /\ cmd'[u].op = "inserted" => cmd'[u] = cmd[u] \/ CallsInsert(u)
<1> DEFINE Goal ==
      /\ cmd[u].op = "mute" => cmd'[u] = cmd[u] \/ PjMute(u)
      /\ cmd'[u].op = "unmute" =>
           cmd'[u] = cmd[u] \/ \E c \in Named : CallMute(u, c, FALSE)
      /\ cmd'[u].op = "merge" => cmd'[u] = cmd[u] \/ "merge" \in Ops
      /\ cmd'[u].op = "inserted" => cmd'[u] = cmd[u] \/ CallsInsert(u)
<1>1. cmd \in [Threads -> Command]
  BY DEF IInv, TypeOK
<1>2. CASE UNCHANGED cmd
  BY <1>2
<1>3. \A t \in Threads : Idle.op = "idle" /\ (cmd[t] = Idle => cmd[t].op = "idle")
  BY DEF Idle, Doing
<1>4. ASSUME NEW t \in Threads, NEW op \in Steps \ {"merge", "unmute", "inserted"},
             cmd[t].op # "mute", NEW k, k.op = op, cmd' = [cmd EXCEPT ![t] = k]
      PROVE  Goal
  BY <1>1, <1>4
<1>5. ASSUME NEW t \in Threads, ThreadStep(t) PROVE Goal
  <2>1. CASE CallsInsert(t)
    BY <1>1, <2>1 DEF CallsInsert, Continue, Command
  <2>2. CASE PjMute(t)
    BY <1>1, <1>3, <2>2 DEF PjMute, Finish
  <2>3. CASE Finish(t) /\ cmd[t].op # "mute"
    BY <1>3, <1>4, <2>3 DEF Finish, Steps
  <2>4. ASSUME NEW op \in {"answering", "report", "failed"}, Continue(t, op),
               cmd[t].op # "mute"
        PROVE  Goal
    <3>1. cmd' = [cmd EXCEPT ![t] = [cmd[t] EXCEPT !.op = op]]
      BY <2>4 DEF Continue
    <3>2. [cmd[t] EXCEPT !.op = op].op = op
      BY <1>1 DEF Command
    <3> QED
      BY <1>4, <2>4, <3>1, <3>2 DEF Steps
  <2>5. ASSUME NEW q, cmd' = [cmd EXCEPT ![t] = Doing("made", nextId, q)],
               cmd[t].op # "mute"
        PROVE  Goal
    <3>1. Doing("made", nextId, q).op = "made"
      BY DEF Doing
    <3> QED
      BY <1>4, <2>5, <3>1 DEF Steps
  <2>6. CASE PjAnswer(t)
    BY <2>3, <2>4, <2>6 DEF PjAnswer, PjFails
  <2>7. CASE PjHangup(t)
    BY <2>3, <2>4, <2>7 DEF PjHangup, PjFails
  <2>8. CASE PjStartAttendedXfer(t)
    BY <2>3, <2>5, <2>8 DEF PjStartAttendedXfer
  <2>9. CASE \/ MapInsert(t) \/ LogFailure(t) \/ HangupReported(t) \/ PjHold(t)
             \/ PjMergeConference(t)
    BY <2>3, <2>9 DEF MapInsert, LogFailure, HangupReported, PjHold, PjMergeConference
  <2>10. CASE AnswerSent(t)
    BY <2>3, <2>4, <2>10 DEF AnswerSent, PjFails
  <2> QED
    BY <1>5, <2>1, <2>2, <2>6, <2>7, <2>8, <2>9, <2>10 DEF ThreadStep
<1>6. ASSUME NEW t \in Threads, NewCommand(t) PROVE Goal
  <2>1. ASSUME NEW op \in Steps \ {"merge", "unmute", "inserted"}, NEW c, NEW q,
               cmd[t] = Idle, cmd' = [cmd EXCEPT ![t] = Doing(op, c, q)]
        PROVE  Goal
    <3>1. Doing(op, c, q).op = op /\ cmd[t].op # "mute"
      BY <1>3, <2>1 DEF Doing
    <3> QED
      BY <1>4, <2>1, <3>1
  <2>2. CASE CallStart(t)
    <3>1. \/ UNCHANGED cmd
          \/ cmd[t] = Idle /\ \E q \in Slots : cmd' = [cmd EXCEPT ![t] = Doing("made", nextId, q)]
      BY <2>2 DEF CallStart, CallMade, Accepts
    <3>2. "made" \in Steps \ {"merge", "unmute", "inserted"}
      BY DEF Steps
    <3>3. CASE UNCHANGED cmd
      BY <1>2, <3>3
    <3> HIDE DEF Goal
    <3>4. ASSUME NEW q \in Slots, cmd[t] = Idle,
                 cmd' = [cmd EXCEPT ![t] = Doing("made", nextId, q)]
          PROVE  Goal
      BY <2>1, <3>2, <3>4
    <3> QED
      BY <3>1, <3>3, <3>4
  <2>3. CASE SetGlobalDnd(t)
    BY <1>2, <2>3 DEF SetGlobalDnd
  <2>4. ASSUME NEW c \in Named, NEW b \in Named,
               \/ CallAnswer(t, c)
               \/ CallHangup(t, c)
               \/ StartAttendedXfer(t, c)
               \/ CompleteXfer(t, c, b)
        PROVE  Goal
    <3>1. cmd[t] = Idle /\ \E op \in {"answer", "hangup", "attended"} : \E d, q :
            cmd' = [cmd EXCEPT ![t] = Doing(op, d, q)]
      BY <2>4 DEF CallAnswer, CallHangup, StartAttendedXfer, CompleteXfer, Accepts
    <3>2. {"answer", "hangup", "attended"} \subseteq Steps \ {"merge", "unmute", "inserted"}
      BY DEF Steps
    <3> HIDE DEF Goal
    <3> QED
      BY <2>1, <3>1, <3>2
  <2>5. ASSUME NEW c \in Named, NEW on \in BOOLEAN, CallHold(t, c, on) PROVE Goal
    <3>1. (IF on THEN "hold" ELSE "unhold") \in Steps \ {"merge", "unmute", "inserted"}
      BY DEF Steps
    <3> QED
      BY <2>1, <2>5, <3>1 DEF CallHold, Accepts
  <2>6. ASSUME NEW c \in Named, NEW on \in BOOLEAN, CallMute(t, c, on) PROVE Goal
    <3>1. CASE on = TRUE
      BY <2>1, <2>6, <3>1 DEF CallMute, Accepts, Steps
    <3>2. CASE on = FALSE
      BY <1>1, <1>3, <2>6, <3>2 DEF CallMute, Accepts, Doing
    <3> QED
      BY <3>1, <3>2
  <2>7. ASSUME NEW a \in Named, NEW b \in Named, MergeConference(t, a, b) PROVE Goal
    BY <1>1, <1>3, <2>7 DEF MergeConference, Accepts, Doing
  <2> QED
    BY <1>6, <2>2, <2>3, <2>4, <2>5, <2>6, <2>7 DEF NewCommand
<1>7. ASSUME NEW p \in Slots, WorkerStep(p) PROVE UNCHANGED cmd
  BY <1>7 DEF WorkerStep, IncomingRejected, IncomingUnknownAccount, IncomingCall,
     Early, EarlyMedia, MediaReport, Accepted, AcceptedMedia, Confirmed, ReinviteAnswered,
     ReinviteRefused, RemoteReinvite, RemoteAck, RemoteEnd, SlotFreed
<1>8. Goal
  BY <1>2, <1>5, <1>6, <1>7 DEF Next, vars
<1> QED
  BY <1>8

LEMMA EnteredUnmutedStep ==
  ASSUME IInv, TableChange, EnteredUnmuted, OneThread, [Next]_vars
  PROVE  EnteredUnmuted'
<1> SUFFICES ASSUME NEW t \in Threads, cmd'[t].op = "inserted"
             PROVE  ~calls'[cmd'[t].call].muted
  BY DEF EnteredUnmuted
<1>1. CASE cmd'[t] = cmd[t]
  <2>1. cmd[t].call \in CallIds /\ cmd[t] # Idle /\ ~calls[cmd[t].call].muted
    BY <1>1 DEF IInv, HoldsNewCall, Starting, EnteredUnmuted, Idle, Doing
  <2>2. ASSUME NEW u \in Threads PROVE ~CallMute(u, cmd[t].call, TRUE)
    BY <2>1 DEF CallMute, Accepts, OneThread
  <2> QED
    BY <1>1, <2>1, <2>2, MutedChange
<1>2. CASE CallsInsert(t)
  <2>1. cmd[t].call \in CallIds /\ cmd \in [Threads -> Command]
        /\ calls \in [CallIds -> Call]
    BY <1>2 DEF CallsInsert, IInv, TypeOK, HoldsNewCall, Starting
  <2> QED
    BY <1>2, <2>1 DEF CallsInsert, Continue, Command, NewCall
<1> QED
  BY <1>1, <1>2, MuteCommands

\* MuteUnderWay is inductive relative to the other invariants.
LEMMA MuteUnderWayStep ==
  ASSUME IInv, AllSound, TableChange, StepKind, NoMerge, EnteredUnmuted,
         MuteUnderWay, OneThread, ~StaleIds, [Next]_vars
  PROVE  MuteUnderWay'
<1> SUFFICES ASSUME NEW p \in Slots, Muted(p)', Alone(p)'
             PROVE  /\ Sends(sess'[p]) => \E t \in Threads : cmd'[t].op = "mute" /\ cmd'[t].slot = p
                    /\ \A t \in Threads : cmd'[t].op = "unmute" => cmd'[t].slot # p
  BY DEF MuteUnderWay, Muted, Alone, Known, Sends
<1>1. PICK c : c = pjMap'[p]
  OBVIOUS
<1>2. /\ calls \in [CallIds -> Call] /\ cmd \in [Threads -> Command]
      /\ sess \in [Slots -> Session] /\ pjMap \in [Slots -> CallIds \cup {NoCall}]
      /\ c # NoCall /\ calls'[c].muted
  BY <1>1 DEF IInv, TypeOK, Muted
<1>3. ASSUME NEW t \in Threads PROVE ~(MapInsert(t) /\ cmd[t].slot = p)
  BY <1>1, <1>2, <1>3 DEF MapInsert, EnteredUnmuted
<1>4. ~IncomingCall(p)
  BY <1>1, <1>2 DEF IncomingCall, NewCall
<1>5. pjMap[p] = c /\ c \in CallIds /\ c \in Known /\ calls[c].pj = p
  <2>1. pjMap[p] = c
    BY <1>1, <1>2, <1>3, <1>4, MapChange
  <2> QED
    BY <1>2, <2>1 DEF IInv, RoutesToItsSlot, Known
\* The call was the only one on its slot before.
<1>6. Alone(p)
  <2>1. ASSUME NEW d \in Known \ {c}, calls[d].pj = p PROVE calls[d].state = "Ended"
    <3>1. d \in Known' /\ calls'[d].pj = p
      BY <2>1, EndedChange
    <3>2. calls'[d].state = "Ended"
      BY <1>1, <2>1, <3>1 DEF Alone
    <3> QED
      BY <1>5, <2>1, <3>2, EndedChange
  <2> QED
    BY <1>5, <2>1 DEF Alone
\* Nobody can name another call of the slot.
<1>7. ASSUME NEW t \in Threads, NEW d \in Named, CallMute(t, d, FALSE) PROVE calls[d].pj # p
  <2>1. d # c
    BY <1>2, <1>5, <1>7 DEF CallMute, Call
  <2> QED
    BY <1>5, <1>6, <2>1 DEF Alone, Named
<1>8. CASE ~calls[c].muted
  <2>1. PICK t \in Threads : CallMute(t, c, TRUE)
    BY <1>2, <1>5, <1>8, MutedChange
  <2>2. cmd'[t].op = "mute" /\ cmd'[t].slot = p
    BY <1>2, <1>5, <2>1 DEF CallMute, Doing
  <2> QED
    BY <2>2 DEF OneThread
<1>9. CASE calls[c].muted
  <2>1. /\ Sends(sess[p]) => \E t \in Threads : cmd[t].op = "mute" /\ cmd[t].slot = p
        /\ \A t \in Threads : cmd[t].op = "unmute" => cmd[t].slot # p
    BY <1>2, <1>5, <1>6, <1>9 DEF MuteUnderWay, Muted
  <2>2. ASSUME NEW t \in Threads, cmd'[t].op = "unmute" PROVE cmd'[t].slot # p
    <3>1. CASE cmd'[t] = cmd[t]
      BY <2>1, <2>2, <3>1
    <3>2. ASSUME NEW d \in Named, CallMute(t, d, FALSE) PROVE cmd'[t].slot # p
      <4>1. cmd'[t].slot = calls[d].pj
        BY <1>2, <3>2 DEF CallMute, Doing
      <4> QED
        BY <1>7, <3>2, <4>1
    <3> QED
      BY <2>2, <3>1, <3>2, MuteCommands
  <2>3. ASSUME Sends(sess'[p])
        PROVE  \E t \in Threads : cmd'[t].op = "mute" /\ cmd'[t].slot = p
    <3>1. Sends(sess[p])
      <4>1. ~Asked(p)
        BY <2>1 DEF Asked, NoMerge
      <4>2. ~Unmuted(p)
        BY <4>1, SessionsUnchanged, ThreadStepMic, NewCommandMic, WorkerStepMic DEF Next, vars
      <4> QED
        BY <1>2, <1>5, <1>9, <2>3, <4>2 DEF Unmuted
    <3>2. PICK t \in Threads : cmd[t].op = "mute" /\ cmd[t].slot = p
      BY <2>1, <3>1
    <3>3. MediaActive(sess[p])
      BY <3>1 DEF AllSound, Sound, MediaActive, Sends
    <3>4. ~PjMute(t)
      <4>1. ASSUME PjMute(t)
            PROVE  sess'[p] = [sess[p] EXCEPT !.mic = FALSE]
        BY <1>2, <3>2, <3>3, <4>1 DEF PjMute
      <4>2. sess[p] \in Session
        BY <1>2
      <4>3. [sess[p] EXCEPT !.mic = FALSE].mic = FALSE
        BY <4>2 DEF Session
      <4> QED
        BY <2>3, <4>1, <4>3 DEF Sends
    <3> QED
      BY <3>2, <3>4, MuteCommands
  <2> QED
    BY <2>2, <2>3
<1> QED
  BY <1>8, <1>9

\* "Sticky behavior: re-apply mute": no microphone goes out on a muted call,
\* however its media restart and whichever call had the slot before, once the
\* mute is done and its media callback is over (cmd_call_mute,
\* pjsip_on_call_media); without conferences, and with one thread of commands.
THEOREM MuteIsSticky ==
  ASSUME OneThread, ~StaleIds, "merge" \notin Ops
  PROVE  Spec => []MuteSticks
<1> DEFINE MInv == NoMerge /\ EnteredUnmuted /\ MuteUnderWay
<1>1. Init => MInv
  BY DEF Init, NoMerge, EnteredUnmuted, MuteUnderWay, Muted, Idle, Doing
<1>2. IInv /\ AnswersAlone /\ LInv /\ MInv /\ [Next]_vars => MInv'
  <2> SUFFICES ASSUME IInv, AnswersAlone, LInv, MInv, [Next]_vars PROVE MInv'
    OBVIOUS
  <2>1. AllSound /\ StepKind /\ TableChange
    BY EveryStepKind, EveryStepChange DEF LInv
  <2>2. NoMerge'
    BY MuteCommands DEF NoMerge
  <2>3. EnteredUnmuted' /\ MuteUnderWay'
    BY <2>1, EnteredUnmutedStep, MuteUnderWayStep
  <2> QED
    BY <2>2, <2>3
<1>3. MInv => MuteSticks
  BY DEF MuteUnderWay, Muted, Alone, MuteSticks, Sends
<1> HIDE DEF MInv
<1> QED
  BY <1>1, <1>2, <1>3, Inductive, AnswersInvariant, LiveInvariant, PTL DEF Spec

-----------------------------------------------------------------------------
(* The engine implements CallRegistry *)


\* A call is Ended in the table only because a callback said so.
EndedOnly == \A c \in CallIds : calls[c].state = "Ended" => c \in ended

LEMMA EndedOnlyStep ==
  ASSUME IInv, EndedOnly, TableChange
  PROVE  EndedOnly'
<1> SUFFICES ASSUME NEW c \in CallIds, calls'[c].state = "Ended"
             PROVE  c \in ended'
  BY DEF EndedOnly
<1>1. /\ calls \in [CallIds -> Call] /\ ended \subseteq CallIds
      /\ calls[c].state = "Ended" => c \in ended
  BY DEF IInv, TypeOK, EndedOnly
<1>2. \A p \in Slots : pjMap[p] # NoCall => pjMap[p] \in CallIds
  BY DEF IInv, RoutesToItsSlot, Known
<1>3. CASE UNCHANGED <<calls, ended>>
  BY <1>1, <1>3
<1>4. CASE StateReported
  BY <1>1, <1>2, <1>4 DEF StateReported, OnCallState, Reported, Call
<1>5. CASE MediaStateReported
  BY <1>1, <1>2, <1>5 DEF MediaStateReported, OnCallMedia, MediaReported, Call
<1>6. CASE CallEntered
  BY <1>1, <1>6 DEF CallEntered, NewCall
<1>7. CASE CallSet
  BY <1>1, <1>7 DEF CallSet, CallHold, CallMute, Named, Known, Call
<1> QED
  BY <1>3, <1>4, <1>5, <1>6, <1>7 DEF TableChange

-----------------------------------------------------------------------------
(* The change of one entry as an operation on the book *)

LEMMA BookType ==
  ASSUME IInv
  PROVE  /\ calls \in [CallIds -> Call]
         /\ \A c \in CallIds : Book[c] = Shown(calls[c])
  BY DEF IInv, TypeOK, Book

LEMMA BookChange ==
  ASSUME IInv, NEW c \in CallIds, NEW call, calls' = [calls EXCEPT ![c] = call]
  PROVE  Book' = [Book EXCEPT ![c] = Shown(call)]
  BY BookType DEF Book

\* An entry that is shown and has not ended is live.
LEMMA KnownLive ==
  ASSUME IInv, NEW c \in Known, calls[c].state # "Ended"
  PROVE  c \in CallIds /\ Registry!Live(c)
<1>1. c \in CallIds /\ calls[c].state # "Absent"
  BY DEF Known
<1>2. calls[c] \in Call /\ Book[c] = Shown(calls[c])
  BY <1>1, BookType
<1>3. calls[c].state \in {"Ringing", "InCall", "OnHold"}
  BY <1>1, <1>2 DEF Call, CallState
<1>4. Book[c].state = calls[c].state
  BY <1>2 DEF Shown
<1> QED
  BY <1>1, <1>3, <1>4 DEF Registry!Live

LEMMA ShownUpdate ==
  ASSUME NEW call \in Call, NEW state \in CallState, NEW on_hold \in BOOLEAN
  PROVE  [Shown(call) EXCEPT !.state = state, !.on_hold = on_hold]
           = [state |-> state, dir |-> call.dir,
              on_hold |-> on_hold, muted |-> call.muted]
<1> DEFINE half == [Shown(call) EXCEPT !.state = state]
<1>1. half = [state |-> state, dir |-> call.dir,
              on_hold |-> call.on_hold, muted |-> call.muted]
  BY DEF Shown
<1>2. [half EXCEPT !.on_hold = on_hold]
        = [state |-> state, dir |-> call.dir,
           on_hold |-> on_hold, muted |-> call.muted]
  <2> HIDE DEF half
  <2> QED
    BY <1>1 DEF Call
<1> QED
  BY <1>2

\* So is the entry a slot is routed to.
LEMMA RoutedLive ==
  ASSUME IInv, EndedOnly, NEW p \in Slots, pjMap[p] # NoCall
  PROVE  pjMap[p] \in CallIds /\ Registry!Live(pjMap[p])
<1>1. pjMap[p] \in Known /\ pjMap[p] \notin ended
  BY DEF IInv, RoutesToItsSlot
<1>2. calls[pjMap[p]].state # "Ended"
  BY <1>1 DEF EndedOnly, Known
<1> QED
  BY <1>1, <1>2, KnownLive

\* pjsip_on_call_state is Progress or End.
LEMMA ReportedIsAnOperation ==
  ASSUME IInv, NEW c \in CallIds, Registry!Live(c),
         NEW new \in {"Ringing", "InCall", "Ended"},
         calls' = [calls EXCEPT ![c] = Reported(@, new)]
  PROVE  Registry!Next
<1>1. calls[c] \in Call
  BY BookType
<1>2. Book' = [Book EXCEPT ![c] = Shown(Reported(calls[c], new))]
  BY BookChange
<1>3. Shown(Reported(calls[c], new)) = [Shown(calls[c]) EXCEPT !.state = new]
  BY <1>1 DEF Shown, Reported, Call
<1>4. Book' = [Book EXCEPT ![c].state = new]
  BY <1>2, <1>3, BookType
<1>5. CASE new = "Ended"
  BY <1>4, <1>5 DEF Registry!End, Registry!Next
<1>6. CASE new # "Ended"
  BY <1>4, <1>6 DEF Registry!Progress, Registry!Next
<1> QED
  BY <1>5, <1>6

\* pjsip_on_call_media is Progress or Hold.
LEMMA MediaReportedIsAnOperation ==
  ASSUME IInv, NEW c \in CallIds, Registry!Live(c), NEW active \in BOOLEAN,
         calls' = [calls EXCEPT ![c] = MediaReported(@, active)]
  PROVE  Registry!Next
<1>1. calls[c] \in Call
  BY BookType
<1>2. Book' = [Book EXCEPT ![c] = Shown(MediaReported(calls[c], active))]
  BY BookChange
<1>3. CASE active /\ ~calls[c].on_hold
  <2>1. Shown(MediaReported(calls[c], active))
          = [Shown(calls[c]) EXCEPT !.state = "InCall"]
    BY <1>1, <1>3 DEF Shown, MediaReported, Call
  <2>2. Book' = [Book EXCEPT ![c].state = "InCall"]
    BY <1>2, <2>1, BookType
  <2> QED
    BY <2>2 DEF Registry!Progress, Registry!Next
<1>4. CASE ~(active /\ ~calls[c].on_hold)
  <2>1. Shown(MediaReported(calls[c], active))
          = [Shown(calls[c]) EXCEPT !.state = "OnHold", !.on_hold = TRUE]
    <3>1. Shown(MediaReported(calls[c], active))
            = [state |-> "OnHold", dir |-> calls[c].dir,
               on_hold |-> TRUE, muted |-> calls[c].muted]
      <4>1. CASE ~active
        BY <1>1, <4>1 DEF Shown, MediaReported, Call
      <4>2. CASE active /\ calls[c].on_hold = TRUE
        BY <1>1, <4>2 DEF Shown, MediaReported, Call
      <4> QED
        BY <1>1, <1>4, <4>1, <4>2 DEF Call
    <3>2. calls[c] \in Call /\ "OnHold" \in CallState /\ TRUE \in BOOLEAN
      BY <1>1 DEF CallState
    <3> QED
      BY <3>1, <3>2, ShownUpdate
  <2>2. Book' = [Book EXCEPT ![c].state = "OnHold", ![c].on_hold = TRUE]
    BY <1>2, <2>1, BookType DEF Book
  <2> QED
    BY <2>2 DEF Registry!Hold, Registry!Next
<1> QED
  BY <1>3, <1>4

\* The insert of a new call is Enter.
LEMMA CallEnteredIsAnOperation ==
  ASSUME IInv, CallEntered
  PROVE  Registry!Next
<1> PICK c \in CallIds \ Known, dir \in Direction, p \in Slots :
      calls' = [calls EXCEPT ![c] = NewCall(dir, p)]
  BY DEF CallEntered
<1>1. Book[c].state = "Absent"
  <2>1. c \in CallIds /\ calls[c].state = "Absent"
    BY DEF Known
  <2>2. Book[c] = Shown(calls[c])
    BY <2>1, BookType
  <2> QED
    BY <2>1, <2>2 DEF Shown
<1>2. Book' = [Book EXCEPT ![c] = Shown(NewCall(dir, p))]
  BY BookChange
<1>3. Shown(NewCall(dir, p))
        = [state |-> "Ringing", dir |-> dir, on_hold |-> FALSE, muted |-> FALSE]
  BY DEF Shown, NewCall
<1>4. dir \in Registry!Direction
  BY DEF Direction, Registry!Direction
<1> QED
  BY <1>1, <1>2, <1>3, <1>4 DEF Registry!Enter, Registry!Next

\* cmd_call_hold is Hold or Resume, cmd_call_mute is Mute, for a client that
\* names no ended call.
LEMMA CallSetIsAnOperation ==
  ASSUME IInv, ~StaleIds, CallSet
  PROVE  Registry!Next
<1> PICK t \in Threads, c \in Named, on \in BOOLEAN :
      CallHold(t, c, on) \/ CallMute(t, c, on)
  BY DEF CallSet
<1>1. c \in CallIds /\ Registry!Live(c) /\ calls[c] \in Call
  BY KnownLive, BookType DEF Named
<1>2. CASE CallMute(t, c, on)
  <2>1. Book' = [Book EXCEPT ![c] = Shown([calls[c] EXCEPT !.muted = on])]
    BY <1>1, <1>2, BookChange DEF CallMute
  <2>2. Shown([calls[c] EXCEPT !.muted = on]) = [Shown(calls[c]) EXCEPT !.muted = on]
    BY <1>1 DEF Shown, Call
  <2>3. Book' = [Book EXCEPT ![c].muted = on]
    BY <1>1, <2>1, <2>2, BookType
  <2> QED
    BY <1>1, <2>3 DEF Registry!Mute, Registry!Next
<1>3. CASE CallHold(t, c, on)
  <2> DEFINE state == IF on THEN "OnHold" ELSE "InCall"
             call == [calls[c] EXCEPT !.on_hold = on, !.resumed = ~on, !.state = state]
  <2>1. calls' = [calls EXCEPT ![c] = call]
    BY <1>1, <1>3, BookType DEF CallHold
  <2>2. Shown(call) = [Shown(calls[c]) EXCEPT !.state = state, !.on_hold = on]
    <3>1. Shown(call) = [state |-> state, dir |-> calls[c].dir,
                         on_hold |-> on, muted |-> calls[c].muted]
      BY <1>1 DEF Shown, Call
    <3>2. calls[c] \in Call /\ state \in CallState /\ on \in BOOLEAN
      BY <1>1, <1>3 DEF CallState
    <3> HIDE DEF state, call
    <3> QED
      BY <3>1, <3>2, ShownUpdate
  <2>3. Book' = [Book EXCEPT ![c] = Shown(call)]
    BY <1>1, <2>1, BookChange
  <2>4. Book' = [Book EXCEPT ![c].state = state, ![c].on_hold = on]
    BY <1>1, <2>2, <2>3, BookType DEF Book
  <2> QED
    BY <1>1, <2>4 DEF Registry!Hold, Registry!Resume, Registry!Next
<1> QED
  BY <1>2, <1>3

LEMMA ChangeIsAnOperation ==
  ASSUME IInv, EndedOnly, ~StaleIds, TableChange
  PROVE  Registry!Next \/ UNCHANGED Book
<1>1. CASE UNCHANGED calls
  BY <1>1 DEF Book
<1>2. CASE StateReported
  <2> PICK p \in Slots, own \in CallIds \cup {NoCall},
           new \in {"Ringing", "InCall", "Ended"} : OnCallState(p, own, new)
    BY <1>2 DEF StateReported
  <2>1. CASE pjMap[p] = NoCall
    BY <1>1, <2>1 DEF OnCallState
  <2>2. CASE pjMap[p] # NoCall
    BY <2>2, RoutedLive, ReportedIsAnOperation DEF OnCallState
  <2> QED
    BY <2>1, <2>2
<1>3. CASE MediaStateReported
  <2> PICK p \in Slots, own \in CallIds \cup {NoCall}, active \in BOOLEAN :
             OnCallMedia(p, own, active)
    BY <1>3 DEF MediaStateReported
  <2>1. CASE pjMap[p] = NoCall
    BY <1>1, <2>1 DEF OnCallMedia
  <2>2. CASE pjMap[p] # NoCall
    BY <2>2, RoutedLive, MediaReportedIsAnOperation DEF OnCallMedia
  <2> QED
    BY <2>1, <2>2
<1> QED
  BY <1>1, <1>2, <1>3, CallEnteredIsAnOperation, CallSetIsAnOperation DEF TableChange

-----------------------------------------------------------------------------

\* For clients that forget the calls that have ended, what push_call_state
\* shows of CALLS behaves as CallRegistry says, for any number of threads,
\* slots and calls, slots that are reused and callbacks that come late.
THEOREM RegistryImplemented ==
  ASSUME ~StaleIds
  PROVE  Spec => ImplementsRegistry
<1>1. Init => EndedOnly
  BY DEF Init, EndedOnly, Absent, NewCall
<1>2. Init => Registry!Init
  BY DEF Init, Registry!Init, Book, Shown, Absent, NewCall
<1>3. IInv /\ EndedOnly /\ [Next]_vars => EndedOnly'
  BY EveryStepChange, EndedOnlyStep
<1>4. IInv /\ EndedOnly /\ [Next]_vars => [Registry!Next]_Book
  BY EveryStepChange, ChangeIsAnOperation
<1> QED
  BY <1>1, <1>2, <1>3, <1>4, Inductive, PTL
     DEF Spec, ImplementsRegistry, Registry!Spec
=============================================================================
