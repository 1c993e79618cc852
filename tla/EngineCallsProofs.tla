-------------------------- MODULE EngineCallsProofs --------------------------
(***************************************************************************)
(* Theorems about the call table, for any number of slots, threads and     *)
(* calls, any set of operations, with slots that come back at once and     *)
(* clients that name calls that have ended.                                *)
(***************************************************************************)
EXTENDS EngineCalls, TLAPS

Starting == {"made", "inserted"}

\* Ids that NEXT_CALL_ID has not given out name nothing.
FreshIds == \A c \in CallIds :
              c >= nextId => c \notin Known /\ c \notin ended

\* A thread inside a command holds a slot.
HoldsSlot ==
  \A t \in Threads :
    cmd[t].op # "idle" =>
      /\ cmd[t].slot \in Slots
      /\ cmd[t].op = "merge" => cmd[t].other \in Slots

\* A thread that has made a call and not entered it in both tables is the
\* only one that knows the id: no callback has been routed to the call yet.
HoldsNewCall ==
  \A t \in Threads :
    cmd[t].op \in Starting =>
      /\ cmd[t].call \in CallIds
      /\ cmd[t].call < nextId
      /\ cmd[t].call \notin ended
      /\ \A p \in Slots : pjMap[p] # cmd[t].call
      /\ cmd[t].op = "made" => cmd[t].call \notin Known
      /\ cmd[t].op = "inserted" =>
           cmd[t].call \in Known /\ calls[cmd[t].call].pj = cmd[t].slot

HoldApart ==
  \A t, u \in Threads :
    cmd[t].op \in Starting /\ cmd[u].op \in Starting
      /\ cmd[t].call = cmd[u].call => t = u

IInv ==
  /\ TypeOK
  /\ RoutesToItsSlot
  /\ FreshIds
  /\ HoldsSlot
  /\ HoldsNewCall
  /\ HoldApart

-----------------------------------------------------------------------------
(* What callbacks and most commands do to the two tables: no entry appears *)
(* or moves to another slot, the map only loses entries, and a call that   *)
(* ends leaves the map.                                                    *)

TableStep ==
  /\ calls' \in [CallIds -> Call]
  /\ pjMap' \in [Slots -> CallIds \cup {NoCall}]
  /\ ended' \subseteq CallIds
  /\ lost' \subseteq CallIds
  /\ \A c \in CallIds : /\ calls'[c].pj = calls[c].pj
                        /\ calls'[c].state = "Absent" <=> calls[c].state = "Absent"
  /\ \A p \in Slots : pjMap'[p] \in {pjMap[p], NoCall}
  /\ \A c \in ended' \ ended : /\ \E p \in Slots : pjMap[p] = c
                               /\ \A p \in Slots : pjMap'[p] # c

\* The part of a step that does not touch the tables: new slots and commands
\* have their types and no thread begins to hold a new call.
OtherStep ==
  /\ nextId' = nextId
  /\ dnd' \in BOOLEAN
  /\ sess' \in [Slots -> Session]
  /\ cmd' \in [Threads -> Command]
  /\ HoldsSlot'
  /\ \A t \in Threads : cmd'[t].op \in Starting => cmd'[t] = cmd[t]

LEMMA ReportedType ==
  ASSUME NEW call \in Call, NEW new \in CallState
  PROVE  /\ Reported(call, new) \in Call
         /\ Reported(call, new).pj = call.pj
         /\ Reported(call, new).state = new
  BY DEF Reported, Call

LEMMA MediaReportedType ==
  ASSUME NEW call \in Call, NEW active \in BOOLEAN
  PROVE  /\ MediaReported(call, active) \in Call
         /\ MediaReported(call, active).pj = call.pj
         /\ MediaReported(call, active).state \in {"InCall", "OnHold"}
  BY DEF MediaReported, Call, CallState

\* A state callback for any slot, made for any call, is a TableStep.
LEMMA OnCallStateIsTableStep ==
  ASSUME IInv, NEW p \in Slots, NEW own \in CallIds \cup {NoCall},
         NEW new \in {"Ringing", "InCall", "Ended"}, OnCallState(p, own, new)
  PROVE  TableStep
<1> DEFINE c == pjMap[p]
<1>1. c \in CallIds \cup {NoCall} /\ CallIds \subseteq Nat \ {0}
  BY CallsAssumption DEF IInv, TypeOK, CallIds
<1>2. calls' \in [CallIds -> Call]
      /\ \A d \in CallIds : /\ calls'[d].pj = calls[d].pj
                            /\ calls'[d].state = "Absent" <=> calls[d].state = "Absent"
  <2>1. CASE c = NoCall
    BY <2>1 DEF OnCallState, IInv, TypeOK
  <2>2. CASE c # NoCall
    <3>1. calls' = [calls EXCEPT ![c] = Reported(calls[c], new)]
      BY <2>2 DEF OnCallState
    <3>2. calls[c] \in Call /\ calls[c].state # "Absent"
      BY <1>1, <2>2 DEF IInv, TypeOK, RoutesToItsSlot, Known
    <3>3. /\ Reported(calls[c], new) \in Call
          /\ Reported(calls[c], new).pj = calls[c].pj
          /\ Reported(calls[c], new).state = new
      BY <3>2, ReportedType DEF CallState
    <3> QED
      BY <1>1, <3>1, <3>2, <3>3 DEF IInv, TypeOK
  <2> QED
    BY <2>1, <2>2
<1>3. pjMap' = Unrouted(p, new)
  BY DEF OnCallState
<1>4. /\ pjMap' \in [Slots -> CallIds \cup {NoCall}]
      /\ \A q \in Slots : pjMap'[q] \in {pjMap[q], NoCall}
      /\ new = "Ended" => pjMap'[p] = NoCall
  BY <1>1, <1>3 DEF Unrouted, IInv, TypeOK
<1>5. ended' \subseteq CallIds /\ lost' \subseteq CallIds
  BY <1>1 DEF OnCallState, IInv, TypeOK, NoCall
<1>6. ASSUME NEW d \in ended' \ ended
      PROVE  /\ \E q \in Slots : pjMap[q] = d
             /\ \A q \in Slots : pjMap'[q] # d
  <2>1. d = c /\ c # NoCall /\ new = "Ended"
    BY <1>6 DEF OnCallState
  <2>2. \A q \in Slots : pjMap[q] = d => q = p
    BY <1>1, <2>1 DEF IInv, RoutesToItsSlot
  <2> QED
    BY <1>4, <2>1, <2>2
<1> QED
  BY <1>2, <1>4, <1>5, <1>6 DEF TableStep

\* So is a media callback.
LEMMA OnCallMediaIsTableStep ==
  ASSUME IInv, NEW p \in Slots, NEW own \in CallIds \cup {NoCall},
         NEW active \in BOOLEAN, OnCallMedia(p, own, active)
  PROVE  TableStep
<1> DEFINE c == pjMap[p]
<1>1. c \in CallIds \cup {NoCall} /\ CallIds \subseteq Nat \ {0}
  BY CallsAssumption DEF IInv, TypeOK, CallIds
<1>2. calls' \in [CallIds -> Call]
      /\ \A d \in CallIds : /\ calls'[d].pj = calls[d].pj
                            /\ calls'[d].state = "Absent" <=> calls[d].state = "Absent"
  <2>1. CASE c = NoCall
    BY <2>1 DEF OnCallMedia, IInv, TypeOK
  <2>2. CASE c # NoCall
    <3>1. calls' = [calls EXCEPT ![c] = MediaReported(calls[c], active)]
      BY <2>2 DEF OnCallMedia
    <3>2. calls[c] \in Call /\ calls[c].state # "Absent"
      BY <1>1, <2>2 DEF IInv, TypeOK, RoutesToItsSlot, Known
    <3>3. /\ MediaReported(calls[c], active) \in Call
          /\ MediaReported(calls[c], active).pj = calls[c].pj
          /\ MediaReported(calls[c], active).state # "Absent"
      BY <3>2, MediaReportedType
    <3> QED
      BY <1>1, <3>1, <3>2, <3>3 DEF IInv, TypeOK
  <2> QED
    BY <2>1, <2>2
<1>3. pjMap' = pjMap /\ ended' = ended /\ lost' \subseteq CallIds
  BY <1>1 DEF OnCallMedia, IInv, TypeOK, NoCall
<1> QED
  BY <1>2, <1>3 DEF TableStep, IInv, TypeOK

\* A step that leaves the tables alone.
LEMMA UnchangedIsTableStep ==
  ASSUME IInv, UNCHANGED table
  PROVE  TableStep
  BY DEF IInv, TypeOK, TableStep, table

-----------------------------------------------------------------------------
(* The inductive invariant *)

\* TableSteps preserve everything, whatever the threads and slots do besides.
LEMMA TableStepPreserves ==
  ASSUME IInv, TableStep, OtherStep
  PROVE  IInv'
<1>1. TypeOK'
  BY DEF IInv, TypeOK, TableStep, OtherStep, Known
<1>2. RoutesToItsSlot'
  <2> SUFFICES ASSUME NEW p \in Slots, pjMap'[p] # NoCall
               PROVE  /\ pjMap'[p] \in Known' /\ calls'[pjMap'[p]].pj = p
                      /\ pjMap'[p] \notin ended'
    BY DEF RoutesToItsSlot
  <2>1. pjMap'[p] = pjMap[p]
    BY DEF TableStep
  <2>2. pjMap[p] \in CallIds /\ pjMap[p] \in Known
        /\ calls[pjMap[p]].pj = p /\ pjMap[p] \notin ended
    BY <2>1 DEF IInv, RoutesToItsSlot, Known
  <2>3. pjMap[p] \notin ended'
    BY <2>1, <2>2 DEF TableStep
  <2> QED
    BY <2>1, <2>2, <2>3 DEF TableStep, Known
<1>3. FreshIds'
  <2> SUFFICES ASSUME NEW c \in CallIds, c >= nextId'
               PROVE  c \notin Known' /\ c \notin ended'
    BY DEF FreshIds
  <2>1. c \notin Known /\ c \notin ended
    BY DEF IInv, FreshIds, OtherStep
  <2>2. \A p \in Slots : pjMap[p] # c
    BY <2>1, CallsAssumption DEF IInv, RoutesToItsSlot, CallIds, NoCall
  <2> QED
    BY <2>1, <2>2 DEF TableStep, Known
<1>4. HoldsSlot'
  BY DEF OtherStep
<1>5. HoldsNewCall'
  <2> SUFFICES ASSUME NEW t \in Threads, cmd[t].op \in Starting, cmd'[t] = cmd[t]
               PROVE  /\ cmd[t].call \in CallIds
                      /\ cmd[t].call < nextId'
                      /\ cmd[t].call \notin ended'
                      /\ \A p \in Slots : pjMap'[p] # cmd[t].call
                      /\ cmd[t].op = "made" => cmd[t].call \notin Known'
                      /\ cmd[t].op = "inserted" =>
                           cmd[t].call \in Known'
                           /\ calls'[cmd[t].call].pj = cmd[t].slot
    BY DEF HoldsNewCall, OtherStep
  <2>1. /\ cmd[t].call \in CallIds
        /\ cmd[t].call < nextId
        /\ cmd[t].call \notin ended
        /\ \A p \in Slots : pjMap[p] # cmd[t].call
        /\ cmd[t].op = "made" => cmd[t].call \notin Known
        /\ cmd[t].op = "inserted" =>
             cmd[t].call \in Known /\ calls[cmd[t].call].pj = cmd[t].slot
    BY DEF IInv, HoldsNewCall
  <2>2. \A p \in Slots : pjMap'[p] # cmd[t].call
    BY <2>1, CallsAssumption DEF TableStep, CallIds, NoCall
  <2>3. cmd[t].call \notin ended' /\ cmd[t].call < nextId'
    BY <2>1 DEF TableStep, OtherStep
  <2>4. cmd[t].call \in Known' <=> cmd[t].call \in Known
    BY <2>1 DEF TableStep, Known
  <2>5. calls'[cmd[t].call].pj = calls[cmd[t].call].pj
    BY <2>1 DEF TableStep
  <2> QED
    BY <2>1, <2>2, <2>3, <2>4, <2>5
<1>6. HoldApart'
  BY DEF IInv, HoldApart, OtherStep
<1> QED
  BY <1>1, <1>2, <1>3, <1>4, <1>5, <1>6 DEF IInv

-----------------------------------------------------------------------------
(* The slots and the commands keep their types. *)

LEMMA NewSessionType ==
  ASSUME NEW inv \in InvState, NEW dir \in Direction,
         NEW c \in CallIds \cup {NoCall}
  PROVE  NewSession(inv, dir, c) \in Session
  BY DEF NewSession, Session

LEMMA FreeSlotType == FreeSlot \in Session
  BY NewSessionType DEF FreeSlot, InvState, Direction

LEMMA ReinvitedType ==
  ASSUME NEW s \in Session, NEW kind \in {"hold", "unhold"}
  PROVE  Reinvited(s, kind) \in Session
  BY DEF Reinvited, Session

\* The shim's half of a media callback.
LEMMA BridgedIs ==
  ASSUME NEW s \in Session, NEW active \in BOOLEAN
  PROVE  /\ Bridged(s, active) \in Session
         /\ Bridged(s, active).inv = s.inv
         /\ Bridged(s, active).dir = s.dir
         /\ Bridged(s, active).own = s.own
         /\ Bridged(s, active).cb
  BY DEF Bridged, Session

\* The engine's half: a muted call has no microphone after it ("Sticky
\* behavior: re-apply mute").
LEMMA AfterMediaIs ==
  ASSUME NEW s \in Session, NEW c
  PROVE  /\ AfterMedia(s, c) \in Session
         /\ AfterMedia(s, c).inv = s.inv
         /\ AfterMedia(s, c).dir = s.dir
         /\ AfterMedia(s, c).own = s.own
         /\ ~AfterMedia(s, c).cb
         /\ AfterMedia(s, c).mic => s.mic
         /\ c # NoCall /\ calls[c].muted => ~AfterMedia(s, c).mic
<1> DEFINE mic == s.mic /\ ~(c # NoCall /\ calls[c].muted)
           again == [s EXCEPT !.cb = FALSE, !.mic = mic]
           reheld == IF s.active /\ c # NoCall /\ calls[c].on_hold
                     THEN Reinvited(again, "hold") ELSE again
           pend == IF s.pend \in {"hold", "unhold"} THEN "none" ELSE reheld.pend
<1>1. mic \in BOOLEAN /\ (mic => s.mic) /\ (c # NoCall /\ calls[c].muted => ~mic)
  OBVIOUS
<1>2. AfterMedia(s, c) = [reheld EXCEPT !.pend = pend]
  BY DEF AfterMedia
<1> HIDE DEF mic
<1>3. /\ again \in Session /\ again.inv = s.inv /\ again.dir = s.dir
      /\ again.own = s.own /\ ~again.cb /\ again.mic = mic
  BY <1>1 DEF Session
<1> HIDE DEF again
<1>4. /\ Reinvited(again, "hold") \in Session
      /\ Reinvited(again, "hold").inv = again.inv
      /\ Reinvited(again, "hold").dir = again.dir
      /\ Reinvited(again, "hold").own = again.own
      /\ Reinvited(again, "hold").cb = again.cb
      /\ Reinvited(again, "hold").mic = again.mic
  <2>1. Reinvited(again, "hold") \in Session
    BY <1>3, ReinvitedType
  <2>2. /\ Reinvited(again, "hold").inv = again.inv
        /\ Reinvited(again, "hold").dir = again.dir
        /\ Reinvited(again, "hold").own = again.own
        /\ Reinvited(again, "hold").cb = again.cb
        /\ Reinvited(again, "hold").mic = again.mic
    BY <1>3 DEF Reinvited, Session
  <2> QED
    BY <2>1, <2>2
<1>5. /\ reheld \in Session /\ reheld.inv = s.inv /\ reheld.dir = s.dir
      /\ reheld.own = s.own /\ ~reheld.cb /\ reheld.mic = mic
  BY <1>3, <1>4
<1> HIDE DEF reheld
<1>6. pend \in {"none", "hold", "unhold", "remote"}
  BY <1>5 DEF Session
<1> HIDE DEF pend
<1>7. /\ [reheld EXCEPT !.pend = pend] \in Session
      /\ [reheld EXCEPT !.pend = pend].inv = s.inv
      /\ [reheld EXCEPT !.pend = pend].dir = s.dir
      /\ [reheld EXCEPT !.pend = pend].own = s.own
      /\ ~[reheld EXCEPT !.pend = pend].cb
      /\ [reheld EXCEPT !.pend = pend].mic = mic
  BY <1>5, <1>6 DEF Session
<1> QED
  BY <1>1, <1>2, <1>7

LEMMA DoingType ==
  ASSUME NEW op \in Steps, NEW c \in CallIds \cup {NoCall},
         NEW p \in Slots \cup {NoSlot}
  PROVE  /\ Doing(op, c, p) \in Command
         /\ Doing(op, c, p).op = op
         /\ Doing(op, c, p).call = c
         /\ Doing(op, c, p).slot = p
  BY DEF Doing, Command

\* A thread that goes on to a step other than the two that hold a new call.
LEMMA CmdStep ==
  ASSUME IInv, NEW t \in Threads, NEW k \in Command,
         cmd' = [cmd EXCEPT ![t] = k],
         k.op \notin Starting,
         k.op # "idle" => k.slot \in Slots
                          /\ (k.op = "merge" => k.other \in Slots)
  PROVE  /\ cmd' \in [Threads -> Command]
         /\ HoldsSlot'
         /\ \A u \in Threads : cmd'[u].op \in Starting => cmd'[u] = cmd[u]
<1>1. cmd \in [Threads -> Command] /\ HoldsSlot
  BY DEF IInv, TypeOK
<1> QED
  BY <1>1 DEF HoldsSlot

LEMMA FinishStep ==
  ASSUME IInv, NEW t \in Threads, Finish(t)
  PROVE  /\ cmd' \in [Threads -> Command]
         /\ HoldsSlot'
         /\ \A u \in Threads : cmd'[u].op \in Starting => cmd'[u] = cmd[u]
<1>1. Idle \in Command /\ Idle.op = "idle"
  BY DoingType DEF Idle, Steps
<1> QED
  BY <1>1, CmdStep DEF Finish, Starting

LEMMA ContinueStep ==
  ASSUME IInv, NEW t \in Threads, NEW op \in {"answering", "report", "failed"},
         cmd[t].op \in {"answer", "answering", "hangup"}, Continue(t, op)
  PROVE  /\ cmd' \in [Threads -> Command]
         /\ HoldsSlot'
         /\ \A u \in Threads : cmd'[u].op \in Starting => cmd'[u] = cmd[u]
<1> DEFINE k == [cmd[t] EXCEPT !.op = op]
<1>1. cmd[t] \in Command /\ cmd[t].slot \in Slots
  BY DEF IInv, TypeOK, HoldsSlot
<1>2. k \in Command /\ k.op = op /\ k.slot \in Slots
  BY <1>1 DEF Command, Steps
<1>3. cmd' = [cmd EXCEPT ![t] = k]
  BY DEF Continue
<1> HIDE DEF k
<1> QED
  BY <1>2, <1>3, CmdStep DEF Starting

LEMMA IdleCmdStep ==
  ASSUME IInv, UNCHANGED cmd
  PROVE  /\ cmd' \in [Threads -> Command]
         /\ HoldsSlot'
         /\ \A u \in Threads : cmd'[u].op \in Starting => cmd'[u] = cmd[u]
  BY DEF IInv, TypeOK, HoldsSlot

-----------------------------------------------------------------------------
(* Commands *)

\* A thread has just made a call on slot p: pd_call_make has returned and
\* the CALLING callback, if it reached anybody, reached an older call.
LEMMA MadePreserves ==
  ASSUME IInv, NEW t \in Threads, NEW p \in Slots,
         nextId \in CallIds, nextId' = nextId + 1, dnd' = dnd,
         sess' \in [Slots -> Session],
         OnCallState(p, nextId, "Ringing"),
         cmd' = [cmd EXCEPT ![t] = Doing("made", nextId, p)]
  PROVE  IInv'
<1> DEFINE k == Doing("made", nextId, p)
<1>1. /\ k \in Command /\ k.op = "made" /\ k.call = nextId /\ k.slot = p
  BY DoingType DEF Steps
<1>2. TableStep
  BY OnCallStateIsTableStep
<1>3. cmd' = [cmd EXCEPT ![t] = k] /\ cmd \in [Threads -> Command]
  BY DEF IInv, TypeOK
<1> HIDE DEF k
<1>4. /\ cmd' \in [Threads -> Command]
      /\ cmd'[t] = k
      /\ \A u \in Threads \ {t} : cmd'[u] = cmd[u]
  BY <1>1, <1>3
<1>5. nextId \in Nat /\ nextId' \in 1 .. (MaxCallId + 1)
  BY CallsAssumption DEF CallIds
<1>6. TypeOK'
  BY <1>2, <1>4, <1>5 DEF IInv, TypeOK, TableStep, Known
<1>7. /\ nextId \notin Known /\ nextId \notin ended
      /\ \A q \in Slots : pjMap[q] # nextId
  <2>1. nextId \notin Known /\ nextId \notin ended
    BY <1>5 DEF IInv, FreshIds
  <2> QED
    BY <2>1, CallsAssumption DEF IInv, RoutesToItsSlot, CallIds, NoCall
<1>8. /\ nextId \notin Known' /\ nextId \notin ended'
      /\ \A q \in Slots : pjMap'[q] # nextId
  BY <1>2, <1>5, <1>7, CallsAssumption DEF TableStep, Known, CallIds, NoCall
<1>9. RoutesToItsSlot'
  <2> SUFFICES ASSUME NEW q \in Slots, pjMap'[q] # NoCall
               PROVE  /\ pjMap'[q] \in Known' /\ calls'[pjMap'[q]].pj = q
                      /\ pjMap'[q] \notin ended'
    BY DEF RoutesToItsSlot
  <2>1. pjMap'[q] = pjMap[q]
    BY <1>2 DEF TableStep
  <2>2. pjMap[q] \in CallIds /\ pjMap[q] \in Known
        /\ calls[pjMap[q]].pj = q /\ pjMap[q] \notin ended
    BY <2>1 DEF IInv, RoutesToItsSlot, Known
  <2>3. pjMap[q] \notin ended'
    BY <1>2, <2>1, <2>2 DEF TableStep
  <2> QED
    BY <1>2, <2>1, <2>2, <2>3 DEF TableStep, Known
<1>10. FreshIds'
  <2> SUFFICES ASSUME NEW c \in CallIds, c >= nextId'
               PROVE  c \notin Known' /\ c \notin ended'
    BY DEF FreshIds
  <2>1. c >= nextId
    BY <1>5 DEF CallIds
  <2>2. c \notin Known /\ c \notin ended
    BY <2>1 DEF IInv, FreshIds
  <2>3. \A q \in Slots : pjMap[q] # c
    BY <2>2, CallsAssumption DEF IInv, RoutesToItsSlot, CallIds, NoCall
  <2> QED
    BY <1>2, <2>2, <2>3 DEF TableStep, Known
<1>11. HoldsSlot'
  BY <1>1, <1>4 DEF IInv, HoldsSlot
<1>12. ASSUME NEW u \in Threads \ {t}, cmd[u].op \in Starting
       PROVE  /\ cmd[u].call \in CallIds
              /\ cmd[u].call < nextId
              /\ cmd[u].call \notin ended'
              /\ \A q \in Slots : pjMap'[q] # cmd[u].call
              /\ cmd[u].op = "made" => cmd[u].call \notin Known'
              /\ cmd[u].op = "inserted" =>
                   cmd[u].call \in Known' /\ calls'[cmd[u].call].pj = cmd[u].slot
  <2>1. /\ cmd[u].call \in CallIds
        /\ cmd[u].call < nextId
        /\ cmd[u].call \notin ended
        /\ \A q \in Slots : pjMap[q] # cmd[u].call
        /\ cmd[u].op = "made" => cmd[u].call \notin Known
        /\ cmd[u].op = "inserted" =>
             cmd[u].call \in Known /\ calls[cmd[u].call].pj = cmd[u].slot
    BY <1>12 DEF IInv, HoldsNewCall
  <2>2. \A q \in Slots : pjMap'[q] # cmd[u].call
    BY <1>2, <2>1, CallsAssumption DEF TableStep, CallIds, NoCall
  <2>3. cmd[u].call \notin ended'
    BY <1>2, <2>1 DEF TableStep
  <2>4. /\ cmd[u].call \in Known' <=> cmd[u].call \in Known
        /\ calls'[cmd[u].call].pj = calls[cmd[u].call].pj
    BY <1>2, <2>1 DEF TableStep, Known
  <2> QED
    BY <2>1, <2>2, <2>3, <2>4
<1>13. HoldsNewCall'
  <2> SUFFICES ASSUME NEW u \in Threads, cmd'[u].op \in Starting
               PROVE  /\ cmd'[u].call \in CallIds
                      /\ cmd'[u].call < nextId'
                      /\ cmd'[u].call \notin ended'
                      /\ \A q \in Slots : pjMap'[q] # cmd'[u].call
                      /\ cmd'[u].op = "made" => cmd'[u].call \notin Known'
                      /\ cmd'[u].op = "inserted" =>
                           cmd'[u].call \in Known'
                           /\ calls'[cmd'[u].call].pj = cmd'[u].slot
    BY DEF HoldsNewCall
  <2>1. CASE u = t
    BY <1>1, <1>4, <1>5, <1>8, <2>1
  <2>2. CASE u # t
    <3>1. cmd'[u] = cmd[u]
      BY <1>4, <2>2
    <3>2. cmd[u].call < nextId /\ cmd[u].call \in Nat
      BY <1>12, <2>2, <3>1, CallsAssumption DEF CallIds
    <3>3. cmd[u].call < nextId'
      BY <1>5, <3>2
    <3> QED
      BY <1>12, <2>2, <3>1, <3>3
  <2> QED
    BY <2>1, <2>2
<1>14. HoldApart'
  <2>1. \A u \in Threads \ {t} : cmd[u].op \in Starting => cmd[u].call # nextId
    BY <1>5, <1>12, CallsAssumption DEF CallIds
  <2> QED
    BY <1>1, <1>4, <2>1 DEF IInv, HoldApart
<1> QED
  BY <1>6, <1>9, <1>10, <1>11, <1>13, <1>14 DEF IInv

\* CALLS gets the call: no other thread holds it and the map does not name it.
LEMMA CallsInsertPreserves ==
  ASSUME IInv, NEW t \in Threads, CallsInsert(t)
  PROVE  IInv'
<1> DEFINE c == cmd[t].call
           p == cmd[t].slot
           k == [cmd[t] EXCEPT !.op = "inserted"]
<1>1. /\ cmd[t] \in Command /\ cmd[t].op = "made" /\ p \in Slots
      /\ c \in CallIds /\ c < nextId /\ c \notin ended
      /\ \A q \in Slots : pjMap[q] # c
  BY DEF CallsInsert, IInv, TypeOK, HoldsSlot, HoldsNewCall, Starting
<1>2. k \in Command /\ k.op = "inserted" /\ k.call = c /\ k.slot = p
  BY <1>1 DEF Command, Steps
<1>3. /\ cmd' \in [Threads -> Command]
      /\ cmd'[t] = k
      /\ \A u \in Threads \ {t} : cmd'[u] = cmd[u]
  BY <1>2 DEF CallsInsert, Continue, IInv, TypeOK
<1>4. NewCall("Outgoing", p) \in Call
      /\ NewCall("Outgoing", p).pj = p /\ NewCall("Outgoing", p).state # "Absent"
  BY <1>1 DEF NewCall, Call, CallState, Direction
<1>5. /\ calls' \in [CallIds -> Call]
      /\ calls'[c].pj = p /\ calls'[c].state # "Absent"
      /\ \A d \in CallIds \ {c} : calls'[d] = calls[d]
  BY <1>1, <1>4 DEF CallsInsert, IInv, TypeOK
<1>6. UNCHANGED <<pjMap, nextId, dnd, sess, ended, lost>>
  BY DEF CallsInsert
<1> HIDE DEF c, p, k
<1>7. TypeOK'
  BY <1>1, <1>3, <1>5, <1>6 DEF IInv, TypeOK, Known
<1>8. RoutesToItsSlot'
  BY <1>1, <1>5, <1>6 DEF IInv, RoutesToItsSlot, Known
<1>9. FreshIds'
  <2>1. c \in Nat /\ nextId \in Nat /\ ~(c >= nextId)
    BY <1>1, CallsAssumption DEF CallIds, IInv, TypeOK
  <2> QED
    BY <1>5, <1>6, <2>1 DEF IInv, FreshIds, Known
<1>10. HoldsSlot'
  BY <1>1, <1>2, <1>3 DEF IInv, HoldsSlot
<1>11. \A u \in Threads \ {t} : cmd[u].op \in Starting => cmd[u].call # c
  BY <1>1 DEF IInv, HoldApart, Starting, c
<1>12. HoldsNewCall'
  <2> SUFFICES ASSUME NEW u \in Threads, cmd'[u].op \in Starting
               PROVE  /\ cmd'[u].call \in CallIds
                      /\ cmd'[u].call < nextId
                      /\ cmd'[u].call \notin ended
                      /\ \A q \in Slots : pjMap[q] # cmd'[u].call
                      /\ cmd'[u].op = "made" => cmd'[u].call \notin Known'
                      /\ cmd'[u].op = "inserted" =>
                           cmd'[u].call \in Known'
                           /\ calls'[cmd'[u].call].pj = cmd'[u].slot
    BY <1>6 DEF HoldsNewCall
  <2>1. CASE u = t
    BY <1>1, <1>2, <1>3, <1>5, <2>1 DEF Known
  <2>2. CASE u # t
    BY <1>3, <1>5, <1>11, <2>2 DEF IInv, HoldsNewCall, Known
  <2> QED
    BY <2>1, <2>2
<1>13. HoldApart'
  BY <1>1, <1>2, <1>3, <1>11 DEF IInv, HoldApart
<1> QED
  BY <1>7, <1>8, <1>9, <1>10, <1>12, <1>13 DEF IInv

\* PJSIP_CALL_MAP gets the call, in place of whatever it had for the slot.
LEMMA MapInsertPreserves ==
  ASSUME IInv, NEW t \in Threads, MapInsert(t)
  PROVE  IInv'
<1> DEFINE c == cmd[t].call
           p == cmd[t].slot
<1>1. /\ cmd[t].op = "inserted" /\ p \in Slots
      /\ c \in CallIds /\ c \notin ended /\ c \in Known /\ calls[c].pj = p
  BY DEF MapInsert, IInv, TypeOK, HoldsSlot, HoldsNewCall, Starting
<1>2. /\ cmd' \in [Threads -> Command]
      /\ HoldsSlot'
      /\ \A u \in Threads : cmd'[u].op \in Starting => cmd'[u] = cmd[u]
  BY FinishStep DEF MapInsert
<1>3. cmd'[t].op = "idle"
  <2>1. Idle.op = "idle"
    BY DoingType DEF Idle, Steps
  <2> QED
    BY <2>1 DEF MapInsert, Finish, IInv, TypeOK
<1>4. /\ pjMap' \in [Slots -> CallIds \cup {NoCall}]
      /\ pjMap'[p] = c
      /\ \A q \in Slots \ {p} : pjMap'[q] = pjMap[q]
  BY <1>1 DEF MapInsert, IInv, TypeOK
<1>5. UNCHANGED <<calls, nextId, dnd, sess, ended, lost>>
  BY DEF MapInsert
<1>6. \A u \in Threads \ {t} : cmd[u].op \in Starting => cmd[u].call # c
  BY <1>1 DEF IInv, HoldApart, Starting
<1> HIDE DEF c, p
<1>7. TypeOK'
  BY <1>2, <1>4, <1>5 DEF IInv, TypeOK, Known
<1>8. RoutesToItsSlot'
  BY <1>1, <1>4, <1>5 DEF IInv, RoutesToItsSlot, Known
<1>9. FreshIds'
  BY <1>5 DEF IInv, FreshIds, Known
<1>10. HoldsNewCall'
  <2> SUFFICES ASSUME NEW u \in Threads, cmd'[u].op \in Starting
               PROVE  /\ cmd'[u].call \in CallIds
                      /\ cmd'[u].call < nextId
                      /\ cmd'[u].call \notin ended
                      /\ \A q \in Slots : pjMap'[q] # cmd'[u].call
                      /\ cmd'[u].op = "made" => cmd'[u].call \notin Known
                      /\ cmd'[u].op = "inserted" =>
                           cmd'[u].call \in Known
                           /\ calls[cmd'[u].call].pj = cmd'[u].slot
    BY <1>5 DEF HoldsNewCall, Known
  <2>1. u # t /\ cmd'[u] = cmd[u]
    BY <1>2, <1>3 DEF Starting
  <2> QED
    BY <1>4, <1>6, <2>1 DEF IInv, HoldsNewCall
<1>11. HoldApart'
  BY <1>2 DEF IInv, HoldApart
<1> QED
  BY <1>2, <1>7, <1>8, <1>9, <1>10, <1>11 DEF IInv

\* An incoming call takes a fresh id and the map entry of its slot.
LEMMA IncomingCallPreserves ==
  ASSUME IInv, NEW p \in Slots, IncomingCall(p)
  PROVE  IInv'
<1> DEFINE s == NewSession("Incoming", "Incoming", nextId)
<1>1. /\ nextId \in CallIds /\ nextId \in Nat /\ nextId' = nextId + 1
      /\ nextId' \in 1 .. (MaxCallId + 1)
  BY CallsAssumption DEF IncomingCall, CallIds
<1>2. /\ nextId \notin Known /\ nextId \notin ended
  BY <1>1 DEF IInv, FreshIds
<1>3. \A t \in Threads : cmd[t].op \in Starting =>
        cmd[t].call # nextId /\ cmd[t].call \in Nat
  BY <1>1, CallsAssumption DEF IInv, HoldsNewCall, CallIds
<1>4. NewCall("Incoming", p) \in Call
      /\ NewCall("Incoming", p).pj = p /\ NewCall("Incoming", p).state # "Absent"
  BY DEF NewCall, Call, CallState, Direction
<1>5. /\ calls' \in [CallIds -> Call]
      /\ calls'[nextId].pj = p /\ calls'[nextId].state # "Absent"
      /\ \A d \in CallIds \ {nextId} : calls'[d] = calls[d]
  BY <1>1, <1>4 DEF IncomingCall, IInv, TypeOK
<1>6. /\ pjMap' \in [Slots -> CallIds \cup {NoCall}]
      /\ pjMap'[p] = nextId
      /\ \A q \in Slots \ {p} : pjMap'[q] = pjMap[q]
  BY <1>1 DEF IncomingCall, IInv, TypeOK
<1>7. sess' \in [Slots -> Session]
  <2>1. s \in Session
    BY <1>1, NewSessionType DEF InvState, Direction
  <2> HIDE DEF s
  <2>2. sess' = [sess EXCEPT ![p] = s]
    BY DEF IncomingCall, s
  <2> QED
    BY <2>1, <2>2 DEF IInv, TypeOK
<1>8. UNCHANGED <<dnd, cmd, ended, lost>>
  BY DEF IncomingCall
<1>9. TypeOK'
  BY <1>1, <1>5, <1>6, <1>7, <1>8 DEF IInv, TypeOK, Known
<1>10. RoutesToItsSlot'
  BY <1>1, <1>2, <1>5, <1>6, <1>8 DEF IInv, RoutesToItsSlot, Known
<1>11. FreshIds'
  <2> SUFFICES ASSUME NEW c \in CallIds, c >= nextId'
               PROVE  c \notin Known' /\ c \notin ended'
    BY DEF FreshIds
  <2>1. c >= nextId /\ c # nextId
    BY <1>1 DEF CallIds
  <2> QED
    BY <1>5, <1>8, <2>1 DEF IInv, FreshIds, Known
<1>12. HoldsSlot' /\ HoldApart'
  BY <1>8 DEF IInv, HoldsSlot, HoldApart
<1>13. HoldsNewCall'
  <2> SUFFICES ASSUME NEW u \in Threads, cmd[u].op \in Starting
               PROVE  /\ cmd[u].call \in CallIds
                      /\ cmd[u].call < nextId'
                      /\ cmd[u].call \notin ended
                      /\ \A q \in Slots : pjMap'[q] # cmd[u].call
                      /\ cmd[u].op = "made" => cmd[u].call \notin Known'
                      /\ cmd[u].op = "inserted" =>
                           cmd[u].call \in Known'
                           /\ calls'[cmd[u].call].pj = cmd[u].slot
    BY <1>8 DEF HoldsNewCall
  <2>1. cmd[u].call < nextId'
    BY <1>1, <1>3 DEF IInv, HoldsNewCall
  <2> QED
    BY <1>3, <1>5, <1>6, <2>1 DEF IInv, HoldsNewCall, Known
<1> QED
  BY <1>9, <1>10, <1>11, <1>12, <1>13 DEF IInv

LEMMA ThreadStepPreserves ==
  ASSUME IInv, NEW t \in Threads, ThreadStep(t)
  PROVE  IInv'
<1> DEFINE p == cmd[t].slot
<1>1. /\ sess \in [Slots -> Session] /\ dnd \in BOOLEAN
      /\ cmd[t].op # "idle" => p \in Slots /\ sess[p] \in Session
  BY DEF IInv, TypeOK, HoldsSlot
<1>2. \A s \in Session : /\ s.own \in CallIds \cup {NoCall}
                         /\ s.dir \in Direction
  BY DEF Session
<1>3. CASE CallsInsert(t)
  BY <1>3, CallsInsertPreserves
<1>4. CASE MapInsert(t)
  BY <1>4, MapInsertPreserves
<1>5. CASE PjAnswer(t)
  <2>1. cmd[t].op = "answer" /\ UNCHANGED <<nextId, dnd>> /\ p \in Slots
    BY <1>1, <1>5 DEF PjAnswer
  <2>2. CASE (PjFails(t) \/ Finish(t)) /\ UNCHANGED <<table, sess>>
    BY <1>1, <2>1, <2>2, FinishStep, ContinueStep, UnchangedIsTableStep, TableStepPreserves
       DEF OtherStep, PjFails
  <2>3. CASE /\ sess' = IF sess[p].sdp THEN sess
                       ELSE [sess EXCEPT ![p] = Bridged([sess[p] EXCEPT !.sdp = TRUE], TRUE)]
             /\ Continue(t, "answering") /\ UNCHANGED table
    <3>1. [sess[p] EXCEPT !.sdp = TRUE] \in Session
      BY <1>1, <2>1 DEF Session
    <3>2. Bridged([sess[p] EXCEPT !.sdp = TRUE], TRUE) \in Session
      BY <3>1, BridgedIs
    <3>3. sess' \in [Slots -> Session]
      BY <1>1, <2>3, <3>2
    <3> QED
      BY <1>1, <2>1, <2>3, <3>3, ContinueStep, UnchangedIsTableStep, TableStepPreserves
         DEF OtherStep
  <2>4. CASE /\ sess' = [sess EXCEPT ![p].inv = "Connecting"]
             /\ OnCallState(p, sess[p].own, "InCall")
             /\ Finish(t)
    <3>1. sess' \in [Slots -> Session]
      BY <1>1, <2>1, <2>4 DEF Session, InvState
    <3>2. TableStep
      BY <1>1, <1>2, <2>1, <2>4, OnCallStateIsTableStep
    <3> QED
      BY <1>1, <2>1, <2>4, <3>1, <3>2, FinishStep, TableStepPreserves DEF OtherStep
  <2> QED
    BY <1>5, <2>2, <2>3, <2>4 DEF PjAnswer
<1>6. CASE AnswerSent(t)
  <2>1. p \in Slots /\ UNCHANGED <<nextId, dnd>> /\ cmd[t].op = "answering"
    BY <1>1, <1>6 DEF AnswerSent
  <2>2. CASE PjFails(t) /\ UNCHANGED <<table, sess>>
    BY <1>1, <2>1, <2>2, ContinueStep, UnchangedIsTableStep, TableStepPreserves
       DEF OtherStep, PjFails
  <2>3. CASE /\ Finish(t) /\ OnCallState(p, sess[p].own, "InCall")
             /\ sess' = [sess EXCEPT ![p].inv = "Connecting"]
    <3>1. sess' \in [Slots -> Session]
      BY <1>1, <2>1, <2>3 DEF Session, InvState
    <3>2. TableStep
      BY <1>1, <1>2, <2>1, <2>3, OnCallStateIsTableStep
    <3> QED
      BY <1>1, <2>1, <2>3, <3>1, <3>2, FinishStep, TableStepPreserves DEF OtherStep
  <2> QED
    BY <1>6, <2>2, <2>3 DEF AnswerSent
<1>7. CASE PjHangup(t)
  <2>1. p \in Slots /\ UNCHANGED <<table, nextId, dnd>> /\ cmd[t].op = "hangup"
    BY <1>1, <1>7 DEF PjHangup
  <2>2. TableStep
    BY <2>1, UnchangedIsTableStep
  <2>3. CASE (PjFails(t) \/ Finish(t)) /\ UNCHANGED sess
    BY <1>1, <2>1, <2>2, <2>3, FinishStep, ContinueStep, TableStepPreserves
       DEF OtherStep, PjFails
  <2>4. CASE /\ sess' = [sess EXCEPT ![p] =
                            NewSession("Closing", sess[p].dir, sess[p].own)]
             /\ Continue(t, "report")
    <3>1. NewSession("Closing", sess[p].dir, sess[p].own) \in Session
      BY <1>1, <1>2, <2>1, <1>7, NewSessionType DEF PjHangup, InvState
    <3>2. sess' \in [Slots -> Session]
      BY <1>1, <2>4, <3>1
    <3> QED
      BY <1>1, <2>1, <2>2, <2>4, <3>2, ContinueStep, TableStepPreserves
         DEF OtherStep
  <2> QED
    BY <1>7, <2>3, <2>4 DEF PjHangup
<1>8. CASE HangupReported(t)
  <2>1. /\ p \in Slots /\ UNCHANGED <<nextId, dnd, sess>> /\ Finish(t)
        /\ OnCallState(p, sess[p].own, "Ended")
    BY <1>1, <1>8 DEF HangupReported
  <2>2. TableStep
    BY <1>1, <1>2, <2>1, <1>8, OnCallStateIsTableStep DEF HangupReported
  <2> QED
    BY <1>1, <2>1, <2>2, FinishStep, TableStepPreserves DEF OtherStep
<1>9. CASE PjHold(t)
  <2>1. /\ p \in Slots /\ cmd[t].op \in {"hold", "unhold"}
        /\ UNCHANGED <<table, nextId, dnd>> /\ Finish(t)
        /\ sess' \in {sess, [sess EXCEPT ![p] = Reinvited(sess[p], cmd[t].op)]}
        /\ sess[p] \in Session
    BY <1>1, <1>9 DEF PjHold
  <2>2. sess' \in [Slots -> Session]
    BY <1>1, <2>1, ReinvitedType
  <2> QED
    BY <1>1, <2>1, <2>2, FinishStep, UnchangedIsTableStep, TableStepPreserves
       DEF OtherStep
<1>10. CASE PjMute(t)
  <2>1. /\ p \in Slots /\ UNCHANGED <<table, nextId, dnd>> /\ Finish(t)
        /\ sess[p] \in Session
        /\ sess' = [sess EXCEPT ![p].mic = IF MediaActive(sess[p])
                                           THEN cmd[t].op = "unmute"
                                           ELSE sess[p].mic]
    BY <1>1, <1>10 DEF PjMute
  <2>2. \A mic \in BOOLEAN : [sess[p] EXCEPT !.mic = mic] \in Session
    BY <2>1 DEF Session
  <2>3. PICK mic \in BOOLEAN : sess' = [sess EXCEPT ![p].mic = mic]
    <3>1. sess[p].mic \in BOOLEAN
      BY <2>1 DEF Session
    <3>2. CASE MediaActive(sess[p])
      BY <2>1, <3>2
    <3>3. CASE ~MediaActive(sess[p])
      BY <2>1, <3>1, <3>3
    <3> QED
      BY <3>2, <3>3
  <2>4. sess' \in [Slots -> Session]
    BY <1>1, <2>2, <2>3
  <2> QED
    BY <1>1, <2>1, <2>4, FinishStep, UnchangedIsTableStep, TableStepPreserves
       DEF OtherStep
<1>11. CASE PjStartAttendedXfer(t)
  <2>1. p \in Slots /\ dnd' = dnd /\ sess[p] \in Session
    BY <1>1, <1>11 DEF PjStartAttendedXfer
  <2>2. ASSUME NEW s \in {sess[p], Reinvited(sess[p], "hold")}
        PROVE  [sess EXCEPT ![p] = s] \in [Slots -> Session]
    BY <1>1, <2>1, ReinvitedType
  <2>3. ASSUME NEW s \in {sess[p], Reinvited(sess[p], "hold")},
               sess' = [sess EXCEPT ![p] = s], Finish(t), UNCHANGED <<table, nextId>>
        PROVE  IInv'
    BY <1>1, <2>1, <2>2, <2>3, FinishStep, UnchangedIsTableStep,
       TableStepPreserves DEF OtherStep
  <2>4. ASSUME NEW s \in {sess[p], Reinvited(sess[p], "hold")}, NEW q \in Slots,
               nextId \in CallIds, nextId' = nextId + 1,
               sess' = [sess EXCEPT ![p] = s,
                          ![q] = NewSession("Calling", "Outgoing", nextId)],
               OnCallState(q, nextId, "Ringing"),
               cmd' = [cmd EXCEPT ![t] = Doing("made", nextId, q)]
        PROVE  IInv'
    <3>1. NewSession("Calling", "Outgoing", nextId) \in Session
      BY <2>4, NewSessionType DEF InvState, Direction
    <3>2. sess' \in [Slots -> Session]
      BY <2>2, <2>4, <3>1
    <3> QED
      BY <2>1, <2>4, <3>2, MadePreserves
  <2> QED
    BY <1>11, <2>3, <2>4 DEF PjStartAttendedXfer
<1>12. CASE PjMergeConference(t)
  <2>1. UNCHANGED <<table, nextId, dnd>> /\ Finish(t)
    BY <1>12 DEF PjMergeConference
  <2>2. sess' \in [Slots -> Session]
    <3>1. \A s \in Session : [s EXCEPT !.mic = TRUE] \in Session
      BY DEF Session
    <3> QED
      BY <1>1, <1>12, <3>1 DEF PjMergeConference
  <2> QED
    BY <1>1, <2>1, <2>2, FinishStep, UnchangedIsTableStep, TableStepPreserves
       DEF OtherStep
<1>13. CASE LogFailure(t)
  BY <1>1, <1>13, FinishStep, UnchangedIsTableStep, TableStepPreserves
     DEF LogFailure, OtherStep
<1> QED
  BY <1>3, <1>4, <1>5, <1>6, <1>7, <1>8, <1>9, <1>10, <1>11, <1>12, <1>13 DEF ThreadStep

LEMMA NewCommandPreserves ==
  ASSUME IInv, NEW t \in Threads, NewCommand(t)
  PROVE  IInv'
<1>1. /\ sess \in [Slots -> Session] /\ dnd \in BOOLEAN
      /\ calls \in [CallIds -> Call]
      /\ \A c \in Known : calls[c].pj \in Slots /\ c \in CallIds
  BY DEF IInv, TypeOK, Known
<1>2. CASE CallStart(t)
  <2>1. CASE UNCHANGED <<table, sess, cmd>> /\ nextId' = nextId + 1 /\ dnd' = dnd
             /\ nextId \in CallIds
    \* The id is lost.
    <3>1. nextId \in Nat /\ nextId' \in 1 .. (MaxCallId + 1)
      BY <2>1, CallsAssumption DEF CallIds
    <3>2. TypeOK' /\ RoutesToItsSlot' /\ HoldsSlot' /\ HoldApart'
      BY <2>1, <3>1 DEF IInv, TypeOK, RoutesToItsSlot, HoldsSlot, HoldApart,
         table, Known
    <3>3. FreshIds'
      <4> SUFFICES ASSUME NEW c \in CallIds, c >= nextId'
                   PROVE  c \notin Known' /\ c \notin ended'
        BY DEF FreshIds
      <4>1. c >= nextId
        BY <2>1, <3>1 DEF CallIds
      <4> QED
        BY <2>1, <4>1 DEF IInv, FreshIds, table, Known
    <3>4. HoldsNewCall'
      <4>1. \A i \in CallIds : i < nextId => i < nextId'
        BY <2>1, <3>1, CallsAssumption DEF CallIds
      <4> QED
        BY <2>1, <4>1 DEF IInv, HoldsNewCall, table, Known
    <3> QED
      BY <3>2, <3>3, <3>4 DEF IInv
  <2>2. ASSUME NEW p \in Slots, CallMade(t, p), nextId \in CallIds,
               nextId' = nextId + 1, dnd' = dnd
        PROVE  IInv'
    <3>1. NewSession("Calling", "Outgoing", nextId) \in Session
      BY <2>2, NewSessionType DEF InvState, Direction
    <3>2. sess' \in [Slots -> Session]
      BY <1>1, <2>2, <3>1 DEF CallMade
    <3> QED
      BY <2>2, <3>2, MadePreserves DEF CallMade
  <2> QED
    BY <1>2, <2>1, <2>2 DEF CallStart
<1>3. CASE SetGlobalDnd(t)
  BY <1>1, <1>3, IdleCmdStep, UnchangedIsTableStep, TableStepPreserves
     DEF SetGlobalDnd, OtherStep
<1>4. ASSUME NEW c \in Known, NEW op \in {"answer", "hangup", "attended"},
             cmd' = [cmd EXCEPT ![t] = Doing(op, c, calls[c].pj)],
             UNCHANGED <<table, nextId, dnd, sess>>
      PROVE  IInv'
  <2> DEFINE k == Doing(op, c, calls[c].pj)
  <2>1. k \in Command /\ k.op = op /\ k.slot \in Slots
    BY <1>1, DoingType DEF Steps
  <2>2. cmd' = [cmd EXCEPT ![t] = k]
    BY <1>4
  <2> HIDE DEF k
  <2>3. OtherStep
    BY <1>1, <1>4, <2>1, <2>2, CmdStep DEF OtherStep, Starting
  <2> QED
    BY <1>4, <2>3, UnchangedIsTableStep, TableStepPreserves
<1>5. ASSUME NEW c \in Known, NEW call \in Call,
             NEW op \in {"hold", "unhold", "mute", "unmute"},
             calls' = [calls EXCEPT ![c] = call],
             call.pj = calls[c].pj, call.state # "Absent",
             cmd' = [cmd EXCEPT ![t] = Doing(op, c, calls[c].pj)],
             UNCHANGED <<pjMap, nextId, dnd, sess, ended, lost>>
      PROVE  IInv'
  <2> DEFINE k == Doing(op, c, calls[c].pj)
  <2>1. k \in Command /\ k.op = op /\ k.slot \in Slots
    BY <1>1, DoingType DEF Steps
  <2>2. cmd' = [cmd EXCEPT ![t] = k]
    BY <1>5
  <2> HIDE DEF k
  <2>3. OtherStep
    BY <1>1, <1>5, <2>1, <2>2, CmdStep DEF OtherStep, Starting
  <2>4. TableStep
    BY <1>1, <1>5 DEF TableStep, IInv, TypeOK, Known
  <2> QED
    BY <2>3, <2>4, TableStepPreserves
<1>6. ASSUME NEW c \in Known, NEW on \in BOOLEAN,
             CallHold(t, c, on) \/ CallMute(t, c, on)
      PROVE  IInv'
  <2>1. calls[c] \in Call /\ calls[c].state # "Absent" /\ c \in CallIds
    BY <1>1 DEF Known
  <2>2. CASE CallHold(t, c, on)
    <3> DEFINE call == [calls[c] EXCEPT !.on_hold = on, !.resumed = ~on,
                          !.state = IF on THEN "OnHold" ELSE "InCall"]
    <3>1. call \in Call /\ call.pj = calls[c].pj /\ call.state # "Absent"
      BY <2>1 DEF Call, CallState
    <3>2. calls' = [calls EXCEPT ![c] = call]
      BY <1>1, <2>2 DEF CallHold
    <3> HIDE DEF call
    <3> QED
      BY <1>5, <2>2, <3>1, <3>2 DEF CallHold
  <2>3. CASE CallMute(t, c, on)
    <3> DEFINE call == [calls[c] EXCEPT !.muted = on]
    <3>1. call \in Call /\ call.pj = calls[c].pj /\ call.state # "Absent"
      BY <2>1 DEF Call
    <3>2. calls' = [calls EXCEPT ![c] = call]
      BY <1>1, <2>3 DEF CallMute
    <3> HIDE DEF call
    <3> QED
      BY <1>5, <2>3, <3>1, <3>2 DEF CallMute
  <2> QED
    BY <1>6, <2>2, <2>3
<1>7. ASSUME NEW a \in Known, NEW b \in Known, MergeConference(t, a, b)
      PROVE  IInv'
  <2> DEFINE k == [Doing("merge", a, calls[a].pj) EXCEPT !.other = calls[b].pj]
  <2>1. k \in Command /\ k.op = "merge" /\ k.slot \in Slots /\ k.other \in Slots
    BY <1>1 DEF Doing, Command, Steps
  <2>2. cmd' = [cmd EXCEPT ![t] = k] /\ UNCHANGED <<table, nextId, dnd, sess>>
    BY <1>7 DEF MergeConference
  <2> HIDE DEF k
  <2>3. OtherStep
    BY <1>1, <2>1, <2>2, CmdStep DEF OtherStep, Starting
  <2> QED
    BY <2>2, <2>3, UnchangedIsTableStep, TableStepPreserves
<1> QED
  BY <1>2, <1>3, <1>4, <1>6, <1>7
     DEF NewCommand, Named, CallAnswer, CallHangup, StartAttendedXfer, CompleteXfer

-----------------------------------------------------------------------------
(* The worker thread *)

LEMMA WorkerStepPreserves ==
  ASSUME IInv, NEW p \in Slots, WorkerStep(p)
  PROVE  IInv'
<1>1. /\ sess \in [Slots -> Session] /\ dnd \in BOOLEAN
      /\ sess[p] \in Session /\ sess[p].own \in CallIds \cup {NoCall}
      /\ sess[p].remHold \in BOOLEAN /\ sess[p].held \in BOOLEAN
      /\ sess[p].active \in BOOLEAN
  BY DEF IInv, TypeOK, Session
\* A callback, or none, with a new value for the slot.
<1>2. ASSUME NEW s \in Session, sess' = [sess EXCEPT ![p] = s], TableStep,
             UNCHANGED <<nextId, dnd, cmd>>
      PROVE  IInv'
  <2>1. OtherStep
    BY <1>1, <1>2, IdleCmdStep DEF OtherStep
  <2> QED
    BY <1>2, <2>1, TableStepPreserves
<1>3. \A s \in Session :
        /\ \A inv \in InvState : [s EXCEPT !.inv = inv] \in Session
        /\ [s EXCEPT !.sdp = TRUE] \in Session
        /\ [s EXCEPT !.sdp = TRUE, !.inv = "Accepted"] \in Session
        /\ [s EXCEPT !.pend = "none"] \in Session
        /\ \A h \in BOOLEAN : /\ [s EXCEPT !.held = h, !.pend = "none"] \in Session
                              /\ [s EXCEPT !.remHold = h, !.pend = "remote"] \in Session
  <2> SUFFICES ASSUME NEW s \in Session
               PROVE  /\ \A inv \in InvState : [s EXCEPT !.inv = inv] \in Session
                      /\ [s EXCEPT !.sdp = TRUE] \in Session
                      /\ [s EXCEPT !.sdp = TRUE, !.inv = "Accepted"] \in Session
                      /\ [s EXCEPT !.pend = "none"] \in Session
                      /\ \A h \in BOOLEAN :
                           /\ [s EXCEPT !.held = h, !.pend = "none"] \in Session
                           /\ [s EXCEPT !.remHold = h, !.pend = "remote"] \in Session
    BY Zenon
  <2>1. \A inv \in InvState : [s EXCEPT !.inv = inv] \in Session
    BY DEF Session
  <2>2. [s EXCEPT !.sdp = TRUE] \in Session
    BY DEF Session
  <2>3. [s EXCEPT !.sdp = TRUE, !.inv = "Accepted"] \in Session
    BY DEF Session, InvState
  <2>4. [s EXCEPT !.pend = "none"] \in Session
    BY DEF Session
  <2>5. ASSUME NEW h \in BOOLEAN
        PROVE  /\ [s EXCEPT !.held = h, !.pend = "none"] \in Session
               /\ [s EXCEPT !.remHold = h, !.pend = "remote"] \in Session
    BY DEF Session
  <2> QED
    BY <2>1, <2>2, <2>3, <2>4, <2>5, Zenon
<1>4. CASE IncomingRejected(p)
  <2>1. NewSession("Closing", "Incoming", NoCall) \in Session
    BY NewSessionType DEF InvState, Direction
  <2>2. TableStep
    BY <1>4, OnCallStateIsTableStep DEF IncomingRejected
  <2> QED
    BY <1>2, <1>4, <2>1, <2>2 DEF IncomingRejected
<1>5. CASE IncomingUnknownAccount(p)
  <2>1. NewSession("Incoming", "Incoming", NoCall) \in Session
    BY NewSessionType DEF InvState, Direction
  <2> QED
    BY <1>2, <1>5, <2>1, UnchangedIsTableStep DEF IncomingUnknownAccount
<1>6. CASE IncomingCall(p)
  BY <1>6, IncomingCallPreserves
<1>7. CASE Early(p)
  <2>1. TableStep
    BY <1>1, <1>7, OnCallStateIsTableStep DEF Early
  <2>2. [sess[p] EXCEPT !.inv = "Early"] \in Session
    BY <1>1, <1>3 DEF InvState
  <2>3. sess' = [sess EXCEPT ![p] = [sess[p] EXCEPT !.inv = "Early"]]
    BY <1>7 DEF Early
  <2> QED
    BY <1>2, <1>7, <2>1, <2>2, <2>3 DEF Early
<1>8. CASE EarlyMedia(p)
  <2> DEFINE s == Bridged([sess[p] EXCEPT !.sdp = TRUE], TRUE)
  <2>1. s \in Session
    BY <1>1, <1>3, BridgedIs
  <2>2. sess' = [sess EXCEPT ![p] = s]
    BY <1>8 DEF EarlyMedia
  <2> QED
    BY <1>2, <1>8, <2>1, <2>2, UnchangedIsTableStep DEF EarlyMedia
<1>9. CASE Accepted(p)
  <2>1. TableStep
    BY <1>1, <1>9, OnCallStateIsTableStep DEF Accepted
  <2>2. [sess[p] EXCEPT !.inv = "Accepted"] \in Session
    BY <1>1, <1>3 DEF InvState
  <2>3. sess' = [sess EXCEPT ![p] = [sess[p] EXCEPT !.inv = "Accepted"]]
    BY <1>9 DEF Accepted
  <2> QED
    BY <1>2, <1>9, <2>1, <2>2, <2>3 DEF Accepted
<1>10. CASE AcceptedMedia(p)
  <2> DEFINE s == Bridged([sess[p] EXCEPT !.sdp = TRUE, !.inv = "Accepted"], TRUE)
  <2>1. s \in Session
    BY <1>1, <1>3, BridgedIs
  <2>2. sess' = [sess EXCEPT ![p] = s]
    BY <1>10 DEF AcceptedMedia
  <2> QED
    BY <1>2, <1>10, <2>1, <2>2, UnchangedIsTableStep DEF AcceptedMedia
<1>11. CASE Confirmed(p)
  <2>1. TableStep
    BY <1>1, <1>11, OnCallStateIsTableStep DEF Confirmed
  <2>2. [sess[p] EXCEPT !.inv = "Confirmed"] \in Session
    BY <1>1, <1>3 DEF InvState
  <2>3. sess' = [sess EXCEPT ![p] = [sess[p] EXCEPT !.inv = "Confirmed"]]
    BY <1>11 DEF Confirmed
  <2> QED
    BY <1>2, <1>11, <2>1, <2>2, <2>3 DEF Confirmed
<1>12. CASE ReinviteAnswered(p)
  <2> DEFINE active == ~sess[p].held /\ ~sess[p].remHold
  <2>1. active \in BOOLEAN
    OBVIOUS
  <2>2. /\ sess' = [sess EXCEPT ![p] = Bridged(sess[p], active)]
        /\ UNCHANGED <<table, nextId, dnd, cmd>>
    BY <1>12 DEF ReinviteAnswered
  <2> HIDE DEF active
  <2>3. Bridged(sess[p], active) \in Session
    BY <1>1, <2>1, BridgedIs
  <2> QED
    BY <1>2, <2>2, <2>3, UnchangedIsTableStep
<1>13. CASE ReinviteRefused(p)
  <2> DEFINE held == sess[p].pend = "unhold"
             s == [sess[p] EXCEPT !.held = held, !.pend = "none"]
  <2>1. held \in BOOLEAN
    OBVIOUS
  <2>2. /\ sess' = [sess EXCEPT ![p] = s]
        /\ UNCHANGED <<table, nextId, dnd, cmd>>
    BY <1>1, <1>13 DEF ReinviteRefused
  <2> HIDE DEF held
  <2>3. s \in Session
    BY <1>1, <1>3, <2>1
  <2> QED
    BY <1>2, <2>2, <2>3, UnchangedIsTableStep
<1>14. CASE RemoteReinvite(p)
  <2> DEFINE remHold == ~sess[p].remHold
             r == [sess[p] EXCEPT !.remHold = remHold, !.pend = "remote"]
             active == ~r.held /\ ~r.remHold
  <2>1. remHold \in BOOLEAN /\ active \in BOOLEAN
    OBVIOUS
  <2>2. /\ sess' = [sess EXCEPT ![p] = Bridged(r, active)]
        /\ UNCHANGED <<table, nextId, dnd, cmd>>
    BY <1>14 DEF RemoteReinvite
  <2>3. r \in Session
    BY <1>1, <1>3, <2>1
  <2> HIDE DEF remHold, r, active
  <2>4. Bridged(r, active) \in Session
    BY <2>1, <2>3, BridgedIs
  <2> QED
    BY <1>2, <2>2, <2>4, UnchangedIsTableStep
<1>15. CASE RemoteAck(p)
  <2>1. [sess[p] EXCEPT !.pend = "none"] \in Session
    BY <1>1, <1>3
  <2>2. sess' = [sess EXCEPT ![p] = [sess[p] EXCEPT !.pend = "none"]]
    BY <1>15 DEF RemoteAck
  <2> QED
    BY <1>2, <1>15, <2>1, <2>2, UnchangedIsTableStep DEF RemoteAck
<1>16. CASE RemoteEnd(p)
  <2>1. TableStep
    BY <1>1, <1>16, OnCallStateIsTableStep DEF RemoteEnd
  <2> QED
    BY <1>2, <1>16, <2>1, FreeSlotType DEF RemoteEnd
<1>17. CASE SlotFreed(p)
  BY <1>2, <1>17, FreeSlotType, UnchangedIsTableStep DEF SlotFreed
<1>18. CASE MediaReport(p)
  <2>1. TableStep
    BY <1>1, <1>18, OnCallMediaIsTableStep DEF MediaReport
  <2>2. AfterMedia(sess[p], pjMap[p]) \in Session
    BY <1>1, AfterMediaIs
  <2> QED
    BY <1>2, <1>18, <2>1, <2>2 DEF MediaReport
<1> QED
  BY <1>4, <1>5, <1>6, <1>7, <1>8, <1>9, <1>10, <1>11, <1>12, <1>13, <1>14,
     <1>15, <1>16, <1>17, <1>18 DEF WorkerStep

-----------------------------------------------------------------------------
(* Theorems *)

LEMMA InitIInv == ASSUME Init PROVE IInv
<1>1. Idle \in Command /\ Idle.op = "idle"
  BY DoingType DEF Idle, Steps
<1>2. Absent \in Call /\ Absent.state = "Absent"
  BY DEF Absent, NewCall, Call, CallState, Direction
<1>3. Known = {}
  BY <1>2 DEF Init, Known
<1>4. nextId \in 1 .. (MaxCallId + 1)
  BY CallsAssumption DEF Init
<1>5. TypeOK
  BY <1>1, <1>2, <1>3, <1>4, FreeSlotType DEF Init, TypeOK
<1> QED
  BY <1>1, <1>2, <1>3, <1>5 DEF Init, IInv, RoutesToItsSlot, FreshIds, HoldsSlot,
     HoldsNewCall, HoldApart, Known, Starting

LEMMA InductiveStep ==
  ASSUME IInv, [Next]_vars
  PROVE  IInv'
<1>1. CASE UNCHANGED vars
  <2>1. OtherStep /\ TableStep
    BY <1>1, IdleCmdStep, UnchangedIsTableStep DEF vars, table, OtherStep, IInv, TypeOK
  <2> QED
    BY <2>1, TableStepPreserves
<1>2. ASSUME NEW t \in Threads, ThreadStep(t) \/ NewCommand(t) PROVE IInv'
  BY <1>2, ThreadStepPreserves, NewCommandPreserves
<1>3. ASSUME NEW p \in Slots, WorkerStep(p) PROVE IInv'
  BY <1>3, WorkerStepPreserves
<1> QED
  BY <1>1, <1>2, <1>3 DEF Next

\* IInv is inductive.
THEOREM Inductive == Spec => []IInv
<1>1. IInv /\ [Next]_vars => IInv'
  BY InductiveStep
<1> QED
  BY <1>1, InitIInv, PTL DEF Spec

\* The tables, the slots and the commands are well formed, and every entry of
\* CALLS is wired to a pjsua slot, in every reachable state.
THEOREM TypeCorrect == Spec => []TypeOK
<1>1. IInv => TypeOK
  BY DEF IInv
<1> QED
  BY <1>1, Inductive, PTL

\* PJSIP_CALL_MAP always routes a slot's callbacks to a call that was made on
\* that slot and has not ended (pjsip_on_call_state, cmd_call_start,
\* engine_start_attended_xfer, pjsip_on_incoming_call).
THEOREM RoutingCorrect == Spec => []RoutesToItsSlot
<1>1. IInv => RoutesToItsSlot
  BY DEF IInv
<1> QED
  BY <1>1, Inductive, PTL

-----------------------------------------------------------------------------
(***************************************************************************)
(* What the steps do to the sessions of pjsua.                             *)
(*                                                                         *)
(* The busy rule: two incoming calls are never live at once.  The check of *)
(* the shim looks only at the moment an INVITE arrives; what keeps the     *)
(* rule afterwards is that no other step makes an incoming session live.   *)
(* The one step that writes the state of a session without reading it is   *)
(* the end of an answer, which relies on the dialog lock.                  *)
(*                                                                         *)
(* The microphone of a muted call: the shim connects it in every media     *)
(* callback, so it is sent until the engine has run its half; of all the   *)
(* steps that touch a session only an unmute and a merge leave it on       *)
(* (OnlyMergeUnmutes).  The type invariant is all this rests on, because   *)
(* the engine reads muted again in every callback, under the lock that     *)
(* cmd_call_mute writes it under.                                          *)
(***************************************************************************)

Answering(t) == cmd[t].op = "answering"

\* An answer that is on its way has the dialog lock: its session still is
\* the incoming one it began with, and no other thread answers it.
AnswersAlone ==
  \A t \in Threads :
    Answering(t) =>
      /\ cmd[t].slot \in Slots
      /\ sess[cmd[t].slot].inv = "Incoming"
      /\ \A u \in Threads : Answering(u) /\ cmd[u].slot = cmd[t].slot => t = u

LiveIncoming(s) == Live(s) /\ s.dir = "Incoming"

\* A slot has a live incoming call only if it had one, or if it is the only
\* slot with a live call.
BusyStep ==
  \A p \in Slots :
    LiveIncoming(sess'[p]) =>
      \/ LiveIncoming(sess[p])
      \/ \A q \in Slots \ {p} : ~Live(sess'[q])

\* A session may change if it is not being answered, and nobody begins to
\* answer.
AnswersStep ==
  \A t \in Threads :
    Answering(t)' =>
      /\ Answering(t) /\ cmd'[t] = cmd[t]
      /\ sess'[cmd[t].slot].inv = "Incoming"

-----------------------------------------------------------------------------
LEMMA BusyStepKeeps ==
  ASSUME OneLiveIncoming, BusyStep
  PROVE  OneLiveIncoming'
  BY DEF OneLiveIncoming, BusyStep, LiveIncoming, Live

LEMMA AnswersStepKeeps ==
  ASSUME AnswersAlone, AnswersStep
  PROVE  AnswersAlone'
  BY DEF AnswersAlone, AnswersStep, Answering

\* A step that changes one slot that nobody answers, to a session s that is
\* no more live and incoming than the old one.
LEMMA SlotStep ==
  ASSUME IInv, AnswersAlone, NEW p \in Slots, NEW s, sess' = [sess EXCEPT ![p] = s],
         LiveIncoming(s) => LiveIncoming(sess[p]),
         \A t \in Threads : Answering(t)' =>
            Answering(t) /\ cmd'[t] = cmd[t] /\ cmd[t].slot # p
  PROVE  BusyStep /\ AnswersStep
<1>1. sess \in [Slots -> Session]
  BY DEF IInv, TypeOK
<1>2. sess'[p] = s /\ \A q \in Slots \ {p} : sess'[q] = sess[q]
  BY <1>1
<1>3. BusyStep
  BY <1>2 DEF BusyStep
<1>4. AnswersStep
  BY <1>2 DEF AnswersStep, AnswersAlone
<1> QED
  BY <1>3, <1>4

\* A step that changes no session, and after which nobody answers who did not
\* before.
LEMMA NoSlotStep ==
  ASSUME AnswersAlone, UNCHANGED sess,
         \A t \in Threads : Answering(t)' => Answering(t) /\ cmd'[t] = cmd[t]
  PROVE  BusyStep /\ AnswersStep
  BY DEF BusyStep, AnswersStep, AnswersAlone

\* A step that leaves every session what it is.
LEMMA SameKindStep ==
  ASSUME AnswersAlone,
         \A q \in Slots : sess'[q].inv = sess[q].inv /\ sess'[q].dir = sess[q].dir,
         \A t \in Threads : Answering(t)' => Answering(t) /\ cmd'[t] = cmd[t]
  PROVE  BusyStep /\ AnswersStep
  BY DEF BusyStep, LiveIncoming, Live, AnswersStep, AnswersAlone

\* A slot that is free is not being answered, nor is one that is not locked.
LEMMA NotAnswered ==
  ASSUME AnswersAlone, NEW p \in Slots,
         ~Locked(p) \/ sess[p].inv # "Incoming"
  PROVE  \A t \in Threads : Answering(t) => cmd[t].slot # p
  BY DEF AnswersAlone, Locked, Answering

\* What a thread does next, if it is not to answer.
LEMMA CmdKeepsAnswers ==
  ASSUME IInv, NEW t \in Threads, NEW k, cmd' = [cmd EXCEPT ![t] = k],
         k.op # "answering"
  PROVE  \A u \in Threads : Answering(u)' => Answering(u) /\ cmd'[u] = cmd[u]
  BY DEF IInv, TypeOK, Answering

LEMMA FinishKeepsAnswers ==
  ASSUME IInv, NEW t \in Threads, Finish(t)
  PROVE  \A u \in Threads : Answering(u)' =>
            Answering(u) /\ cmd'[u] = cmd[u] /\ u # t
<1>1. cmd' = [cmd EXCEPT ![t] = Idle] /\ Idle.op = "idle"
  BY DEF Finish, Idle, Doing
<1> QED
  BY <1>1 DEF IInv, TypeOK, Answering

LEMMA ReinvitedKeepsKind ==
  ASSUME NEW s \in Session, NEW kind
  PROVE  Reinvited(s, kind).inv = s.inv /\ Reinvited(s, kind).dir = s.dir
  BY DEF Reinvited, Session

LEMMA MicKeepsKind ==
  ASSUME IInv, NEW p \in Slots, NEW mic, sess' = [sess EXCEPT ![p].mic = mic]
  PROVE  \A q \in Slots : sess'[q].inv = sess[q].inv /\ sess'[q].dir = sess[q].dir
  BY DEF IInv, TypeOK, Session

\* A call on its way out, on a free slot q, after a hold of another slot or not.
LEMMA StartAttendedXferBusy ==
  ASSUME IInv, AnswersAlone, NEW t \in Threads, PjStartAttendedXfer(t)
  PROVE  BusyStep /\ AnswersAlone'
<1> DEFINE p == cmd[t].slot
<1>1. /\ sess \in [Slots -> Session] /\ p \in Slots /\ sess[p] \in Session
  BY DEF PjStartAttendedXfer, IInv, TypeOK, HoldsSlot
<1>2. PICK s \in {sess[p], Reinvited(sess[p], "hold")} :
        \/ sess' = [sess EXCEPT ![p] = s] /\ Finish(t)
        \/ \E q \in Slots :
             /\ Allocatable(q)
             /\ sess' = [sess EXCEPT ![p] = s,
                           ![q] = NewSession("Calling", "Outgoing", nextId)]
             /\ cmd' = [cmd EXCEPT ![t] = Doing("made", nextId, q)]
  BY DEF PjStartAttendedXfer
<1>3. s.inv = sess[p].inv /\ s.dir = sess[p].dir
  BY <1>1, <1>2, ReinvitedKeepsKind
<1>4. CASE sess' = [sess EXCEPT ![p] = s] /\ Finish(t)
  <2>1. \A q \in Slots : sess'[q].inv = sess[q].inv /\ sess'[q].dir = sess[q].dir
    BY <1>1, <1>3, <1>4
  <2>2. \A u \in Threads : Answering(u)' => Answering(u) /\ cmd'[u] = cmd[u]
    BY <1>4, FinishKeepsAnswers
  <2> QED
    BY <2>1, <2>2, SameKindStep, AnswersStepKeeps
<1>5. ASSUME NEW q \in Slots, Allocatable(q),
             sess' = [sess EXCEPT ![p] = s,
                        ![q] = NewSession("Calling", "Outgoing", nextId)],
             cmd' = [cmd EXCEPT ![t] = Doing("made", nextId, q)]
      PROVE  BusyStep /\ AnswersAlone'
  <2>1. /\ ~LiveIncoming(sess'[q])
        /\ \A r \in Slots \ {q} : sess'[r].inv = sess[r].inv /\ sess'[r].dir = sess[r].dir
    BY <1>1, <1>3, <1>5 DEF LiveIncoming, NewSession
  <2>2. BusyStep
    BY <2>1 DEF BusyStep, LiveIncoming, Live
  <2>3. \A u \in Threads : Answering(u) => cmd[u].slot # q
    BY <1>5, NotAnswered DEF Allocatable
  <2>4. Doing("made", nextId, q).op # "answering"
    BY DEF Doing
  <2>5. \A u \in Threads : Answering(u)' => Answering(u) /\ cmd'[u] = cmd[u]
    BY <1>5, <2>4, CmdKeepsAnswers
  <2>6. AnswersStep
    BY <2>1, <2>3, <2>5 DEF AnswersStep, AnswersAlone
  <2> QED
    BY <2>2, <2>6, AnswersStepKeeps
<1> QED
  BY <1>2, <1>4, <1>5

-----------------------------------------------------------------------------
(* Commands *)

LEMMA ThreadStepBusy ==
  ASSUME IInv, AnswersAlone, NEW t \in Threads, ThreadStep(t)
  PROVE  BusyStep /\ AnswersAlone'
<1>1. /\ cmd[t] \in Command /\ sess \in [Slots -> Session]
      /\ cmd[t].op # "idle" => cmd[t].slot \in Slots
      /\ cmd[t].op = "merge" => cmd[t].other \in Slots
  BY DEF IInv, TypeOK, HoldsSlot
<1> DEFINE p == cmd[t].slot
<1>2. ASSUME BusyStep /\ AnswersStep PROVE BusyStep /\ AnswersAlone'
  BY <1>2, AnswersStepKeeps
\* A thread that ends its command, or its part of one, and changes no session.
<1>3. ASSUME Finish(t), UNCHANGED sess PROVE BusyStep /\ AnswersAlone'
  BY <1>2, <1>3, FinishKeepsAnswers, NoSlotStep
<1>4. ASSUME NEW op, op # "answering", Continue(t, op), UNCHANGED sess
      PROVE  BusyStep /\ AnswersAlone'
  <2> DEFINE k == [cmd[t] EXCEPT !.op = op]
  <2>1. cmd' = [cmd EXCEPT ![t] = k] /\ k.op = op
    BY <1>1, <1>4 DEF Continue, Command
  <2> HIDE DEF k
  <2> QED
    BY <1>2, <1>4, <2>1, CmdKeepsAnswers, NoSlotStep
\* A thread that ends its command and changes the session of its slot.
<1>5. ASSUME NEW s, p \in Slots, sess' = [sess EXCEPT ![p] = s], Finish(t),
             LiveIncoming(s) => LiveIncoming(sess[p]),
             ~Locked(p) \/ Answering(t)
      PROVE  BusyStep /\ AnswersAlone'
  <2>1. \A u \in Threads : Answering(u) /\ u # t => cmd[u].slot # p
    BY <1>5, NotAnswered DEF AnswersAlone
  <2>2. \A u \in Threads : Answering(u)' =>
            Answering(u) /\ cmd'[u] = cmd[u] /\ cmd[u].slot # p
    BY <1>5, <2>1, FinishKeepsAnswers
  <2> HIDE DEF p
  <2> QED
    BY <1>2, <1>5, <2>2, SlotStep
<1>6. CASE CallsInsert(t)
  BY <1>4, <1>6 DEF CallsInsert
<1>7. CASE MapInsert(t)
  BY <1>3, <1>7 DEF MapInsert
<1>8. CASE PjAnswer(t)
  <2>1. p \in Slots
    BY <1>1, <1>8 DEF PjAnswer
  <2>2. CASE (PjFails(t) \/ Finish(t)) /\ UNCHANGED sess
    BY <1>3, <1>4, <2>2 DEF PjFails
  <2>3. CASE /\ ~Locked(p) /\ sess[p].inv = "Incoming" /\ Continue(t, "answering")
             /\ sess' = IF sess[p].sdp THEN sess
                        ELSE [sess EXCEPT ![p] = Bridged([sess[p] EXCEPT !.sdp = TRUE], TRUE)]
    <3> DEFINE s == IF sess[p].sdp THEN sess[p]
                    ELSE Bridged([sess[p] EXCEPT !.sdp = TRUE], TRUE)
    <3>1. [sess[p] EXCEPT !.sdp = TRUE] \in Session
          /\ [sess[p] EXCEPT !.sdp = TRUE].inv = sess[p].inv
          /\ [sess[p] EXCEPT !.sdp = TRUE].dir = sess[p].dir
      <4>1. sess[p] \in Session
        BY <1>1, <2>1
      <4> QED
        BY <4>1 DEF Session
    <3>2. s.inv = "Incoming" /\ s.dir = sess[p].dir
      BY <2>1, <2>3, <3>1, BridgedIs
    <3> HIDE DEF s
    <3>3. sess' = [sess EXCEPT ![p] = s]
      BY <1>1, <2>1, <2>3 DEF s
    <3>4. sess'[p] = s /\ \A q \in Slots \ {p} : sess'[q] = sess[q]
      BY <1>1, <2>1, <3>3
    <3>5. BusyStep
      BY <2>3, <3>2, <3>4 DEF BusyStep, LiveIncoming, Live
    <3>6. /\ cmd'[t] = [cmd[t] EXCEPT !.op = "answering"]
          /\ \A u \in Threads \ {t} : cmd'[u] = cmd[u]
      BY <2>3 DEF Continue, IInv, TypeOK
    <3>7. cmd'[t].slot = p
      BY <1>1, <3>6 DEF Command
    <3>8. \A u \in Threads : Answering(u) => cmd[u].slot # p
      BY <2>1, <2>3, NotAnswered
    <3> HIDE DEF p
    <3>9. AnswersAlone'
      <4>1. \A u \in Threads \ {t} :
              Answering(u)' => /\ cmd'[u] = cmd[u] /\ cmd[u].slot \in Slots \ {p}
                               /\ sess[cmd[u].slot].inv = "Incoming"
        BY <3>6, <3>8 DEF AnswersAlone, Answering
      <4>2. \A u, v \in Threads \ {t} :
              Answering(u)' /\ Answering(v)' /\ cmd'[u].slot = cmd'[v].slot => u = v
        BY <3>6 DEF AnswersAlone, Answering
      <4>3. \A u \in Threads :
              Answering(u)' => cmd'[u].slot \in Slots
                               /\ sess'[cmd'[u].slot].inv = "Incoming"
        BY <2>1, <3>2, <3>4, <3>7, <4>1
      <4> QED
        BY <3>7, <4>1, <4>2, <4>3 DEF AnswersAlone, Answering
    <3> QED
      BY <3>5, <3>9
  <2>4. CASE ~Locked(p) /\ sess[p].inv = "Incoming" /\ Finish(t)
             /\ sess' = [sess EXCEPT ![p].inv = "Connecting"]
    <3> DEFINE s == [sess[p] EXCEPT !.inv = "Connecting"]
    <3>1. s.dir = sess[p].dir /\ sess' = [sess EXCEPT ![p] = s]
      BY <1>1, <2>1, <2>4 DEF Session
    <3>2. LiveIncoming(s) => LiveIncoming(sess[p])
      BY <2>4, <3>1 DEF LiveIncoming, Live
    <3> HIDE DEF s
    <3> QED
      BY <1>5, <2>1, <2>4, <3>1, <3>2
  <2> QED
    BY <1>8, <2>2, <2>3, <2>4 DEF PjAnswer
<1>9. CASE AnswerSent(t)
  <2> DEFINE s == [sess[p] EXCEPT !.inv = "Connecting"]
  <2>1. p \in Slots /\ Answering(t) /\ sess[p].inv = "Incoming"
    BY <1>9 DEF AnswerSent, AnswersAlone, Answering
  <2>2. CASE PjFails(t) /\ UNCHANGED sess
    BY <1>4, <2>2 DEF PjFails
  <2>3. CASE sess' = [sess EXCEPT ![p].inv = "Connecting"] /\ Finish(t)
    <3>1. s.dir = sess[p].dir /\ sess' = [sess EXCEPT ![p] = s] /\ Finish(t)
      BY <1>1, <2>1, <2>3 DEF Session
    <3>2. LiveIncoming(s) => LiveIncoming(sess[p])
      BY <2>1, <3>1 DEF LiveIncoming, Live
    <3> HIDE DEF s
    <3> QED
      BY <1>5, <2>1, <3>1, <3>2
  <2> QED
    BY <1>9, <2>2, <2>3 DEF AnswerSent
<1>10. CASE PjHangup(t)
  <2> DEFINE s == NewSession("Closing", sess[p].dir, sess[p].own)
  <2>1. p \in Slots
    BY <1>1, <1>10 DEF PjHangup
  <2>2. CASE (PjFails(t) \/ Finish(t)) /\ UNCHANGED sess
    BY <1>3, <1>4, <2>2 DEF PjFails
  <2>3. CASE ~Locked(p) /\ sess' = [sess EXCEPT ![p] = s] /\ Continue(t, "report")
    <3>1. ~LiveIncoming(s)
      BY DEF LiveIncoming, Live, NewSession
    <3> DEFINE k == [cmd[t] EXCEPT !.op = "report"]
    <3>2. cmd' = [cmd EXCEPT ![t] = k] /\ k.op # "answering"
      BY <1>1, <2>3 DEF Continue, Command
    <3> HIDE DEF k, s
    <3>3. \A u \in Threads : Answering(u)' => Answering(u) /\ cmd'[u] = cmd[u]
      BY <3>2, CmdKeepsAnswers
    <3>4. \A u \in Threads : Answering(u) => cmd[u].slot # p
      BY <2>1, <2>3, NotAnswered
    <3> HIDE DEF p
    <3> QED
      BY <1>2, <2>1, <2>3, <3>1, <3>3, <3>4, SlotStep
  <2> QED
    BY <1>10, <2>2, <2>3 DEF PjHangup
<1>11. CASE HangupReported(t)
  BY <1>3, <1>11 DEF HangupReported
<1>12. CASE PjHold(t)
  <2> DEFINE s == Reinvited(sess[p], cmd[t].op)
  <2>1. p \in Slots /\ Finish(t)
    BY <1>1, <1>12 DEF PjHold
  <2>2. CASE UNCHANGED sess
    BY <1>3, <2>1, <2>2
  <2>3. CASE ~Locked(p) /\ sess' = [sess EXCEPT ![p] = s]
    <3>1. LiveIncoming(s) => LiveIncoming(sess[p])
      BY <1>1, <2>1, ReinvitedKeepsKind DEF LiveIncoming, Live
    <3> HIDE DEF s
    <3> QED
      BY <1>5, <2>1, <2>3, <3>1
  <2> QED
    BY <1>12, <2>2, <2>3 DEF PjHold
<1>13. CASE PjMute(t)
  <2>1. p \in Slots /\ Finish(t)
        /\ \E mic : sess' = [sess EXCEPT ![p].mic = mic]
    BY <1>1, <1>13 DEF PjMute
  <2>2. \A q \in Slots : sess'[q].inv = sess[q].inv /\ sess'[q].dir = sess[q].dir
    BY <2>1, MicKeepsKind
  <2> QED
    BY <1>2, <2>1, <2>2, FinishKeepsAnswers, SameKindStep
<1>14. CASE PjStartAttendedXfer(t)
  BY <1>14, StartAttendedXferBusy
<1>15. CASE PjMergeConference(t)
  <2>1. /\ Finish(t)
        /\ \A q \in Slots : sess'[q].inv = sess[q].inv /\ sess'[q].dir = sess[q].dir
    BY <1>1, <1>15 DEF PjMergeConference, Session
  <2> QED
    BY <1>2, <2>1, FinishKeepsAnswers, SameKindStep
<1>16. CASE LogFailure(t)
  BY <1>3, <1>16 DEF LogFailure
<1> QED
  BY <1>6, <1>7, <1>8, <1>9, <1>10, <1>11, <1>12, <1>13, <1>14, <1>15, <1>16 DEF ThreadStep

LEMMA NewCommandBusy ==
  ASSUME IInv, AnswersAlone, NEW t \in Threads, NewCommand(t)
  PROVE  BusyStep /\ AnswersAlone'
<1>1. sess \in [Slots -> Session] /\ cmd \in [Threads -> Command]
  BY DEF IInv, TypeOK
\* A thread that begins a command.
<1>2. ASSUME NEW k, k.op # "answering", cmd' = [cmd EXCEPT ![t] = k], UNCHANGED sess
      PROVE  BusyStep /\ AnswersAlone'
  BY <1>2, CmdKeepsAnswers, NoSlotStep, AnswersStepKeeps
<1>3. ASSUME UNCHANGED <<sess, cmd>> PROVE BusyStep /\ AnswersAlone'
  BY <1>3, NoSlotStep, AnswersStepKeeps DEF Answering
<1>4. ASSUME NEW op, NEW c, NEW p, op # "answering", UNCHANGED sess,
             cmd' = [cmd EXCEPT ![t] = Doing(op, c, p)]
      PROVE  BusyStep /\ AnswersAlone'
  BY <1>2, <1>4 DEF Doing
<1>5. CASE CallStart(t)
  <2>1. ASSUME NEW p \in Slots, Allocatable(p), CallMade(t, p)
        PROVE  BusyStep /\ AnswersAlone'
    <3> DEFINE s == NewSession("Calling", "Outgoing", nextId)
    <3>1. sess' = [sess EXCEPT ![p] = s] /\ ~LiveIncoming(s)
      BY <2>1 DEF CallMade, LiveIncoming, NewSession
    <3> HIDE DEF s
    <3>2. \A u \in Threads : Answering(u) => cmd[u].slot # p
      BY <2>1, NotAnswered DEF Allocatable
    <3> DEFINE k == Doing("made", nextId, p)
    <3>3. cmd' = [cmd EXCEPT ![t] = k] /\ k.op # "answering"
      BY <2>1 DEF CallMade, Doing
    <3> HIDE DEF k
    <3>4. \A u \in Threads : Answering(u)' => Answering(u) /\ cmd'[u] = cmd[u]
      BY <3>3, CmdKeepsAnswers
    <3> QED
      BY <3>1, <3>2, <3>4, SlotStep, AnswersStepKeeps
  <2> QED
    BY <1>3, <1>5, <2>1 DEF CallStart
<1>6. CASE SetGlobalDnd(t)
  BY <1>3, <1>6 DEF SetGlobalDnd
<1>7. ASSUME NEW c \in Named, CallAnswer(t, c) PROVE BusyStep /\ AnswersAlone'
  BY <1>4, <1>7 DEF CallAnswer
<1>8. ASSUME NEW c \in Named, CallHangup(t, c) PROVE BusyStep /\ AnswersAlone'
  BY <1>4, <1>8 DEF CallHangup
<1>9. ASSUME NEW c \in Named, StartAttendedXfer(t, c) PROVE BusyStep /\ AnswersAlone'
  BY <1>4, <1>9 DEF StartAttendedXfer
<1>10. ASSUME NEW c \in Named, NEW on \in BOOLEAN, CallHold(t, c, on)
       PROVE  BusyStep /\ AnswersAlone'
  <2>1. PICK op \in {"hold", "unhold"} : cmd' = [cmd EXCEPT ![t] = Doing(op, c, calls[c].pj)]
    BY <1>10 DEF CallHold
  <2> QED
    BY <1>4, <1>10, <2>1 DEF CallHold
<1>11. ASSUME NEW c \in Named, NEW on \in BOOLEAN, CallMute(t, c, on)
       PROVE  BusyStep /\ AnswersAlone'
  <2>1. PICK op \in {"mute", "unmute"} : cmd' = [cmd EXCEPT ![t] = Doing(op, c, calls[c].pj)]
    BY <1>11 DEF CallMute
  <2> QED
    BY <1>4, <1>11, <2>1 DEF CallMute
<1>12. ASSUME NEW a \in Named, NEW b \in Named, CompleteXfer(t, a, b)
       PROVE  BusyStep /\ AnswersAlone'
  BY <1>4, <1>12 DEF CompleteXfer
<1>13. ASSUME NEW a \in Named, NEW b \in Named, MergeConference(t, a, b)
       PROVE  BusyStep /\ AnswersAlone'
  <2> DEFINE k == [Doing("merge", a, calls[a].pj) EXCEPT !.other = calls[b].pj]
  <2>1. k.op # "answering" /\ cmd' = [cmd EXCEPT ![t] = k] /\ UNCHANGED sess
    BY <1>13 DEF MergeConference, Doing
  <2> HIDE DEF k
  <2> QED
    BY <1>2, <2>1
<1> QED
  BY <1>5, <1>6, <1>7, <1>8, <1>9, <1>10, <1>11, <1>12, <1>13 DEF NewCommand

-----------------------------------------------------------------------------
(* The worker thread *)

LEMMA WorkerStepBusy ==
  ASSUME IInv, AnswersAlone, NEW p \in Slots, WorkerStep(p)
  PROVE  BusyStep /\ AnswersAlone'
<1>1. /\ sess \in [Slots -> Session] /\ sess[p] \in Session
      /\ sess[p].held \in BOOLEAN /\ sess[p].remHold \in BOOLEAN
  BY DEF IInv, TypeOK, Session
\* A slot that nobody answers gets a session that is no more incoming.
<1>2. ASSUME NEW s, sess' = [sess EXCEPT ![p] = s], UNCHANGED cmd,
             ~Locked(p) \/ sess[p].inv # "Incoming",
             LiveIncoming(s) => LiveIncoming(sess[p])
      PROVE  BusyStep /\ AnswersAlone'
  <2>1. \A t \in Threads : Answering(t) => cmd[t].slot # p
    BY <1>2, NotAnswered
  <2> QED
    BY <1>2, <2>1, SlotStep, AnswersStepKeeps DEF Answering
\* The busy check: an INVITE gets through only if nothing else is live.
<1>3. ASSUME NEW c, sess' = [sess EXCEPT ![p] = NewSession("Incoming", "Incoming", c)],
             UNCHANGED cmd, Allocatable(p), ~OtherLiveCall(p)
      PROVE  BusyStep /\ AnswersAlone'
  <2>1. \A q \in Slots \ {p} : sess'[q] = sess[q] /\ ~Live(sess'[q])
    BY <1>1, <1>3 DEF OtherLiveCall
  <2>2. BusyStep
    BY <2>1 DEF BusyStep
  <2>3. \A t \in Threads : Answering(t) => cmd[t].slot # p
    BY <1>3, NotAnswered DEF Allocatable
  <2>4. AnswersStep
    BY <1>3, <2>1, <2>3 DEF AnswersStep, AnswersAlone, Answering
  <2> QED
    BY <2>2, <2>4, AnswersStepKeeps
\* A session that goes on, with another state or other media.
<1>4. ASSUME NEW r \in Session, NEW active \in BOOLEAN,
             r.dir = sess[p].dir, Live(sess[p]),
             sess' = [sess EXCEPT ![p] = Bridged(r, active)],
             UNCHANGED cmd, ~Locked(p) \/ sess[p].inv # "Incoming"
      PROVE  BusyStep /\ AnswersAlone'
  <2> DEFINE s == Bridged(r, active)
  <2>1. LiveIncoming(s) => LiveIncoming(sess[p])
    BY <1>4, BridgedIs DEF LiveIncoming
  <2> HIDE DEF s
  <2>2. sess' = [sess EXCEPT ![p] = s]
    BY <1>4 DEF s
  <2> QED
    BY <1>2, <1>4, <2>1, <2>2
<1>5. ASSUME NEW inv \in {"Early", "Accepted", "Confirmed"},
             sess[p].inv \in {"Calling", "Early", "Accepted", "Connecting"},
             sess' = [sess EXCEPT ![p].inv = inv], UNCHANGED cmd
      PROVE  BusyStep /\ AnswersAlone'
  <2> DEFINE s == [sess[p] EXCEPT !.inv = inv]
  <2>1. s.dir = sess[p].dir /\ sess' = [sess EXCEPT ![p] = s]
    BY <1>1, <1>5 DEF Session
  <2>2. LiveIncoming(s) => LiveIncoming(sess[p])
    BY <1>5, <2>1 DEF LiveIncoming, Live
  <2> HIDE DEF s
  <2> QED
    BY <1>2, <1>5, <2>1, <2>2
<1>6. CASE IncomingRejected(p)
  BY <1>2, <1>6 DEF IncomingRejected, Allocatable, LiveIncoming, Live, NewSession
<1>7. CASE IncomingUnknownAccount(p)
  BY <1>3, <1>7 DEF IncomingUnknownAccount
<1>8. CASE IncomingCall(p)
  BY <1>3, <1>8 DEF IncomingCall
<1>9. CASE Early(p)
  BY <1>5, <1>9 DEF Early
<1>10. CASE EarlyMedia(p)
  <2> DEFINE r == [sess[p] EXCEPT !.sdp = TRUE]
  <2>1. r \in Session /\ r.dir = sess[p].dir /\ Live(sess[p])
    BY <1>1, <1>10 DEF EarlyMedia, Session, Live
  <2>2. sess' = [sess EXCEPT ![p] = Bridged(r, TRUE)] /\ UNCHANGED cmd /\ ~Locked(p)
    BY <1>10 DEF EarlyMedia
  <2> HIDE DEF r
  <2> QED
    BY <1>4, <2>1, <2>2
<1>11. CASE Accepted(p)
  BY <1>5, <1>11 DEF Accepted
<1>12. CASE AcceptedMedia(p)
  <2> DEFINE r == [sess[p] EXCEPT !.sdp = TRUE, !.inv = "Accepted"]
  <2>1. r \in Session /\ r.dir = sess[p].dir /\ Live(sess[p])
    BY <1>1, <1>12 DEF AcceptedMedia, Session, InvState, Live
  <2>2. /\ sess' = [sess EXCEPT ![p] = Bridged(r, TRUE)] /\ UNCHANGED cmd
        /\ sess[p].inv # "Incoming"
    BY <1>12 DEF AcceptedMedia
  <2> HIDE DEF r
  <2> QED
    BY <1>4, <2>1, <2>2
<1>13. CASE Confirmed(p)
  BY <1>5, <1>13 DEF Confirmed
<1>14. CASE ReinviteAnswered(p)
  <2> DEFINE active == ~sess[p].held /\ ~sess[p].remHold
             s == Bridged(sess[p], active)
  <2>1. active \in BOOLEAN
    OBVIOUS
  <2>2. sess' = [sess EXCEPT ![p] = s] /\ UNCHANGED cmd /\ ~Locked(p)
    BY <1>14 DEF ReinviteAnswered
  <2> HIDE DEF active
  <2>3. LiveIncoming(s) => LiveIncoming(sess[p])
    BY <1>1, <2>1, BridgedIs DEF LiveIncoming, Live
  <2> HIDE DEF s
  <2> QED
    BY <1>2, <2>2, <2>3
<1>15. CASE ReinviteRefused(p)
  <2> DEFINE s == [sess[p] EXCEPT !.held = (sess[p].pend = "unhold"), !.pend = "none"]
  <2>1. sess' = [sess EXCEPT ![p] = s] /\ UNCHANGED cmd /\ ~Locked(p)
    BY <1>1, <1>15 DEF ReinviteRefused
  <2>2. LiveIncoming(s) => LiveIncoming(sess[p])
    BY <1>1 DEF LiveIncoming, Live, Session
  <2> HIDE DEF s
  <2> QED
    BY <1>2, <2>1, <2>2
<1>16. CASE RemoteReinvite(p)
  <2> DEFINE remHold == ~sess[p].remHold
             r == [sess[p] EXCEPT !.remHold = remHold, !.pend = "remote"]
             active == ~r.held /\ ~r.remHold
  <2>1. remHold \in BOOLEAN /\ active \in BOOLEAN
    OBVIOUS
  <2>2. /\ sess' = [sess EXCEPT ![p] = Bridged(r, active)]
        /\ UNCHANGED cmd /\ ~Locked(p) /\ Live(sess[p])
    BY <1>16 DEF RemoteReinvite, Live
  <2> HIDE DEF remHold, active
  <2>3. r \in Session /\ r.dir = sess[p].dir
    BY <1>1, <2>1 DEF Session
  <2> HIDE DEF r
  <2> QED
    BY <1>4, <2>1, <2>2, <2>3
<1>17. CASE RemoteAck(p)
  <2> DEFINE s == [sess[p] EXCEPT !.pend = "none"]
  <2>1. sess' = [sess EXCEPT ![p] = s] /\ UNCHANGED cmd /\ ~Locked(p)
    BY <1>1, <1>17 DEF RemoteAck
  <2>2. LiveIncoming(s) => LiveIncoming(sess[p])
    BY <1>1 DEF LiveIncoming, Live, Session
  <2> HIDE DEF s
  <2> QED
    BY <1>2, <2>1, <2>2
<1>18. CASE RemoteEnd(p) \/ SlotFreed(p)
  <2>1. ~LiveIncoming(FreeSlot)
    BY DEF FreeSlot, NewSession, LiveIncoming, Live
  <2>2. sess' = [sess EXCEPT ![p] = FreeSlot] /\ UNCHANGED cmd /\ ~Locked(p)
    BY <1>18 DEF RemoteEnd, SlotFreed
  <2> QED
    BY <1>2, <2>1, <2>2
\* Also of a call that is being answered.
<1>19. CASE MediaReport(p)
  <2>1. sess' = [sess EXCEPT ![p] = AfterMedia(sess[p], pjMap[p])] /\ UNCHANGED cmd
    BY <1>19 DEF MediaReport
  <2>2. \A q \in Slots : sess'[q].inv = sess[q].inv /\ sess'[q].dir = sess[q].dir
    BY <1>1, <2>1, AfterMediaIs
  <2> QED
    BY <2>1, <2>2, SameKindStep, AnswersStepKeeps DEF Answering
<1> QED
  BY <1>6, <1>7, <1>8, <1>9, <1>10, <1>11, <1>12, <1>13, <1>14, <1>15, <1>16,
     <1>17, <1>18, <1>19 DEF WorkerStep

-----------------------------------------------------------------------------
LEMMA AnswersAloneStep ==
  ASSUME IInv, AnswersAlone, [Next]_vars
  PROVE  AnswersAlone'
<1>1. CASE UNCHANGED vars
  BY <1>1 DEF vars, AnswersAlone, Answering
<1>2. CASE Next
  BY <1>2, ThreadStepBusy, NewCommandBusy, WorkerStepBusy DEF Next
<1> QED
  BY <1>1, <1>2

LEMMA InitAnswersAlone == ASSUME Init PROVE AnswersAlone
  BY DEF Init, AnswersAlone, Answering, Idle, Doing

\* The dialog lock keeps the session of a call that is being answered.
LEMMA AnswersInvariant == Spec => []AnswersAlone
<1>1. IInv /\ AnswersAlone /\ [Next]_vars => AnswersAlone'
  BY AnswersAloneStep
<1> QED
  BY <1>1, InitAnswersAlone, Inductive, PTL DEF Spec

\* At most one incoming call is live, for any number of slots and whatever
\* calls go out, are hung up, held or transferred meanwhile: the check of
\* pd_has_other_live_call is enough, because INVITEs come on one thread.
THEOREM BusyCorrect == Spec => []OneLiveIncoming
<1>1. Init => OneLiveIncoming
  BY DEF Init, OneLiveIncoming, Live, FreeSlot, NewSession
<1>2. IInv /\ AnswersAlone /\ OneLiveIncoming /\ [Next]_vars => OneLiveIncoming'
  <2> SUFFICES ASSUME IInv, AnswersAlone, OneLiveIncoming, [Next]_vars
               PROVE  OneLiveIncoming'
    OBVIOUS
  <2>1. CASE UNCHANGED vars
    BY <2>1 DEF vars, OneLiveIncoming
  <2>2. CASE Next
    <3>1. BusyStep
      BY <2>2, ThreadStepBusy, NewCommandBusy, WorkerStepBusy DEF Next
    <3> QED
      BY <3>1, BusyStepKeeps
  <2> QED
    BY <2>1, <2>2
<1> QED
  BY <1>1, <1>2, Inductive, AnswersInvariant, PTL DEF Spec

-----------------------------------------------------------------------------
(* The microphone of a muted call *)

\* The step begins to send the microphone to slot p, whose call is shown as
\* muted, other than for the time of a media callback.
Unmuted(p) ==
  /\ pjMap[p] # NoCall /\ calls[pjMap[p]].muted
  /\ ~Sends(sess[p]) /\ Sends(sess'[p])

\* A thread is about to unmute or merge the call of slot p.
Asked(p) ==
  \E t \in Threads :
    \/ cmd[t].op = "unmute" /\ p = cmd[t].slot
    \/ cmd[t].op = "merge" /\ p \in {cmd[t].slot, cmd[t].other}

-----------------------------------------------------------------------------
(* What the helpers do to the microphone of a session *)

\* Reinvited leaves the microphone and the callback alone.
LEMMA ReinvitedSends ==
  ASSUME NEW s \in Session, NEW kind \in {"hold", "unhold"}
  PROVE  Sends(Reinvited(s, kind)) = Sends(s)
BY DEF Reinvited, Session, Sends

\* So does a new state of the session.
LEMMA SameSends ==
  ASSUME NEW s \in Session, NEW inv
  PROVE  Sends([s EXCEPT !.inv = inv]) = Sends(s)
BY DEF Session, Sends

\* A new session has no microphone.
LEMMA NewSends ==
  ASSUME NEW inv, NEW dir, NEW c
  PROVE  ~Sends(NewSession(inv, dir, c))
BY DEF NewSession, Sends

\* A step that changes the session of one slot unmutes nothing if that session
\* does not begin to send the microphone while its call is muted.
LEMMA OneSlot ==
  ASSUME IInv, NEW p \in Slots, NEW s, sess' = [sess EXCEPT ![p] = s],
         pjMap[p] # NoCall /\ calls[pjMap[p]].muted /\ ~Sends(sess[p]) => ~Sends(s)
  PROVE  \A q \in Slots : ~Unmuted(q)
<1>1. sess \in [Slots -> Session]
  BY DEF IInv, TypeOK
<1> QED
  BY <1>1 DEF Unmuted

LEMMA SessionsUnchanged ==
  ASSUME UNCHANGED sess
  PROVE  \A q \in Slots : ~Unmuted(q)
  BY DEF Unmuted

-----------------------------------------------------------------------------
(* The steps *)

LEMMA ThreadStepMic ==
  ASSUME IInv, NEW t \in Threads, ThreadStep(t), NEW q \in Slots, Unmuted(q)
  PROVE  Asked(q)
<1> DEFINE p == cmd[t].slot
<1>1. /\ sess \in [Slots -> Session]
      /\ cmd[t].op # "idle" => p \in Slots /\ sess[p] \in Session
  BY DEF IInv, TypeOK, HoldsSlot
<1>2. ~UNCHANGED sess
  BY SessionsUnchanged
<1>3. ~CallsInsert(t) /\ ~MapInsert(t) /\ ~HangupReported(t) /\ ~LogFailure(t)
  BY <1>2 DEF CallsInsert, MapInsert, HangupReported, LogFailure
\* The session of slot p stays as it is but for a new state.
<1>4. ASSUME p \in Slots, NEW inv, sess' = [sess EXCEPT ![p].inv = inv]
      PROVE  FALSE
  <2>1. sess' = [sess EXCEPT ![p] = [sess[p] EXCEPT !.inv = inv]] /\ sess[p] \in Session
    BY <1>1, <1>4
  <2> QED
    BY <1>4, <2>1, SameSends, OneSlot
<1>5. CASE PjAnswer(t)
  <2>1. p \in Slots /\ sess[p] \in Session
    BY <1>1, <1>5 DEF PjAnswer
  <2>2. CASE sess' = [sess EXCEPT ![p] = Bridged([sess[p] EXCEPT !.sdp = TRUE], TRUE)]
    <3>1. [sess[p] EXCEPT !.sdp = TRUE] \in Session
      BY <2>1 DEF Session
    <3>2. ~Sends(Bridged([sess[p] EXCEPT !.sdp = TRUE], TRUE))
      BY <3>1, BridgedIs DEF Sends
    <3> QED
      BY <2>1, <2>2, <3>2, OneSlot
  <2> QED
    BY <1>2, <1>4, <1>5, <2>1, <2>2 DEF PjAnswer
<1>6. CASE AnswerSent(t)
  BY <1>1, <1>2, <1>4, <1>6 DEF AnswerSent
<1>7. CASE PjHangup(t)
  <2>1. p \in Slots
    BY <1>1, <1>7 DEF PjHangup
  <2>2. sess' = [sess EXCEPT ![p] = NewSession("Closing", sess[p].dir, sess[p].own)]
    BY <1>2, <1>7 DEF PjHangup
  <2> QED
    BY <2>1, <2>2, NewSends, OneSlot
<1>8. CASE PjHold(t)
  <2>1. p \in Slots /\ sess[p] \in Session /\ cmd[t].op \in {"hold", "unhold"}
    BY <1>1, <1>8 DEF PjHold
  <2>2. sess' = [sess EXCEPT ![p] = Reinvited(sess[p], cmd[t].op)]
    BY <1>2, <1>8 DEF PjHold
  <2> QED
    BY <2>1, <2>2, ReinvitedSends, OneSlot
<1>9. CASE PjMute(t)
  <2>1. p \in Slots /\ sess[p] \in Session
    BY <1>1, <1>9 DEF PjMute
  <2>2. CASE cmd[t].op = "unmute" /\ q = p
    BY <2>2 DEF Asked
  <2>3. CASE q # p
    BY <1>1, <1>9, <2>1, <2>3 DEF PjMute, Unmuted
  <2>4. CASE cmd[t].op = "mute" /\ q = p
    <3>1. Sends(sess'[p]) => Sends(sess[p])
      BY <1>1, <1>9, <2>1, <2>4 DEF PjMute, Session, Sends
    <3> QED
      BY <2>4, <3>1 DEF Unmuted
  <2> QED
    BY <1>9, <2>2, <2>3, <2>4 DEF PjMute
<1>10. CASE PjStartAttendedXfer(t)
  <2>1. p \in Slots /\ sess[p] \in Session
    BY <1>1, <1>10 DEF PjStartAttendedXfer
  <2>2. PICK s \in {sess[p], Reinvited(sess[p], "hold")} :
          \/ sess' = [sess EXCEPT ![p] = s]
          \/ \E r \in Slots :
               sess' = [sess EXCEPT ![p] = s,
                          ![r] = NewSession("Calling", "Outgoing", nextId)]
    BY <1>10 DEF PjStartAttendedXfer
  <2>3. Sends(s) = Sends(sess[p])
    BY <2>1, <2>2, ReinvitedSends
  <2>4. ~Sends(NewSession("Calling", "Outgoing", nextId))
    BY NewSends
  <2> HIDE DEF p
  <2> QED
    BY <1>1, <2>1, <2>2, <2>3, <2>4 DEF Unmuted
<1>11. CASE PjMergeConference(t)
  <2>1. q \in {cmd[t].slot, cmd[t].other}
    BY <1>11 DEF PjMergeConference, Unmuted
  <2> QED
    BY <1>11, <2>1 DEF PjMergeConference, Asked
<1> QED
  BY <1>3, <1>5, <1>6, <1>7, <1>8, <1>9, <1>10, <1>11 DEF ThreadStep

\* A new command reads the table; CallStart also makes a session.
LEMMA NewCommandMic ==
  ASSUME IInv, NEW t \in Threads, NewCommand(t), NEW q \in Slots
  PROVE  ~Unmuted(q)
<1>1. CASE \E p \in Slots : sess' = [sess EXCEPT ![p] = NewSession("Calling", "Outgoing", nextId)]
  BY <1>1, NewSends, OneSlot
<1>2. CASE UNCHANGED sess
  BY <1>2, SessionsUnchanged
<1>3. CASE CallStart(t)
  BY <1>1, <1>2, <1>3 DEF CallStart, CallMade
<1>4. ASSUME ~CallStart(t)
      PROVE  UNCHANGED sess
  BY <1>4 DEF NewCommand, SetGlobalDnd, CallAnswer, CallHangup, StartAttendedXfer,
              CallHold, CallMute, CompleteXfer, MergeConference
<1> QED
  BY <1>2, <1>3, <1>4

LEMMA WorkerStepMic ==
  ASSUME IInv, NEW p \in Slots, WorkerStep(p), NEW q \in Slots
  PROVE  ~Unmuted(q)
<1>1. sess \in [Slots -> Session] /\ sess[p] \in Session
  BY DEF IInv, TypeOK
\* A new session, one that sends as before, one in a media callback.
<1>2. ASSUME NEW inv, NEW dir, NEW c, sess' = [sess EXCEPT ![p] = NewSession(inv, dir, c)]
      PROVE  ~Unmuted(q)
  BY <1>2, NewSends, OneSlot
<1>3. ASSUME NEW s, sess' = [sess EXCEPT ![p] = s], Sends(s) = Sends(sess[p])
      PROVE  ~Unmuted(q)
  BY <1>3, OneSlot
<1>4. ASSUME NEW s \in Session, NEW active \in BOOLEAN,
             sess' = [sess EXCEPT ![p] = Bridged(s, active)]
      PROVE  ~Unmuted(q)
  <2>1. ~Sends(Bridged(s, active))
    BY BridgedIs DEF Sends
  <2> QED
    BY <1>4, <2>1, OneSlot
<1>5. CASE \/ IncomingRejected(p) \/ IncomingUnknownAccount(p) \/ IncomingCall(p)
           \/ RemoteEnd(p) \/ SlotFreed(p)
  BY <1>2, <1>5 DEF IncomingRejected, IncomingUnknownAccount, IncomingCall,
                    RemoteEnd, SlotFreed, FreeSlot
<1>6. CASE Early(p) \/ Accepted(p) \/ Confirmed(p)
  <2>1. \E inv : sess' = [sess EXCEPT ![p] = [sess[p] EXCEPT !.inv = inv]]
    BY <1>6 DEF Early, Accepted, Confirmed
  <2> QED
    BY <1>1, <1>3, <2>1, SameSends
<1>7. CASE EarlyMedia(p)
  <2>1. [sess[p] EXCEPT !.sdp = TRUE] \in Session
    BY <1>1 DEF Session
  <2> QED
    BY <1>4, <1>7, <2>1 DEF EarlyMedia
<1>8. CASE AcceptedMedia(p)
  <2>1. [sess[p] EXCEPT !.sdp = TRUE, !.inv = "Accepted"] \in Session
    BY <1>1 DEF Session, InvState
  <2> QED
    BY <1>4, <1>8, <2>1 DEF AcceptedMedia
<1>9. CASE RemoteReinvite(p)
  <2> DEFINE s == [sess[p] EXCEPT !.remHold = ~@, !.pend = "remote"]
             active == ~s.held /\ ~s.remHold
  <2>1. s \in Session /\ active \in BOOLEAN
    BY <1>1 DEF Session
  <2>2. sess' = [sess EXCEPT ![p] = Bridged(s, active)]
    BY <1>9 DEF RemoteReinvite
  <2> HIDE DEF s, active
  <2> QED
    BY <1>4, <2>1, <2>2
<1>10. CASE ReinviteAnswered(p)
  <2> DEFINE active == ~sess[p].held /\ ~sess[p].remHold
  <2>1. active \in BOOLEAN
    OBVIOUS
  <2>2. sess' = [sess EXCEPT ![p] = Bridged(sess[p], active)]
    BY <1>10 DEF ReinviteAnswered
  <2> HIDE DEF active
  <2> QED
    BY <1>1, <1>4, <2>1, <2>2
\* The engine's half of the callback: the call that is muted is muted again.
<1>11. CASE MediaReport(p)
  <2>1. sess' = [sess EXCEPT ![p] = AfterMedia(sess[p], pjMap[p])]
    BY <1>11 DEF MediaReport
  <2>2. pjMap[p] # NoCall /\ calls[pjMap[p]].muted
          => ~Sends(AfterMedia(sess[p], pjMap[p]))
    BY <1>1, AfterMediaIs DEF Sends
  <2> QED
    BY <2>1, <2>2, OneSlot
<1>12. CASE ReinviteRefused(p) \/ RemoteAck(p)
  <2>1. \/ sess' = [sess EXCEPT ![p] = [sess[p] EXCEPT !.held = (sess[p].pend = "unhold"),
                                                       !.pend = "none"]]
        \/ sess' = [sess EXCEPT ![p] = [sess[p] EXCEPT !.pend = "none"]]
    BY <1>1, <1>12 DEF ReinviteRefused, RemoteAck
  <2>2. /\ Sends([sess[p] EXCEPT !.pend = "none"]) = Sends(sess[p])
        /\ Sends([sess[p] EXCEPT !.held = (sess[p].pend = "unhold"),
                                 !.pend = "none"]) = Sends(sess[p])
    BY <1>1 DEF Session, Sends
  <2> QED
    BY <1>3, <2>1, <2>2
<1> QED
  BY <1>5, <1>6, <1>7, <1>8, <1>9, <1>10, <1>11, <1>12 DEF WorkerStep

-----------------------------------------------------------------------------
\* A media callback connects the microphone to a muted call only until its
\* engine's half has run; no other step sends it to a call that is shown as
\* muted but an unmute and a merge of that call (on_call_media_state of the
\* shim, pjsip_on_call_media, cmd_call_mute, pd_call_merge_conference).
THEOREM CallbackMutesAgain == Spec => OnlyMergeUnmutes
<1>1. ASSUME IInv, [Next]_vars, NEW q \in Slots, Unmuted(q)
      PROVE  Asked(q)
  <2>1. ~UNCHANGED vars
    BY <1>1, SessionsUnchanged DEF vars
  <2> QED
    BY <1>1, <2>1, ThreadStepMic, NewCommandMic, WorkerStepMic DEF Next
<1>2. IInv /\ [Next]_vars
        => [\A p \in Slots :
              LET c == pjMap[p] IN
              /\ c # NoCall /\ calls[c].muted
              /\ ~Sends(sess[p]) /\ Sends(sess'[p])
              => \E t \in Threads : /\ cmd[t].op \in {"merge", "unmute"}
                                    /\ p \in {cmd[t].slot, cmd[t].other}]_vars
  BY <1>1 DEF Unmuted, Asked
<1> QED
  BY <1>2, Inductive, PTL DEF Spec, OnlyMergeUnmutes
=============================================================================
