---------------------------- MODULE CallUiProofs ----------------------------
(***************************************************************************)
(* Theorems about the interface of a call: it shows what the table has,    *)
(* its history says what came of a call, and no tone and no banner is left *)
(* on, for any number of slots and calls and for event queues and audio    *)
(* chains of any length.                                                   *)
(*                                                                         *)
(* With StaleIds, which is what the buttons do (they name a call picked    *)
(* before), every step of CallUi is a step of EngineCalls, so that its     *)
(* theorems hold here; what is left is how the steps change the table, the *)
(* queue of events and the record of the past together (EngineKind).       *)
(***************************************************************************)
EXTENDS CallUi, EngineCallsHistoryProofs

Entry == [state : CallState, dir : Direction, on_hold : BOOLEAN, muted : BOOLEAN]
AnyEntry == [state : CallState \cup {"Absent"}, dir : Direction,
             on_hold : BOOLEAN, muted : BOOLEAN]
UiCall == [shown : BOOLEAN, call : AnyEntry, started : BOOLEAN]
UiEvent == [call : CallIds, entry : Entry]

\* The Dart side is well formed: an ended call is not shown, and one that is
\* shown in a call has started.
DartTypes ==
  /\ evq \in Seq(UiEvent)
  /\ ui \in [CallIds -> UiCall]
  /\ \A c \in CallIds :
       ui[c].shown => /\ ui[c].call.state \in CallState \ {"Ended"}
                      /\ ui[c].call.state = "InCall" => ui[c].started
  /\ hist \in [CallIds -> Seq(Results)]
  /\ banner \in CallIds \cup {NoCall}
  /\ tones \subseteq Tones
  /\ ops \in Seq(Tones \cup {"stop"})
  /\ past \in [CallIds -> SUBSET Happened]

\* A command the Flutter thread is about to dispatch names a call of the table.
PickKnown ==
  picked # NoPick =>
    picked.op \in Buttons /\ picked.call \in Known /\ picked.on \in BOOLEAN

-----------------------------------------------------------------------------
(* What a step does to the table, the queue and the sessions *)

\* The step pushes call c, and changes no other entry.
Pushed(c) ==
  /\ c \in CallIds
  /\ evq' = Append(evq, Event(c, calls'[c]))
  /\ calls'[c] \in Call /\ calls'[c].state # "Absent"
  /\ \A d \in CallIds \ {c} : calls'[d] = calls[d]

\* The session of slot q does not come up.
NotUp(q) == Kept(q) \/ sess'[q].inv \notin Up

Silent == UNCHANGED <<calls, evq, ended>> /\ \A q \in Slots : NotUp(q)

\* A callback of slot p, which is pushed if it finds a call.
Tells(p) ==
  LET c == pjMap[p]
      own == sess[p].own
  IN
  /\ \A q \in Slots \ {p} : Kept(q)
  /\ c = NoCall => UNCHANGED <<calls, evq, ended>>
  /\ c # NoCall =>
       /\ Pushed(c) /\ calls'[c].dir = calls[c].dir
       /\ ended' = IF calls'[c].state = "Ended" THEN ended \cup {c} ELSE ended
       /\ calls'[c].state = "InCall" =>
            sess'[p].own = own /\ (sess'[p].inv \in Up \/ sess'[p].sdp)
  /\ sess'[p].inv \in Up =>
       /\ sess'[p].own = own
       /\ \/ sess[p].inv \in Up
          \/ /\ c # NoCall => calls'[c].state = "InCall"
             /\ own \notin {NoCall, c} => own \in lost'

\* A new call enters the table.
Enters(c) ==
  /\ c \notin Known /\ c \notin ended
  /\ Pushed(c) /\ calls'[c].state = "Ringing"
  /\ UNCHANGED ended
  /\ \A q \in Slots : NotUp(q)

EngineKind ==
  \/ Silent
  \/ \E p \in Slots : Tells(p)
  \/ \E c \in CallIds : Enters(c)

LEMMA PushedCall ==
  ASSUME IInv, NEW c \in CallIds, NEW call \in Call, call.state # "Absent",
         calls' = [calls EXCEPT ![c] = call], Push(c)
  PROVE  Pushed(c) /\ calls'[c] = call
  BY DEF IInv, TypeOK, Push, Pushed

LEMMA StateTells ==
  ASSUME IInv, NEW p \in Slots, NEW own \in CallIds \cup {NoCall},
         NEW new \in {"Ringing", "InCall", "Ended"},
         OnCallState(p, own, new), PushRouted(p),
         \A q \in Slots \ {p} : Kept(q),
         new = "InCall" <=> sess'[p].inv \in Up,
         new = "InCall" => sess[p].own = own /\ sess'[p].own = own
  PROVE  Tells(p)
<1> DEFINE c == pjMap[p]
<1>1. /\ c \in CallIds \cup {NoCall} /\ calls \in [CallIds -> Call]
      /\ NoCall \notin CallIds
  BY CallsAssumption DEF IInv, TypeOK, CallIds, NoCall
<1>2. CASE c = NoCall
  <2>1. UNCHANGED <<calls, ended, evq>>
    BY <1>2 DEF OnCallState, PushRouted, Quiet
  <2>2. own \notin {NoCall, c} /\ new = "InCall" => own \in lost'
    BY DEF OnCallState
  <2> QED
    BY <1>2, <2>1, <2>2 DEF Tells
<1>3. CASE c # NoCall
  <2>1. calls[c] \in Call /\ c \in CallIds
    BY <1>1, <1>3
  <2>2. /\ calls' = [calls EXCEPT ![c] = Reported(calls[c], new)]
        /\ Push(c)
        /\ ended' = IF new = "Ended" THEN ended \cup {c} ELSE ended
        /\ own \notin {NoCall, c} /\ new = "InCall" => own \in lost'
    BY <1>3 DEF OnCallState, PushRouted
  <2>3. /\ Reported(calls[c], new) \in Call
        /\ Reported(calls[c], new).state = new
        /\ Reported(calls[c], new).dir = calls[c].dir
        /\ new # "Absent"
    BY <2>1 DEF Reported, Call, CallState
  <2> HIDE DEF c
  <2>4. Pushed(c) /\ calls'[c].state = new /\ calls'[c].dir = calls[c].dir
    BY <2>1, <2>2, <2>3, PushedCall
  <2> QED
    BY <1>3, <2>2, <2>4 DEF Tells, c
<1> QED
  BY <1>2, <1>3

LEMMA MediaTells ==
  ASSUME IInv, NEW p \in Slots, NEW active \in BOOLEAN,
         OnCallMedia(p, sess[p].own, active), PushRouted(p),
         \A q \in Slots \ {p} : Kept(q),
         sess'[p].own = sess[p].own,
         sess'[p].inv \in Up \/ sess'[p].sdp,
         sess'[p].inv \in Up => sess[p].inv \in Up
  PROVE  Tells(p)
<1> DEFINE c == pjMap[p]
<1>1. c \in CallIds \cup {NoCall} /\ calls \in [CallIds -> Call]
  BY DEF IInv, TypeOK
<1>2. CASE c = NoCall
  <2>1. UNCHANGED <<calls, ended, evq>>
    BY <1>2 DEF OnCallMedia, PushRouted, Quiet
  <2> QED
    BY <1>2, <2>1 DEF Tells
<1>3. CASE c # NoCall
  <2>1. calls[c] \in Call /\ c \in CallIds
    BY <1>1, <1>3
  <2>2. /\ calls' = [calls EXCEPT ![c] = MediaReported(calls[c], active)]
        /\ Push(c)
        /\ ended' = ended
    BY <1>3 DEF OnCallMedia, PushRouted
  <2>3. /\ MediaReported(calls[c], active) \in Call
        /\ MediaReported(calls[c], active).state \in {"InCall", "OnHold"}
        /\ MediaReported(calls[c], active).dir = calls[c].dir
    BY <2>1 DEF MediaReported, Call, CallState
  <2> HIDE DEF c
  <2>4. /\ Pushed(c) /\ calls'[c].state \in {"InCall", "OnHold"}
        /\ calls'[c].dir = calls[c].dir
    BY <2>1, <2>2, <2>3, PushedCall
  <2> QED
    BY <1>3, <2>2, <2>4 DEF Tells, c
<1> QED
  BY <1>2, <1>3

\* A step that changes one session.
LEMMA OneSession ==
  ASSUME IInv, NEW p \in Slots, NEW s, sess' = [sess EXCEPT ![p] = s]
  PROVE  sess'[p] = s /\ \A q \in Slots \ {p} : Kept(q)
  BY DEF IInv, TypeOK, Kept, Up

LEMMA BridgedKeeps ==
  ASSUME NEW s \in Session, NEW active \in BOOLEAN
  PROVE  /\ Bridged(s, active).inv = s.inv
         /\ Bridged(s, active).own = s.own
  BY DEF Bridged, Session

LEMMA AfterMediaKeeps ==
  ASSUME NEW s \in Session, NEW c
  PROVE  /\ AfterMedia(s, c).inv = s.inv
         /\ AfterMedia(s, c).own = s.own
         /\ AfterMedia(s, c).sdp = s.sdp
<1> DEFINE mic == s.mic /\ ~(c # NoCall /\ calls[c].muted)
           again == [s EXCEPT !.cb = FALSE, !.mic = mic]
           reheld == IF s.active /\ c # NoCall /\ calls[c].on_hold
                     THEN Reinvited(again, "hold") ELSE again
           pend == IF s.pend \in {"hold", "unhold"} THEN "none" ELSE reheld.pend
<1>1. AfterMedia(s, c) = [reheld EXCEPT !.pend = pend] /\ mic \in BOOLEAN
  BY DEF AfterMedia
<1> HIDE DEF mic
<1>2. /\ again \in Session /\ again.inv = s.inv /\ again.own = s.own
      /\ again.sdp = s.sdp
  BY <1>1 DEF Session
<1> HIDE DEF again
<1>3. /\ reheld \in Session /\ reheld.inv = s.inv /\ reheld.own = s.own
      /\ reheld.sdp = s.sdp
  <2>1. Reinvited(again, "hold") \in Session
    BY <1>2, ReinvitedType
  <2>2. /\ Reinvited(again, "hold").inv = again.inv
        /\ Reinvited(again, "hold").own = again.own
        /\ Reinvited(again, "hold").sdp = again.sdp
    BY <1>2 DEF Reinvited, Session
  <2> QED
    BY <1>2, <2>1, <2>2
<1> HIDE DEF reheld, pend
<1> QED
  BY <1>1, <1>3 DEF Session

LEMMA NewCallPushed ==
  ASSUME IInv, NEW c \in CallIds \ Known, c \notin ended, NEW dir \in Direction,
         NEW p \in Slots, calls' = [calls EXCEPT ![c] = NewCall(dir, p)], Push(c),
         UNCHANGED ended, \A q \in Slots : NotUp(q)
  PROVE  Enters(c)
<1>1. /\ NewCall(dir, p) \in Call /\ NewCall(dir, p).state = "Ringing"
  BY DEF NewCall, Call, CallState
<1>2. NewCall(dir, p).state # "Absent"
  BY <1>1
<1>3. Pushed(c) /\ calls'[c] = NewCall(dir, p)
  <2> DEFINE call == NewCall(dir, p)
  <2>1. call \in Call /\ call.state # "Absent" /\ calls' = [calls EXCEPT ![c] = call]
    BY <1>1, <1>2
  <2> HIDE DEF call
  <2>2. Pushed(c) /\ calls'[c] = call
    BY <2>1, PushedCall
  <2> QED
    BY <2>2 DEF call
<1> QED
  BY <1>1, <1>3 DEF Enters

\* What a thread does next.
LEMMA ThreadKind ==
  ASSUME IInv, AnswersAlone, ReportsAlone, NEW t \in Threads, ThreadPushes(t)
  PROVE  ThreadStep(t) /\ EngineKind
<1> DEFINE p == cmd[t].slot
<1>1. /\ sess \in [Slots -> Session] /\ cmd[t] \in Command
      /\ cmd[t].op # "idle" => p \in Slots
  BY DEF IInv, TypeOK, HoldsSlot
<1>2. \A q \in Slots : sess[q].own \in CallIds \cup {NoCall}
  BY <1>1 DEF Session
<1>3. ASSUME UNCHANGED <<calls, evq, ended, sess>> PROVE EngineKind
  BY <1>3 DEF EngineKind, Silent, NotUp, Kept, Up
<1>4. CASE CallsInsert(t) /\ Push(cmd[t].call)
  <2>1. /\ cmd[t].call \in CallIds \ Known /\ cmd[t].call \notin ended
        /\ p \in Slots
    BY <1>1, <1>4 DEF CallsInsert, IInv, HoldsNewCall, Starting
  <2>2. \A q \in Slots : NotUp(q)
    BY <1>4 DEF CallsInsert, NotUp, Kept, Up
  <2>3. "Outgoing" \in Direction
    BY DEF Direction
  <2>4. calls' = [calls EXCEPT ![cmd[t].call] = NewCall("Outgoing", p)] /\ UNCHANGED ended
    BY <1>4 DEF CallsInsert
  <2>5. Enters(cmd[t].call)
    BY <1>4, <2>1, <2>2, <2>3, <2>4, NewCallPushed
  <2> QED
    BY <1>4, <2>1, <2>5 DEF EngineKind, ThreadStep
<1>5. CASE MapInsert(t) /\ Quiet
  BY <1>3, <1>5 DEF MapInsert, Quiet, ThreadStep
\* A thread that goes on to answer, or gives up.
<1>6. CASE PjAnswer(t) /\ PushAnswered(p)
  <2>1. p \in Slots /\ cmd[t].op = "answer" /\ sess[p] \in Session
    BY <1>1, <1>6 DEF PjAnswer
  <2>2. CASE UNCHANGED <<table, sess>>
    <3>1. Quiet
      BY <1>6, <2>2 DEF PushAnswered
    <3> QED
      BY <1>3, <1>6, <2>2, <3>1 DEF table, Quiet, ThreadStep
  <2>3. CASE /\ sess' = [sess EXCEPT ![p] = Bridged([sess[p] EXCEPT !.sdp = TRUE], TRUE)]
             /\ UNCHANGED table
    <3> DEFINE r == [sess[p] EXCEPT !.sdp = TRUE]
               s == Bridged(r, TRUE)
    <3>1. r \in Session /\ r.own = sess[p].own /\ r.inv = sess[p].inv
      BY <2>1 DEF Session
    <3>2. sess' = [sess EXCEPT ![p] = s]
      BY <2>3
    <3> HIDE DEF r
    <3>3. s.own = sess[p].own /\ s.inv = sess[p].inv
      BY <3>1, BridgedKeeps
    <3> HIDE DEF s
    <3>4. sess'[p] = s /\ \A q \in Slots \ {p} : Kept(q)
      BY <2>1, <3>2, OneSession
    <3>5. Quiet /\ Kept(p)
      BY <1>6, <3>3, <3>4 DEF PushAnswered, Kept, Up
    <3> QED
      BY <1>6, <2>3, <3>4, <3>5
         DEF table, Quiet, ThreadStep, EngineKind, Silent, NotUp
  <2>4. CASE /\ sess[p].inv = "Incoming"
             /\ OnCallState(p, sess[p].own, "InCall")
             /\ sess' = [sess EXCEPT ![p].inv = "Connecting"]
    <3>1. sess'[p].inv = "Connecting" /\ sess'[p].own = sess[p].own
          /\ \A q \in Slots \ {p} : Kept(q)
      BY <1>1, <2>1, <2>4 DEF Kept, Up, Session
    <3>2. PushRouted(p)
      BY <1>6, <2>4, <3>1 DEF PushAnswered
    <3>3. Tells(p)
      BY <1>2, <2>1, <2>4, <3>1, <3>2, StateTells DEF Up
    <3> QED
      BY <1>6, <2>1, <3>3 DEF EngineKind, ThreadStep
  <2> QED
    BY <1>6, <2>2, <2>3, <2>4 DEF PjAnswer
<1>7. CASE AnswerSent(t) /\ PushAnswered(p)
  <2>1. p \in Slots /\ sess[p].inv = "Incoming"
    BY <1>1, <1>7 DEF AnswerSent, AnswersAlone, Answering
  <2>2. CASE UNCHANGED <<table, sess>>
    <3>1. Quiet
      BY <1>7, <2>2 DEF PushAnswered
    <3> QED
      BY <1>3, <1>7, <2>2, <3>1 DEF table, Quiet, ThreadStep
  <2>3. CASE /\ sess' = [sess EXCEPT ![p].inv = "Connecting"]
             /\ OnCallState(p, sess[p].own, "InCall")
    <3>1. /\ sess'[p].inv = "Connecting" /\ sess'[p].own = sess[p].own
          /\ \A q \in Slots \ {p} : Kept(q)
      BY <1>1, <2>1, <2>3 DEF Kept, Up, Session
    <3>2. PushRouted(p)
      BY <1>7, <2>1, <3>1 DEF PushAnswered
    <3>3. Tells(p)
      BY <1>2, <2>1, <2>3, <3>1, <3>2, StateTells DEF Up
    <3> QED
      BY <1>7, <2>1, <3>3 DEF EngineKind, ThreadStep
  <2> QED
    BY <1>7, <2>2, <2>3 DEF AnswerSent
<1>8. CASE PjHangup(t) /\ Quiet
  <2>1. CASE UNCHANGED sess
    BY <1>3, <1>8, <2>1 DEF PjHangup, table, Quiet, ThreadStep
  <2>2. CASE sess' = [sess EXCEPT ![p] = NewSession("Closing", sess[p].dir, sess[p].own)]
    <3>1. \A q \in Slots : NotUp(q)
      BY <1>1, <2>2 DEF NotUp, Kept, NewSession, Up
    <3> QED
      BY <1>8, <3>1 DEF PjHangup, table, Quiet, ThreadStep, EngineKind, Silent
  <2> QED
    BY <1>8, <2>1, <2>2 DEF PjHangup
<1>9. CASE HangupReported(t) /\ PushRouted(p)
  <2>1. p \in Slots
    BY <1>1, <1>9 DEF HangupReported
  <2>2. OnCallState(p, sess[p].own, "Ended") /\ sess' = sess
    BY <1>9 DEF HangupReported
  <2>3. sess[p].inv \notin Up
    BY <1>9 DEF ReportsAlone, HangupReported, Up
  <2>4. Tells(p)
    BY <1>2, <1>9, <2>1, <2>2, <2>3, StateTells DEF Kept, Up
  <2> QED
    BY <1>9, <2>1, <2>4 DEF EngineKind, ThreadStep
<1>10. CASE PjHold(t) /\ Quiet
  <2> DEFINE s == Reinvited(sess[p], cmd[t].op)
  <2>1. p \in Slots /\ (UNCHANGED sess \/ sess' = [sess EXCEPT ![p] = s])
    BY <1>1, <1>10 DEF PjHold
  <2>2. s.inv = sess[p].inv /\ s.own = sess[p].own
    BY <1>1, <2>1 DEF Reinvited, Session
  <2> HIDE DEF s
  <2>3. \A q \in Slots : NotUp(q)
    BY <1>1, <2>1, <2>2 DEF NotUp, Kept, Up
  <2> QED
    BY <1>10, <2>3 DEF PjHold, table, Quiet, ThreadStep, EngineKind, Silent
<1>11. CASE PjMute(t) /\ Quiet
  <2> DEFINE mic == IF MediaActive(sess[p]) THEN cmd[t].op = "unmute" ELSE sess[p].mic
  <2>1. p \in Slots /\ sess' = [sess EXCEPT ![p].mic = mic]
    BY <1>1, <1>11 DEF PjMute
  <2> HIDE DEF mic
  <2>2. \A q \in Slots : NotUp(q)
    BY <1>1, <2>1 DEF NotUp, Kept, Up, Session
  <2> QED
    BY <1>11, <2>2 DEF PjMute, table, Quiet, ThreadStep, EngineKind, Silent
<1>12. CASE LogFailure(t) /\ Quiet
  BY <1>3, <1>12 DEF LogFailure, table, Quiet, ThreadStep
<1> QED
  BY <1>4, <1>5, <1>6, <1>7, <1>8, <1>9, <1>10, <1>11, <1>12
     DEF ThreadPushes

\* A state callback of a session that goes on as s, or of none.
LEMMA SessionTells ==
  ASSUME IInv, NEW p \in Slots, NEW s, sess' = [sess EXCEPT ![p] = s],
         NEW own \in CallIds \cup {NoCall},
         NEW new \in {"Ringing", "InCall", "Ended"},
         OnCallState(p, own, new), PushRouted(p),
         new = "InCall" <=> s.inv \in Up,
         new = "InCall" => s.own = own /\ sess[p].own = own
  PROVE  Tells(p)
<1>1. sess'[p] = s /\ \A q \in Slots \ {p} : Kept(q)
  BY OneSession
<1> QED
  BY <1>1, StateTells

\* A media callback of such a session.
LEMMA SessionMediaTells ==
  ASSUME IInv, NEW p \in Slots, NEW s, sess' = [sess EXCEPT ![p] = s],
         NEW active \in BOOLEAN,
         OnCallMedia(p, sess[p].own, active), PushRouted(p),
         s.own = sess[p].own,
         s.inv \in Up \/ s.sdp,
         s.inv \in Up => sess[p].inv \in Up
  PROVE  Tells(p)
<1>1. sess'[p] = s /\ \A q \in Slots \ {p} : Kept(q)
  BY OneSession
<1> QED
  BY <1>1, MediaTells

\* What the worker thread does.
LEMMA WorkerKind ==
  ASSUME IInv, AllSound, NEW p \in Slots, WorkerPushes(p)
  PROVE  WorkerStep(p) /\ EngineKind
<1>1. /\ sess \in [Slots -> Session] /\ sess[p] \in Session
      /\ sess[p].own \in CallIds \cup {NoCall}
  <2>1. sess \in [Slots -> Session] /\ sess[p] \in Session
    BY DEF IInv, TypeOK
  <2> QED
    BY <2>1 DEF Session
<1>2. NoCall \in CallIds \cup {NoCall}
  OBVIOUS
\* Steps that end a session, or make one that is not up.
<1>3. ASSUME NEW s, sess' = [sess EXCEPT ![p] = s], s.inv \notin Up
      PROVE  \A q \in Slots : NotUp(q)
  BY <1>1, <1>3 DEF NotUp, Kept, Up
<1>4. /\ FreeSlot.inv = "Null"
      /\ \A inv, dir, c : NewSession(inv, dir, c).inv = inv
  BY DEF FreeSlot, NewSession
<1>5. CASE IncomingRejected(p) /\ PushRouted(p)
  <2>1. /\ sess' = [sess EXCEPT ![p] = NewSession("Closing", "Incoming", NoCall)]
        /\ OnCallState(p, NoCall, "Ended")
    BY <1>5 DEF IncomingRejected
  <2>2. NewSession("Closing", "Incoming", NoCall).inv \notin Up
    BY <1>4 DEF Up
  <2>3. Tells(p)
    BY <1>2, <1>5, <2>1, <2>2, SessionTells
  <2> QED
    BY <1>5, <2>3 DEF EngineKind, WorkerStep
<1>6. CASE IncomingUnknownAccount(p) /\ Quiet
  <2>1. NewSession("Incoming", "Incoming", NoCall).inv \notin Up
    BY <1>4 DEF Up
  <2>2. \A q \in Slots : NotUp(q)
    BY <1>3, <1>6, <2>1 DEF IncomingUnknownAccount
  <2> QED
    BY <1>6, <2>2 DEF IncomingUnknownAccount, table, Quiet, EngineKind, Silent, WorkerStep
<1>7. CASE IncomingCall(p) /\ Push(nextId)
  <2>1. nextId \in CallIds \ Known /\ nextId \notin ended
    BY <1>7 DEF IncomingCall, IInv, FreshIds, TypeOK, CallIds
  <2>2. NewSession("Incoming", "Incoming", nextId).inv \notin Up
    BY <1>4 DEF Up
  <2>3. /\ \A q \in Slots : NotUp(q)
        /\ calls' = [calls EXCEPT ![nextId] = NewCall("Incoming", p)]
        /\ UNCHANGED ended
    BY <1>3, <1>7, <2>2 DEF IncomingCall
  <2>4. Enters(nextId)
    BY <1>7, <2>1, <2>3, NewCallPushed DEF Direction
  <2> QED
    BY <1>7, <2>1, <2>4 DEF EngineKind, WorkerStep
<1>8. CASE Early(p) /\ PushRouted(p)
  <2> DEFINE s == [sess[p] EXCEPT !.inv = "Early"]
  <2>1. s.inv \notin Up
    BY <1>1 DEF Up, Session
  <2>2. sess' = [sess EXCEPT ![p] = s] /\ OnCallState(p, sess[p].own, "Ringing")
    BY <1>8 DEF Early
  <2> HIDE DEF s
  <2>3. Tells(p)
    BY <1>1, <1>8, <2>1, <2>2, SessionTells
  <2> QED
    BY <1>8, <2>3 DEF EngineKind, WorkerStep
\* The shim's half of a media callback.
<1>9. ASSUME NEW s \in Session, NEW active \in BOOLEAN,
             sess' = [sess EXCEPT ![p] = Bridged(s, active)], s.own = sess[p].own,
             s.inv = sess[p].inv \/ {sess[p].inv, s.inv} \subseteq Up,
             UNCHANGED table, Quiet
      PROVE  EngineKind
  <2> DEFINE b == Bridged(s, active)
  <2>1. b.own = s.own /\ b.inv = s.inv /\ sess' = [sess EXCEPT ![p] = b]
    BY <1>9, BridgedKeeps
  <2> HIDE DEF b
  <2>2. sess'[p] = b /\ \A q \in Slots \ {p} : Kept(q)
    BY <2>1, OneSession
  <2>3. Kept(p)
    BY <1>9, <2>1, <2>2 DEF Kept, Up
  <2> QED
    BY <1>9, <2>2, <2>3 DEF table, Quiet, EngineKind, Silent, NotUp
<1>18. CASE EarlyMedia(p) /\ Quiet
  <2> DEFINE r == [sess[p] EXCEPT !.sdp = TRUE]
  <2>1. r \in Session /\ r.own = sess[p].own /\ r.inv = sess[p].inv
    BY <1>1 DEF Session
  <2>2. sess' = [sess EXCEPT ![p] = Bridged(r, TRUE)] /\ UNCHANGED table
    BY <1>18 DEF EarlyMedia
  <2> HIDE DEF r
  <2>3. EngineKind
    BY <1>9, <1>18, <2>1, <2>2
  <2> QED
    BY <1>18, <2>3 DEF WorkerStep
<1>19. CASE MediaReport(p) /\ PushRouted(p)
  <2> DEFINE s == AfterMedia(sess[p], pjMap[p])
  <2>1. s.own = sess[p].own /\ s.inv = sess[p].inv /\ s.sdp = sess[p].sdp
    BY <1>1, AfterMediaKeeps
  <2>2. /\ sess' = [sess EXCEPT ![p] = s]
        /\ OnCallMedia(p, sess[p].own, sess[p].active)
        /\ sess[p].active \in BOOLEAN
        /\ sess[p].inv \in Up \/ sess[p].sdp
    BY <1>1, <1>19 DEF MediaReport, AllSound, Sound, Up, Session
  <2> HIDE DEF s
  <2>3. Tells(p)
    BY <1>19, <2>1, <2>2, SessionMediaTells
  <2> QED
    BY <1>19, <2>3 DEF EngineKind, WorkerStep
<1>10. ASSUME NEW inv \in {"Accepted", "Confirmed"}, PushRouted(p),
              sess' = [sess EXCEPT ![p].inv = inv], OnCallState(p, sess[p].own, "InCall")
       PROVE  Tells(p)
  <2> DEFINE s == [sess[p] EXCEPT !.inv = inv]
  <2>1. s.inv \in Up /\ s.own = sess[p].own
    BY <1>1 DEF Up, Session
  <2>2. sess' = [sess EXCEPT ![p] = s]
    BY <1>10
  <2> HIDE DEF s
  <2> QED
    BY <1>1, <1>10, <2>1, <2>2, SessionTells
<1>11. CASE Accepted(p) /\ PushRouted(p)
  BY <1>10, <1>11 DEF Accepted, EngineKind, WorkerStep
<1>12. CASE AcceptedMedia(p) /\ Quiet
  <2> DEFINE r == [sess[p] EXCEPT !.sdp = TRUE, !.inv = "Accepted"]
  <2>1. r \in Session /\ r.own = sess[p].own /\ r.inv = "Accepted"
    BY <1>1 DEF Session, InvState
  <2>2. /\ sess' = [sess EXCEPT ![p] = Bridged(r, TRUE)] /\ UNCHANGED table
        /\ {sess[p].inv, "Accepted"} \subseteq Up
    BY <1>12 DEF AcceptedMedia, Up
  <2> HIDE DEF r
  <2>3. EngineKind
    BY <1>9, <1>12, <2>1, <2>2
  <2> QED
    BY <1>12, <2>3 DEF WorkerStep
<1>13. CASE Confirmed(p) /\ PushRouted(p)
  BY <1>10, <1>13 DEF Confirmed, EngineKind, WorkerStep
<1>14. CASE ReinviteAnswered(p) /\ Quiet
  <2> DEFINE active == ~sess[p].held /\ ~sess[p].remHold
  <2>1. active \in BOOLEAN
    OBVIOUS
  <2>2. sess' = [sess EXCEPT ![p] = Bridged(sess[p], active)] /\ UNCHANGED table
    BY <1>14 DEF ReinviteAnswered
  <2> HIDE DEF active
  <2>3. EngineKind
    BY <1>1, <1>9, <1>14, <2>1, <2>2
  <2> QED
    BY <1>14, <2>3 DEF WorkerStep
<1>15. CASE ReinviteRefused(p) /\ Quiet
  <2>1. \A q \in Slots : NotUp(q)
    BY <1>1, <1>15 DEF ReinviteRefused, NotUp, Kept, Up, Session
  <2> QED
    BY <1>15, <2>1 DEF ReinviteRefused, table, Quiet, EngineKind, Silent, WorkerStep
<1>16. CASE RemoteEnd(p) /\ PushRouted(p)
  <2>1. /\ sess' = [sess EXCEPT ![p] = FreeSlot] /\ OnCallState(p, sess[p].own, "Ended")
        /\ FreeSlot.inv \notin Up
    BY <1>4, <1>16 DEF RemoteEnd, Up
  <2>2. Tells(p)
    BY <1>1, <1>16, <2>1, SessionTells
  <2> QED
    BY <1>16, <2>2 DEF EngineKind, WorkerStep
<1>17. CASE SlotFreed(p) /\ Quiet
  <2>1. FreeSlot.inv \notin Up
    BY <1>4 DEF Up
  <2>2. \A q \in Slots : NotUp(q)
    BY <1>3, <1>17, <2>1 DEF SlotFreed
  <2> QED
    BY <1>17, <2>2 DEF SlotFreed, table, Quiet, EngineKind, Silent, WorkerStep
<1> QED
  BY <1>5, <1>6, <1>7, <1>8, <1>11, <1>12, <1>13, <1>14, <1>15, <1>16, <1>17, <1>18,
     <1>19 DEF WorkerPushes

\* A new outgoing call; what CALLING reaches is an older call of the slot.
LEMMA CallButtonKind ==
  ASSUME IInv, CallButton
  PROVE  NewCommand(Flutter) /\ EngineKind
<1> DEFINE t == Flutter
<1>1. t \in Threads /\ CallStart(t) /\ cmd[t] = Idle /\ nextId \in CallIds
      /\ NewCommand(t)
  BY CallUiAssumption DEF CallButton, CallStart, Accepts, NewCommand
<1>2. CASE UNCHANGED <<table, sess, cmd>>
  <2>1. UNCHANGED <<calls, ended, sess, cmd>>
    BY <1>2 DEF table
  <2>2. UNCHANGED evq
    BY <2>1 DEF CallButton, Quiet
  <2>3. \A q \in Slots : NotUp(q)
    BY <2>1 DEF NotUp, Kept, Up
  <2>4. Silent
    BY <2>1, <2>2, <2>3 DEF Silent
  <2> QED
    BY <1>1, <2>4 DEF EngineKind
<1>3. ASSUME NEW p \in Slots, CallMade(t, p) PROVE Tells(p)
  <2>1. cmd' = [cmd EXCEPT ![t] = Doing("made", nextId, p)]
    BY <1>3 DEF CallMade
  <2>2. cmd \in [Threads -> Command] /\ cmd'[t] = Doing("made", nextId, p)
    BY <1>1, <2>1 DEF IInv, TypeOK
  <2>3. cmd'[t].slot = p /\ cmd'[t].op = "made" /\ Idle.op = "idle"
    BY <2>2 DEF Doing, Idle
  <2>4. cmd' # cmd
    BY <1>1, <2>3
  <2>5. PushRouted(p)
    BY <2>3, <2>4 DEF CallButton
  <2>6. /\ sess' = [sess EXCEPT ![p] = NewSession("Calling", "Outgoing", nextId)]
        /\ OnCallState(p, nextId, "Ringing")
        /\ NewSession("Calling", "Outgoing", nextId).inv \notin Up
    BY <1>3 DEF CallMade, NewSession, Up
  <2> QED
    BY <1>1, <2>5, <2>6, SessionTells
<1> QED
  BY <1>1, <1>2, <1>3 DEF CallStart, EngineKind

LEMMA EngineStepIsKind ==
  ASSUME IInv, AnswersAlone, LInv, EngineStep \/ CallButton
  PROVE  EngineKind /\ Next /\ Remember /\ UNCHANGED <<dart, picked, presses>>
<1>1. CASE CallButton
  BY <1>1, CallButtonKind, CallUiAssumption DEF CallButton, Next
<1>2. CASE EngineStep
  BY <1>2, ThreadKind, WorkerKind DEF EngineStep, LInv, Next
<1> QED
  BY <1>1, <1>2

-----------------------------------------------------------------------------
(* The dispatched commands, and CallUi as a run of EngineCalls *)

\* A command on call c, which only hold and mute push.
DispatchKind(c) ==
  /\ c \in Known
  /\ UNCHANGED <<pjMap, nextId, sess, ended, lost, dart, presses>>
  /\ past' = [past EXCEPT ![c] = @
       \cup {h \in {"late"} : calls[c].state = "Ended"}
       \cup {h \in {"unheld"} : picked.op = "hold" /\ ~picked.on}]
  /\ \/ UNCHANGED <<calls, evq>>
     \/ /\ Pushed(c) /\ calls'[c].dir = calls[c].dir
        /\ \/ calls'[c].state = calls[c].state
           \/ calls'[c].state = "OnHold"
           \/ calls'[c].state = "InCall" /\ picked.op = "hold" /\ ~picked.on

LEMMA DispatchIsKind ==
  ASSUME StaleIds, IInv, PickKnown, Dispatch
  PROVE  DispatchKind(picked.call) /\ Next /\ picked' = NoPick
<1> DEFINE c == picked.call
           t == Flutter
<1>1. /\ t \in Threads /\ c \in Named /\ c \in CallIds /\ picked.on \in BOOLEAN
      /\ calls[c] \in Call /\ calls[c].state # "Absent"
  BY CallUiAssumption DEF PickKnown, Dispatch, Named, Known, IInv, TypeOK
<1>2. /\ UNCHANGED <<dart, presses>>
      /\ past' = [past EXCEPT ![c] = @
           \cup {h \in {"late"} : calls[c].state = "Ended"}
           \cup {h \in {"unheld"} : picked.op = "hold" /\ ~picked.on}]
  BY DEF Dispatch
<1>3. CASE (CallAnswer(t, c) \/ CallHangup(t, c)) /\ Quiet
  <2>1. UNCHANGED <<pjMap, nextId, sess, ended, lost, calls, evq>>
    BY <1>3 DEF CallAnswer, CallHangup, Quiet, table
  <2>2. Next
    BY <1>1, <1>3 DEF Next, NewCommand
  <2> QED
    BY <1>1, <1>2, <2>1, <2>2 DEF DispatchKind, Dispatch, Named
<1>4. CASE picked.op = "hold" /\ CallHold(t, c, picked.on) /\ Push(c)
  <2> DEFINE on == picked.on
             state == IF on THEN "OnHold" ELSE "InCall"
             call == [calls[c] EXCEPT !.on_hold = on, !.resumed = ~on, !.state = state]
  <2>1. UNCHANGED <<pjMap, nextId, sess, ended, lost>>
    BY <1>4 DEF CallHold
  <2>2. calls' = [calls EXCEPT ![c] = call]
    BY <1>1, <1>4 DEF CallHold, IInv, TypeOK
  <2>3. call \in Call /\ call.state = state /\ call.dir = calls[c].dir
    BY <1>1 DEF Call, CallState
  <2>4. state # "Absent"
    OBVIOUS
  <2> HIDE DEF call
  <2>5. Pushed(c) /\ calls'[c] = call
    BY <1>1, <1>4, <2>2, <2>3, <2>4, PushedCall
  <2>6. Next
    BY <1>1, <1>4 DEF Next, NewCommand
  <2>7. \/ calls'[c].state = "OnHold"
        \/ calls'[c].state = "InCall" /\ picked.op = "hold" /\ ~picked.on
    BY <1>4, <2>3, <2>5
  <2>8. Pushed(c) /\ calls'[c].dir = calls[c].dir
    BY <2>3, <2>5
  <2> QED
    BY <1>1, <1>2, <2>1, <2>6, <2>7, <2>8 DEF DispatchKind, Dispatch, Named
<1>5. CASE CallMute(t, c, picked.on) /\ Push(c)
  <2> DEFINE call == [calls[c] EXCEPT !.muted = picked.on]
  <2>1. UNCHANGED <<pjMap, nextId, sess, ended, lost>>
    BY <1>5 DEF CallMute
  <2>2. calls' = [calls EXCEPT ![c] = call]
    BY <1>1, <1>5 DEF CallMute, IInv, TypeOK
  <2>3. call \in Call /\ call.state = calls[c].state /\ call.dir = calls[c].dir
    BY <1>1 DEF Call
  <2> HIDE DEF call
  <2>4. Pushed(c) /\ calls'[c] = call
    BY <1>1, <1>5, <2>2, <2>3, PushedCall
  <2>5. Next
    BY <1>1, <1>5 DEF Next, NewCommand
  <2> QED
    BY <1>1, <1>2, <2>1, <2>3, <2>4, <2>5 DEF DispatchKind, Dispatch, Named
<1> QED
  BY <1>3, <1>4, <1>5 DEF Dispatch

\* A button other than CallButton is pressed.
PickKind ==
  /\ \E op \in Buttons, c \in Known, on \in BOOLEAN : picked' = Pick(op, c, on)
  /\ banner' \in {banner, NoCall}
  /\ UNCHANGED <<vars, evq, ui, hist, tones, ops, past>>

\* What the interface shows is well formed.
LEMMA PicksIsKind ==
  ASSUME IInv, DartTypes, NEW c \in Going,
         AnswerButton(c) \/ RejectButton(c) \/ HangupButton(c)
           \/ HoldButton(c) \/ MuteButton(c)
  PROVE  PickKind
<1>1. c \in Known
  BY DEF Going
<1>2. ASSUME NEW op \in Buttons, NEW on \in BOOLEAN, Picks(op, c, on),
             banner' \in {banner, NoCall}
      PROVE  PickKind
  BY <1>1, <1>2 DEF PickKind, Picks
<1>3. CASE AnswerButton(c)
  BY <1>2, <1>3 DEF AnswerButton, Buttons
<1>4. CASE RejectButton(c) \/ HangupButton(c)
  BY <1>2, <1>4 DEF RejectButton, HangupButton, Buttons
<1>5. CASE HoldButton(c)
  BY <1>2, <1>5 DEF HoldButton, Buttons
<1>6. CASE MuteButton(c)
  BY <1>2, <1>6 DEF MuteButton, Buttons
<1> QED
  BY <1>3, <1>4, <1>5, <1>6

\* Every step of CallUi.
UiKind ==
  \/ EngineKind /\ Next /\ Remember /\ UNCHANGED <<dart, picked, presses>>
  \/ DispatchKind(picked.call) /\ Next /\ picked' = NoPick
  \/ PickKind
  \/ HandleEvent
  \/ RunAudio
  \/ UNCHANGED uiVars

LEMMA UiStepIsKind ==
  ASSUME StaleIds, IInv, AnswersAlone, LInv, DartTypes, PickKnown, [UiNext]_uiVars
  PROVE  UiKind
<1>1. CASE Button
  BY <1>1, EngineStepIsKind, PicksIsKind DEF Button, UiKind
<1> QED
  BY <1>1, EngineStepIsKind, DispatchIsKind DEF UiNext, UiKind

LEMMA UiStepRuns ==
  ASSUME UiKind
  PROVE  [Next]_vars
  BY DEF UiKind, PickKind, HandleEvent, RunAudio, uiVars, vars

-----------------------------------------------------------------------------
(* Types *)

\* The entry of an event, as push_call_state has it.
LEMMA PushedEvent ==
  ASSUME DartTypes, NEW c, Pushed(c)
  PROVE  /\ evq' \in Seq(UiEvent)
         /\ Event(c, calls'[c]) = [call |-> c, entry |-> Shown(calls'[c])]
         /\ Len(evq') = Len(evq) + 1
         /\ DOMAIN evq' = 1 .. Len(evq) + 1
         /\ evq'[Len(evq) + 1] = Event(c, calls'[c])
         /\ \A i \in 1 .. Len(evq) : evq'[i] = evq[i]
<1>1. Event(c, calls'[c]) = [call |-> c, entry |-> Shown(calls'[c])]
  BY DEF Event
<1>2. Shown(calls'[c]) \in Entry
  BY DEF Pushed, Shown, Call, Entry
<1>3. [call |-> c, entry |-> Shown(calls'[c])] \in UiEvent
  BY <1>2 DEF UiEvent, Pushed
<1> DEFINE e == Event(c, calls'[c])
<1>4. e \in UiEvent /\ evq' = Append(evq, e) /\ evq \in Seq(UiEvent)
  BY <1>1, <1>3 DEF Pushed, DartTypes
<1> HIDE DEF e
<1>5. /\ evq' \in Seq(UiEvent) /\ Len(evq') = Len(evq) + 1
      /\ DOMAIN evq' = 1 .. Len(evq) + 1
      /\ evq'[Len(evq) + 1] = e
      /\ \A i \in 1 .. Len(evq) : evq'[i] = evq[i]
  BY <1>4
<1> QED
  BY <1>1, <1>5 DEF e

\* The first event.
LEMMA HeadEvent ==
  ASSUME DartTypes, HandleEvent
  PROVE  /\ Head(evq) = evq[1] /\ evq[1] \in UiEvent
         /\ evq' \in Seq(UiEvent) /\ Len(evq) \in Nat \ {0}
         /\ Len(evq') = Len(evq) - 1
         /\ DOMAIN evq = 1 .. Len(evq) /\ DOMAIN evq' = 1 .. Len(evq) - 1
         /\ \A i \in 1 .. Len(evq) - 1 : evq'[i] = evq[i + 1]
<1>1. evq \in Seq(UiEvent) /\ evq # <<>> /\ evq' = Tail(evq)
  BY DEF DartTypes, HandleEvent
<1> QED
  BY <1>1

\* What handling an event leaves of its call.
LEMMA ShownAfterType ==
  ASSUME DartTypes, NEW e \in UiEvent
  PROVE  /\ e.call \in CallIds /\ e.entry \in Entry
         /\ ShownAfter(e) \in UiCall
         /\ ShownAfter(e).shown <=> e.entry.state # "Ended"
         /\ ShownAfter(e).shown =>
              /\ ShownAfter(e).call = e.entry
              /\ ShownAfter(e).started = (ui[e.call].started \/ e.entry.state = "InCall")
<1>1. e.call \in CallIds /\ e.entry \in Entry
  BY DEF UiEvent
<1>2. e.entry \in AnyEntry
  BY <1>1 DEF Entry, AnyEntry
<1>3. ui[e.call].started \in BOOLEAN
  BY <1>1 DEF DartTypes, UiCall
<1> DEFINE started == ui[e.call].started \/ e.entry.state = "InCall"
<1>4. started \in BOOLEAN
  OBVIOUS
<1> HIDE DEF started
<1>5. CASE e.entry.state = "Ended"
  <2>1. ShownAfter(e) = Hidden
    BY <1>5 DEF ShownAfter
  <2>2. Hidden \in UiCall /\ Hidden.shown = FALSE
    BY DEF Hidden, UiCall, AnyEntry, Shown, Absent, NewCall, Direction
  <2> QED
    BY <1>1, <1>5, <2>1, <2>2
<1>6. CASE e.entry.state # "Ended"
  <2>1. ShownAfter(e) = [shown |-> TRUE, call |-> e.entry, started |-> started]
    BY <1>6 DEF ShownAfter, started
  <2>2. ShownAfter(e) \in UiCall
    BY <1>2, <1>4, <2>1 DEF UiCall
  <2>3. /\ ShownAfter(e).shown = TRUE /\ ShownAfter(e).call = e.entry
        /\ ShownAfter(e).started = started
    BY <2>1
  <2> QED
    BY <1>1, <1>6, <2>2, <2>3 DEF started
<1> QED
  BY <1>5, <1>6

\* What is shown of the other calls stays.
LEMMA HandledUi ==
  ASSUME DartTypes, HandleEvent
  PROVE  /\ evq[1] \in UiEvent
         /\ ui' \in [CallIds -> UiCall]
         /\ ui'[evq[1].call] = ShownAfter(evq[1])
         /\ \A c \in CallIds : c # evq[1].call => ui'[c] = ui[c]
         /\ hist' = IF evq[1].entry.state = "Ended" THEN
                      [hist EXCEPT ![evq[1].call] =
                         Append(@, Result(evq[1].call, evq[1].entry.dir))]
                    ELSE hist
         /\ banner' = BannerAfter(evq[1])
         /\ ops' = OpsAfter(evq[1])
         /\ UNCHANGED <<vars, tones, picked, presses, past>>
<1>1. Head(evq) = evq[1] /\ evq[1] \in UiEvent
  BY HeadEvent
<1>2. ShownAfter(evq[1]) \in UiCall /\ evq[1].call \in CallIds
  BY <1>1, ShownAfterType
<1>3. ui' = [ui EXCEPT ![evq[1].call] = ShownAfter(evq[1])] /\ ui \in [CallIds -> UiCall]
  BY <1>1 DEF HandleEvent, DartTypes
<1> QED
  BY <1>1, <1>2, <1>3 DEF HandleEvent

LEMMA PastTypes ==
  ASSUME DartTypes, Remember \/ DispatchKind(picked.call)
  PROVE  /\ past' \in [CallIds -> SUBSET Happened]
         /\ \A c \in CallIds : past[c] \subseteq past'[c]
<1>1. past \in [CallIds -> SUBSET Happened]
  BY DEF DartTypes
<1>2. CASE Remember
  <2>1. \A c \in CallIds : past'[c] \subseteq Happened /\ past[c] \subseteq past'[c]
    BY <1>1, <1>2 DEF Remember, Happened
  <2> QED
    BY <1>2, <2>1 DEF Remember
<1>3. CASE DispatchKind(picked.call)
  <2> DEFINE c == picked.call
             new == past[c] \cup {h \in {"late"} : calls[c].state = "Ended"}
                      \cup {h \in {"unheld"} : picked.op = "hold" /\ ~picked.on}
  <2>1. c \in CallIds /\ past' = [past EXCEPT ![c] = new]
    BY <1>3 DEF DispatchKind, Known
  <2>2. new \in SUBSET Happened /\ past[c] \subseteq new
    BY <1>1, <2>1 DEF Happened
  <2> HIDE DEF new, c
  <2> QED
    BY <1>1, <2>1, <2>2
<1> QED
  BY <1>2, <1>3

LEMMA AppendResult ==
  ASSUME NEW s \in Seq(Results), NEW r \in Results
  PROVE  /\ Append(s, r) \in Seq(Results) /\ Append(s, r) # <<>>
         /\ Len(Append(s, r)) = Len(s) + 1
         /\ s # <<>> => Append(s, r)[1] = s[1]
         /\ s = <<>> => Append(s, r) = <<r>>
<1>1. CASE s = <<>>
  BY <1>1
<1>2. CASE s # <<>>
  BY <1>2
<1> QED
  BY <1>1, <1>2

LEMMA ResultType ==
  ASSUME NEW c, NEW dir
  PROVE  /\ Result(c, dir) \in Results
         /\ Result(c, dir) = "Answered" <=> WasConnected(c)
  BY DEF Result, Results

LEMMA DartTypesStep ==
  ASSUME DartTypes, UiKind
  PROVE  DartTypes'
<1>1. ASSUME Remember \/ DispatchKind(picked.call), UNCHANGED dart,
             UNCHANGED evq \/ \E c : Pushed(c)
      PROVE  DartTypes'
  <2>1. evq' \in Seq(UiEvent)
    BY <1>1, PushedEvent DEF DartTypes
  <2> QED
    BY <1>1, <2>1, PastTypes DEF DartTypes, dart
<1>2. CASE EngineKind /\ Remember /\ UNCHANGED dart
  BY <1>1, <1>2 DEF EngineKind, Silent, Tells, Enters
<1>3. CASE DispatchKind(picked.call)
  BY <1>1, <1>3 DEF DispatchKind
<1>4. CASE PickKind
  BY <1>4 DEF PickKind, DartTypes, NoCall
<1>5. CASE HandleEvent
  <2> DEFINE e == evq[1]
             c == e.call
  <2>1. /\ e \in UiEvent /\ c \in CallIds
        /\ ui' \in [CallIds -> UiCall] /\ ui'[c] = ShownAfter(e)
        /\ \A d \in CallIds : d # c => ui'[d] = ui[d]
        /\ evq' \in Seq(UiEvent)
        /\ UNCHANGED <<tones, past>>
    BY <1>5, HandledUi, HeadEvent DEF UiEvent
  <2>2. /\ ShownAfter(e).shown =>
             /\ ShownAfter(e).call.state \in CallState \ {"Ended"}
             /\ ShownAfter(e).call.state = "InCall" => ShownAfter(e).started
    <3>1. e.entry.state \in CallState
      BY <2>1, ShownAfterType DEF Entry
    <3> QED
      BY <2>1, <3>1, ShownAfterType
  <2>3. hist' \in [CallIds -> Seq(Results)]
    <3> DEFINE r == Result(c, e.entry.dir)
    <3>1. r \in Results /\ hist[c] \in Seq(Results)
      BY <2>1, ResultType DEF DartTypes
    <3> HIDE DEF r
    <3>2. Append(hist[c], r) \in Seq(Results)
      BY <3>1, AppendResult
    <3> QED
      BY <1>5, <2>1, <3>2, HandledUi DEF DartTypes, r
  <2>4. banner' \in CallIds \cup {NoCall}
    BY <1>5, <2>1, HandledUi DEF BannerAfter, DartTypes
  <2>5. ops' \in Seq(Tones \cup {"stop"})
    <3>1. ops \in Seq(Tones \cup {"stop"})
      BY DEF DartTypes
    <3>2. \A tone \in {"ringtone", "ringback", "stop"} :
            Append(ops, tone) \in Seq(Tones \cup {"stop"})
      BY <3>1 DEF Tones
    <3>3. ops' \in {ops, Append(ops, "stop"), Append(ops, "ringtone"),
                    Append(ops, "ringback")}
      BY <1>5, HandledUi DEF OpsAfter
    <3> QED
      BY <3>1, <3>2, <3>3
  <2> HIDE DEF e, c
  <2>6. \A d \in CallIds :
          ui'[d].shown => /\ ui'[d].call.state \in CallState \ {"Ended"}
                          /\ ui'[d].call.state = "InCall" => ui'[d].started
    BY <2>1, <2>2 DEF DartTypes
  <2> QED
    BY <2>1, <2>3, <2>4, <2>5, <2>6 DEF DartTypes
<1>6. CASE RunAudio
  <2>1. ops # <<>> /\ ops \in Seq(Tones \cup {"stop"}) /\ tones \subseteq Tones
    BY <1>6 DEF RunAudio, DartTypes
  <2>2. Tail(ops) \in Seq(Tones \cup {"stop"}) /\ Head(ops) \in Tones \cup {"stop"}
    BY <2>1
  <2>3. ops' \in Seq(Tones \cup {"stop"}) /\ tones' \subseteq Tones
    BY <1>6, <2>1, <2>2 DEF RunAudio
  <2> QED
    BY <1>6, <2>3 DEF RunAudio, DartTypes
<1>7. CASE UNCHANGED uiVars
  BY <1>7 DEF uiVars, DartTypes
<1> QED
  BY <1>2, <1>3, <1>4, <1>5, <1>6, <1>7 DEF UiKind

\* A call of the table stays in it.
LEMMA PickKnownStep ==
  ASSUME IInv, PickKnown, UiKind
  PROVE  PickKnown'
<1>1. \A c \in CallIds \ Known : calls[c].state = "Absent"
  BY DEF Known
<1>2. ASSUME EngineKind \/ UNCHANGED calls PROVE Known \subseteq Known'
  BY <1>2 DEF EngineKind, Silent, Tells, Enters, Pushed, Known
<1>3. CASE EngineKind /\ UNCHANGED picked
  BY <1>2, <1>3 DEF PickKnown
<1>4. CASE picked' = NoPick
  BY <1>4 DEF PickKnown
<1>5. CASE PickKind
  <2> PICK op \in Buttons, c \in Known, on \in BOOLEAN : picked' = Pick(op, c, on)
    BY <1>5 DEF PickKind
  <2>1. picked'.op = op /\ picked'.call = c /\ picked'.on = on
    BY DEF Pick
  <2>2. UNCHANGED calls
    BY <1>5 DEF PickKind, vars
  <2> QED
    BY <1>2, <2>1, <2>2 DEF PickKnown
<1>6. CASE UNCHANGED <<calls, picked>>
  BY <1>2, <1>6 DEF PickKnown
<1> QED
  BY <1>3, <1>4, <1>5, <1>6 DEF UiKind, HandleEvent, RunAudio, uiVars, vars

-----------------------------------------------------------------------------
(* CallUi runs EngineCalls *)

EngineInv == IInv /\ AnswersAlone /\ LInv

LEMMA UiStart ==
  ASSUME UiInit
  PROVE  Init /\ EngineInv /\ DartTypes /\ PickKnown
<1>1. Init /\ EngineInv
  BY InitIInv, InitAnswersAlone, InitLInv DEF UiInit, EngineInv
<1>2. Hidden \in UiCall /\ Hidden.shown = FALSE
  BY DEF Hidden, UiCall, AnyEntry, Shown, Absent, NewCall, Direction
<1>3. DartTypes
  BY <1>2 DEF UiInit, DartTypes
<1>4. PickKnown
  BY DEF UiInit, PickKnown
<1> QED
  BY <1>1, <1>3, <1>4

LEMMA UiBase ==
  ASSUME StaleIds, EngineInv, DartTypes, PickKnown, [UiNext]_uiVars
  PROVE  UiKind /\ [Next]_vars /\ EngineInv' /\ DartTypes' /\ PickKnown'
<1>1. UiKind
  BY UiStepIsKind DEF EngineInv
<1>2. [Next]_vars
  BY <1>1, UiStepRuns
<1>3. EngineInv'
  BY <1>2, InductiveStep, AnswersAloneStep, LInvStep DEF EngineInv
<1> QED
  BY <1>1, <1>2, <1>3, DartTypesStep, PickKnownStep DEF EngineInv

\* The interface, its buttons and the events it handles add nothing to what
\* the engine may do: every behaviour of CallUi is one of EngineCalls, so that
\* the theorems about calls hold here (engine_channel.dart acts on the engine
\* through its commands only).
THEOREM UiRunsCalls ==
  ASSUME StaleIds
  PROVE  UiSpec => Spec
<1>1. UiInit => Init /\ EngineInv /\ DartTypes /\ PickKnown
  BY UiStart
<1>2. EngineInv /\ DartTypes /\ PickKnown /\ [UiNext]_uiVars
        => [Next]_vars /\ EngineInv' /\ DartTypes' /\ PickKnown'
  BY UiBase
<1> QED
  BY <1>1, <1>2, PTL DEF UiSpec, Spec

LEMMA UiInvariant ==
  ASSUME StaleIds
  PROVE  UiSpec => [](EngineInv /\ DartTypes /\ PickKnown)
<1>1. UiInit => EngineInv /\ DartTypes /\ PickKnown
  BY UiStart
<1>2. EngineInv /\ DartTypes /\ PickKnown /\ [UiNext]_uiVars
        => EngineInv' /\ DartTypes' /\ PickKnown'
  BY UiBase
<1> QED
  BY <1>1, <1>2, PTL DEF UiSpec

\* Whatever is pushed, handled and pressed, every variable keeps its type, and
\* no call that has ended is shown (EngineChannel.activeCalls).
THEOREM UiTypeCorrect ==
  ASSUME StaleIds
  PROVE  UiSpec => []UiTypeOK
<1>1. IInv /\ DartTypes /\ PickKnown => UiTypeOK
  <2> SUFFICES ASSUME IInv, DartTypes, PickKnown PROVE UiTypeOK
    OBVIOUS
  <2>1. \A i \in DOMAIN evq : evq[i].call \in CallIds
    <3>1. \A i \in DOMAIN evq : evq[i] \in UiEvent
      BY DEF DartTypes
    <3> QED
      BY <3>1 DEF UiEvent
  <2>2. \A c \in CallIds : \A i \in DOMAIN hist[c] : hist[c][i] \in Results
    BY DEF DartTypes
  <2>3. CASE picked = NoPick
    <3>1. picked.op = "none" /\ picked.call = NoCall /\ NoCall \notin CallIds
      BY <2>3, CallsAssumption DEF NoPick, CallIds, NoCall
    <3> QED
      BY <2>1, <2>2, <2>3, <3>1 DEF UiTypeOK, DartTypes
  <2>4. CASE picked # NoPick
    <3>1. picked.op \in Buttons /\ picked.call \in CallIds
      BY <2>4 DEF PickKnown, Known
    <3> QED
      BY <2>1, <2>2, <2>4, <3>1 DEF UiTypeOK, DartTypes
  <2> QED
    BY <2>3, <2>4
<1> QED
  BY <1>1, UiInvariant, PTL DEF EngineInv

-----------------------------------------------------------------------------
(* The interface follows the table *)

\* The events of a call when one is pushed, and when one is handled.
LEMMA OfPushed ==
  ASSUME DartTypes, NEW c, Pushed(c)
  PROVE  /\ Of(c)' = Of(c) \cup {Len(evq) + 1}
         /\ \A d \in CallIds \ {c} : Of(d)' = Of(d)
         /\ \A d \in CallIds : \A i \in Of(d) : i < Len(evq) + 1 /\ evq'[i] = evq[i]
         /\ Len(evq) \in Nat
<1> DEFINE n == Len(evq)
           e == Event(c, calls'[c])
<1>1. n \in Nat /\ DOMAIN evq = 1 .. n
  BY DEF DartTypes
<1>2. /\ DOMAIN evq' = 1 .. n + 1 /\ evq'[n + 1] = e
      /\ \A i \in 1 .. n : evq'[i] = evq[i]
  <2>1. DOMAIN evq' = 1 .. Len(evq) + 1 /\ evq'[Len(evq) + 1] = Event(c, calls'[c])
        /\ \A i \in 1 .. Len(evq) : evq'[i] = evq[i]
    BY PushedEvent
  <2> QED
    BY <2>1
<1>6. e.call = c
  BY DEF Event
<1> HIDE DEF n, e
<1>3. \A d : Of(d)' = {i \in 1 .. n + 1 : evq'[i].call = d}
  BY <1>2 DEF Of
<1>4. \A d : Of(d) = {i \in 1 .. n : evq[i].call = d}
  BY <1>1 DEF Of
<1>5. Of(c)' = Of(c) \cup {n + 1} /\ \A d : d # c => Of(d)' = Of(d)
  <2>1. \A i \in 1 .. n + 1 : i # n + 1 => i \in 1 .. n
    BY <1>1
  <2>2. Of(c)' = Of(c) \cup {n + 1}
    BY <1>1, <1>2, <1>3, <1>4, <1>6, <2>1
  <2>3. ASSUME NEW d, d # c PROVE Of(d)' = Of(d)
    <3>1. Of(d)' = {i \in 1 .. n + 1 : evq'[i].call = d}
      BY <1>3
    <3>2. Of(d) = {i \in 1 .. n : evq[i].call = d}
      BY <1>4
    <3>3. \A i \in 1 .. n + 1 : evq'[i].call = d <=> i \in 1 .. n /\ evq[i].call = d
      BY <1>1, <1>2, <1>6, <2>1, <2>3
    <3>4. \A i \in 1 .. n : i \in 1 .. n + 1
      BY <1>1
    <3> QED
      BY <3>1, <3>2, <3>3, <3>4
  <2> QED
    BY <2>2, <2>3
<1> QED
  BY <1>1, <1>2, <1>4, <1>5 DEF n

LEMMA OfHandled ==
  ASSUME DartTypes, HandleEvent
  PROVE  /\ \A d : \A i \in Of(d) : i \in Nat /\ i >= 1 /\ (i = 1 => d = evq[1].call)
         /\ 1 \in Of(evq[1].call)
         /\ \A d : \A i \in Of(d) : i # 1 => i - 1 \in Of(d)' /\ evq'[i - 1] = evq[i]
         /\ \A d : \A i \in Of(d)' : i + 1 \in Of(d) /\ evq'[i] = evq[i + 1]
                             /\ i \in Nat /\ i >= 1
<1> DEFINE n == Len(evq)
<1>1. n \in Nat \ {0} /\ DOMAIN evq = 1 .. n /\ DOMAIN evq' = 1 .. n - 1
      /\ \A i \in 1 .. n - 1 : evq'[i] = evq[i + 1]
  BY HeadEvent
<1> HIDE DEF n
<1>2. \A d : Of(d)' = {i \in 1 .. n - 1 : evq'[i].call = d}
  BY <1>1 DEF Of
<1>3. \A d : Of(d) = {i \in 1 .. n : evq[i].call = d}
  BY <1>1 DEF Of
<1> QED
  BY <1>1, <1>2, <1>3

LEMMA FollowsPushed ==
  ASSUME DartTypes, UiFollowsEngine, NEW c, Pushed(c), UNCHANGED ui
  PROVE  UiFollowsEngine'
<1> DEFINE n == Len(evq)
<1>1. /\ Of(c)' = Of(c) \cup {n + 1} /\ n \in Nat
      /\ \A d \in CallIds \ {c} : Of(d)' = Of(d)
      /\ \A d \in CallIds : \A i \in Of(d) : i < n + 1 /\ evq'[i] = evq[i]
      /\ c \in CallIds
  BY OfPushed DEF Pushed
<1>2. evq'[n + 1].entry = Shown(calls'[c])
  <2>1. evq'[Len(evq) + 1] = Event(c, calls'[c])
    BY PushedEvent
  <2>2. Event(c, calls'[c]).entry = Shown(calls'[c])
    BY DEF Event
  <2> QED
    BY <2>1, <2>2
<1>3. \A i \in Of(c) : i \in Nat
  BY DEF Of, DartTypes
<1> HIDE DEF n
<1> SUFFICES ASSUME NEW d \in CallIds
    PROVE IF Of(d)' # {}
          THEN \E i \in Of(d)' : /\ \A j \in Of(d)' : j <= i
                                 /\ evq'[i].entry = Shown(calls'[d])
          ELSE IF ui'[d].shown THEN ui'[d].call = Shown(calls'[d])
          ELSE calls'[d].state \in {"Absent", "Ended"}
  BY DEF UiFollowsEngine
<1>4. CASE d = c
  <2>1. n + 1 \in Of(d)' /\ \A j \in Of(d)' : j <= n + 1
    BY <1>1, <1>3, <1>4
  <2> QED
    BY <1>2, <1>4, <2>1
<1>5. CASE d # c
  <2>1. Of(d)' = Of(d) /\ calls'[d] = calls[d] /\ \A i \in Of(d) : evq'[i] = evq[i]
    BY <1>1, <1>5 DEF Pushed
  <2> QED
    BY <2>1 DEF UiFollowsEngine
<1> QED
  BY <1>4, <1>5

LEMMA FollowsHandled ==
  ASSUME DartTypes, UiFollowsEngine, HandleEvent
  PROVE  UiFollowsEngine'
<1> SUFFICES ASSUME NEW d \in CallIds
    PROVE IF Of(d)' # {}
          THEN \E i \in Of(d)' : /\ \A j \in Of(d)' : j <= i
                                 /\ evq'[i].entry = Shown(calls'[d])
          ELSE IF ui'[d].shown THEN ui'[d].call = Shown(calls'[d])
          ELSE calls'[d].state \in {"Absent", "Ended"}
  BY DEF UiFollowsEngine
<1> DEFINE e == evq[1]
<1>1. /\ e \in UiEvent /\ ui'[e.call] = ShownAfter(e) /\ calls' = calls
      /\ d # e.call => ui'[d] = ui[d]
  BY HandledUi DEF vars
<1>2. /\ \A i \in Of(d) : i \in Nat /\ i >= 1 /\ (i = 1 => d = e.call)
      /\ 1 \in Of(e.call)
      /\ \A i \in Of(d) : i # 1 => i - 1 \in Of(d)' /\ evq'[i - 1] = evq[i]
      /\ \A i \in Of(d)' : i + 1 \in Of(d) /\ evq'[i] = evq[i + 1]
                        /\ i \in Nat /\ i >= 1
  BY OfHandled
<1> HIDE DEF e
<1>3. CASE Of(d)' # {}
  <2> PICK i \in Of(d) : (\A j \in Of(d) : j <= i) /\ evq[i].entry = Shown(calls[d])
    BY <1>2, <1>3 DEF UiFollowsEngine
  <2>1. PICK k \in Of(d)' : TRUE
    BY <1>3
  <2>2. i # 1 /\ i \in Nat
    BY <1>2, <2>1
  <2>3. i - 1 \in Of(d)' /\ evq'[i - 1] = evq[i] /\ \A j \in Of(d)' : j <= i - 1
    BY <1>2, <2>2
  <2> QED
    BY <1>1, <1>3, <2>3
<1>4. CASE Of(d)' = {} /\ d # e.call
  <2>1. Of(d) = {}
    BY <1>2, <1>4
  <2> QED
    BY <1>1, <1>4, <2>1 DEF UiFollowsEngine
<1>5. CASE Of(d)' = {} /\ d = e.call
  <2>1. Of(d) = {1}
    BY <1>2, <1>5
  <2>2. evq[1].entry = Shown(calls[d])
    BY <2>1 DEF UiFollowsEngine
  <2>3. e.entry = Shown(calls[d]) /\ e.entry.state = calls[d].state
    BY <2>2 DEF e, Shown
  <2>4. /\ ShownAfter(e).shown <=> e.entry.state # "Ended"
        /\ ShownAfter(e).shown => ShownAfter(e).call = e.entry
    BY <1>1, ShownAfterType
  <2> QED
    BY <1>1, <1>5, <2>3, <2>4
<1> QED
  BY <1>3, <1>4, <1>5

LEMMA FollowsStep ==
  ASSUME DartTypes, UiFollowsEngine, UiKind
  PROVE  UiFollowsEngine'
<1>1. CASE UNCHANGED <<calls, evq, ui>>
  BY <1>1 DEF UiFollowsEngine, Of
<1>2. CASE EngineKind /\ UNCHANGED dart
  BY <1>1, <1>2, FollowsPushed DEF EngineKind, Silent, Tells, Enters, dart
<1>3. CASE DispatchKind(picked.call)
  BY <1>1, <1>3, FollowsPushed DEF DispatchKind, dart
<1>4. CASE PickKind \/ RunAudio \/ UNCHANGED uiVars
  BY <1>1, <1>4 DEF PickKind, RunAudio, uiVars, vars
<1> QED
  BY <1>2, <1>3, <1>4, FollowsHandled DEF UiKind

\* What the interface shows is the table, late by the events on their way,
\* for any order of pushes, of callbacks that reach an older call of the slot
\* and of commands on calls that have ended (push_call_state under CALLS, the
\* queue of EngineChannel).
THEOREM InterfaceFollows ==
  ASSUME StaleIds
  PROVE  UiSpec => []UiFollowsEngine
<1>1. UiInit => UiFollowsEngine
  <2>1. Absent.state = "Absent" /\ Hidden.shown = FALSE
    BY DEF Absent, NewCall, Hidden
  <2> QED
    BY <2>1 DEF UiInit, Init, UiFollowsEngine, Of
<1>2. EngineInv /\ DartTypes /\ PickKnown /\ UiFollowsEngine /\ [UiNext]_uiVars
        => UiFollowsEngine'
  BY UiBase, FollowsStep
<1> QED
  BY <1>1, <1>2, UiInvariant, PTL DEF UiSpec

-----------------------------------------------------------------------------
(* Whose session it is *)

\* The callbacks of slot p reach call c, or will once it is entered.
Claims(c, p) ==
  \/ pjMap[p] = c
  \/ \E t \in Threads : cmd[t].op \in Starting /\ cmd[t].call = c /\ cmd[t].slot = p

Hears(c, p) == sess[p].own = c /\ Heard(p)

\* A slot tells a call of its own session only, unless the call has lost its
\* own.
Owned == \A p \in Slots, c \in CallIds : Claims(c, p) /\ c \notin lost => Hears(c, p)

LEMMA OwnedStep ==
  ASSUME IInv, ReportsAlone, Owned, StepKind
  PROVE  Owned'
<1> USE Shapes
<1>1. lost \subseteq lost'
  BY LostStays
<1>2. \A t \in Threads : cmd[t].op \in Starting =>
        /\ cmd[t].slot \in Slots /\ cmd[t].op # "report"
        /\ cmd[t].call # NoCall /\ \A p \in Slots : pjMap[p] # cmd[t].call
  BY DEF IInv, HoldsSlot, HoldsNewCall, Starting
<1>3. Idle.op \notin Starting /\ Idle.op # "report"
      /\ FreeSlot.inv = "Null" /\ "inserted" \in Starting
      /\ NoCall \notin CallIds
  BY DEF Idle, Doing, FreeSlot, NewSession, Starting
<1>4. ASSUME NEW p \in Slots, Heard(p) PROVE sess[p].inv # "Null"
  BY <1>4 DEF Heard, Live, Reporting, ReportsAlone
\* It is enough to look at the slots one by one: nothing new claims the slot
\* and what is heard of it is heard, or the calls that claim it are lost, or
\* its session is that of the only call that claims it newly.
<1> DEFINE Fine(p) ==
      \A c \in CallIds : Claims(c, p)' /\ c \notin lost' =>
        \/ Hears(c, p)'
        \/ Claims(c, p) /\ (Hears(c, p) => Hears(c, p)')
<1>5. ASSUME \A p \in Slots : Fine(p) PROVE Owned'
  <2>1. \A p \in Slots, c \in CallIds : Claims(c, p)' /\ c \notin lost' => Hears(c, p)'
    BY <1>1, <1>5 DEF Owned
  <2> QED
    BY <2>1 DEF Owned, Claims, Hears, Heard, Reporting
\* No thread begins to enter a call or to report, and none that reports stops.
<1>6. ASSUME NEW p \in Slots, Kept(p), pjMap'[p] \in {pjMap[p], NoCall},
             \A t \in Threads : cmd'[t].op \in Starting =>
               cmd[t].op \in Starting /\ cmd'[t].call = cmd[t].call
                 /\ cmd'[t].slot = cmd[t].slot,
             \A t \in Threads : cmd[t].op = "report" /\ cmd[t].slot = p => cmd'[t] = cmd[t]
      PROVE  Fine(p)
  <2>1. \A c \in CallIds : Claims(c, p)' => Claims(c, p)
    BY <1>3, <1>6 DEF Claims
  <2>2. \A c \in CallIds : Hears(c, p) => Hears(c, p)'
    BY <1>6 DEF Hears, Heard, Live, Reporting, Kept, Up
  <2> QED
    BY <2>1, <2>2
\* A slot that belonged to nobody.
<1>7. ASSUME NEW p \in Slots, ~Heard(p), NEW c \in CallIds, Claims(c, p)
      PROVE  c \in lost'
  BY <1>1, <1>7 DEF Owned, Hears
<1>8. CASE QuietStep
  <2>1. \A t \in Threads : cmd[t].op \in Handing \/ cmd'[t].op \in Handing => cmd'[t] = cmd[t]
    BY <1>8 DEF QuietStep, CmdQuiet
  <2>2. \A p \in Slots : Fine(p)
    BY <1>6, <1>8, <2>1 DEF QuietStep, Handing
  <2> QED
    BY <1>5, <2>2
<1>9. CASE LostId
  <2>1. \A p \in Slots : Fine(p)
    BY <1>6, <1>9 DEF LostId, Kept, Up
  <2> QED
    BY <1>5, <2>1
<1>10. ASSUME NEW p \in Slots, CallbackStep(p) PROVE Owned'
  <2>1. \A t \in Threads : cmd[t].op \in Handing \/ cmd'[t].op \in Handing => cmd'[t] = cmd[t]
    BY <1>10 DEF CallbackStep, CmdQuiet
  <2>2. \A q \in Slots \ {p} : Fine(q)
    BY <1>6, <1>10, <2>1 DEF CallbackStep, Handing
  <2>3. \A c \in CallIds : Claims(c, p)' => Claims(c, p)
    BY <1>10, <2>1 DEF CallbackStep, Handing, Claims
  <2>4. \A c \in CallIds : Hears(c, p) => Hears(c, p)'
    BY <1>10 DEF CallbackStep, Hears, Heard
  <2> QED
    BY <1>5, <2>2, <2>3, <2>4
<1>11. ASSUME NEW p \in Slots, EndStep(p) PROVE Owned'
  <2>1. \A t \in Threads : cmd'[t].op \in Starting => cmd'[t] = cmd[t]
    BY <1>3, <1>11 DEF EndStep
  <2>2. \A t \in Threads : cmd'[t] = cmd[t] \/ cmd[t].slot = p
    BY <1>11 DEF EndStep
  <2>3. /\ \A q \in Slots \ {p} : Kept(q) /\ pjMap'[q] = pjMap[q]
        /\ pjMap'[p] = NoCall
        /\ lost' = IF sess[p].own \notin {NoCall, pjMap[p]} THEN lost \cup {sess[p].own}
                   ELSE lost
    BY <1>11 DEF EndStep
  <2>4. \A q \in Slots \ {p} : Fine(q)
    BY <1>6, <2>1, <2>2, <2>3
  <2>5. ASSUME NEW c \in CallIds, Claims(c, p)' PROVE c \in lost'
    <3>1. PICK t \in Threads : cmd'[t].op \in Starting /\ cmd'[t].call = c /\ cmd'[t].slot = p
      BY <1>3, <2>3, <2>5 DEF Claims
    <3>2. cmd[t].op \in Starting /\ cmd[t].call = c /\ cmd[t].slot = p
      BY <2>1, <3>1
    <3>3. Claims(c, p) /\ c # pjMap[p] /\ c # NoCall
      BY <1>2, <3>2 DEF Claims
    <3> QED
      BY <1>1, <2>3, <3>3 DEF Owned, Hears
  <2>6. Fine(p)
    BY <2>5
  <2> QED
    BY <1>5, <2>4, <2>6
<1>12. ASSUME NEW p \in Slots, FreeStep(p) PROVE Owned'
  <2>1. /\ UNCHANGED <<cmd, pjMap>> /\ ~Heard(p)
        /\ \A q \in Slots \ {p} : Kept(q)
    BY <1>12 DEF FreeStep, Heard, Live
  <2>2. \A c \in CallIds : Claims(c, p)' => Claims(c, p)
    BY <2>1 DEF Claims
  <2>3. \A q \in Slots \ {p} : Fine(q)
    BY <1>6, <2>1
  <2>4. Fine(p)
    BY <1>7, <2>1, <2>2
  <2> QED
    BY <1>5, <2>3, <2>4
<1>13. ASSUME NEW p \in Slots, IncomingUnknownAccount(p) \/ IncomingCall(p) PROVE Owned'
  <2>1. /\ UNCHANGED cmd /\ ~Heard(p)
        /\ \A q \in Slots \ {p} : Kept(q) /\ pjMap'[q] = pjMap[q]
    BY <1>4, <1>13 DEF IncomingUnknownAccount, IncomingCall, Kept, Up, Allocatable, table
  <2>2. \A q \in Slots \ {p} : Fine(q)
    BY <1>6, <2>1
  <2>3. pjMap'[p] = pjMap[p] \/ (pjMap'[p] = sess'[p].own /\ Live(sess'[p]))
    BY <1>13 DEF IncomingUnknownAccount, IncomingCall, table, NewSession, Live
  <2>4. ASSUME NEW c \in CallIds, Claims(c, p)', c \notin lost' PROVE Hears(c, p)'
    <3>1. ~Claims(c, p)
      BY <1>7, <2>1, <2>4
    <3>2. pjMap'[p] = c /\ pjMap'[p] # pjMap[p]
      BY <2>1, <2>4, <3>1 DEF Claims
    <3> QED
      BY <2>3, <3>2 DEF Hears, Heard
  <2> QED
    BY <1>5, <2>2, <2>4
<1>14. ASSUME NEW p \in Slots, NEW t \in Threads, HangupStep(t, p) PROVE Owned'
  <2>1. /\ cmd[t].op = "hangup" /\ cmd'[t].op = "report" /\ cmd'[t].slot = p
        /\ \A u \in Threads \ {t} : cmd'[u] = cmd[u]
    BY <1>14 DEF HangupStep, Command
  <2>2. \A u \in Threads : cmd'[u].op \in Starting => cmd'[u] = cmd[u]
    BY <2>1 DEF Starting
  <2>3. \A q \in Slots \ {p} : Fine(q)
    BY <1>6, <1>14, <2>1, <2>2 DEF HangupStep
  <2>4. \A c \in CallIds : Claims(c, p)' => Claims(c, p)
    BY <1>14, <2>2 DEF HangupStep, Claims
  <2>5. \A c \in CallIds : Hears(c, p) => Hears(c, p)'
    BY <1>14, <2>1 DEF HangupStep, Hears, Heard, Reporting
  <2> QED
    BY <1>5, <2>3, <2>4, <2>5
<1>15. ASSUME NEW p \in Slots, NEW t \in Threads, MadeStep(t, p) PROVE Owned'
  <2>1. /\ cmd'[t].op = "made" /\ cmd'[t].call = nextId /\ cmd'[t].slot = p
        /\ \A u \in Threads \ {t} : cmd'[u] = cmd[u]
        /\ cmd[t].op # "report"
        /\ sess'[p].own = nextId /\ Live(sess'[p]) /\ UNCHANGED pjMap
    BY <1>15 DEF MadeStep, Doing, Handing, Live
  <2>2. ~Heard(p)
    BY <1>4, <1>15 DEF MadeStep, Allocatable
  <2>3. ASSUME NEW q \in Slots \ {p} PROVE Fine(q)
    <3>1. \A c \in CallIds : Claims(c, q)' => Claims(c, q)
      BY <2>1, <2>3 DEF Claims
    <3>2. \A c \in CallIds : Hears(c, q) => Hears(c, q)'
      BY <1>15, <2>1, <2>3 DEF MadeStep, Hears, Heard, Live, Reporting, Kept, Up
    <3> QED
      BY <3>1, <3>2
  <2>4. ASSUME NEW c \in CallIds, Claims(c, p)', c \notin lost' PROVE Hears(c, p)'
    <3>1. ~Claims(c, p)
      BY <1>7, <2>2, <2>4
    <3>2. c = nextId
      BY <2>1, <2>4, <3>1 DEF Claims
    <3> QED
      BY <2>1, <3>2 DEF Hears, Heard
  <2> QED
    BY <1>5, <2>3, <2>4
<1>16. ASSUME NEW t \in Threads, CallsInsert(t) PROVE Owned'
  <2>1. /\ cmd'[t].call = cmd[t].call /\ cmd'[t].slot = cmd[t].slot /\ cmd[t].op = "made"
        /\ \A u \in Threads \ {t} : cmd'[u] = cmd[u]
        /\ UNCHANGED <<sess, pjMap>>
    BY <1>16 DEF CallsInsert, Continue, Command
  <2>2. "made" # "report" /\ "made" \in Starting
    BY DEF Starting
  <2>3. \A p \in Slots : Fine(p)
    BY <1>6, <2>1, <2>2 DEF Kept, Up
  <2> QED
    BY <1>5, <2>3
<1>17. ASSUME NEW t \in Threads, MapInsert(t) PROVE Owned'
  <2>1. /\ cmd[t].op \in Starting /\ cmd[t].op # "report" /\ cmd'[t] = Idle
        /\ \A u \in Threads \ {t} : cmd'[u] = cmd[u]
        /\ UNCHANGED sess
        /\ pjMap' = [pjMap EXCEPT ![cmd[t].slot] = cmd[t].call]
    BY <1>3, <1>17 DEF MapInsert, Finish, Starting
  <2>2. ASSUME NEW p \in Slots, NEW c \in CallIds, Claims(c, p)' PROVE Claims(c, p)
    BY <1>3, <2>1, <2>2 DEF Claims
  <2>3. \A p \in Slots, c \in CallIds : Hears(c, p) => Hears(c, p)'
    BY <2>1 DEF Hears, Heard, Live, Reporting
  <2> QED
    BY <1>5, <2>2, <2>3
<1> QED
  BY <1>8, <1>9, <1>10, <1>11, <1>12, <1>13, <1>14, <1>15, <1>16, <1>17 DEF StepKind

-----------------------------------------------------------------------------
(* What past remembers *)

\* The call was accepted, had media or was taken off hold.
Comings == {"media", "answered", "unheld"}
Came(c) == past[c] \cap Comings # {}

\* The session of a call that is up has been seen, an ended call that is shown
\* again was reached by a command, and a call shown as InCall came to be so in
\* one of the ways of Came, unless it has lost callbacks.
UpSeen == \A p \in Slots :
            sess[p].inv \in Up /\ sess[p].own # NoCall => "answered" \in past[sess[p].own]
LateSeen == \A c \in ended : calls[c].state = "Ended" \/ "late" \in past[c]
InCallCame == \A c \in CallIds \ lost : calls[c].state = "InCall" => Came(c)

MemoryInv == Owned /\ EndedOnly /\ UpSeen /\ LateSeen /\ InCallCame

\* What the engine and the commands do to the queue and to past.
MemoryStep ==
  /\ UNCHANGED <<ui, hist>>
  /\ lost \subseteq lost' /\ ended \subseteq ended'
  /\ \A c \in CallIds : past[c] \subseteq past'[c]
  /\ \/ UNCHANGED <<calls, evq>>
     \/ \E c \in CallIds :
          /\ Pushed(c)
          /\ c \in ended => "late" \in past'[c]
          /\ calls'[c].state = "InCall" /\ c \notin lost'
               => past'[c] \cap Comings # {}
          /\ calls'[c].state = "Ended" => c \in ended'
  /\ \A c \in ended' \ ended : Pushed(c) /\ calls'[c].state = "Ended"
  /\ \A c \in CallIds \ lost' :
       "answered" \in past'[c] \ past[c] =>
         Pushed(c) /\ calls'[c].state = "InCall" /\ c \notin ended

LEMMA EngineRemembers ==
  ASSUME EngineInv, DartTypes, MemoryInv, EngineKind, Next, Remember, UNCHANGED dart
  PROVE  MemoryStep
<1>1. lost \subseteq lost'
  BY EveryStepKind, LostStays DEF EngineInv, LInv
<1>2. \A c \in CallIds : past[c] \subseteq past'[c]
  BY PastTypes
<1>3. /\ \A p \in Slots : sess'[p].own \in CallIds /\ sess'[p].inv \in Up
           => "answered" \in past'[sess'[p].own]
      /\ \A p \in Slots : sess'[p].own \in CallIds /\ sess'[p].sdp
           => "media" \in past'[sess'[p].own]
      /\ \A c \in CallIds : "answered" \in past'[c] =>
           \/ "answered" \in past[c]
           \/ \E p \in Slots : sess'[p].own = c /\ sess'[p].inv \in Up
  BY DEF Remember, Up
<1>4. UNCHANGED <<ui, hist>>
  BY DEF dart
<1>5. /\ NoCall \notin CallIds
      /\ \A p \in Slots : pjMap[p] # NoCall =>
           pjMap[p] \in CallIds /\ pjMap[p] \notin ended
  BY CallsAssumption DEF EngineInv, IInv, RoutesToItsSlot, Known, CallIds, NoCall
<1>6. \A q \in Slots, c \in CallIds : sess[q].own = c /\ sess[q].inv \in Up
        => "answered" \in past[c]
  BY <1>5 DEF MemoryInv, UpSeen
\* A session that was up, or that is not.
<1>7. ASSUME NEW q \in Slots, NotUp(q), NEW c \in CallIds, sess'[q].own = c,
             sess'[q].inv \in Up
      PROVE  "answered" \in past[c]
  BY <1>6, <1>7 DEF NotUp, Kept, Up
<1>8. CASE Silent
  <2>1. \A c \in CallIds : "answered" \in past'[c] => "answered" \in past[c]
    BY <1>3, <1>7, <1>8 DEF Silent
  <2> QED
    BY <1>1, <1>2, <1>4, <1>8, <2>1 DEF Silent, MemoryStep
<1>9. ASSUME NEW c \in CallIds, Enters(c) PROVE MemoryStep
  <2>1. \A d \in CallIds : "answered" \in past'[d] => "answered" \in past[d]
    BY <1>3, <1>7, <1>9 DEF Enters
  <2>2. /\ Pushed(c) /\ c \notin ended /\ calls'[c].state = "Ringing"
        /\ ended' = ended
    BY <1>9 DEF Enters
  <2> QED
    BY <1>1, <1>2, <1>4, <2>1, <2>2 DEF MemoryStep
<1>10. ASSUME NEW p \in Slots, Tells(p) PROVE MemoryStep
  <2> DEFINE c == pjMap[p]
             own == sess[p].own
  <2>1. \A q \in Slots \ {p} : NotUp(q)
    BY <1>10 DEF Tells, NotUp
  <2>2. /\ c = NoCall => UNCHANGED <<calls, evq, ended>>
        /\ c # NoCall =>
             /\ Pushed(c)
             /\ ended' = IF calls'[c].state = "Ended" THEN ended \cup {c} ELSE ended
             /\ calls'[c].state = "InCall" =>
                  sess'[p].own = own /\ (sess'[p].inv \in Up \/ sess'[p].sdp)
        /\ sess'[p].inv \in Up =>
             /\ sess'[p].own = own
             /\ \/ sess[p].inv \in Up
                \/ /\ c # NoCall => calls'[c].state = "InCall"
                   /\ own \notin {NoCall, c} => own \in lost'
    BY <1>10 DEF Tells
  <2>3. c # NoCall => c \in CallIds /\ c \notin ended
    BY <1>5
  <2>4. c # NoCall /\ c \notin lost => own = c
    BY <2>3 DEF MemoryInv, Owned, Claims, Hears
  <2> HIDE DEF c, own
  <2>5. ASSUME c # NoCall, calls'[c].state = "InCall", c \notin lost'
        PROVE  "media" \in past'[c] \/ "answered" \in past'[c]
    <3>1. sess'[p].own = c
      BY <1>1, <2>2, <2>4, <2>5
    <3> QED
      BY <1>3, <2>2, <2>3, <2>5, <3>1
  <2>6. c # NoCall /\ calls'[c].state = "InCall" /\ c \notin lost'
          => past'[c] \cap Comings # {}
    BY <2>5 DEF Comings
  <2>7. ASSUME NEW d \in CallIds \ lost', "answered" \in past'[d] \ past[d]
        PROVE  Pushed(d) /\ calls'[d].state = "InCall" /\ d \notin ended
    <3>1. PICK q \in Slots : sess'[q].own = d /\ sess'[q].inv \in Up
      BY <1>3, <2>7
    <3>2. q = p
      BY <1>7, <2>1, <2>7, <3>1
    <3>3. own = d /\ sess[p].inv \notin Up
      BY <1>6, <2>2, <2>7, <3>1, <3>2 DEF own
    <3>4. d = c /\ d # NoCall
      BY <1>5, <2>2, <2>7, <3>1, <3>2, <3>3
    <3> QED
      BY <2>2, <2>3, <3>1, <3>2, <3>3, <3>4
  <2>8. CASE c = NoCall
    BY <1>1, <1>2, <1>4, <2>2, <2>7, <2>8 DEF MemoryStep
  <2>9. CASE c # NoCall
    <3>1. /\ Pushed(c) /\ c \in CallIds
          /\ c \in ended => "late" \in past'[c]
          /\ calls'[c].state = "InCall" /\ c \notin lost'
               => past'[c] \cap Comings # {}
          /\ calls'[c].state = "Ended" => c \in ended'
      BY <2>2, <2>3, <2>6, <2>9
    <3>2. ended \subseteq ended'
          /\ \A d \in ended' \ ended : Pushed(d) /\ calls'[d].state = "Ended"
      BY <2>2, <2>9
    <3> QED
      BY <1>1, <1>2, <1>4, <2>7, <3>1, <3>2 DEF MemoryStep
  <2> QED
    BY <2>8, <2>9
<1> QED
  BY <1>8, <1>9, <1>10 DEF EngineKind

LEMMA DispatchRemembers ==
  ASSUME EngineInv, DartTypes, MemoryInv, DispatchKind(picked.call)
  PROVE  MemoryStep
<1> DEFINE c == picked.call
<1>1. /\ c \in CallIds /\ calls[c] \in Call
      /\ UNCHANGED <<ui, hist, lost, ended>>
      /\ \A d \in CallIds : past[d] \subseteq past'[d]
  BY PastTypes DEF DispatchKind, Known, dart, EngineInv, IInv, TypeOK
<1>2. /\ past \in [CallIds -> SUBSET Happened]
      /\ past' = [past EXCEPT ![c] = @
           \cup {h \in {"late"} : calls[c].state = "Ended"}
           \cup {h \in {"unheld"} : picked.op = "hold" /\ ~picked.on}]
  BY DEF DispatchKind, DartTypes
<1>3. /\ calls[c].state = "Ended" => "late" \in past'[c]
      /\ picked.op = "hold" /\ ~picked.on => "unheld" \in past'[c]
      /\ \A d \in CallIds : "answered" \in past'[d] => "answered" \in past[d]
  BY <1>1, <1>2
<1>4. CASE UNCHANGED <<calls, evq>>
  BY <1>1, <1>3, <1>4 DEF MemoryStep
<1>5. CASE /\ Pushed(c)
           /\ \/ calls'[c].state = calls[c].state
              \/ calls'[c].state = "OnHold"
              \/ calls'[c].state = "InCall" /\ picked.op = "hold" /\ ~picked.on
  <2>1. c \in ended => "late" \in past'[c]
    BY <1>1, <1>3 DEF MemoryInv, LateSeen
  <2>2. calls'[c].state = "InCall" /\ c \notin lost' => past'[c] \cap Comings # {}
    <3>1. calls[c].state = "InCall" /\ c \notin lost => past[c] \cap Comings # {}
      BY <1>1 DEF MemoryInv, InCallCame, Came
    <3>2. past[c] \cap Comings # {} \/ "unheld" \in past'[c] => past'[c] \cap Comings # {}
      BY <1>1 DEF Comings
    <3> QED
      BY <1>1, <1>3, <1>5, <3>1, <3>2
  <2>3. calls'[c].state = "Ended" => c \in ended'
    BY <1>1, <1>5 DEF MemoryInv, EndedOnly
  <2> HIDE DEF c
  <2>4. Pushed(c)
    BY <1>5
  <2> QED
    BY <1>1, <1>3, <2>1, <2>2, <2>3, <2>4 DEF MemoryStep
<1> QED
  BY <1>4, <1>5 DEF DispatchKind
\* How every step of CallUi appears to the record: the engine and the commands
\* push, or an event is handled, or nothing of it changes.
Records ==
  \/ MemoryStep
  \/ HandleEvent
  \/ UNCHANGED <<calls, evq, ui, hist, past, ended, lost>>

LEMMA MemoryInvStep ==
  ASSUME EngineInv, EngineInv', DartTypes, MemoryInv, UiKind, [Next]_vars
  PROVE  MemoryInv' /\ Records
<1>1. Owned' /\ EndedOnly'
  BY EveryStepKind, OwnedStep, EveryStepChange, EndedOnlyStep
     DEF EngineInv, LInv, MemoryInv
<1>2. /\ \A p \in Slots : sess'[p].own \in CallIds \cup {NoCall}
      /\ ended' \subseteq CallIds /\ NoCall \notin CallIds
  BY CallsAssumption DEF EngineInv, IInv, TypeOK, Session, CallIds, NoCall
<1>3. ASSUME MemoryStep PROVE LateSeen' /\ InCallCame'
  <2>1. \A c \in CallIds : past[c] \subseteq past'[c]
    BY <1>3 DEF MemoryStep
  <2>2. ASSUME NEW c \in ended' PROVE calls'[c].state = "Ended" \/ "late" \in past'[c]
    <3>1. CASE c \notin ended
      BY <1>3, <2>2, <3>1 DEF MemoryStep
    <3>2. CASE c \in ended
      BY <1>2, <1>3, <2>1, <2>2, <3>2 DEF MemoryStep, MemoryInv, LateSeen, Pushed
    <3> QED
      BY <3>1, <3>2
  <2>3. ASSUME NEW c \in CallIds \ lost', calls'[c].state = "InCall"
        PROVE  past'[c] \cap Comings # {}
    <3>1. c \notin lost
      BY <1>3, <2>3 DEF MemoryStep
    <3>2. calls[c].state = "InCall" => past'[c] \cap Comings # {}
      BY <2>1, <3>1 DEF MemoryInv, InCallCame, Came
    <3> QED
      BY <1>3, <2>3, <3>2 DEF MemoryStep, Pushed
  <2> QED
    BY <2>2, <2>3 DEF LateSeen, InCallCame, Came
<1>4. CASE EngineKind /\ Next /\ Remember /\ UNCHANGED dart
  <2>1. MemoryStep
    BY <1>4, EngineRemembers
  <2>2. UpSeen'
    BY <1>2, <1>4 DEF Remember, UpSeen, Up
  <2> QED
    BY <1>1, <1>3, <2>1, <2>2 DEF MemoryInv, Records
<1>5. CASE DispatchKind(picked.call)
  <2>1. MemoryStep
    BY <1>5, DispatchRemembers
  <2>2. UNCHANGED sess /\ \A c \in CallIds : past[c] \subseteq past'[c]
    BY <1>5, PastTypes DEF DispatchKind
  <2>3. UpSeen'
    BY <1>2, <2>2 DEF MemoryInv, UpSeen
  <2> QED
    BY <1>1, <1>3, <2>1, <2>3 DEF MemoryInv, Records
<1>6. CASE PickKind \/ HandleEvent \/ RunAudio \/ UNCHANGED uiVars
  <2>1. UNCHANGED <<vars, past>>
    BY <1>6 DEF PickKind, HandleEvent, RunAudio, uiVars, vars
  <2>2. UpSeen' /\ LateSeen' /\ InCallCame'
    BY <2>1 DEF vars, MemoryInv, UpSeen, LateSeen, InCallCame, Came
  <2>3. HandleEvent \/ UNCHANGED <<evq, ui, hist>>
    BY <1>6 DEF PickKind, RunAudio, uiVars
  <2> QED
    BY <1>1, <2>1, <2>2, <2>3 DEF MemoryInv, Records, vars
<1> QED
  BY <1>4, <1>5, <1>6 DEF UiKind

LEMMA MemoryStart ==
  ASSUME UiInit
  PROVE  MemoryInv
<1>1. FreeSlot.inv \notin Up /\ Idle.op \notin Starting /\ Absent.state = "Absent"
  BY DEF FreeSlot, NewSession, Up, Idle, Doing, Starting, Absent, NewCall
<1>2. NoCall \notin CallIds
  BY CallsAssumption DEF CallIds, NoCall
<1> QED
  BY <1>1, <1>2 DEF UiInit, Init, MemoryInv, Owned, Claims, EndedOnly, UpSeen, LateSeen,
     InCallCame

-----------------------------------------------------------------------------
(* The history *)

\* Event i of the queue tells that its call has ended.
Ends(i) == evq[i].entry.state = "Ended"

\* A call that has not ended has no entry, nor an event that would give it one;
\* a call that has ended has one or the other.
Uncounted == \A c \in CallIds \ ended : hist[c] = <<>> /\ \A i \in Of(c) : ~Ends(i)
Counted == \A c \in ended : hist[c] = <<>> => \E i \in Of(c) : Ends(i)

\* Nothing follows the end of a call that no command reached after it.
Once ==
  \A c \in CallIds : "late" \notin past[c] =>
    /\ Len(hist[c]) <= 1
    /\ hist[c] # <<>> => Of(c) = {}
    /\ \A i \in Of(c) : Ends(i) => \A j \in Of(c) : j <= i

\* What is shown, or will be, as having been in call came to be so.
CameShown ==
  \A c \in CallIds \ lost :
    /\ ui[c].started => Came(c)
    /\ \A i \in Of(c) : evq[i].entry.state = "InCall" => Came(c)
    /\ hist[c] # <<>> /\ hist[c][1] = "Answered" => Came(c)

\* An answered call is shown as such before its end is told.
UpShown ==
  \A c \in CallIds \ lost : "answered" \in past[c] =>
    IF hist[c] # <<>> THEN hist[c][1] = "Answered"
    ELSE \/ ui[c].shown /\ ui[c].started
         \/ \E i \in Of(c) : /\ evq[i].entry.state = "InCall"
                             /\ \A j \in Of(c) : j < i => ~Ends(j)

HistoryInv == Uncounted /\ Counted /\ Once /\ CameShown /\ UpShown

LEMMA HistoryKept ==
  ASSUME HistoryInv, UNCHANGED <<evq, ui, hist, past, ended, lost>>
  PROVE  HistoryInv'
  BY DEF HistoryInv, Uncounted, Counted, Once, CameShown, UpShown, Of, Ends, Came

\* A call is pushed: its event is the last, and nothing told its end before
\* unless a command reached it after that.
LEMMA HistoryPushed ==
  ASSUME DartTypes, HistoryInv, MemoryStep, ended' \subseteq CallIds,
         NEW p \in CallIds, Pushed(p),
         p \in ended => "late" \in past'[p],
         calls'[p].state = "InCall" /\ p \notin lost' => past'[p] \cap Comings # {},
         calls'[p].state = "Ended" => p \in ended'
  PROVE  HistoryInv'
<1>0. PICK n \in Nat : n = Len(evq) + 1
  BY DEF DartTypes
<1>1. /\ UNCHANGED <<ui, hist>> /\ lost \subseteq lost' /\ ended \subseteq ended'
      /\ \A c \in CallIds : past[c] \subseteq past'[c]
      /\ \A c \in ended' \ ended : Pushed(c) /\ calls'[c].state = "Ended"
      /\ \A c \in CallIds \ lost' : "answered" \in past'[c] \ past[c] =>
           Pushed(c) /\ calls'[c].state = "InCall" /\ c \notin ended
  BY DEF MemoryStep
<1>2. /\ Of(p)' = Of(p) \cup {n}
      /\ \A d \in CallIds \ {p} : Of(d)' = Of(d)
      /\ \A d \in CallIds : \A i \in Of(d) : i < n /\ evq'[i] = evq[i]
      /\ \A d \in CallIds : \A i \in Of(d) : i \in Nat
  BY <1>0, OfPushed DEF Of, DartTypes
<1>3. evq'[n].entry.state = calls'[p].state
  <2>1. evq'[n] = Event(p, calls'[p])
    BY <1>0, PushedEvent
  <2>2. Event(p, calls'[p]).entry.state = calls'[p].state
    BY DEF Event, Shown
  <2> QED
    BY <1>0, <2>1, <2>2
\* Only the call pushed can have ended, or come up, in this step.
<1>4. \A c \in CallIds : Pushed(c) => c = p
  <2> SUFFICES ASSUME NEW c \in CallIds, Pushed(c) PROVE c = p
    OBVIOUS
  <2>1. evq'[Len(evq) + 1] = Event(c, calls'[c]) /\ evq'[Len(evq) + 1] = Event(p, calls'[p])
    BY PushedEvent
  <2>2. Event(c, calls'[c]).call = c /\ Event(p, calls'[p]).call = p
    BY DEF Event
  <2> QED
    BY <2>1, <2>2
<1>5. \A d \in CallIds : \A i \in Of(d) : Ends(i)' <=> Ends(i)
  BY <1>2 DEF Ends
<1>6. Ends(n)' <=> calls'[p].state = "Ended"
  BY <1>3 DEF Ends
<1>7. p \notin ended => hist[p] = <<>> /\ \A i \in Of(p) : ~Ends(i)
  BY DEF HistoryInv, Uncounted
<1>8. Uncounted'
  <2> SUFFICES ASSUME NEW c \in CallIds \ ended'
               PROVE  hist'[c] = <<>> /\ \A i \in Of(c)' : ~Ends(i)'
    BY DEF Uncounted
  <2>1. hist[c] = <<>> /\ \A i \in Of(c) : ~Ends(i)
    BY <1>1 DEF HistoryInv, Uncounted
  <2>2. CASE c = p
    BY <1>1, <1>2, <1>5, <1>6, <2>1, <2>2
  <2>3. CASE c # p
    BY <1>1, <1>2, <1>5, <2>1, <2>3
  <2> QED
    BY <2>2, <2>3
<1>9. Counted'
  <2> SUFFICES ASSUME NEW c \in ended', hist[c] = <<>>
               PROVE  \E i \in Of(c)' : Ends(i)'
    BY <1>1 DEF Counted
  <2>1. CASE c \in ended
    <3>1. PICK i \in Of(c) : Ends(i)
      BY <2>1 DEF HistoryInv, Counted
    <3> QED
      BY <1>2, <1>5, <2>1, <3>1
  <2>2. CASE c \notin ended
    <3>1. c = p /\ calls'[p].state = "Ended"
      BY <1>1, <1>4, <2>2 DEF Pushed
    <3> QED
      BY <1>2, <1>6, <3>1
  <2> QED
    BY <2>1, <2>2
<1>10. Once'
  <2> SUFFICES ASSUME NEW c \in CallIds, "late" \notin past'[c]
               PROVE  /\ Len(hist[c]) <= 1
                      /\ hist[c] # <<>> => Of(c)' = {}
                      /\ \A i \in Of(c)' : Ends(i)' => \A j \in Of(c)' : j <= i
    BY <1>1 DEF Once
  <2>1. /\ Len(hist[c]) <= 1
        /\ hist[c] # <<>> => Of(c) = {}
        /\ \A i \in Of(c) : Ends(i) => \A j \in Of(c) : j <= i
    BY <1>1 DEF HistoryInv, Once
  <2>2. CASE c = p
    <3>1. hist[c] = <<>> /\ \A i \in Of(c) : ~Ends(i)
      BY <1>7, <2>2
    <3>2. \A i \in Of(c)' : Ends(i)' => i = n
      BY <1>2, <1>5, <2>2, <3>1
    <3>3. \A j \in Of(c)' : j <= n
      BY <1>2, <2>2
    <3> QED
      BY <2>1, <3>1, <3>2, <3>3
  <2>3. CASE c # p
    BY <1>2, <1>5, <2>1, <2>3
  <2> QED
    BY <2>2, <2>3
<1>11. CameShown'
  <2> SUFFICES ASSUME NEW c \in CallIds \ lost'
               PROVE  /\ ui[c].started => past'[c] \cap Comings # {}
                      /\ \A i \in Of(c)' : evq'[i].entry.state = "InCall"
                           => past'[c] \cap Comings # {}
                      /\ hist[c] # <<>> /\ hist[c][1] = "Answered"
                           => past'[c] \cap Comings # {}
    BY <1>1 DEF CameShown, Came
  <2>1. /\ ui[c].started => past[c] \cap Comings # {}
        /\ \A i \in Of(c) : evq[i].entry.state = "InCall" => past[c] \cap Comings # {}
        /\ hist[c] # <<>> /\ hist[c][1] = "Answered" => past[c] \cap Comings # {}
        /\ past[c] \subseteq past'[c]
    BY <1>1 DEF HistoryInv, CameShown, Came
  <2>2. CASE c = p
    BY <1>2, <1>3, <2>1, <2>2
  <2>3. CASE c # p
    BY <1>2, <2>1, <2>3
  <2> QED
    BY <2>2, <2>3
<1>12. UpShown'
  <2> SUFFICES ASSUME NEW c \in CallIds \ lost', "answered" \in past'[c]
               PROVE  IF hist[c] # <<>> THEN hist[c][1] = "Answered"
                      ELSE \/ ui[c].shown /\ ui[c].started
                           \/ \E i \in Of(c)' :
                                /\ evq'[i].entry.state = "InCall"
                                /\ \A j \in Of(c)' : j < i => ~Ends(j)'
    BY <1>1 DEF UpShown
  <2>1. CASE "answered" \in past[c]
    <3>1. IF hist[c] # <<>> THEN hist[c][1] = "Answered"
          ELSE \/ ui[c].shown /\ ui[c].started
               \/ \E i \in Of(c) : /\ evq[i].entry.state = "InCall"
                                   /\ \A j \in Of(c) : j < i => ~Ends(j)
      BY <1>1, <2>1 DEF HistoryInv, UpShown
    <3>2. ASSUME NEW i \in Of(c), evq[i].entry.state = "InCall",
                 \A j \in Of(c) : j < i => ~Ends(j)
          PROVE  i \in Of(c)' /\ evq'[i].entry.state = "InCall"
                 /\ \A j \in Of(c)' : j < i => ~Ends(j)'
      <4>1. i < n /\ evq'[i] = evq[i] /\ i \in Nat
        BY <1>2
      <4>2. Of(c) \subseteq Of(c)' /\ \A j \in Of(c)' : j \in Of(c) \/ j = n
        BY <1>2
      <4>3. ASSUME NEW j \in Of(c)', j < i PROVE ~Ends(j)'
        <5>1. j \in Of(c)
          BY <1>0, <4>1, <4>2, <4>3
        <5> QED
          BY <1>5, <3>2, <4>3, <5>1
      <4> QED
        BY <3>2, <4>1, <4>2, <4>3
    <3> QED
      BY <3>1, <3>2
  <2>2. CASE "answered" \notin past[c]
    <3>1. Pushed(c) /\ calls'[c].state = "InCall" /\ c \notin ended
      BY <1>1, <2>2
    <3>2. c = p
      BY <1>4, <3>1
    <3>3. hist[c] = <<>> /\ \A i \in Of(c) : ~Ends(i)
      BY <1>7, <3>1, <3>2
    <3>4. n \in Of(c)' /\ evq'[n].entry.state = "InCall"
      BY <1>2, <1>3, <3>1, <3>2
    <3>5. \A j \in Of(c)' : j < n => ~Ends(j)'
      BY <1>2, <1>5, <3>2, <3>3
    <3> QED
      BY <3>3, <3>4, <3>5
  <2> QED
    BY <2>1, <2>2
<1> QED
  BY <1>8, <1>9, <1>10, <1>11, <1>12 DEF HistoryInv

\* An event is handled: an Ended one writes the entry of its call, which says
\* Answered if the call is shown as one that has been in call.
LEMMA HistoryHandled ==
  ASSUME DartTypes, HistoryInv, HandleEvent, ended \subseteq CallIds
  PROVE  HistoryInv'
<1>0. PICK e \in UiEvent : e = evq[1]
  BY HandledUi
<1>1. PICK c \in CallIds : c = e.call
  BY <1>0 DEF UiEvent
<1>2. PICK r \in Results : r = Result(c, e.entry.dir)
  BY ResultType
<1>3. /\ ui'[c] = ShownAfter(e)
      /\ \A d \in CallIds : d # c => ui'[d] = ui[d]
      /\ hist' = IF e.entry.state = "Ended" THEN [hist EXCEPT ![c] = Append(@, r)]
                 ELSE hist
      /\ UNCHANGED <<past, ended, lost>>
  BY <1>0, <1>1, <1>2, HandledUi DEF vars
<1>4. /\ ShownAfter(e).shown <=> e.entry.state # "Ended"
      /\ ShownAfter(e).shown =>
           ShownAfter(e).started = (ui[c].started \/ e.entry.state = "InCall")
      /\ e.entry.state = "Ended" => ~ShownAfter(e).started
  <2>1. e.entry.state = "Ended" => ShownAfter(e) = Hidden
    BY DEF ShownAfter
  <2>2. Hidden.started = FALSE
    BY DEF Hidden
  <2> QED
    BY <1>1, <2>1, <2>2, ShownAfterType
<1>5. /\ hist \in [CallIds -> Seq(Results)]
      /\ \A d \in CallIds : d # c => hist'[d] = hist[d]
      /\ e.entry.state # "Ended" => hist' = hist
  BY <1>3 DEF DartTypes
<1>6. e.entry.state = "Ended" =>
        /\ hist'[c] # <<>> /\ Len(hist'[c]) = Len(hist[c]) + 1
        /\ hist[c] # <<>> => hist'[c][1] = hist[c][1]
        /\ hist[c] = <<>> => hist'[c][1] = r
  <2>1. hist[c] \in Seq(Results)
    BY <1>5
  <2>2. e.entry.state = "Ended" => hist'[c] = Append(hist[c], r)
    BY <1>3, <1>5
  <2> QED
    BY <2>1, <2>2, AppendResult
<1>7. r = "Answered" <=> ui[c].shown /\ ui[c].started
  <2>1. /\ ui[c].shown /\ ui[c].call.state = "InCall" => ui[c].started
        /\ r = "Answered" <=> WasConnected(c)
    BY <1>2, ResultType DEF DartTypes
  <2> QED
    BY <2>1 DEF WasConnected
<1>8. /\ 1 \in Of(c)
      /\ \A d \in CallIds : \A i \in Of(d) :
           /\ i \in Nat /\ i >= 1 /\ (i = 1 => d = c)
           /\ i # 1 => i - 1 \in Of(d)' /\ evq'[i - 1] = evq[i]
      /\ \A d \in CallIds : \A i \in Of(d)' :
           i \in Nat /\ i >= 1 /\ i + 1 \in Of(d) /\ evq'[i] = evq[i + 1]
  BY <1>0, <1>1, OfHandled
<1>9. Ends(1) <=> e.entry.state = "Ended"
  BY <1>0 DEF Ends
<1>10. \A d \in CallIds : \A i \in Of(d)' : Ends(i)' <=> Ends(i + 1)
  BY <1>8 DEF Ends
<1>11. \A d \in CallIds : \A i \in Of(d) : i # 1 => i - 1 \in Of(d)' /\ (Ends(i - 1)' <=> Ends(i))
  BY <1>8 DEF Ends
<1>12. c \notin ended => e.entry.state # "Ended"
  BY <1>8, <1>9 DEF HistoryInv, Uncounted
<1>13. Uncounted'
  <2> SUFFICES ASSUME NEW d \in CallIds \ ended
               PROVE  hist'[d] = <<>> /\ \A i \in Of(d)' : ~Ends(i)'
    BY <1>3 DEF Uncounted
  <2>1. hist[d] = <<>> /\ \A i \in Of(d) : ~Ends(i)
    BY DEF HistoryInv, Uncounted
  <2> QED
    BY <1>5, <1>8, <1>10, <1>12, <2>1
<1>14. Counted'
  <2> SUFFICES ASSUME NEW d \in ended, hist'[d] = <<>>
               PROVE  \E i \in Of(d)' : Ends(i)'
    BY <1>3 DEF Counted
  <2>1. d \in CallIds /\ hist[d] = <<>>
    BY <1>5, <1>6
  <2>2. PICK i \in Of(d) : Ends(i)
    BY <2>1 DEF HistoryInv, Counted
  <2>3. i # 1
    BY <1>6, <1>8, <1>9, <2>1, <2>2
  <2> QED
    BY <1>11, <2>1, <2>2, <2>3
<1>15. Once'
  <2> SUFFICES ASSUME NEW d \in CallIds, "late" \notin past[d]
               PROVE  /\ Len(hist'[d]) <= 1
                      /\ hist'[d] # <<>> => Of(d)' = {}
                      /\ \A i \in Of(d)' : Ends(i)' => \A j \in Of(d)' : j <= i
    BY <1>3 DEF Once
  <2>1. /\ Len(hist[d]) <= 1
        /\ hist[d] # <<>> => Of(d) = {}
        /\ \A i \in Of(d) : Ends(i) => \A j \in Of(d) : j <= i
    BY DEF HistoryInv, Once
  <2>2. \A i \in Of(d)' : Ends(i)' => \A j \in Of(d)' : j <= i
    <3> SUFFICES ASSUME NEW i \in Of(d)', Ends(i)', NEW j \in Of(d)' PROVE j <= i
      OBVIOUS
    <3>1. /\ i + 1 \in Of(d) /\ j + 1 \in Of(d) /\ i \in Nat /\ j \in Nat
          /\ Ends(i + 1)
      BY <1>8, <1>10
    <3>2. j + 1 <= i + 1
      BY <2>1, <3>1
    <3> QED
      BY <3>1, <3>2
  <2>3. CASE d = c /\ e.entry.state = "Ended"
    <3>1. hist[c] = <<>>
      BY <1>8, <2>1, <2>3
    <3>2. Len(hist'[d]) = 1
      BY <1>6, <2>3, <3>1
    <3>3. Of(d)' = {}
      <4> SUFFICES ASSUME NEW i \in Of(d)' PROVE FALSE
        OBVIOUS
      <4>1. i + 1 \in Of(d) /\ i \in Nat /\ i >= 1
        BY <1>8
      <4>2. i + 1 <= 1
        BY <1>8, <1>9, <2>1, <2>3, <4>1
      <4> QED
        BY <4>1, <4>2
    <3> QED
      BY <2>2, <3>2, <3>3
  <2>4. CASE ~(d = c /\ e.entry.state = "Ended")
    <3>1. hist'[d] = hist[d]
      BY <1>5, <2>4
    <3>2. Of(d) = {} => Of(d)' = {}
      BY <1>8
    <3> QED
      BY <2>1, <2>2, <3>1, <3>2
  <2> QED
    BY <2>3, <2>4
<1>16. CameShown'
  <2> SUFFICES ASSUME NEW d \in CallIds \ lost
               PROVE  /\ ui'[d].started => Came(d)
                      /\ \A i \in Of(d)' : evq'[i].entry.state = "InCall" => Came(d)
                      /\ hist'[d] # <<>> /\ hist'[d][1] = "Answered" => Came(d)
    BY <1>3 DEF CameShown, Came
  <2>1. /\ ui[d].started => Came(d)
        /\ \A i \in Of(d) : evq[i].entry.state = "InCall" => Came(d)
        /\ hist[d] # <<>> /\ hist[d][1] = "Answered" => Came(d)
    BY DEF HistoryInv, CameShown
  <2>2. \A i \in Of(d)' : evq'[i].entry.state = "InCall" => Came(d)
    BY <1>8, <2>1
  <2>3. CASE d = c
    <3>1. e.entry.state = "InCall" => Came(d)
      BY <1>0, <1>8, <2>1, <2>3
    <3>2. ui'[d].started => Came(d)
      BY <1>3, <1>4, <2>1, <2>3, <3>1
    <3>3. hist'[d] # <<>> /\ hist'[d][1] = "Answered" => Came(d)
      BY <1>5, <1>6, <1>7, <2>1, <2>3
    <3> QED
      BY <2>2, <3>2, <3>3
  <2>4. CASE d # c
    BY <1>3, <1>5, <2>1, <2>2, <2>4
  <2> QED
    BY <2>3, <2>4
<1>17. UpShown'
  <2> SUFFICES ASSUME NEW d \in CallIds \ lost, "answered" \in past[d]
               PROVE  IF hist'[d] # <<>> THEN hist'[d][1] = "Answered"
                      ELSE \/ ui'[d].shown /\ ui'[d].started
                           \/ \E i \in Of(d)' :
                                /\ evq'[i].entry.state = "InCall"
                                /\ \A j \in Of(d)' : j < i => ~Ends(j)'
    BY <1>3 DEF UpShown
  <2>1. IF hist[d] # <<>> THEN hist[d][1] = "Answered"
        ELSE \/ ui[d].shown /\ ui[d].started
             \/ \E i \in Of(d) : /\ evq[i].entry.state = "InCall"
                                 /\ \A j \in Of(d) : j < i => ~Ends(j)
    BY DEF HistoryInv, UpShown
  <2>2. ASSUME NEW i \in Of(d), i # 1, evq[i].entry.state = "InCall",
               \A j \in Of(d) : j < i => ~Ends(j)
        PROVE  \E k \in Of(d)' : /\ evq'[k].entry.state = "InCall"
                                 /\ \A j \in Of(d)' : j < k => ~Ends(j)'
    <3>1. /\ i \in Nat /\ i - 1 \in Of(d)' /\ i - 1 \in Nat
          /\ evq'[i - 1].entry.state = "InCall"
      BY <1>8, <2>2
    <3>2. ASSUME NEW j \in Of(d)', j < i - 1 PROVE ~Ends(j)'
      <4>1. j \in Nat /\ j + 1 \in Of(d) /\ j + 1 < i
        BY <1>8, <3>1, <3>2
      <4> QED
        BY <1>10, <2>2, <4>1
    <3> QED
      BY <3>1, <3>2
  <2>3. CASE hist[d] # <<>>
    <3>1. hist'[d] # <<>> /\ hist'[d][1] = hist[d][1]
      BY <1>5, <1>6, <2>3
    <3> QED
      BY <2>1, <2>3, <3>1
  <2>4. CASE hist[d] = <<>> /\ d # c
    <3>1. hist'[d] = hist[d] /\ ui'[d] = ui[d] /\ 1 \notin Of(d)
      BY <1>3, <1>5, <1>8, <2>4
    <3> QED
      BY <2>1, <2>2, <2>4, <3>1
  <2>5. CASE hist[d] = <<>> /\ d = c /\ ui[d].shown /\ ui[d].started
    <3>1. CASE e.entry.state = "Ended"
      BY <1>6, <1>7, <2>5, <3>1
    <3>2. CASE e.entry.state # "Ended"
      BY <1>3, <1>4, <1>5, <2>5, <3>2
    <3> QED
      BY <3>1, <3>2
  <2>6. CASE hist[d] = <<>> /\ d = c /\ ~(ui[d].shown /\ ui[d].started)
    <3>1. PICK i \in Of(d) : /\ evq[i].entry.state = "InCall"
                             /\ \A j \in Of(d) : j < i => ~Ends(j)
      BY <2>1, <2>6
    <3>2. CASE i = 1
      <4>1. e.entry.state = "InCall"
        BY <1>0, <3>1, <3>2
      <4> QED
        BY <1>3, <1>4, <1>5, <2>6, <4>1
    <3>3. CASE i # 1
      <4>1. i \in Nat /\ i >= 1
        BY <1>8
      <4>2. ~Ends(1)
        BY <1>8, <2>6, <3>1, <3>3, <4>1
      <4>3. hist'[d] = <<>>
        BY <1>5, <1>9, <2>6, <4>2
      <4> QED
        BY <2>2, <3>1, <3>3, <4>3
    <3> QED
      BY <3>2, <3>3
  <2> QED
    BY <2>3, <2>4, <2>5, <2>6
<1> QED
  BY <1>13, <1>14, <1>15, <1>16, <1>17 DEF HistoryInv

\* The engine and the commands push at most one call, and what they write to
\* past and ended without it changes nothing here.
LEMMA HistoryUnpushed ==
  ASSUME HistoryInv, MemoryStep, UNCHANGED <<calls, evq>>, ended' \subseteq CallIds, DartTypes
  PROVE  HistoryInv'
<1>1. \A c : ~Pushed(c)
  <2>1. ASSUME NEW c, Pushed(c) PROVE FALSE
    <3>1. Len(evq') = Len(evq) + 1 /\ evq \in Seq(UiEvent)
      BY <2>1, PushedEvent DEF DartTypes
    <3> QED
      BY <3>1
  <2> QED
    BY <2>1
<1>2. /\ UNCHANGED <<ui, hist>> /\ lost \subseteq lost' /\ ended' = ended
      /\ \A c \in CallIds : past[c] \subseteq past'[c]
      /\ \A c \in CallIds \ lost' : "answered" \in past'[c] => "answered" \in past[c]
  BY <1>1 DEF MemoryStep
<1>3. \A c : Of(c)' = Of(c)
  BY DEF Of
<1>4. Uncounted' /\ Counted'
  BY <1>2, <1>3 DEF HistoryInv, Uncounted, Counted, Ends
<1>5. Once'
  BY <1>2, <1>3 DEF HistoryInv, Once, Ends
<1>6. CameShown'
  BY <1>2, <1>3 DEF HistoryInv, CameShown, Came
<1>7. UpShown'
  BY <1>2, <1>3 DEF HistoryInv, UpShown, Ends
<1> QED
  BY <1>4, <1>5, <1>6, <1>7 DEF HistoryInv

LEMMA HistoryStep ==
  ASSUME EngineInv', DartTypes, HistoryInv, Records, ended \subseteq CallIds
  PROVE  HistoryInv'
<1>1. ended' \subseteq CallIds
  BY DEF EngineInv, IInv, TypeOK
<1>2. CASE MemoryStep
  <2>1. CASE UNCHANGED <<calls, evq>>
    BY <1>1, <1>2, <2>1, HistoryUnpushed
  <2>2. ASSUME NEW c \in CallIds, Pushed(c),
               c \in ended => "late" \in past'[c],
               calls'[c].state = "InCall" /\ c \notin lost' => past'[c] \cap Comings # {},
               calls'[c].state = "Ended" => c \in ended'
        PROVE  HistoryInv'
    BY <1>1, <1>2, <2>2, HistoryPushed
  <2> QED
    BY <1>2, <2>1, <2>2 DEF MemoryStep
<1> QED
  BY <1>2, HistoryHandled, HistoryKept DEF Records

LEMMA RecordInvariant ==
  ASSUME StaleIds
  PROVE  UiSpec => [](MemoryInv /\ HistoryInv)
<1>1. UiInit => MemoryInv /\ HistoryInv
  <2> SUFFICES ASSUME UiInit PROVE MemoryInv /\ HistoryInv
    OBVIOUS
  <2>1. Hidden.started = FALSE
    BY DEF Hidden
  <2>2. /\ \A c \in CallIds : hist[c] = <<>> /\ past[c] = {} /\ ~ui[c].started
        /\ \A c : Of(c) = {}
        /\ ended = {}
    BY <2>1 DEF UiInit, Init, Of
  <2>3. HistoryInv
    BY <2>2 DEF HistoryInv, Uncounted, Counted, Once, CameShown, UpShown
  <2> QED
    BY <2>3, MemoryStart
<1>2. EngineInv /\ EngineInv' /\ DartTypes /\ PickKnown /\ MemoryInv /\ HistoryInv
        /\ [UiNext]_uiVars => MemoryInv' /\ HistoryInv'
  BY UiBase, MemoryInvStep, HistoryStep DEF EngineInv, IInv, TypeOK
<1> QED
  BY <1>1, <1>2, UiInvariant, PTL DEF UiSpec

\* The history has one entry for every call whose end was handled, and it says
\* Answered if the call was accepted, and only if it was or had media or was
\* taken off hold, in whatever order its events were pushed and handled and
\* whatever commands came between; excepted are calls that lost a callback
\* while they were entered and calls a command reached after their end
\* (EngineChannel's history, push_call_state, engine_set_hold).
THEOREM HistoryCorrect ==
  ASSUME StaleIds
  PROVE  UiSpec => []HistoryIsTrue
<1>1. DartTypes /\ EngineInv /\ HistoryInv => HistoryIsTrue
  <2> SUFFICES ASSUME DartTypes, EngineInv, HistoryInv, NEW c \in CallIds
      PROVE  /\ c \in ended /\ Of(c) = {} => hist[c] # <<>>
             /\ "late" \notin past[c] => Len(hist[c]) <= 1
             /\ hist[c] = <<"Answered">> /\ c \notin lost
                  => past[c] \cap {"media", "answered", "unheld"} # {}
             /\ hist[c] # <<>> /\ "answered" \in past[c] /\ c \notin lost
                  => hist[c][1] = "Answered"
    BY DEF HistoryIsTrue
  <2>1. c \in ended /\ Of(c) = {} => hist[c] # <<>>
    BY DEF HistoryInv, Counted
  <2>2. "late" \notin past[c] => Len(hist[c]) <= 1
    BY DEF HistoryInv, Once
  <2>3. hist[c] = <<"Answered">> => hist[c] # <<>> /\ hist[c][1] = "Answered"
    OBVIOUS
  <2>4. hist[c] = <<"Answered">> /\ c \notin lost
          => past[c] \cap {"media", "answered", "unheld"} # {}
    BY <2>3 DEF HistoryInv, CameShown, Came, Comings
  <2>5. hist[c] # <<>> /\ "answered" \in past[c] /\ c \notin lost => hist[c][1] = "Answered"
    BY DEF HistoryInv, UpShown
  <2> QED
    BY <2>1, <2>2, <2>4, <2>5
<1> QED
  BY <1>1, UiInvariant, RecordInvariant, PTL

-----------------------------------------------------------------------------
(* The banner and the tones *)

\* What is shown or told of a call has the direction of its entry.
Directed ==
  /\ \A c \in CallIds : ui[c].shown => c \in Known /\ ui[c].call.dir = calls[c].dir
  /\ \A i \in DOMAIN evq : /\ evq[i].call \in Known
                           /\ evq[i].entry.dir = calls[evq[i].call].dir

Waits(c) == ui[c].shown /\ ui[c].call.state \in {"Ringing", "OnHold"}

\* The tone plays once the chain has run.
Sounds(tone) ==
  \/ tone \in tones /\ \A i \in DOMAIN ops : ops[i] # "stop"
  \/ \E i \in DOMAIN ops : /\ ops[i] = tone
                           /\ \A j \in DOMAIN ops : j > i => ops[j] # "stop"

\* The banner is that of a call that waits, and a tone that plays in the end is
\* that of one.
Warranted ==
  /\ banner # NoCall => Waits(banner)
  /\ Sounds("ringtone") => \E c \in CallIds : Waits(c) /\ ui[c].call.dir = "Incoming"
  /\ Sounds("ringback") => \E c \in CallIds : Waits(c) /\ ui[c].call.dir = "Outgoing"

\* What reaches the queue keeps the direction of its call.
DirectedPush ==
  \/ UNCHANGED <<calls, evq>>
  \/ \E c : Pushed(c) /\ (c \in Known => calls'[c].dir = calls[c].dir)

LEMMA DirectedPushed ==
  ASSUME DartTypes, Directed, DirectedPush, UNCHANGED ui
  PROVE  Directed'
<1>1. CASE UNCHANGED <<calls, evq>>
  BY <1>1 DEF Directed, Known
<1>2. ASSUME NEW c, Pushed(c), c \in Known => calls'[c].dir = calls[c].dir
      PROVE  Directed'
  <2>1. PICK n \in Nat : n = Len(evq)
    BY DEF DartTypes
  <2>2. /\ DOMAIN evq = 1 .. n /\ DOMAIN evq' = 1 .. n + 1
        /\ evq'[n + 1].call = c /\ evq'[n + 1].entry.dir = calls'[c].dir
        /\ \A i \in 1 .. n : evq'[i] = evq[i]
    <3>1. /\ DOMAIN evq' = 1 .. n + 1 /\ evq'[n + 1] = Event(c, calls'[c])
          /\ \A i \in 1 .. n : evq'[i] = evq[i]
      BY <1>2, <2>1, PushedEvent
    <3>2. Event(c, calls'[c]).call = c /\ Event(c, calls'[c]).entry.dir = calls'[c].dir
      BY DEF Event, Shown
    <3>3. DOMAIN evq = 1 .. n
      BY <2>1 DEF DartTypes
    <3> QED
      BY <3>1, <3>2, <3>3
  <2>3. c \in Known' /\ \A d \in Known : d \in Known' /\ calls'[d].dir = calls[d].dir
    BY <1>2 DEF Pushed, Known
  <2>4. \A d \in CallIds : ui'[d].shown => d \in Known' /\ ui'[d].call.dir = calls'[d].dir
    BY <2>3 DEF Directed
  <2>5. ASSUME NEW i \in DOMAIN evq'
        PROVE  evq'[i].call \in Known' /\ evq'[i].entry.dir = calls'[evq'[i].call].dir
    <3>1. i = n + 1 \/ i \in 1 .. n
      BY <2>1, <2>2
    <3> QED
      BY <2>2, <2>3, <3>1 DEF Directed
  <2> QED
    BY <2>4, <2>5 DEF Directed
<1> QED
  BY <1>1, <1>2 DEF DirectedPush

LEMMA DirectedStep ==
  ASSUME DartTypes, IInv, Directed, UiKind
  PROVE  Directed'
<1>1. CASE EngineKind /\ UNCHANGED dart
  <2>1. CASE Silent \/ \E c \in CallIds : Enters(c)
    <3>1. DirectedPush /\ UNCHANGED ui
      BY <1>1, <2>1 DEF Silent, Enters, DirectedPush, dart
    <3> QED
      BY <3>1, DirectedPushed
  <2>2. ASSUME NEW p \in Slots, Tells(p) PROVE Directed'
    <3>1. DirectedPush /\ UNCHANGED ui
      BY <1>1, <2>2 DEF Tells, DirectedPush, dart
    <3> QED
      BY <3>1, DirectedPushed
  <2> QED
    BY <1>1, <2>1, <2>2 DEF EngineKind
<1>2. CASE DispatchKind(picked.call)
  <2>1. DirectedPush /\ UNCHANGED ui
    BY <1>2 DEF DispatchKind, DirectedPush, dart
  <2> QED
    BY <2>1, DirectedPushed
<1>3. CASE HandleEvent
  <2>1. PICK e \in UiEvent : e = evq[1]
    BY <1>3, HandledUi
  <2>2. PICK c \in CallIds : c = e.call
    BY <2>1 DEF UiEvent
  <2>3. /\ ui'[c] = ShownAfter(e)
        /\ \A d \in CallIds : d # c => ui'[d] = ui[d]
        /\ UNCHANGED calls
    BY <1>3, <2>1, <2>2, HandledUi DEF vars
  <2>4. /\ 1 \in DOMAIN evq
        /\ \A i \in DOMAIN evq' : i + 1 \in DOMAIN evq /\ evq'[i] = evq[i + 1]
    BY <1>3, HeadEvent
  <2>5. c \in Known /\ e.entry.dir = calls[c].dir
    BY <2>1, <2>2, <2>4 DEF Directed
  <2>6. ShownAfter(e).shown => ShownAfter(e).call = e.entry
    BY ShownAfterType
  <2>7. \A d \in CallIds : ui'[d].shown => d \in Known /\ ui'[d].call.dir = calls[d].dir
    BY <2>3, <2>5, <2>6 DEF Directed
  <2>8. \A i \in DOMAIN evq' : evq'[i].call \in Known
                               /\ evq'[i].entry.dir = calls[evq'[i].call].dir
    BY <2>4 DEF Directed
  <2> QED
    BY <2>3, <2>7, <2>8 DEF Directed, Known
<1>4. CASE UNCHANGED <<calls, evq, ui>>
  BY <1>4 DEF Directed, Known
<1> QED
  BY <1>1, <1>2, <1>3, <1>4 DEF UiKind, PickKind, RunAudio, uiVars, vars

\* An operation joins the chain.
LEMMA SoundsAfter ==
  ASSUME DartTypes, NEW op \in Tones \cup {"stop"}, ops' = Append(ops, op), UNCHANGED tones
  PROVE  \A tone \in Tones : Sounds(tone)' => op # "stop" /\ (Sounds(tone) \/ tone = op)
<1>1. PICK n \in Nat : n = Len(ops)
  BY DEF DartTypes
<1>2. /\ DOMAIN ops = 1 .. n /\ DOMAIN ops' = 1 .. n + 1
      /\ ops'[n + 1] = op /\ \A i \in 1 .. n : ops'[i] = ops[i]
  BY <1>1 DEF DartTypes
<1> SUFFICES ASSUME NEW tone \in Tones, Sounds(tone)'
             PROVE  op # "stop" /\ (Sounds(tone) \/ tone = op)
  OBVIOUS
<1>3. CASE tone \in tones' /\ \A i \in DOMAIN ops' : ops'[i] # "stop"
  BY <1>2, <1>3 DEF Sounds
<1>4. ASSUME NEW i \in DOMAIN ops', ops'[i] = tone,
             \A j \in DOMAIN ops' : j > i => ops'[j] # "stop"
      PROVE  op # "stop" /\ (Sounds(tone) \/ tone = op)
  <2>1. CASE i = n + 1
    BY <1>2, <1>4, <2>1 DEF Tones
  <2>2. CASE i # n + 1
    <3>1. i \in 1 .. n /\ n + 1 > i /\ n + 1 \in DOMAIN ops'
      BY <1>2, <2>2
    <3>2. ops[i] = tone /\ \A j \in 1 .. n : j > i => ops[j] # "stop"
      BY <1>2, <1>4, <3>1
    <3>3. op # "stop"
      BY <1>2, <1>4, <3>1
    <3> QED
      BY <1>2, <3>1, <3>2, <3>3 DEF Sounds
  <2> QED
    BY <2>1, <2>2
<1> QED
  BY <1>3, <1>4 DEF Sounds

\* The chain runs on.
LEMMA SoundsRun ==
  ASSUME DartTypes, RunAudio
  PROVE  \A tone \in Tones : Sounds(tone)' => Sounds(tone)
<1>1. PICK n \in Nat : n = Len(ops)
  BY DEF DartTypes
<1>2. /\ DOMAIN ops = 1 .. n /\ n >= 1 /\ DOMAIN ops' = 1 .. n - 1
      /\ Head(ops) = ops[1] /\ \A i \in 1 .. n - 1 : ops'[i] = ops[i + 1]
  <2>1. ops \in Seq(Tones \cup {"stop"}) /\ ops # <<>> /\ ops' = Tail(ops)
    BY DEF DartTypes, RunAudio
  <2> QED
    BY <1>1, <2>1
<1>3. tones' = IF ops[1] = "stop" THEN {} ELSE tones \cup {ops[1]}
  BY <1>2 DEF RunAudio
<1>4. \A j \in 1 .. n : j # 1 => j - 1 \in 1 .. n - 1 /\ ops'[j - 1] = ops[j]
  BY <1>2
<1> SUFFICES ASSUME NEW tone \in Tones, Sounds(tone)' PROVE Sounds(tone)
  OBVIOUS
<1>5. CASE tone \in tones' /\ \A i \in DOMAIN ops' : ops'[i] # "stop"
  <2>1. \A j \in 1 .. n : j # 1 => ops[j] # "stop"
    BY <1>2, <1>4, <1>5
  <2>2. 1 \in 1 .. n /\ ops[1] # "stop"
    BY <1>2, <1>3, <1>5
  <2>3. CASE tone \in tones
    BY <1>2, <2>1, <2>2, <2>3 DEF Sounds
  <2>4. CASE ops[1] = tone
    <3>1. \A j \in 1 .. n : j > 1 => ops[j] # "stop"
      BY <2>1
    <3> QED
      BY <1>2, <2>2, <2>4, <3>1 DEF Sounds
  <2> QED
    BY <1>3, <1>5, <2>3, <2>4
<1>6. ASSUME NEW i \in DOMAIN ops', ops'[i] = tone,
             \A j \in DOMAIN ops' : j > i => ops'[j] # "stop"
      PROVE  Sounds(tone)
  <2>1. i + 1 \in 1 .. n /\ ops[i + 1] = tone /\ i \in 1 .. n - 1
    BY <1>2, <1>6
  <2>2. \A j \in 1 .. n : j > i + 1 => ops[j] # "stop"
    <3> SUFFICES ASSUME NEW j \in 1 .. n, j > i + 1 PROVE ops[j] # "stop"
      OBVIOUS
    <3>1. j - 1 \in 1 .. n - 1 /\ j - 1 > i /\ ops'[j - 1] = ops[j]
      BY <1>4, <2>1
    <3> QED
      BY <1>2, <1>6, <3>1
  <2> QED
    BY <1>2, <2>1, <2>2 DEF Sounds
<1> QED
  BY <1>5, <1>6 DEF Sounds

\* A call that waits for its answer is shown before it takes the banner or
\* starts a tone, and any event that takes one away from its call stops both.
LEMMA WarrantedHandled ==
  ASSUME DartTypes, Directed, Warranted, HandleEvent
  PROVE  Warranted'
<1>1. PICK e \in UiEvent : e = evq[1]
  BY HandledUi
<1>2. PICK c \in CallIds : c = e.call
  BY <1>1 DEF UiEvent
<1>3. /\ ui'[c] = ShownAfter(e)
      /\ \A d \in CallIds : d # c => ui'[d] = ui[d]
      /\ banner' = BannerAfter(e) /\ ops' = OpsAfter(e)
      /\ UNCHANGED <<calls, tones>>
  BY <1>1, <1>2, HandledUi DEF vars
<1>4. /\ e.entry.state \in {"Ringing", "InCall", "OnHold", "Ended"}
      /\ e.entry.dir \in {"Incoming", "Outgoing"}
      /\ ShownAfter(e).shown <=> e.entry.state # "Ended"
      /\ ShownAfter(e).shown => ShownAfter(e).call = e.entry
  BY ShownAfterType DEF Entry, CallState, Direction
<1>5. /\ 1 \in DOMAIN evq
      /\ e.entry.dir = calls[c].dir
      /\ ui[c].shown => ui[c].call.dir = e.entry.dir
  BY <1>1, <1>2, HeadEvent DEF Directed
<1>6. /\ NoCall \notin CallIds /\ banner \in CallIds \cup {NoCall}
      /\ "ringtone" \in Tones /\ "ringback" \in Tones /\ "stop" \notin Tones
  BY CallsAssumption DEF DartTypes, CallIds, NoCall, Tones
<1>7. CASE e.entry.state \in {"InCall", "Ended"}
  <2>1. banner' = NoCall /\ ops' = Append(ops, "stop")
    BY <1>3, <1>7 DEF BannerAfter, OpsAfter
  <2>2. \A tone \in Tones : ~Sounds(tone)'
    BY <1>3, <2>1, SoundsAfter
  <2> QED
    BY <1>6, <2>1, <2>2 DEF Warranted
\* Who waits goes on waiting, in the same direction.
<1>8. ASSUME e.entry.state \in {"Ringing", "OnHold"}, NEW d \in CallIds, d = c \/ Waits(d)
      PROVE  /\ Waits(d)'
             /\ d # c \/ Waits(d) => ui'[d].call.dir = ui[d].call.dir
             /\ d = c => ui'[d].call.dir = e.entry.dir
  <2>1. CASE d = c
    BY <1>3, <1>4, <1>5, <1>8, <2>1 DEF Waits
  <2>2. CASE d # c
    BY <1>3, <1>8, <2>2 DEF Waits
  <2> QED
    BY <2>1, <2>2
<1>9. CASE e.entry.state = "OnHold"
  <2>1. banner' = banner /\ ops' = ops /\ tones' = tones
    BY <1>3, <1>9 DEF BannerAfter, OpsAfter
  <2>2. banner' # NoCall => Waits(banner)'
    BY <1>6, <1>8, <1>9, <2>1 DEF Warranted
  <2>3. \A tone : Sounds(tone)' = Sounds(tone)
    BY <2>1 DEF Sounds
  <2> QED
    BY <1>8, <1>9, <2>2, <2>3 DEF Warranted
<1>10. CASE e.entry.state = "Ringing"
  <2>1. banner' \in {c, banner}
    BY <1>2, <1>3, <1>10 DEF BannerAfter
  <2>2. PICK b : b = banner'
    OBVIOUS
  <2>3. b # NoCall => b \in CallIds /\ (b = c \/ Waits(b))
    BY <1>6, <2>1, <2>2 DEF Warranted
  <2>4. b # NoCall => Waits(b)'
    BY <1>8, <1>10, <2>3
  <2>5. banner' # NoCall => Waits(banner)'
    BY <2>2, <2>4 DEF Waits
  <2>6. \A tone \in Tones : Sounds(tone)' =>
          \/ Sounds(tone)
          \/ tone = IF e.entry.dir = "Incoming" THEN "ringtone" ELSE "ringback"
    <3>1. PICK new \in Tones :
            new = IF e.entry.dir = "Incoming" THEN "ringtone" ELSE "ringback"
      BY <1>6
    <3>2. ops' = ops \/ ops' = Append(ops, new)
      BY <1>3, <1>10, <3>1 DEF OpsAfter
    <3>3. ASSUME ops' = ops PROVE \A tone \in Tones : Sounds(tone)' => Sounds(tone)
      BY <1>3, <3>3 DEF Sounds
    <3>4. ASSUME ops' = Append(ops, new)
          PROVE  \A tone \in Tones : Sounds(tone)' => Sounds(tone) \/ tone = new
      BY <1>3, <3>4, SoundsAfter
    <3>5. \A tone \in Tones : Sounds(tone)' => Sounds(tone) \/ tone = new
      BY <3>2, <3>3, <3>4
    <3> QED
      BY <3>1, <3>5
  <2>7. Sounds("ringtone")' => \E d \in CallIds : Waits(d)' /\ ui'[d].call.dir = "Incoming"
    BY <1>6, <1>8, <1>10, <2>6 DEF Warranted
  <2>8. Sounds("ringback")' => \E d \in CallIds : Waits(d)' /\ ui'[d].call.dir = "Outgoing"
    BY <1>4, <1>6, <1>8, <1>10, <2>6 DEF Warranted
  <2> QED
    BY <2>5, <2>7, <2>8 DEF Warranted
<1> QED
  BY <1>4, <1>7, <1>9, <1>10

LEMMA WarrantedStep ==
  ASSUME DartTypes, Directed, Warranted, UiKind
  PROVE  Warranted'
<1>1. CASE RunAudio
  <2>1. UNCHANGED <<ui, banner>>
    BY <1>1 DEF RunAudio
  <2>2. "ringtone" \in Tones /\ "ringback" \in Tones
    BY DEF Tones
  <2>3. \A c : Waits(c)' = Waits(c)
    BY <2>1 DEF Waits
  <2>4. banner' # NoCall => Waits(banner)'
    BY <2>1 DEF Warranted, Waits
  <2> QED
    BY <1>1, <2>1, <2>2, <2>3, <2>4, SoundsRun DEF Warranted
<1>2. CASE UNCHANGED <<ui, tones, ops>> /\ banner' \in {banner, NoCall}
  BY <1>2 DEF Warranted, Waits, Sounds
<1> QED
  BY <1>1, <1>2, WarrantedHandled DEF UiKind, DispatchKind, PickKind, uiVars, dart

\* Once the queue is handled no banner and no tone is left on but for a call
\* that still waits, whatever order calls ring, are answered and end in and
\* however long the chain of audio operations grows (IncomingCallNotifier,
\* AudioService).
THEOREM FeedbackCorrect ==
  ASSUME StaleIds
  PROVE  UiSpec => []FeedbackEnds
<1>1. UiInit => Directed /\ Warranted
  <2> SUFFICES ASSUME UiInit PROVE Directed /\ Warranted
    OBVIOUS
  <2>1. Hidden.shown = FALSE
    BY DEF Hidden
  <2>2. /\ evq = <<>> /\ ops = <<>> /\ tones = {} /\ banner = NoCall
        /\ \A c \in CallIds : ~ui[c].shown
    BY <2>1 DEF UiInit
  <2> QED
    BY <2>2 DEF Directed, Warranted, Sounds
<1>2. EngineInv /\ DartTypes /\ PickKnown /\ Directed /\ Warranted /\ [UiNext]_uiVars
        => Directed' /\ Warranted'
  BY UiBase, DirectedStep, WarrantedStep DEF EngineInv
<1>3. DartTypes /\ UiFollowsEngine /\ Warranted => FeedbackEnds
  <2> DEFINE waiting == {c \in Known : calls[c].state \in {"Ringing", "OnHold"}}
  <2> SUFFICES ASSUME DartTypes, UiFollowsEngine, Warranted, evq = <<>>
      PROVE  /\ banner # NoCall => banner \in waiting
             /\ ops = <<>> /\ "ringtone" \in tones
                  => \E c \in waiting : calls[c].dir = "Incoming"
             /\ ops = <<>> /\ "ringback" \in tones
                  => \E c \in waiting : calls[c].dir = "Outgoing"
    BY DEF FeedbackEnds
  <2>1. ASSUME NEW c \in CallIds, Waits(c)
        PROVE  c \in waiting /\ calls[c].dir = ui[c].call.dir
    <3>1. Of(c) = {}
      BY DEF Of
    <3>2. ui[c].call = Shown(calls[c])
      BY <2>1, <3>1 DEF UiFollowsEngine, Waits
    <3>3. calls[c].state = ui[c].call.state /\ calls[c].dir = ui[c].call.dir
      BY <3>2 DEF Shown
    <3> QED
      BY <2>1, <3>3 DEF Waits, Known
  <2>2. \A tone : ops = <<>> /\ tone \in tones => Sounds(tone)
    BY DEF Sounds
  <2> HIDE DEF waiting
  <2> QED
    BY <2>1, <2>2 DEF Warranted, DartTypes
<1> QED
  BY <1>1, <1>2, <1>3, UiInvariant, InterfaceFollows, PTL DEF UiSpec

=============================================================================
