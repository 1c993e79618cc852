----------------------- MODULE EngineCallsLiveProofs -----------------------
(***************************************************************************)
(* The tables against the sessions of pjsua: what the engine shows has a   *)
(* live session (ShownIsLive), a callback misses its call only while the   *)
(* call is being entered (OnlyTheWindowLoses), and a call that is set up   *)
(* is not shown as ringing (TableFollowsSession).                          *)
(*                                                                         *)
(* Every step is one of a few kinds (StepKind), as far as the tables can   *)
(* tell; each invariant is then proved kind by kind.                       *)
(***************************************************************************)
EXTENDS EngineCallsProofs

\* Both sides have agreed on the call.
Up == {"Accepted", "Connecting", "Confirmed"}

\* The steps of a thread that the tables wait for.
Handing == Starting \cup {"report"}

Reporting(p) == \E t \in Threads : cmd[t].op = "report" /\ cmd[t].slot = p

\* Callbacks of the session on slot p are still to come.
Heard(p) == Live(sess[p]) \/ Reporting(p)

\* A re-INVITE is in progress only in a confirmed session, the microphone
\* goes only to active media, a media callback is under way only in a live
\* session that has negotiated media or is set up, and a free slot belongs to
\* no call.
Sound(s) ==
  /\ s.pend # "none" => s.inv = "Confirmed"
  /\ s.mic => Live(s) /\ s.active
  /\ s.cb => Live(s) /\ (s.sdp \/ s.inv \in Up)
  /\ s.inv = "Null" => s.own = NoCall

AllSound == \A p \in Slots : Sound(sess[p])

\* pjsua_call_hangup reports on its own session, under the dialog lock.
ReportsAlone ==
  \A t \in Threads :
    cmd[t].op = "report" =>
      /\ cmd[t].slot \in Slots
      /\ sess[cmd[t].slot].inv = "Closing"
      /\ \A u \in Threads :
           cmd[u].op = "report" /\ cmd[u].slot = cmd[t].slot => t = u

-----------------------------------------------------------------------------
(* The kinds of steps *)

\* The session on slot p is that of the same call and as far as it was, or
\* was agreed on and is.
Kept(p) ==
  /\ sess'[p].own = sess[p].own
  /\ sess'[p].inv = sess[p].inv \/ {sess[p].inv, sess'[p].inv} \subseteq Up

\* No thread gets to a step of Handing, or leaves one.
CmdQuiet ==
  \A t \in Threads :
    cmd[t].op \in Handing \/ cmd'[t].op \in Handing => cmd'[t] = cmd[t]

\* A command that begins, or that changes media and the wishes of the user.
QuietStep ==
  /\ \A p \in Slots : Kept(p)
  /\ CmdQuiet
  /\ UNCHANGED <<pjMap, ended, lost, nextId>>
  /\ \A c \in CallIds :
       \/ calls'[c].state = calls[c].state
       \/ calls[c].state # "Absent" /\ calls'[c].state \in {"InCall", "OnHold"}

\* A callback of a session that goes on.
CallbackStep(p) ==
  LET c == pjMap[p]
      own == sess[p].own
  IN
  /\ \A q \in Slots \ {p} : Kept(q)
  /\ Live(sess[p]) /\ Live(sess'[p]) /\ sess'[p].own = own
  /\ CmdQuiet
  /\ UNCHANGED <<pjMap, ended, nextId>>
  /\ \A d \in CallIds \ {c} : calls'[d] = calls[d]
  /\ c # NoCall => calls'[c].state \in {"Ringing", "InCall", "OnHold"}
  /\ c # NoCall /\ sess'[p].inv \in Up => calls'[c].state # "Ringing"
  /\ lost' = lost \/ (own \notin {NoCall, c} /\ lost' = lost \cup {own})
  /\ own \notin {NoCall, c} /\ sess'[p].inv \in Up /\ sess[p].inv \notin Up
       => own \in lost'

\* DISCONNECTED: the session is over, or has been hung up and reports that,
\* or an INVITE is turned down on a free slot.
EndStep(p) ==
  LET c == pjMap[p]
      own == sess[p].own
  IN
  /\ \A q \in Slots \ {p} : Kept(q)
  /\ \/ /\ Live(sess[p]) /\ ~Reporting(p)
        /\ sess'[p] = FreeSlot
        /\ UNCHANGED cmd
     \/ \E t \in Threads :
          /\ cmd[t].op = "report" /\ cmd[t].slot = p
          /\ cmd' = [cmd EXCEPT ![t] = Idle]
          /\ Kept(p)
     \/ /\ Allocatable(p)
        /\ sess'[p].inv = "Closing" /\ sess'[p].own = NoCall
        /\ UNCHANGED cmd
  /\ UNCHANGED nextId
  /\ pjMap' = [pjMap EXCEPT ![p] = NoCall]
  /\ \A d \in CallIds \ {c} : calls'[d] = calls[d]
  /\ c # NoCall => calls'[c].state = "Ended" /\ ended' = ended \cup {c}
  /\ c = NoCall => ended' = ended
  /\ lost' = IF own \notin {NoCall, c} THEN lost \cup {own} ELSE lost

HangupStep(t, p) ==
  /\ \A q \in Slots \ {p} : Kept(q)
  /\ Live(sess[p]) /\ sess'[p].inv = "Closing" /\ sess'[p].own = sess[p].own
  /\ cmd[t].op = "hangup" /\ cmd[t].slot = p
  /\ cmd' = [cmd EXCEPT ![t].op = "report"]
  /\ UNCHANGED <<calls, pjMap, ended, lost, nextId>>

\* A slot comes back to pjsua.
FreeStep(p) ==
  /\ \A q \in Slots \ {p} : Kept(q)
  /\ sess[p].inv = "Closing" /\ ~Reporting(p)
  /\ sess'[p] = FreeSlot
  /\ UNCHANGED <<calls, pjMap, ended, lost, nextId, cmd>>

\* pd_call_make has returned; CALLING may have reached an older call.
MadeStep(t, p) ==
  /\ Allocatable(p)
  /\ \A q \in Slots \ {p} : Kept(q)
  /\ sess'[p].inv = "Calling" /\ sess'[p].own = nextId
  /\ cmd[t].op \notin Handing
  /\ nextId \in CallIds /\ nextId' = nextId + 1
  /\ cmd' = [cmd EXCEPT ![t] = Doing("made", nextId, p)]
  /\ UNCHANGED <<pjMap, ended, lost>>
  /\ \A d \in CallIds \ {pjMap[p]} : calls'[d] = calls[d]
  /\ pjMap[p] # NoCall => calls'[pjMap[p]].state = "Ringing"

\* pd_call_make has failed: the id it was to have is lost.
LostId ==
  /\ nextId \in CallIds /\ nextId' = nextId + 1
  /\ UNCHANGED <<calls, pjMap, ended, lost, sess, cmd>>

StepKind ==
  \/ QuietStep
  \/ LostId
  \/ \E p \in Slots :
       \/ CallbackStep(p)
       \/ EndStep(p)
       \/ FreeStep(p)
       \/ IncomingUnknownAccount(p)
       \/ IncomingCall(p)
       \/ \E t \in Threads : HangupStep(t, p) \/ MadeStep(t, p)
  \/ \E t \in Threads : CallsInsert(t) \/ MapInsert(t)

-----------------------------------------------------------------------------
(* What the helpers do to a session *)

LEMMA NewSessionSound ==
  ASSUME NEW inv, NEW dir, NEW c, inv = "Null" => c = NoCall
  PROVE  /\ Sound(NewSession(inv, dir, c))
         /\ NewSession(inv, dir, c).inv = inv
         /\ NewSession(inv, dir, c).own = c
  BY DEF Sound, Up, NewSession

LEMMA ReinvitedSound ==
  ASSUME NEW s \in Session, Sound(s), NEW kind
  PROVE  /\ Sound(Reinvited(s, kind))
         /\ Reinvited(s, kind).inv = s.inv
         /\ Reinvited(s, kind).own = s.own
  BY DEF Reinvited, Sound, Up, Session, Live

LEMMA BridgedSound ==
  ASSUME NEW s \in Session, NEW active \in BOOLEAN, Live(s),
         s.pend # "none" => s.inv = "Confirmed", s.sdp \/ s.inv \in Up
  PROVE  /\ Sound(Bridged(s, active))
         /\ Bridged(s, active).inv = s.inv
         /\ Bridged(s, active).own = s.own
  BY DEF Bridged, Session, Sound, Up, Live

LEMMA AfterMediaSound ==
  ASSUME NEW s \in Session, NEW c, Sound(s), Live(s)
  PROVE  /\ Sound(AfterMedia(s, c))
         /\ AfterMedia(s, c).inv = s.inv
         /\ AfterMedia(s, c).own = s.own
<1> DEFINE mic == s.mic /\ ~(c # NoCall /\ calls[c].muted)
           again == [s EXCEPT !.cb = FALSE, !.mic = mic]
           reheld == IF s.active /\ c # NoCall /\ calls[c].on_hold
                     THEN Reinvited(again, "hold") ELSE again
           pend == IF s.pend \in {"hold", "unhold"} THEN "none" ELSE reheld.pend
<1>1. mic \in BOOLEAN /\ (mic => s.mic)
  OBVIOUS
<1>2. AfterMedia(s, c) = [reheld EXCEPT !.pend = pend]
  BY DEF AfterMedia
<1> HIDE DEF mic
<1>3. again \in Session /\ Sound(again) /\ again.inv = s.inv /\ again.own = s.own
  BY <1>1 DEF Session, Sound, Up, Live
<1> HIDE DEF again
<1>4. reheld \in Session /\ Sound(reheld) /\ reheld.inv = s.inv /\ reheld.own = s.own
  BY <1>3, ReinvitedSound, ReinvitedType
<1>5. pend = "none" \/ pend = reheld.pend
  OBVIOUS
<1> HIDE DEF reheld, pend
<1>6. /\ Sound([reheld EXCEPT !.pend = pend])
      /\ [reheld EXCEPT !.pend = pend].inv = s.inv
      /\ [reheld EXCEPT !.pend = pend].own = s.own
  BY <1>4, <1>5 DEF Session, Sound, Up, Live
<1> QED
  BY <1>2, <1>6

\* A step that changes one session.
LEMMA OneSessionSound ==
  ASSUME IInv, AllSound, NEW p \in Slots, NEW s, Sound(s), sess' = [sess EXCEPT ![p] = s]
  PROVE  /\ AllSound'
         /\ sess'[p] = s
         /\ \A q \in Slots \ {p} : Kept(q)
<1>1. sess \in [Slots -> Session]
  BY DEF IInv, TypeOK
<1> QED
  BY <1>1 DEF AllSound, Sound, Up, Kept, Live

\* A state callback of a session that goes on.
LEMMA StateCallback ==
  ASSUME IInv, AllSound, NEW p \in Slots, NEW s, sess' = [sess EXCEPT ![p] = s],
         Sound(s), Live(sess[p]), Live(s), s.own = sess[p].own,
         NEW new \in {"Ringing", "InCall"}, s.inv \in Up => new = "InCall",
         OnCallState(p, sess[p].own, new), CmdQuiet, UNCHANGED nextId
  PROVE  CallbackStep(p) /\ AllSound'
<1> DEFINE c == pjMap[p]
           own == sess[p].own
<1>1. AllSound' /\ sess'[p] = s /\ \A q \in Slots \ {p} : Kept(q)
  BY OneSessionSound
<1>2. c \in CallIds \cup {NoCall} /\ calls \in [CallIds -> Call]
  BY DEF IInv, TypeOK
<1>3. UNCHANGED <<pjMap, ended>>
  BY DEF OnCallState, Unrouted
<1>4. /\ \A d \in CallIds \ {c} : calls'[d] = calls[d]
      /\ c # NoCall => calls'[c].state = new
  <2>1. CASE c = NoCall
    BY <2>1 DEF OnCallState
  <2>2. CASE c # NoCall
    <3>1. calls' = [calls EXCEPT ![c] = Reported(calls[c], new)]
      BY <2>2 DEF OnCallState
    <3>2. calls[c] \in Call /\ c \in CallIds
      BY <1>2, <2>2
    <3>3. Reported(calls[c], new).state = new
      BY <3>2, ReportedType DEF CallState
    <3> HIDE DEF c
    <3> QED
      BY <1>2, <3>1, <3>2, <3>3
  <2> QED
    BY <2>1, <2>2
<1>5. lost' = IF own \notin {NoCall, c} /\ new # "Ringing" THEN lost \cup {own} ELSE lost
  BY DEF OnCallState
<1> QED
  BY <1>1, <1>3, <1>4, <1>5 DEF CallbackStep

\* A media callback of a session that goes on.
LEMMA MediaCallback ==
  ASSUME IInv, AllSound, NEW p \in Slots, NEW s, sess' = [sess EXCEPT ![p] = s],
         Sound(s), Live(sess[p]), Live(s), s.own = sess[p].own,
         NEW active \in BOOLEAN,
         OnCallMedia(p, sess[p].own, active), CmdQuiet, UNCHANGED nextId
  PROVE  CallbackStep(p) /\ AllSound'
<1> DEFINE c == pjMap[p]
           own == sess[p].own
<1>1. AllSound' /\ sess'[p] = s /\ \A q \in Slots \ {p} : Kept(q)
  BY OneSessionSound
<1>2. c \in CallIds \cup {NoCall} /\ calls \in [CallIds -> Call]
  BY DEF IInv, TypeOK
<1>3. UNCHANGED <<pjMap, ended>>
  BY DEF OnCallMedia
<1>4. /\ \A d \in CallIds \ {c} : calls'[d] = calls[d]
      /\ c # NoCall => calls'[c].state \in {"InCall", "OnHold"}
  <2>1. CASE c = NoCall
    BY <2>1 DEF OnCallMedia
  <2>2. CASE c # NoCall
    <3>1. calls' = [calls EXCEPT ![c] = MediaReported(calls[c], active)]
      BY <2>2 DEF OnCallMedia
    <3>2. calls[c] \in Call /\ c \in CallIds
      BY <1>2, <2>2
    <3>3. MediaReported(calls[c], active).state \in {"InCall", "OnHold"}
      BY <3>2, MediaReportedType
    <3> HIDE DEF c
    <3> QED
      BY <1>2, <3>1, <3>2, <3>3
  <2> QED
    BY <2>1, <2>2
<1>5. lost' = IF own \notin {NoCall, c} THEN lost \cup {own} ELSE lost
  BY DEF OnCallMedia
<1> QED
  BY <1>1, <1>3, <1>4, <1>5 DEF CallbackStep

\* DISCONNECTED for slot p: what it does to the tables.
LEMMA EndCallback ==
  ASSUME IInv, NEW p \in Slots, NEW own, OnCallState(p, own, "Ended")
  PROVE  LET c == pjMap[p] IN
         /\ pjMap' = [pjMap EXCEPT ![p] = NoCall]
         /\ \A d \in CallIds \ {c} : calls'[d] = calls[d]
         /\ c # NoCall => calls'[c].state = "Ended" /\ ended' = ended \cup {c}
         /\ c = NoCall => ended' = ended
         /\ lost' = IF own \notin {NoCall, c} THEN lost \cup {own} ELSE lost
<1> DEFINE c == pjMap[p]
<1>1. c \in CallIds \cup {NoCall} /\ calls \in [CallIds -> Call]
  BY DEF IInv, TypeOK
<1>2. /\ \A d \in CallIds \ {c} : calls'[d] = calls[d]
      /\ c # NoCall => calls'[c].state = "Ended"
  <2>1. CASE c = NoCall
    BY <2>1 DEF OnCallState
  <2>2. CASE c # NoCall
    <3>1. calls' = [calls EXCEPT ![c] = Reported(calls[c], "Ended")]
      BY <2>2 DEF OnCallState
    <3>2. calls[c] \in Call /\ c \in CallIds
      BY <1>1, <2>2
    <3>3. Reported(calls[c], "Ended").state = "Ended"
      BY <3>2, ReportedType DEF CallState
    <3> HIDE DEF c
    <3> QED
      BY <1>1, <3>1, <3>2, <3>3
  <2> QED
    BY <2>1, <2>2
<1> QED
  BY <1>2 DEF OnCallState, Unrouted

\* CALLING for a session that has just been made for nextId: an older call of
\* the slot may hear it, nobody loses anything.
LEMMA CallingCallback ==
  ASSUME IInv, NEW p \in Slots, NEW own, OnCallState(p, own, "Ringing")
  PROVE  /\ UNCHANGED <<pjMap, ended, lost>>
         /\ \A d \in CallIds \ {pjMap[p]} : calls'[d] = calls[d]
         /\ pjMap[p] # NoCall => calls'[pjMap[p]].state = "Ringing"
<1> DEFINE c == pjMap[p]
<1>1. c \in CallIds \cup {NoCall} /\ calls \in [CallIds -> Call]
  BY DEF IInv, TypeOK
<1>2. CASE c = NoCall
  BY <1>2 DEF OnCallState, Unrouted
<1>3. CASE c # NoCall
  <2>1. calls' = [calls EXCEPT ![c] = Reported(calls[c], "Ringing")]
    BY <1>3 DEF OnCallState
  <2>2. calls[c] \in Call /\ c \in CallIds
    BY <1>1, <1>3
  <2>3. Reported(calls[c], "Ringing").state = "Ringing"
    BY <2>2, ReportedType DEF CallState
  <2>4. UNCHANGED <<pjMap, ended, lost>>
    BY DEF OnCallState, Unrouted
  <2> HIDE DEF c
  <2>5. /\ \A d \in CallIds \ {c} : calls'[d] = calls[d]
        /\ c # NoCall => calls'[c].state = "Ringing"
    BY <1>1, <2>1, <2>2, <2>3
  <2> QED
    BY <2>4, <2>5 DEF c
<1> QED
  BY <1>2, <1>3

\* A thread that begins or ends a command, or goes on to answer.
LEMMA QuietCmd ==
  ASSUME IInv, NEW t \in Threads, NEW k, cmd' = [cmd EXCEPT ![t] = k],
         cmd[t].op \notin Handing, k.op \notin Handing
  PROVE  CmdQuiet
  BY DEF IInv, TypeOK, CmdQuiet

-----------------------------------------------------------------------------
(* Every step is of one of the kinds, and leaves the sessions sound. *)

\* A call on its way out on slot p, after a hold of another slot or none.
LEMMA MadeKind ==
  ASSUME IInv, NEW t \in Threads, NEW p \in Slots, Allocatable(p),
         NEW holding, DOMAIN holding = Slots,
         \A q \in Slots : Sound(holding[q]) /\ holding[q].inv = sess[q].inv
                          /\ holding[q].own = sess[q].own,
         sess' = [holding EXCEPT ![p] = NewSession("Calling", "Outgoing", nextId)],
         cmd[t].op \notin Handing,
         OnCallState(p, nextId, "Ringing"),
         nextId \in CallIds, nextId' = nextId + 1,
         cmd' = [cmd EXCEPT ![t] = Doing("made", nextId, p)]
  PROVE  MadeStep(t, p) /\ AllSound'
<1> DEFINE s == NewSession("Calling", "Outgoing", nextId)
<1>1. Sound(s) /\ s.inv = "Calling" /\ s.own = nextId
  BY NewSessionSound
<1>2. sess' = [holding EXCEPT ![p] = s]
  OBVIOUS
<1> HIDE DEF s
<1>3. sess'[p] = s /\ \A q \in Slots \ {p} : sess'[q] = holding[q]
  BY <1>2
<1>4. AllSound'
  BY <1>1, <1>3 DEF AllSound, Sound, Up, Live
<1>5. \A q \in Slots \ {p} : Kept(q)
  BY <1>3 DEF Kept
<1>6. /\ UNCHANGED <<pjMap, ended, lost>>
      /\ \A d \in CallIds \ {pjMap[p]} : calls'[d] = calls[d]
      /\ pjMap[p] # NoCall => calls'[pjMap[p]].state = "Ringing"
  BY CallingCallback
<1> QED
  BY <1>1, <1>3, <1>4, <1>5, <1>6 DEF MadeStep

LEMMA ThreadStepKind ==
  ASSUME IInv, AllSound, AnswersAlone, NEW t \in Threads, ThreadStep(t)
  PROVE  StepKind /\ AllSound'
<1> DEFINE p == cmd[t].slot
<1>1. /\ cmd[t] \in Command /\ sess \in [Slots -> Session]
      /\ cmd \in [Threads -> Command]
      /\ cmd[t].op # "idle" => p \in Slots /\ sess[p] \in Session /\ Sound(sess[p])
  BY DEF IInv, TypeOK, HoldsSlot, AllSound
<1>2. cmd[t].op \notin Handing /\ (Finish(t) \/ PjFails(t) \/ Continue(t, "answering"))
        => CmdQuiet
  <2>1. Idle.op \notin Handing
    BY DEF Idle, Doing, Handing, Starting
  <2>2. ASSUME NEW op \in {"failed", "answering"}, Continue(t, op), cmd[t].op \notin Handing
        PROVE  CmdQuiet
    <3> DEFINE k == [cmd[t] EXCEPT !.op = op]
    <3>1. k.op \notin Handing /\ cmd' = [cmd EXCEPT ![t] = k]
      BY <1>1, <2>2 DEF Continue, Command, Handing, Starting
    <3> HIDE DEF k
    <3> QED
      BY <2>2, <3>1, QuietCmd
  <2> QED
    BY <2>1, <2>2, QuietCmd DEF Finish, PjFails
\* A thread that goes on and changes only the media of its session.
<1>3. ASSUME NEW s, p \in Slots, sess' = [sess EXCEPT ![p] = s], Sound(s),
             s.inv = sess[p].inv, s.own = sess[p].own,
             CmdQuiet, UNCHANGED <<table, nextId>>
      PROVE  StepKind /\ AllSound'
  <2>1. AllSound' /\ \A q \in Slots : Kept(q)
    <3>1. AllSound' /\ sess'[p] = s /\ \A q \in Slots \ {p} : Kept(q)
      BY <1>3, OneSessionSound
    <3>2. Kept(p)
      BY <1>3, <3>1 DEF Kept
    <3> QED
      BY <3>1, <3>2
  <2>2. QuietStep
    BY <1>3, <2>1 DEF QuietStep, table
  <2> QED
    BY <2>1, <2>2 DEF StepKind
<1>4. ASSUME UNCHANGED sess, CmdQuiet, UNCHANGED <<table, nextId>>
      PROVE  StepKind /\ AllSound'
  BY <1>4 DEF StepKind, QuietStep, Kept, table, AllSound, Sound, Up, Live
<1>5. CASE CallsInsert(t) \/ MapInsert(t)
  BY <1>5 DEF CallsInsert, MapInsert, StepKind, AllSound, Sound, Up, Live
<1>6. CASE PjAnswer(t)
  <2>1. p \in Slots /\ cmd[t].op = "answer" /\ UNCHANGED nextId
        /\ cmd[t].op \notin Handing /\ sess[p].own \in CallIds \cup {NoCall}
    BY <1>1, <1>6 DEF PjAnswer, Handing, Starting, Session
  <2>2. CASE (Finish(t) \/ PjFails(t)) /\ UNCHANGED <<table, sess>>
    BY <1>2, <1>4, <2>1, <2>2
  <2>3. CASE /\ sess[p].inv = "Incoming"
             /\ sess' = IF sess[p].sdp THEN sess
                        ELSE [sess EXCEPT ![p] = Bridged([sess[p] EXCEPT !.sdp = TRUE], TRUE)]
             /\ Continue(t, "answering")
             /\ UNCHANGED table
    <3>1. CmdQuiet
      BY <1>2, <2>1, <2>3
    <3>2. CASE sess' = sess
      BY <1>4, <2>1, <2>3, <3>1, <3>2
    <3>3. CASE sess' = [sess EXCEPT ![p] = Bridged([sess[p] EXCEPT !.sdp = TRUE], TRUE)]
      <4> DEFINE r == [sess[p] EXCEPT !.sdp = TRUE]
                 s == Bridged(r, TRUE)
      <4>1. /\ r \in Session /\ Live(r) /\ r.sdp /\ r.inv = sess[p].inv /\ r.own = sess[p].own
            /\ r.pend # "none" => r.inv = "Confirmed"
        BY <1>1, <2>1, <2>3 DEF Session, Live, Sound, Up
      <4>2. sess' = [sess EXCEPT ![p] = s]
        BY <3>3
      <4> HIDE DEF r
      <4>3. Sound(s) /\ s.inv = sess[p].inv /\ s.own = sess[p].own
        BY <4>1, BridgedSound
      <4> HIDE DEF s
      <4> QED
        BY <1>3, <2>1, <2>3, <3>1, <4>2, <4>3
    <3> QED
      BY <2>3, <3>2, <3>3
  <2>4. CASE /\ sess[p].inv = "Incoming"
             /\ sess' = [sess EXCEPT ![p].inv = "Connecting"]
             /\ OnCallState(p, sess[p].own, "InCall")
             /\ Finish(t)
    <3> DEFINE s == [sess[p] EXCEPT !.inv = "Connecting"]
    <3>1. sess' = [sess EXCEPT ![p] = s] /\ s.own = sess[p].own
          /\ Sound(s) /\ Live(s) /\ Live(sess[p])
      BY <1>1, <2>1, <2>4 DEF Session, Sound, Up, Live
    <3>2. CmdQuiet
      BY <1>2, <2>1, <2>4
    <3> HIDE DEF s, p
    <3>3. CallbackStep(p) /\ AllSound'
      BY <2>1, <2>4, <3>1, <3>2, StateCallback
    <3> QED
      BY <2>1, <3>3 DEF StepKind
  <2> QED
    BY <1>6, <2>2, <2>3, <2>4 DEF PjAnswer
<1>7. CASE AnswerSent(t)
  <2>1. /\ p \in Slots /\ cmd[t].op \notin Handing /\ sess[p].inv = "Incoming"
        /\ sess[p] \in Session /\ Sound(sess[p])
    BY <1>1, <1>7 DEF AnswerSent, AnswersAlone, Answering, Handing, Starting, Session
  <2>2. UNCHANGED nextId
    BY <1>7 DEF AnswerSent
  <2>3. CASE PjFails(t) /\ UNCHANGED <<table, sess>>
    BY <1>2, <1>4, <2>1, <2>2, <2>3
  <2>4. CASE /\ sess' = [sess EXCEPT ![p].inv = "Connecting"]
             /\ OnCallState(p, sess[p].own, "InCall")
             /\ Finish(t)
    <3> DEFINE s == [sess[p] EXCEPT !.inv = "Connecting"]
    <3>1. sess' = [sess EXCEPT ![p] = s] /\ s.own = sess[p].own
          /\ Sound(s) /\ Live(s) /\ Live(sess[p])
      BY <1>1, <2>1, <2>4 DEF Session, Sound, Up, Live
    <3>2. CmdQuiet
      BY <1>2, <2>1, <2>4
    <3> HIDE DEF s, p
    <3>3. CallbackStep(p) /\ AllSound'
      BY <2>1, <2>2, <2>4, <3>1, <3>2, StateCallback
    <3> QED
      BY <2>1, <3>3 DEF StepKind
  <2> QED
    BY <1>7, <2>3, <2>4 DEF AnswerSent
<1>8. CASE PjHangup(t)
  <2>1. p \in Slots /\ cmd[t].op = "hangup" /\ UNCHANGED <<table, nextId>>
        /\ cmd[t].op \notin Handing
    BY <1>1, <1>8 DEF PjHangup, Handing, Starting
  <2>2. CASE (Finish(t) \/ PjFails(t)) /\ UNCHANGED sess
    BY <1>2, <1>4, <2>1, <2>2
  <2>3. CASE /\ Live(sess[p])
             /\ sess' = [sess EXCEPT ![p] = NewSession("Closing", sess[p].dir, sess[p].own)]
             /\ Continue(t, "report")
    <3> DEFINE s == NewSession("Closing", sess[p].dir, sess[p].own)
    <3>1. Sound(s) /\ s.inv = "Closing" /\ s.own = sess[p].own
      BY NewSessionSound
    <3>2. sess' = [sess EXCEPT ![p] = s]
      BY <2>3
    <3> HIDE DEF s
    <3>3. AllSound' /\ sess'[p] = s /\ \A q \in Slots \ {p} : Kept(q)
      BY <2>1, <3>1, <3>2, OneSessionSound
    <3>4. HangupStep(t, p)
      BY <2>1, <2>3, <3>1, <3>3 DEF HangupStep, Continue, table
    <3> QED
      BY <2>1, <3>3, <3>4 DEF StepKind
  <2> QED
    BY <1>8, <2>2, <2>3 DEF PjHangup
<1>9. CASE HangupReported(t)
  <2>1. p \in Slots /\ cmd[t].op = "report" /\ UNCHANGED <<sess, nextId>>
        /\ cmd' = [cmd EXCEPT ![t] = Idle]
        /\ OnCallState(p, sess[p].own, "Ended")
    BY <1>1, <1>9 DEF HangupReported, Finish
  <2>2. AllSound' /\ \A q \in Slots : Kept(q)
    BY <2>1 DEF AllSound, Sound, Up, Live, Kept
  <2>3. EndStep(p)
    BY <2>1, <2>2, EndCallback DEF EndStep
  <2> QED
    BY <2>1, <2>2, <2>3 DEF StepKind
<1>10. CASE PjHold(t)
  <2> DEFINE s == Reinvited(sess[p], cmd[t].op)
  <2>1. /\ UNCHANGED sess \/ sess' = [sess EXCEPT ![p] = s]
        /\ Finish(t) /\ UNCHANGED <<table, nextId>> /\ cmd[t].op \notin Handing
    BY <1>1, <1>10 DEF PjHold, Handing, Starting
  <2>2. Sound(s) /\ s.inv = sess[p].inv /\ s.own = sess[p].own
    BY <1>1, <1>10, ReinvitedSound DEF PjHold
  <2>3. CmdQuiet
    BY <1>2, <2>1
  <2> HIDE DEF s
  <2>4. p \in Slots
    BY <1>1, <1>10 DEF PjHold
  <2> QED
    BY <1>3, <1>4, <2>1, <2>2, <2>3, <2>4
<1>11. CASE PjMute(t)
  <2>1. /\ p \in Slots /\ sess[p] \in Session /\ Sound(sess[p])
        /\ Finish(t) /\ UNCHANGED <<table, nextId>> /\ cmd[t].op \notin Handing
    BY <1>1, <1>11 DEF PjMute, Handing, Starting
  <2> DEFINE mic == IF MediaActive(sess[p]) THEN cmd[t].op = "unmute" ELSE sess[p].mic
             s == [sess[p] EXCEPT !.mic = mic]
  <2>2. mic => MediaActive(sess[p])
    BY <2>1 DEF Sound, Up, MediaActive
  <2>3. sess' = [sess EXCEPT ![p] = s]
    BY <1>11 DEF PjMute
  <2> HIDE DEF mic
  <2>4. Sound(s) /\ s.inv = sess[p].inv /\ s.own = sess[p].own
    BY <2>1, <2>2 DEF Session, Sound, Up, MediaActive, Live
  <2>5. CmdQuiet
    BY <1>2, <2>1
  <2> HIDE DEF s
  <2> QED
    BY <1>3, <2>1, <2>3, <2>4, <2>5
<1>12. CASE PjMergeConference(t)
  <2>1. /\ Finish(t) /\ UNCHANGED <<table, nextId>> /\ cmd[t].op \notin Handing
    BY <1>12 DEF PjMergeConference, Handing, Starting
  <2>2. \A q \in Slots :
          \/ sess'[q] = sess[q]
          \/ MediaActive(sess[q]) /\ sess'[q] = [sess[q] EXCEPT !.mic = TRUE]
    BY <1>12 DEF PjMergeConference
  <2>3. ASSUME NEW q \in Slots
        PROVE  Sound(sess'[q]) /\ Kept(q)
    <3>1. sess[q] \in Session /\ Sound(sess[q])
      BY <1>1 DEF AllSound
    <3>2. CASE sess'[q] = sess[q]
      BY <3>1, <3>2 DEF Kept
    <3>3. CASE MediaActive(sess[q]) /\ sess'[q] = [sess[q] EXCEPT !.mic = TRUE]
      BY <3>1, <3>3 DEF Session, Sound, Up, MediaActive, Live, Kept
    <3> QED
      BY <2>2, <3>2, <3>3
  <2>4. CmdQuiet
    BY <1>2, <2>1
  <2> QED
    BY <2>1, <2>3, <2>4 DEF StepKind, QuietStep, table, AllSound, Sound, Up, Live
<1>13. CASE PjStartAttendedXfer(t)
  <2>1. p \in Slots /\ cmd[t].op \notin Handing /\ sess[p] \in Session /\ Sound(sess[p])
    BY <1>1, <1>13 DEF PjStartAttendedXfer, Handing, Starting
  <2>2. PICK s \in {sess[p], Reinvited(sess[p], "hold")} :
          \/ /\ sess' = [sess EXCEPT ![p] = s]
             /\ Finish(t)
             /\ UNCHANGED <<table, nextId>>
          \/ /\ nextId \in CallIds
             /\ nextId' = nextId + 1
             /\ \E q \in Slots :
                  /\ Allocatable(q)
                  /\ sess' = [sess EXCEPT ![p] = s,
                                ![q] = NewSession("Calling", "Outgoing", nextId)]
                  /\ OnCallState(q, nextId, "Ringing")
                  /\ cmd' = [cmd EXCEPT ![t] = Doing("made", nextId, q)]
    BY <1>13 DEF PjStartAttendedXfer
  <2>3. Sound(s) /\ s.inv = sess[p].inv /\ s.own = sess[p].own
    BY <2>1, ReinvitedSound
  <2>4. CASE /\ sess' = [sess EXCEPT ![p] = s]
             /\ Finish(t)
             /\ UNCHANGED <<table, nextId>>
    BY <1>2, <1>3, <2>1, <2>3, <2>4
  <2>5. ASSUME NEW q \in Slots, Allocatable(q),
               sess' = [sess EXCEPT ![p] = s,
                          ![q] = NewSession("Calling", "Outgoing", nextId)],
               OnCallState(q, nextId, "Ringing"),
               nextId \in CallIds, nextId' = nextId + 1,
               cmd' = [cmd EXCEPT ![t] = Doing("made", nextId, q)]
        PROVE  StepKind /\ AllSound'
    <3> DEFINE holding == [sess EXCEPT ![p] = s]
    <3>1. DOMAIN holding = Slots /\ holding[p] = s
          /\ \A r \in Slots \ {p} : holding[r] = sess[r]
      BY <1>1, <2>1
    <3>2. \A r \in Slots : Sound(holding[r]) /\ holding[r].inv = sess[r].inv
                           /\ holding[r].own = sess[r].own
      BY <2>3, <3>1 DEF AllSound
    <3>3. sess' = [holding EXCEPT ![q] = NewSession("Calling", "Outgoing", nextId)]
      BY <2>5
    <3> HIDE DEF holding
    <3>4. /\ Allocatable(q) /\ OnCallState(q, nextId, "Ringing")
          /\ nextId \in CallIds /\ nextId' = nextId + 1
          /\ cmd' = [cmd EXCEPT ![t] = Doing("made", nextId, q)]
      BY <2>5
    <3>5. MadeStep(t, q) /\ AllSound'
      BY <2>1, <3>1, <3>2, <3>3, <3>4, MadeKind
    <3> QED
      BY <3>5 DEF StepKind
  <2> QED
    BY <2>2, <2>4, <2>5
<1>14. CASE LogFailure(t)
  BY <1>2, <1>4, <1>14 DEF LogFailure, Handing, Starting
<1> QED
  BY <1>5, <1>6, <1>7, <1>8, <1>9, <1>10, <1>11, <1>12, <1>13,
     <1>14 DEF ThreadStep

LEMMA NewCommandKind ==
  ASSUME IInv, AllSound, NEW t \in Threads, NewCommand(t)
  PROVE  StepKind /\ AllSound'
<1>1. /\ sess \in [Slots -> Session] /\ cmd \in [Threads -> Command]
      /\ calls \in [CallIds -> Call]
  BY DEF IInv, TypeOK
<1>2. UNCHANGED sess => AllSound' /\ \A p \in Slots : Kept(p)
  BY DEF AllSound, Sound, Up, Live, Kept
<1>3. cmd[t] = Idle => cmd[t].op \notin Handing
  BY DEF Idle, Doing, Handing, Starting
\* A thread that begins a command and changes no table.
<1>4. ASSUME NEW op, NEW c, NEW p, op \notin Handing, cmd[t] = Idle,
             cmd' = [cmd EXCEPT ![t] = Doing(op, c, p)],
             UNCHANGED <<sess, pjMap, ended, lost, nextId>>,
             \A d \in CallIds :
               \/ calls'[d].state = calls[d].state
               \/ calls[d].state # "Absent" /\ calls'[d].state \in {"InCall", "OnHold"}
      PROVE  StepKind /\ AllSound'
  <2>1. Doing(op, c, p).op \notin Handing
    BY <1>4 DEF Doing
  <2>2. CmdQuiet
    BY <1>3, <1>4, <2>1, QuietCmd
  <2> QED
    BY <1>2, <1>4, <2>2 DEF StepKind, QuietStep
<1>5. CASE CallStart(t)
  <2>1. cmd[t] = Idle /\ nextId \in CallIds /\ nextId' = nextId + 1
    BY <1>5 DEF CallStart, Accepts
  <2>2. CASE UNCHANGED <<table, sess, cmd>>
    BY <2>1, <2>2, <1>2 DEF StepKind, LostId, table
  <2>3. ASSUME NEW p \in Slots, Allocatable(p), CallMade(t, p)
        PROVE  StepKind /\ AllSound'
    <3>1. DOMAIN sess = Slots /\ \A q \in Slots : Sound(sess[q])
      BY <1>1 DEF AllSound
    <3>2. /\ sess' = [sess EXCEPT ![p] = NewSession("Calling", "Outgoing", nextId)]
          /\ OnCallState(p, nextId, "Ringing")
          /\ cmd' = [cmd EXCEPT ![t] = Doing("made", nextId, p)]
      BY <2>3 DEF CallMade
    <3>3. MadeStep(t, p) /\ AllSound'
      BY <1>3, <2>1, <2>3, <3>1, <3>2, MadeKind
    <3> QED
      BY <3>3 DEF StepKind
  <2> QED
    BY <1>5, <2>2, <2>3 DEF CallStart
<1>6. CASE SetGlobalDnd(t)
  <2>1. UNCHANGED <<table, nextId, sess, cmd>>
    BY <1>6 DEF SetGlobalDnd
  <2> QED
    BY <1>2, <2>1 DEF StepKind, QuietStep, CmdQuiet, table
<1>7. ASSUME NEW c \in Named, NEW b \in Named,
             \/ CallAnswer(t, c)
             \/ CallHangup(t, c)
             \/ StartAttendedXfer(t, c)
             \/ CompleteXfer(t, c, b)
      PROVE  StepKind /\ AllSound'
  <2>1. /\ cmd[t] = Idle /\ UNCHANGED <<table, sess, nextId>>
        /\ \E op \in {"answer", "hangup", "attended"}, d \in {b, c} :
             cmd' = [cmd EXCEPT ![t] = Doing(op, d, calls[d].pj)]
    BY <1>7 DEF CallAnswer, CallHangup, StartAttendedXfer, CompleteXfer, Accepts
  <2> QED
    BY <1>4, <2>1 DEF table, Handing, Starting
<1>8. ASSUME NEW c \in Named, NEW on \in BOOLEAN, CallHold(t, c, on)
      PROVE  StepKind /\ AllSound'
  <2>1. /\ cmd[t] = Idle /\ UNCHANGED <<sess, pjMap, ended, lost, nextId>>
        /\ \E op \in {"hold", "unhold"} :
             cmd' = [cmd EXCEPT ![t] = Doing(op, c, calls[c].pj)]
    BY <1>8 DEF CallHold, Accepts
  <2>2. c \in CallIds /\ calls[c].state # "Absent" /\ calls[c] \in Call
    BY <1>1 DEF Named, Known
  <2>3. calls'[c].state \in {"InCall", "OnHold"}
        /\ \A d \in CallIds \ {c} : calls'[d] = calls[d]
    BY <1>1, <1>8, <2>2 DEF CallHold, Call
  <2>4. \A d \in CallIds :
          \/ calls'[d].state = calls[d].state
          \/ calls[d].state # "Absent" /\ calls'[d].state \in {"InCall", "OnHold"}
    BY <2>2, <2>3
  <2>5. PICK op \in {"hold", "unhold"} :
          cmd' = [cmd EXCEPT ![t] = Doing(op, c, calls[c].pj)]
    BY <2>1
  <2>6. op \notin Handing
    BY <2>5 DEF Handing, Starting
  <2> QED
    BY <1>4, <2>1, <2>4, <2>5, <2>6
<1>9. ASSUME NEW c \in Named, NEW on \in BOOLEAN, CallMute(t, c, on)
      PROVE  StepKind /\ AllSound'
  <2>1. /\ cmd[t] = Idle /\ UNCHANGED <<sess, pjMap, ended, lost, nextId>>
        /\ \E op \in {"mute", "unmute"} :
             cmd' = [cmd EXCEPT ![t] = Doing(op, c, calls[c].pj)]
    BY <1>9 DEF CallMute, Accepts
  <2>2. \A d \in CallIds : calls'[d].state = calls[d].state
    BY <1>1, <1>9 DEF CallMute, Call, Named, Known
  <2> QED
    BY <1>4, <2>1, <2>2 DEF Handing, Starting
<1>10. ASSUME NEW a \in Named, NEW b \in Named, MergeConference(t, a, b)
       PROVE  StepKind /\ AllSound'
  <2> DEFINE k == [Doing("merge", a, calls[a].pj) EXCEPT !.other = calls[b].pj]
  <2>1. /\ cmd[t] = Idle /\ UNCHANGED <<table, sess, nextId>>
        /\ cmd' = [cmd EXCEPT ![t] = k] /\ k.op \notin Handing
    BY <1>10 DEF MergeConference, Accepts, Doing, Handing, Starting
  <2> HIDE DEF k
  <2>2. CmdQuiet
    BY <1>3, <2>1, QuietCmd
  <2> QED
    BY <1>2, <2>1, <2>2 DEF StepKind, QuietStep, table
<1> QED
  BY <1>5, <1>6, <1>7, <1>8, <1>9, <1>10 DEF NewCommand

LEMMA WorkerStepKind ==
  ASSUME IInv, AllSound, NEW p \in Slots, WorkerStep(p)
  PROVE  StepKind /\ AllSound'
<1> DEFINE own == sess[p].own
<1>1. /\ sess \in [Slots -> Session] /\ sess[p] \in Session /\ Sound(sess[p])
      /\ own \in CallIds \cup {NoCall}
      /\ sess[p].held \in BOOLEAN /\ sess[p].remHold \in BOOLEAN
  BY DEF IInv, TypeOK, Session, AllSound
<1>2. UNCHANGED cmd => CmdQuiet
  BY DEF CmdQuiet
\* Callbacks of a session that goes on.
<1>3. ASSUME NEW inv \in {"Early", "Accepted", "Confirmed"}, Live(sess[p]),
             sess[p].inv # "Confirmed", ~sess[p].cb,
             sess' = [sess EXCEPT ![p].inv = inv],
             OnCallState(p, own, IF inv = "Early" THEN "Ringing" ELSE "InCall"),
             UNCHANGED <<cmd, nextId>>
      PROVE  StepKind /\ AllSound'
  <2> DEFINE s == [sess[p] EXCEPT !.inv = inv]
             new == IF inv = "Early" THEN "Ringing" ELSE "InCall"
  <2>1. /\ sess' = [sess EXCEPT ![p] = s] /\ s.own = own
        /\ Sound(s) /\ Live(s) /\ s.inv = inv
    BY <1>1, <1>3 DEF Session, Sound, Up, Live
  <2>2. new \in {"Ringing", "InCall"} /\ (inv \in Up => new = "InCall")
    BY DEF Up
  <2> HIDE DEF s, new
  <2>3. OnCallState(p, own, new)
    BY <1>3 DEF new
  <2>4. CallbackStep(p) /\ AllSound'
    BY <1>2, <1>3, <2>1, <2>2, <2>3, StateCallback
  <2> QED
    BY <2>4 DEF StepKind
<1>4. ASSUME NEW s, sess' = [sess EXCEPT ![p] = s], Sound(s), Live(s), Live(sess[p]),
             s.own = own, NEW active \in BOOLEAN, OnCallMedia(p, own, active),
             UNCHANGED <<cmd, nextId>>
      PROVE  StepKind /\ AllSound'
  <2>1. CallbackStep(p) /\ AllSound'
    BY <1>2, <1>4, MediaCallback
  <2> QED
    BY <2>1 DEF StepKind
\* A step between two callbacks.
<1>5. ASSUME NEW s, sess' = [sess EXCEPT ![p] = s], Sound(s),
             s.inv = sess[p].inv \/ {sess[p].inv, s.inv} \subseteq Up, s.own = own,
             UNCHANGED <<table, cmd, nextId>>
      PROVE  StepKind /\ AllSound'
  <2>1. AllSound' /\ \A q \in Slots : Kept(q)
    <3>1. AllSound' /\ sess'[p] = s /\ \A q \in Slots \ {p} : Kept(q)
      BY <1>5, OneSessionSound
    <3>2. Kept(p)
      BY <1>5, <3>1 DEF Kept
    <3> QED
      BY <3>1, <3>2
  <2> QED
    BY <1>2, <1>5, <2>1 DEF StepKind, QuietStep, table
<1>6. CASE IncomingRejected(p)
  <2> DEFINE s == NewSession("Closing", "Incoming", NoCall)
  <2>1. /\ Allocatable(p) /\ sess' = [sess EXCEPT ![p] = s]
        /\ OnCallState(p, NoCall, "Ended") /\ UNCHANGED <<nextId, cmd>>
    BY <1>6 DEF IncomingRejected
  <2>2. Sound(s) /\ s.inv = "Closing" /\ s.own = NoCall
    BY NewSessionSound
  <2> HIDE DEF s
  <2>3. AllSound' /\ sess'[p] = s /\ \A q \in Slots \ {p} : Kept(q)
    BY <2>1, <2>2, OneSessionSound
  <2>4. own = NoCall
    BY <1>1, <2>1 DEF Allocatable, Sound, Up
  <2> HIDE DEF own
  <2>5. OnCallState(p, own, "Ended")
    BY <2>1, <2>4
  <2>6. EndStep(p)
    BY <2>1, <2>2, <2>3, <2>5, EndCallback DEF EndStep, own
  <2> QED
    BY <2>3, <2>6 DEF StepKind
<1>7. CASE IncomingUnknownAccount(p)
  <2>1. sess' = [sess EXCEPT ![p] = NewSession("Incoming", "Incoming", NoCall)]
    BY <1>7 DEF IncomingUnknownAccount
  <2>2. AllSound'
    BY <2>1, NewSessionSound, OneSessionSound
  <2> QED
    BY <1>7, <2>2 DEF StepKind
<1>8. CASE IncomingCall(p)
  <2>1. sess' = [sess EXCEPT ![p] = NewSession("Incoming", "Incoming", nextId)]
    BY <1>8 DEF IncomingCall
  <2>2. AllSound'
    BY <2>1, NewSessionSound, OneSessionSound
  <2> QED
    BY <1>8, <2>2 DEF StepKind
<1>9. CASE Early(p)
  BY <1>3, <1>9 DEF Early, Live, Locked
<1>10. CASE Accepted(p)
  BY <1>3, <1>10 DEF Accepted, Live, Locked
<1>11. CASE Confirmed(p)
  BY <1>3, <1>11 DEF Confirmed, Live, Locked
<1>12. CASE EarlyMedia(p)
  <2> DEFINE r == [sess[p] EXCEPT !.sdp = TRUE]
             s == Bridged(r, TRUE)
  <2>1. /\ r \in Session /\ Live(r) /\ r.sdp /\ r.inv = sess[p].inv
        /\ r.own = own /\ r.pend = "none"
    BY <1>1, <1>12 DEF EarlyMedia, Session, Live, Sound, Up
  <2>2. sess' = [sess EXCEPT ![p] = s] /\ UNCHANGED <<table, cmd, nextId>>
    BY <1>12 DEF EarlyMedia
  <2> HIDE DEF r
  <2>3. Sound(s) /\ s.inv = sess[p].inv /\ s.own = own
    BY <2>1, BridgedSound
  <2> HIDE DEF s
  <2> QED
    BY <1>5, <2>2, <2>3
<1>13. CASE AcceptedMedia(p)
  <2> DEFINE r == [sess[p] EXCEPT !.sdp = TRUE, !.inv = "Accepted"]
             s == Bridged(r, TRUE)
  <2>1. /\ r \in Session /\ Live(r) /\ r.sdp /\ r.inv = "Accepted"
        /\ r.own = own /\ r.pend = "none" /\ sess[p].inv \in {"Accepted", "Connecting"}
    BY <1>1, <1>13 DEF AcceptedMedia, Session, InvState, Live, Sound, Up
  <2>2. sess' = [sess EXCEPT ![p] = s] /\ UNCHANGED <<table, cmd, nextId>>
    BY <1>13 DEF AcceptedMedia
  <2> HIDE DEF r
  <2>3. Sound(s) /\ s.inv = "Accepted" /\ s.own = own
    BY <2>1, BridgedSound
  <2> HIDE DEF s
  <2> QED
    BY <1>5, <2>1, <2>2, <2>3 DEF Up
<1>14. CASE ReinviteAnswered(p)
  <2> DEFINE active == ~sess[p].held /\ ~sess[p].remHold
             s == Bridged(sess[p], active)
  <2>1. active \in BOOLEAN
    OBVIOUS
  <2>2. /\ sess' = [sess EXCEPT ![p] = s] /\ Live(sess[p])
        /\ UNCHANGED <<table, cmd, nextId>>
    BY <1>1, <1>14 DEF ReinviteAnswered, Sound, Up, Live
  <2> HIDE DEF active
  <2>3. Sound(s) /\ s.inv = sess[p].inv /\ s.own = own
    BY <1>1, <1>14, <2>1, <2>2, BridgedSound DEF ReinviteAnswered, Sound, Up
  <2> HIDE DEF s
  <2> QED
    BY <1>5, <2>2, <2>3
<1>15. CASE RemoteReinvite(p)
  <2> DEFINE remHold == ~sess[p].remHold
             r == [sess[p] EXCEPT !.remHold = remHold, !.pend = "remote"]
             active == ~r.held /\ ~r.remHold
             s == Bridged(r, active)
  <2>1. remHold \in BOOLEAN /\ active \in BOOLEAN
    OBVIOUS
  <2>2. /\ sess' = [sess EXCEPT ![p] = s] /\ sess[p].inv = "Confirmed"
        /\ UNCHANGED <<table, cmd, nextId>>
    BY <1>15 DEF RemoteReinvite
  <2> HIDE DEF remHold, active
  <2>3. r \in Session /\ r.own = own /\ r.inv = "Confirmed"
    BY <1>1, <2>1, <2>2 DEF Session
  <2> HIDE DEF r
  <2>4. Sound(s) /\ s.inv = sess[p].inv /\ s.own = own
    BY <2>1, <2>2, <2>3, BridgedSound DEF Live, Up
  <2> HIDE DEF s
  <2> QED
    BY <1>5, <2>2, <2>4
<1>16. CASE ReinviteRefused(p)
  <2> DEFINE s == [sess[p] EXCEPT !.held = (sess[p].pend = "unhold"), !.pend = "none"]
  <2>1. sess' = [sess EXCEPT ![p] = s] /\ UNCHANGED <<table, cmd, nextId>>
    BY <1>1, <1>16 DEF ReinviteRefused
  <2>2. Sound(s) /\ s.inv = sess[p].inv /\ s.own = own
    BY <1>1 DEF Session, Sound, Up, Live
  <2> HIDE DEF s
  <2> QED
    BY <1>5, <2>1, <2>2
<1>17. CASE RemoteAck(p)
  <2> DEFINE s == [sess[p] EXCEPT !.pend = "none"]
  <2>1. sess' = [sess EXCEPT ![p] = s] /\ UNCHANGED <<table, cmd, nextId>>
    BY <1>17 DEF RemoteAck
  <2>2. Sound(s) /\ s.inv = sess[p].inv /\ s.own = own
    BY <1>1 DEF Session, Sound, Up, Live
  <2> HIDE DEF s
  <2> QED
    BY <1>5, <2>1, <2>2
<1>18. CASE RemoteEnd(p)
  <2>1. /\ sess' = [sess EXCEPT ![p] = FreeSlot] /\ Live(sess[p]) /\ ~Locked(p)
        /\ OnCallState(p, own, "Ended") /\ UNCHANGED <<nextId, cmd>>
    BY <1>18 DEF RemoteEnd
  <2>2. AllSound' /\ sess'[p] = FreeSlot /\ \A q \in Slots \ {p} : Kept(q)
    BY <2>1, NewSessionSound, OneSessionSound DEF FreeSlot
  <2>3. ~Reporting(p)
    BY <2>1 DEF Locked, Reporting
  <2>4. EndStep(p)
    BY <2>1, <2>2, <2>3, EndCallback DEF EndStep
  <2> QED
    BY <2>2, <2>4 DEF StepKind
<1>19. CASE SlotFreed(p)
  <2>1. /\ sess' = [sess EXCEPT ![p] = FreeSlot] /\ sess[p].inv = "Closing"
        /\ ~Locked(p) /\ UNCHANGED <<table, nextId, cmd>>
    BY <1>19 DEF SlotFreed
  <2>2. AllSound' /\ sess'[p] = FreeSlot /\ \A q \in Slots \ {p} : Kept(q)
    BY <2>1, NewSessionSound, OneSessionSound DEF FreeSlot
  <2>3. ~Reporting(p)
    BY <2>1 DEF Locked, Reporting
  <2>4. FreeStep(p)
    BY <2>1, <2>2, <2>3 DEF FreeStep, table
  <2> QED
    BY <2>2, <2>4 DEF StepKind
<1>20. CASE MediaReport(p)
  <2> DEFINE s == AfterMedia(sess[p], pjMap[p])
  <2>1. /\ sess' = [sess EXCEPT ![p] = s] /\ Live(sess[p]) /\ sess[p].active \in BOOLEAN
        /\ OnCallMedia(p, own, sess[p].active) /\ UNCHANGED <<cmd, nextId>>
    BY <1>1, <1>20 DEF MediaReport, Sound, Up, Session
  <2>2. Sound(s) /\ Live(s) /\ s.own = own
    BY <1>1, <2>1, AfterMediaSound DEF Live
  <2> HIDE DEF s
  <2> QED
    BY <1>4, <2>1, <2>2
<1> QED
  BY <1>6, <1>7, <1>8, <1>9, <1>10, <1>11, <1>12, <1>13, <1>14, <1>15, <1>16,
     <1>17, <1>18, <1>19, <1>20 DEF WorkerStep

LEMMA EveryStepKind ==
  ASSUME IInv, AllSound, AnswersAlone, [Next]_vars
  PROVE  StepKind /\ AllSound'
<1>1. CASE UNCHANGED vars
  BY <1>1 DEF vars, StepKind, QuietStep, CmdQuiet, Kept, Up, AllSound, Sound, Live
<1>2. CASE Next
  BY <1>2, ThreadStepKind, NewCommandKind, WorkerStepKind DEF Next
<1> QED
  BY <1>1, <1>2

-----------------------------------------------------------------------------
(* A call that is set up is not shown as ringing. *)

\* The session of a call was made for an id that has been given out.
OwnFresh == \A p \in Slots : sess[p].own < nextId

\* A callback that found its call answered while the call was still being
\* entered is lost.
StartsUp ==
  \A t \in Threads, p \in Slots :
    cmd[t].op \in Starting /\ sess[p].own = cmd[t].call /\ sess[p].inv \in Up
      => cmd[t].call \in lost

LInv ==
  /\ AllSound
  /\ ReportsAlone
  /\ OwnFresh
  /\ StartsUp
  /\ TableFollowsSession

\* What the proofs by kind need of the types.
LEMMA Shapes ==
  ASSUME IInv
  PROVE  /\ sess \in [Slots -> Session]
         /\ cmd \in [Threads -> Command]
         /\ calls \in [CallIds -> Call]
         /\ pjMap \in [Slots -> CallIds \cup {NoCall}]
         /\ nextId \in Nat /\ nextId > 0
         /\ CallIds \subseteq Nat \ {NoCall}
         /\ \A p \in Slots : sess[p].own \in CallIds \cup {NoCall}
<1>1. \A p \in Slots : sess[p].own \in CallIds \cup {NoCall}
  BY DEF IInv, TypeOK, Session
<1> QED
  BY <1>1, CallsAssumption DEF IInv, TypeOK, CallIds, NoCall

LEMMA ReportsAloneStep ==
  ASSUME IInv, ReportsAlone, StepKind
  PROVE  ReportsAlone'
<1> USE Shapes
<1>1. CASE QuietStep
  BY <1>1 DEF QuietStep, CmdQuiet, Kept, Up, ReportsAlone, Handing
<1>2. CASE LostId
  BY <1>2 DEF LostId, ReportsAlone
<1>3. ASSUME NEW p \in Slots, CallbackStep(p) PROVE ReportsAlone'
  BY <1>3 DEF CallbackStep, CmdQuiet, Kept, Up, ReportsAlone, Handing, Live
<1>4. ASSUME NEW p \in Slots, EndStep(p) PROVE ReportsAlone'
  <2>1. CASE UNCHANGED cmd /\ ~Reporting(p)
    BY <1>4, <2>1 DEF EndStep, Kept, Up, ReportsAlone, Reporting
  <2>2. ASSUME NEW t \in Threads, cmd[t].op = "report", cmd[t].slot = p,
               cmd' = [cmd EXCEPT ![t] = Idle], Kept(p)
        PROVE  ReportsAlone'
    <3>1. Idle.op = "idle" /\ \A q \in Slots : Kept(q)
      BY <1>4, <2>2 DEF Idle, Doing, EndStep
    <3>2. \A u \in Threads : cmd'[u].op = "report" => cmd'[u] = cmd[u]
      BY <2>2, <3>1
    <3> QED
      BY <3>1, <3>2 DEF Kept, Up, ReportsAlone
  <2>3. Allocatable(p) => ~Reporting(p)
    BY DEF Allocatable, ReportsAlone, Reporting
  <2> QED
    BY <1>4, <2>1, <2>2, <2>3 DEF EndStep
<1>5. ASSUME NEW p \in Slots, FreeStep(p) PROVE ReportsAlone'
  BY <1>5 DEF FreeStep, Kept, Up, ReportsAlone, Reporting
<1>6. ASSUME NEW p \in Slots, Allocatable(p), UNCHANGED cmd,
             \A q \in Slots \ {p} : Kept(q)
      PROVE  ReportsAlone'
  BY <1>6 DEF Allocatable, Kept, Up, ReportsAlone
<1>7. ASSUME NEW p \in Slots, IncomingUnknownAccount(p) \/ IncomingCall(p)
      PROVE  ReportsAlone'
  BY <1>6, <1>7 DEF IncomingUnknownAccount, IncomingCall, Kept, Up
<1>8. ASSUME NEW p \in Slots, NEW t \in Threads, HangupStep(t, p) PROVE ReportsAlone'
  <2>1. /\ cmd'[t].op = "report" /\ cmd'[t].slot = p
        /\ \A u \in Threads \ {t} : cmd'[u] = cmd[u]
    BY <1>8 DEF HangupStep, Command
  <2>2. ~Reporting(p)
    BY <1>8 DEF HangupStep, ReportsAlone, Reporting, Live
  <2> QED
    BY <1>8, <2>1, <2>2 DEF HangupStep, Kept, Up, ReportsAlone, Reporting
<1>9. ASSUME NEW p \in Slots, NEW t \in Threads, MadeStep(t, p) PROVE ReportsAlone'
  <2>1. \A u \in Threads : cmd'[u].op = "report" => cmd'[u] = cmd[u]
    BY <1>9 DEF MadeStep, Doing
  <2> QED
    BY <1>9, <2>1 DEF MadeStep, Allocatable, Kept, Up, ReportsAlone
<1>10. ASSUME NEW t \in Threads, CallsInsert(t) \/ MapInsert(t) PROVE ReportsAlone'
  <2>1. /\ UNCHANGED sess
        /\ \A u \in Threads : cmd'[u].op = "report" => cmd'[u] = cmd[u]
    BY <1>10 DEF CallsInsert, MapInsert, Continue, Finish, Idle, Doing, Command
  <2> QED
    BY <2>1 DEF ReportsAlone
<1> QED
  BY <1>1, <1>2, <1>3, <1>4, <1>5, <1>7, <1>8, <1>9, <1>10 DEF StepKind

LEMMA OwnFreshStep ==
  ASSUME IInv, OwnFresh, StepKind
  PROVE  OwnFresh'
<1>1. FreeSlot.own = NoCall
  BY DEF FreeSlot, NewSession
<1>2. \/ /\ nextId' = nextId
         /\ \A p \in Slots : sess'[p].own \in {sess[p].own, NoCall}
      \/ /\ nextId' = nextId + 1
         /\ \A p \in Slots : sess'[p].own \in {sess[p].own, nextId}
  <2>1. CASE QuietStep
    BY <2>1 DEF QuietStep, Kept, Up
  <2>2. CASE LostId
    BY <2>2 DEF LostId
  <2>3. ASSUME NEW p \in Slots, CallbackStep(p)
        PROVE  nextId' = nextId /\ \A q \in Slots : sess'[q].own = sess[q].own
    BY <2>3 DEF CallbackStep, Kept, Up
  <2>4. ASSUME NEW p \in Slots, EndStep(p)
        PROVE  /\ nextId' = nextId
               /\ \A q \in Slots : sess'[q].own \in {sess[q].own, NoCall}
    BY <1>1, <2>4 DEF EndStep, Kept, Up
  <2>5. ASSUME NEW p \in Slots, FreeStep(p)
        PROVE  /\ nextId' = nextId
               /\ \A q \in Slots : sess'[q].own \in {sess[q].own, NoCall}
    BY <1>1, <2>5 DEF FreeStep, Kept, Up
  <2>6. ASSUME NEW p \in Slots, IncomingUnknownAccount(p)
        PROVE  /\ nextId' = nextId
               /\ \A q \in Slots : sess'[q].own \in {sess[q].own, NoCall}
    BY <2>6, Shapes DEF IncomingUnknownAccount, NewSession
  <2>7. ASSUME NEW p \in Slots, IncomingCall(p)
        PROVE  /\ nextId' = nextId + 1
               /\ \A q \in Slots : sess'[q].own \in {sess[q].own, nextId}
    BY <2>7, Shapes DEF IncomingCall, NewSession
  <2>8. ASSUME NEW p \in Slots, NEW t \in Threads, HangupStep(t, p)
        PROVE  nextId' = nextId /\ \A q \in Slots : sess'[q].own = sess[q].own
    BY <2>8 DEF HangupStep, Kept, Up
  <2>9. ASSUME NEW p \in Slots, NEW t \in Threads, MadeStep(t, p)
        PROVE  /\ nextId' = nextId + 1
               /\ \A q \in Slots : sess'[q].own \in {sess[q].own, nextId}
    BY <2>9 DEF MadeStep, Kept, Up
  <2>10. ASSUME NEW t \in Threads, CallsInsert(t) \/ MapInsert(t)
         PROVE  nextId' = nextId /\ UNCHANGED sess
    BY <2>10 DEF CallsInsert, MapInsert
  <2> QED
    BY <2>1, <2>2, <2>3, <2>4, <2>5, <2>6, <2>7, <2>8, <2>9, <2>10 DEF StepKind
<1>3. nextId \in Nat /\ nextId > 0 /\ \A p \in Slots : sess[p].own \in Nat
  BY Shapes DEF NoCall
<1> QED
  BY <1>2, <1>3 DEF OwnFresh, NoCall

\* Once lost, always lost.
LEMMA LostStays ==
  ASSUME StepKind
  PROVE  lost \subseteq lost'
  BY DEF StepKind, QuietStep, LostId, CallbackStep, EndStep, FreeStep,
         IncomingUnknownAccount, IncomingCall, HangupStep, MadeStep,
         CallsInsert, MapInsert, table

LEMMA StartsUpStep ==
  ASSUME IInv, OwnFresh, StartsUp, StepKind
  PROVE  StartsUp'
<1> USE Shapes
<1>1. lost \subseteq lost'
  BY LostStays
<1>2. \A t \in Threads : cmd[t].op \in Starting =>
        /\ cmd[t].call \in CallIds /\ cmd[t].call # NoCall /\ cmd[t].call < nextId
        /\ \A p \in Slots : pjMap[p] # cmd[t].call
  BY DEF IInv, HoldsNewCall
<1>3. CASE QuietStep
  BY <1>1, <1>3 DEF QuietStep, CmdQuiet, Handing, Kept, Up, StartsUp
<1>4. CASE LostId
  BY <1>4 DEF LostId, StartsUp
<1>5. ASSUME NEW p \in Slots, CallbackStep(p) PROVE StartsUp'
  <2>1. \A t \in Threads : cmd'[t].op \in Starting => cmd'[t] = cmd[t]
    BY <1>5 DEF CallbackStep, CmdQuiet, Handing
  <2>2. ASSUME NEW t \in Threads, cmd[t].op \in Starting, sess[p].own = cmd[t].call,
               sess'[p].inv \in Up
        PROVE  cmd[t].call \in lost'
    BY <1>1, <1>2, <1>5, <2>2 DEF CallbackStep, StartsUp
  <2> QED
    BY <1>1, <1>5, <2>1, <2>2 DEF CallbackStep, Kept, Up, StartsUp
\* The session is new or gone, and no thread gets to a step of Starting.
<1>6. ASSUME NEW p \in Slots, \A q \in Slots \ {p} : Kept(q),
             Kept(p) \/ sess'[p].own \in {NoCall, nextId} \/ sess'[p].inv \notin Up,
             \A t \in Threads : cmd'[t].op \in Starting => cmd'[t] = cmd[t]
      PROVE  StartsUp'
  BY <1>1, <1>2, <1>6 DEF Kept, Up, StartsUp
<1>7. FreeSlot.own = NoCall /\ Idle.op \notin Starting
  BY DEF FreeSlot, NewSession, Idle, Doing, Starting
<1>8. ASSUME NEW p \in Slots, EndStep(p) PROVE StartsUp'
  <2>1. \A t \in Threads : cmd'[t].op \in Starting => cmd'[t] = cmd[t]
    BY <1>7, <1>8 DEF EndStep
  <2> QED
    BY <1>6, <1>7, <1>8, <2>1 DEF EndStep
<1>9. ASSUME NEW p \in Slots, FreeStep(p) PROVE StartsUp'
  BY <1>6, <1>7, <1>9 DEF FreeStep
<1>10. ASSUME NEW p \in Slots, IncomingUnknownAccount(p) \/ IncomingCall(p)
       PROVE  StartsUp'
  <2>1. UNCHANGED cmd /\ sess'[p].own \in {NoCall, nextId}
        /\ \A q \in Slots \ {p} : Kept(q)
    BY <1>10 DEF IncomingUnknownAccount, IncomingCall, Kept, Up, NewSession
  <2> QED
    BY <1>6, <2>1
<1>11. ASSUME NEW p \in Slots, NEW t \in Threads, HangupStep(t, p) PROVE StartsUp'
  <2>1. \A u \in Threads : cmd'[u].op \in Starting => cmd'[u] = cmd[u]
    BY <1>11 DEF HangupStep, Starting, Command
  <2> QED
    BY <1>6, <1>11, <2>1 DEF HangupStep, Up
<1>12. ASSUME NEW p \in Slots, NEW t \in Threads, MadeStep(t, p) PROVE StartsUp'
  <2>1. /\ cmd'[t].call = nextId
        /\ \A u \in Threads \ {t} : cmd'[u] = cmd[u]
        /\ \A q \in Slots \ {p} : Kept(q) /\ sess[q].own # nextId
        /\ sess'[p].inv \notin Up
    BY <1>12 DEF MadeStep, Doing, OwnFresh, Up
  <2> QED
    BY <1>1, <2>1 DEF Kept, Up, StartsUp
<1>13. ASSUME NEW t \in Threads, CallsInsert(t) \/ MapInsert(t) PROVE StartsUp'
  <2>1. UNCHANGED sess
    BY <1>13 DEF CallsInsert, MapInsert
  <2>2. \A u \in Threads : cmd'[u].op \in Starting =>
          cmd[u].op \in Starting /\ cmd'[u].call = cmd[u].call
    BY <1>13 DEF CallsInsert, MapInsert, Continue, Finish, Idle, Doing, Command, Starting
  <2> QED
    BY <1>1, <2>1, <2>2 DEF StartsUp
<1> QED
  BY <1>3, <1>4, <1>5, <1>8, <1>9, <1>10, <1>11, <1>12, <1>13 DEF StepKind

LEMMA TableFollowsStep ==
  ASSUME IInv, StartsUp, TableFollowsSession, StepKind
  PROVE  TableFollowsSession'
<1> USE Shapes
<1>1. lost \subseteq lost'
  BY LostStays
<1>2. \A p, q \in Slots : pjMap[p] = pjMap[q] /\ pjMap[p] # NoCall => p = q
  BY DEF IInv, RoutesToItsSlot
\* A slot of which the step changes neither the session nor the entry.
<1>3. ASSUME NEW q \in Slots, Kept(q), pjMap'[q] = pjMap[q],
             calls'[pjMap[q]] = calls[pjMap[q]] \/ pjMap[q] = NoCall
      PROVE  /\ sess'[q].inv \in Up
             /\ sess'[q].own # NoCall /\ pjMap'[q] = sess'[q].own
             /\ sess'[q].own \notin lost'
             => calls'[sess'[q].own].state \in {"InCall", "OnHold"}
  BY <1>1, <1>3 DEF Kept, Up, TableFollowsSession
\* A step about slot p that leaves p without an answered session of its own.
<1>4. ASSUME NEW p \in Slots, \A q \in Slots \ {p} : Kept(q) /\ pjMap'[q] = pjMap[q],
             \A d \in CallIds \ {pjMap[p]} : calls'[d] = calls[d],
             \/ sess'[p].inv \notin Up
             \/ pjMap'[p] = NoCall
             \/ sess'[p].own = NoCall
             \/ /\ pjMap'[p] = pjMap[p]
                /\ pjMap[p] # NoCall => calls'[pjMap[p]].state \in {"InCall", "OnHold"}
      PROVE  TableFollowsSession'
  BY <1>2, <1>3, <1>4 DEF TableFollowsSession, Up
<1>5. CASE QuietStep
  BY <1>5 DEF QuietStep, Kept, Up, TableFollowsSession
<1>6. CASE LostId
  BY <1>6 DEF LostId, TableFollowsSession
<1>7. ASSUME NEW p \in Slots, CallbackStep(p) PROVE TableFollowsSession'
  BY <1>4, <1>7 DEF CallbackStep
<1>8. FreeSlot.inv = "Null"
  BY DEF FreeSlot, NewSession
<1>9. ASSUME NEW p \in Slots, EndStep(p) PROVE TableFollowsSession'
  BY <1>4, <1>9 DEF EndStep
<1>10. ASSUME NEW p \in Slots, FreeStep(p) PROVE TableFollowsSession'
  BY <1>4, <1>8, <1>10 DEF FreeStep, Up
<1>11. ASSUME NEW p \in Slots, IncomingUnknownAccount(p) PROVE TableFollowsSession'
  BY <1>4, <1>11 DEF IncomingUnknownAccount, table, Kept, NewSession, Up
<1>12. ASSUME NEW p \in Slots, IncomingCall(p) PROVE TableFollowsSession'
  <2>1. \A q \in Slots : pjMap[q] # nextId
    BY <1>12 DEF IncomingCall, IInv, RoutesToItsSlot, FreshIds
  <2>2. /\ sess'[p].inv \notin Up
        /\ \A q \in Slots \ {p} : Kept(q) /\ pjMap'[q] = pjMap[q]
        /\ \A d \in CallIds \ {nextId} : calls'[d] = calls[d]
    BY <1>12 DEF IncomingCall, Kept, NewSession, Up
  <2> QED
    BY <1>3, <2>1, <2>2 DEF TableFollowsSession, Up
<1>13. ASSUME NEW p \in Slots, NEW t \in Threads, HangupStep(t, p)
       PROVE  TableFollowsSession'
  BY <1>4, <1>13 DEF HangupStep, Up
<1>14. ASSUME NEW p \in Slots, NEW t \in Threads, MadeStep(t, p)
       PROVE  TableFollowsSession'
  BY <1>4, <1>14 DEF MadeStep, Up
<1>15. ASSUME NEW t \in Threads, CallsInsert(t) PROVE TableFollowsSession'
  <2>1. \A q \in Slots : pjMap[q] # cmd[t].call
    BY <1>15 DEF CallsInsert, IInv, HoldsNewCall, Starting
  <2>2. /\ UNCHANGED <<sess, pjMap>>
        /\ \A d \in CallIds \ {cmd[t].call} : calls'[d] = calls[d]
    BY <1>15 DEF CallsInsert
  <2> QED
    BY <1>3, <2>1, <2>2 DEF TableFollowsSession, Up, Kept
<1>16. ASSUME NEW t \in Threads, MapInsert(t) PROVE TableFollowsSession'
  <2>1. cmd[t].slot \in Slots /\ cmd[t].op \in Starting
    BY <1>16 DEF MapInsert, IInv, HoldsSlot, Starting
  <2>2. /\ UNCHANGED <<sess, calls>> /\ pjMap'[cmd[t].slot] = cmd[t].call
        /\ \A q \in Slots \ {cmd[t].slot} : pjMap'[q] = pjMap[q]
    BY <1>16, <2>1 DEF MapInsert
  <2> QED
    BY <1>1, <1>3, <2>1, <2>2 DEF TableFollowsSession, StartsUp, Up, Kept
<1> QED
  BY <1>5, <1>6, <1>7, <1>9, <1>10, <1>11, <1>12, <1>13, <1>14, <1>15, <1>16
     DEF StepKind

\* LInv is inductive relative to IInv and AnswersAlone.
LEMMA InitLInv == ASSUME Init PROVE LInv
<1>1. FreeSlot.inv = "Null" /\ FreeSlot.own = NoCall /\ Sound(FreeSlot)
      /\ Idle.op = "idle"
  BY DEF FreeSlot, NewSession, Sound, Up, Idle, Doing
<1> QED
  BY <1>1 DEF Init, LInv, AllSound, Sound, Up, Live, ReportsAlone, OwnFresh, StartsUp,
     TableFollowsSession, Starting, Up, NoCall

LEMMA LInvStep ==
  ASSUME IInv, AnswersAlone, LInv, [Next]_vars
  PROVE  LInv'
  BY EveryStepKind, ReportsAloneStep, OwnFreshStep, StartsUpStep, TableFollowsStep
     DEF LInv

LEMMA LiveInvariant == Spec => []LInv
<1>1. IInv /\ AnswersAlone /\ LInv /\ [Next]_vars => LInv'
  BY LInvStep
<1> QED
  BY <1>1, InitLInv, Inductive, AnswersInvariant, PTL DEF Spec

\* A call both sides have set up is not shown as ringing, whatever the order
\* of the callbacks and of the inserts of cmd_call_start
\* (pjsip_on_call_state, pjsip_on_call_media).
THEOREM TableIsCurrent == Spec => []TableFollowsSession
<1>1. LInv => TableFollowsSession
  BY DEF LInv
<1> QED
  BY <1>1, LiveInvariant, PTL

-----------------------------------------------------------------------------
(* What the engine shows is live, and what it misses it missed while the   *)
(* call was being entered.  Both need that pjsua does not hand out a slot  *)
(* that a command still holds: otherwise a call may be entered for the     *)
(* slot of another call, whose callbacks it then takes.                    *)

\* The callbacks of a session reach its call, or a thread is still entering
\* the call for that slot.
Routed ==
  \A p \in Slots :
    LET c == sess[p].own IN
    Heard(p) /\ c # NoCall =>
      \/ pjMap[p] = c
      \/ \E t \in Threads :
           cmd[t].op \in Starting /\ cmd[t].call = c /\ cmd[t].slot = p

\* A call that is being entered still has its session, or has missed its end.
StartsHeard ==
  \A t \in Threads :
    LET p == cmd[t].slot
        c == cmd[t].call
    IN
    cmd[t].op \in Starting =>
      /\ sess[p].own = c \/ sess[p].inv = "Null"
      /\ c \in lost \/ (sess[p].own = c /\ Heard(p))

LEMMA RoutedStep ==
  ASSUME IInv, ReportsAlone, Routed, StartsHeard, StepKind
  PROVE  Routed'
<1> USE Shapes
\* A slot the step is not about.
<1>1. ASSUME NEW q \in Slots, Kept(q), pjMap'[q] = pjMap[q],
             \A t \in Threads :
               (cmd[t].op = "report" \/ cmd'[t].op = "report") /\ q \in {cmd[t].slot, cmd'[t].slot}
                 => cmd'[t] = cmd[t],
             \A t \in Threads : cmd[t].op \in Starting /\ cmd[t].slot = q =>
               cmd'[t].op \in Starting /\ cmd'[t].call = cmd[t].call /\ cmd'[t].slot = q
      PROVE  Heard(q)' /\ sess'[q].own # NoCall =>
               \/ pjMap'[q] = sess'[q].own
               \/ \E t \in Threads :
                    cmd'[t].op \in Starting /\ cmd'[t].call = sess'[q].own /\ cmd'[t].slot = q
  <2>1. Heard(q)' => Heard(q)
    BY <1>1 DEF Heard, Live, Kept, Up, Reporting
  <2> QED
    BY <1>1, <2>1 DEF Routed, Kept, Up
\* A step about slot p only.
<1>2. ASSUME NEW p \in Slots, \A q \in Slots \ {p} : Kept(q) /\ pjMap'[q] = pjMap[q],
             \A t \in Threads :
               \/ cmd'[t] = cmd[t]
               \/ /\ cmd[t].op \notin Starting
                  /\ (cmd[t].op = "report" \/ cmd'[t].op = "report")
                       => cmd[t].slot = p /\ cmd'[t].slot \in {p, NoSlot},
             Heard(p)' /\ sess'[p].own # NoCall =>
               \/ pjMap'[p] = sess'[p].own
               \/ \E t \in Threads :
                    cmd'[t].op \in Starting /\ cmd'[t].call = sess'[p].own /\ cmd'[t].slot = p
      PROVE  Routed'
  <2>1. ASSUME NEW q \in Slots \ {p}
        PROVE  Heard(q)' /\ sess'[q].own # NoCall =>
               \/ pjMap'[q] = sess'[q].own
               \/ \E t \in Threads :
                    cmd'[t].op \in Starting /\ cmd'[t].call = sess'[q].own /\ cmd'[t].slot = q
    <3>1. q \in Slots /\ q # p /\ q # NoSlot
      BY <2>1, CallsAssumption
    <3>2. \A t \in Threads :
            (cmd[t].op = "report" \/ cmd'[t].op = "report") /\ q \in {cmd[t].slot, cmd'[t].slot}
              => cmd'[t] = cmd[t]
      BY <1>2, <3>1
    <3>3. \A t \in Threads : cmd[t].op \in Starting /\ cmd[t].slot = q =>
            cmd'[t].op \in Starting /\ cmd'[t].call = cmd[t].call /\ cmd'[t].slot = q
      BY <1>2
    <3> QED
      BY <1>1, <1>2, <3>1, <3>2, <3>3
  <2> QED
    BY <1>2, <2>1 DEF Routed, Heard, Live, Reporting
<1>3. Idle.op = "idle" /\ Idle.slot = NoSlot
  BY DEF Idle, Doing
<1>4. FreeSlot.inv = "Null" /\ FreeSlot.own = NoCall
  BY DEF FreeSlot, NewSession
<1>5. CASE QuietStep
  <2>1. \A t \in Threads :
          (cmd[t].op \in Starting \/ cmd[t].op = "report" \/ cmd'[t].op = "report")
            => cmd'[t] = cmd[t]
    BY <1>5 DEF QuietStep, CmdQuiet, Handing
  <2>2. ASSUME NEW q \in Slots
        PROVE  Heard(q)' /\ sess'[q].own # NoCall =>
               \/ pjMap'[q] = sess'[q].own
               \/ \E t \in Threads :
                    cmd'[t].op \in Starting /\ cmd'[t].call = sess'[q].own /\ cmd'[t].slot = q
    BY <1>1, <1>5, <2>1 DEF QuietStep
  <2> QED
    BY <2>2 DEF Routed, Heard, Live, Reporting
<1>6. CASE LostId
  BY <1>6 DEF LostId, Routed, Heard, Reporting, Live
<1>7. ASSUME NEW p \in Slots, CallbackStep(p) PROVE Routed'
  <2>1. \A t \in Threads :
          (cmd[t].op \in Starting \/ cmd[t].op = "report" \/ cmd'[t].op = "report")
            => cmd'[t] = cmd[t]
    BY <1>7 DEF CallbackStep, CmdQuiet, Handing
  <2>2. ASSUME NEW q \in Slots \ {p}
        PROVE  Heard(q)' /\ sess'[q].own # NoCall =>
               \/ pjMap'[q] = sess'[q].own
               \/ \E t \in Threads :
                    cmd'[t].op \in Starting /\ cmd'[t].call = sess'[q].own /\ cmd'[t].slot = q
    BY <1>1, <1>7, <2>1, <2>2 DEF CallbackStep
  <2>3. sess'[p].own # NoCall =>
          \/ pjMap'[p] = sess'[p].own
          \/ \E t \in Threads :
               cmd'[t].op \in Starting /\ cmd'[t].call = sess'[p].own /\ cmd'[t].slot = p
    BY <1>7, <2>1 DEF CallbackStep, Routed, Heard
  <2> QED
    BY <2>2, <2>3 DEF Routed, Heard, Live, Reporting
<1>8. ASSUME NEW p \in Slots, EndStep(p) PROVE Routed'
  <2>1. \A q \in Slots \ {p} : Kept(q) /\ pjMap'[q] = pjMap[q]
    BY <1>8 DEF EndStep
  <2>2. CASE UNCHANGED cmd /\ sess'[p].own = NoCall
    BY <1>2, <2>1, <2>2
  <2>3. ASSUME NEW t \in Threads, cmd[t].op = "report", cmd[t].slot = p,
               cmd' = [cmd EXCEPT ![t] = Idle], Kept(p)
        PROVE  Routed'
    <3>1. ~Heard(p)'
      BY <1>3, <2>3 DEF Heard, Reporting, ReportsAlone, Live, Kept, Up
    <3>2. \A u \in Threads :
            cmd'[u] = cmd[u] \/ (cmd[u].op \notin Starting /\ cmd[u].slot = p /\ cmd'[u].slot = NoSlot)
      BY <1>3, <2>3 DEF Starting
    <3> QED
      BY <1>2, <2>1, <3>1, <3>2
  <2> QED
    BY <1>4, <1>8, <2>2, <2>3 DEF EndStep
<1>9. ASSUME NEW p \in Slots, FreeStep(p) PROVE Routed'
  BY <1>2, <1>4, <1>9 DEF FreeStep
<1>10. ASSUME NEW p \in Slots, IncomingUnknownAccount(p) PROVE Routed'
  <2>1. /\ sess'[p].own = NoCall /\ UNCHANGED <<cmd, pjMap>>
        /\ \A q \in Slots \ {p} : Kept(q)
    BY <1>10 DEF IncomingUnknownAccount, table, NewSession, Kept, Up
  <2> QED
    BY <1>2, <2>1
<1>11. ASSUME NEW p \in Slots, IncomingCall(p) PROVE Routed'
  <2>1. /\ sess'[p].own = nextId /\ pjMap'[p] = nextId /\ UNCHANGED cmd
        /\ \A q \in Slots \ {p} : Kept(q) /\ pjMap'[q] = pjMap[q]
    BY <1>11 DEF IncomingCall, NewSession, Kept, Up
  <2> QED
    BY <1>2, <2>1
<1>12. ASSUME NEW p \in Slots, NEW t \in Threads, HangupStep(t, p) PROVE Routed'
  <2>1. /\ cmd[t].op = "hangup" /\ cmd[t].slot = p /\ cmd'[t].slot = p
        /\ \A u \in Threads \ {t} : cmd'[u] = cmd[u]
    BY <1>12 DEF HangupStep, Command
  <2>2. cmd[t].op \notin Starting
    BY <2>1 DEF Starting
  <2>3. sess'[p].own # NoCall =>
          \/ pjMap'[p] = sess'[p].own
          \/ \E u \in Threads :
               cmd'[u].op \in Starting /\ cmd'[u].call = sess'[p].own /\ cmd'[u].slot = p
    BY <1>12, <2>1, <2>2 DEF HangupStep, Routed, Heard
  <2>4. \A q \in Slots \ {p} : Kept(q) /\ pjMap'[q] = pjMap[q]
    BY <1>12 DEF HangupStep
  <2> QED
    BY <1>2, <2>1, <2>2, <2>3, <2>4
<1>13. ASSUME NEW p \in Slots, NEW t \in Threads, MadeStep(t, p) PROVE Routed'
  <2>1. /\ cmd'[t].op = "made" /\ cmd'[t].call = nextId /\ cmd'[t].slot = p
        /\ \A u \in Threads \ {t} : cmd'[u] = cmd[u]
        /\ cmd[t].op \notin Starting /\ cmd[t].op # "report"
        /\ sess'[p].own = nextId
    BY <1>13 DEF MadeStep, Doing, Handing
  <2>2. \A q \in Slots \ {p} : Kept(q) /\ pjMap'[q] = pjMap[q]
    BY <1>13 DEF MadeStep
  <2>3. "made" \in Starting /\ "made" # "report"
    BY DEF Starting
  <2> QED
    BY <1>2, <2>1, <2>2, <2>3
<1>14. ASSUME NEW t \in Threads, CallsInsert(t) PROVE Routed'
  <2>1. /\ UNCHANGED <<sess, pjMap>>
        /\ cmd[t].op = "made" /\ cmd'[t].op = "inserted"
        /\ cmd'[t].call = cmd[t].call /\ cmd'[t].slot = cmd[t].slot
        /\ \A u \in Threads \ {t} : cmd'[u] = cmd[u]
    BY <1>14 DEF CallsInsert, Continue, Command
  <2>2. "made" # "report" /\ "inserted" # "report" /\ "inserted" \in Starting
    BY DEF Starting
  <2>3. ASSUME NEW q \in Slots
        PROVE  Heard(q)' /\ sess'[q].own # NoCall =>
               \/ pjMap'[q] = sess'[q].own
               \/ \E u \in Threads :
                    cmd'[u].op \in Starting /\ cmd'[u].call = sess'[q].own /\ cmd'[u].slot = q
    BY <1>1, <2>1, <2>2 DEF Kept, Up
  <2> QED
    BY <2>3 DEF Routed, Heard, Live, Reporting
<1>15. ASSUME NEW t \in Threads, MapInsert(t) PROVE Routed'
  <2> DEFINE p == cmd[t].slot
  <2>1. /\ p \in Slots /\ cmd[t].op = "inserted" /\ cmd[t].op \in Starting
        /\ cmd[t].op # "report"
    BY <1>15 DEF MapInsert, IInv, HoldsSlot, Starting
  <2>2. /\ UNCHANGED sess /\ cmd' = [cmd EXCEPT ![t] = Idle]
        /\ pjMap'[p] = cmd[t].call
        /\ \A q \in Slots \ {p} : pjMap'[q] = pjMap[q]
    BY <1>15, <2>1 DEF MapInsert, Finish
  <2>3. /\ cmd'[t].op # "report"
        /\ \A u \in Threads \ {t} : cmd'[u] = cmd[u]
    BY <1>3, <2>2
  <2>4. \A q \in Slots : Kept(q) /\ (Heard(q)' <=> Heard(q))
    BY <2>1, <2>2, <2>3 DEF Kept, Up, Heard, Live, Reporting
  <2>5. Heard(p) => sess[p].own = cmd[t].call
    BY <2>1 DEF StartsHeard, Heard, Live, Reporting, ReportsAlone
  <2>6. ASSUME NEW q \in Slots \ {p}
        PROVE  Heard(q)' /\ sess'[q].own # NoCall =>
               \/ pjMap'[q] = sess'[q].own
               \/ \E u \in Threads :
                    cmd'[u].op \in Starting /\ cmd'[u].call = sess'[q].own /\ cmd'[u].slot = q
    BY <2>2, <2>3, <2>4, <2>6 DEF Routed, Kept, Up
  <2> QED
    BY <2>2, <2>4, <2>5, <2>6 DEF Routed, Kept, Up
<1> QED
  BY <1>5, <1>6, <1>7, <1>8, <1>9, <1>10, <1>11, <1>12, <1>13, <1>14, <1>15
     DEF StepKind

LEMMA StartsHeardStep ==
  ASSUME IInv, ReportsAlone, StartsHeard, StepKind, ~QuickReuse
  PROVE  StartsHeard'
<1> USE Shapes
<1>1. lost \subseteq lost'
  BY LostStays
<1>2. \A t \in Threads : cmd[t].op \in Starting =>
        /\ cmd[t].slot \in Slots
        /\ cmd[t].call # NoCall /\ pjMap[cmd[t].slot] # cmd[t].call
  BY DEF IInv, HoldsSlot, HoldsNewCall, Starting
\* No thread gets to a step of Starting, and the sessions of those that are
\* there go on, or their calls are lost.
<1>3. ASSUME \A t \in Threads : cmd'[t].op \in Starting =>
               /\ cmd[t].op \in Starting
               /\ cmd'[t].call = cmd[t].call /\ cmd'[t].slot = cmd[t].slot,
             \A t \in Threads, p \in Slots : cmd[t].op \in Starting /\ cmd[t].slot = p =>
               \/ Kept(p) /\ (Heard(p) => Heard(p)' \/ cmd[t].call \in lost')
               \/ sess'[p].inv = "Null" /\ (sess[p].own = cmd[t].call /\ Heard(p)
                                              => cmd[t].call \in lost')
               \/ Heard(p) /\ Heard(p)' /\ sess'[p].own = sess[p].own
      PROVE  StartsHeard'
  <2>1. ASSUME NEW t \in Threads, cmd'[t].op \in Starting
        PROVE  /\ sess'[cmd'[t].slot].own = cmd'[t].call \/ sess'[cmd'[t].slot].inv = "Null"
               /\ \/ cmd'[t].call \in lost'
                  \/ sess'[cmd'[t].slot].own = cmd'[t].call /\ Heard(cmd[t].slot)'
    <3>1. PICK p \in Slots :
            /\ cmd[t].op \in Starting /\ cmd'[t].call = cmd[t].call
            /\ cmd'[t].slot = p /\ cmd[t].slot = p
      BY <1>2, <1>3, <2>1
    <3>2. /\ sess[p].own = cmd[t].call \/ sess[p].inv = "Null"
          /\ cmd[t].call \in lost \/ (sess[p].own = cmd[t].call /\ Heard(p))
      BY <3>1 DEF StartsHeard
    <3>3. Heard(p) => sess[p].inv # "Null"
      BY DEF Heard, Live, Reporting, ReportsAlone
    <3>4. /\ sess'[p].own = cmd[t].call \/ sess'[p].inv = "Null"
          /\ cmd[t].call \in lost' \/ (sess'[p].own = cmd[t].call /\ Heard(p)')
      BY <1>1, <1>3, <3>1, <3>2, <3>3 DEF Kept, Up
    <3> QED
      BY <3>1, <3>4 DEF Heard, Live, Reporting
  <2>2. \A t \in Threads : cmd'[t].op \in Starting => cmd'[t].slot = cmd[t].slot
    BY <1>3
  <2> QED
    BY <2>1, <2>2 DEF StartsHeard, Heard, Live, Reporting
<1>4. Idle.op = "idle" /\ FreeSlot.inv = "Null"
  BY DEF Idle, Doing, FreeSlot, NewSession
\* A slot that is given out is held by no thread.
<1>5. ASSUME NEW p \in Slots, Allocatable(p), NEW t \in Threads PROVE cmd[t].slot # p
  BY <1>5 DEF Allocatable
<1>6. CASE QuietStep
  <2>1. \A t \in Threads : cmd[t].op \in Handing \/ cmd'[t].op \in Handing => cmd'[t] = cmd[t]
    BY <1>6 DEF QuietStep, CmdQuiet
  <2>2. \A p \in Slots : Kept(p) /\ (Heard(p) => Heard(p)')
    BY <1>6, <2>1 DEF QuietStep, Kept, Up, Heard, Live, Reporting, Handing
  <2> QED
    BY <1>2, <1>3, <2>1, <2>2 DEF Handing
<1>7. CASE LostId
  BY <1>7 DEF LostId, StartsHeard, Heard, Live, Reporting
<1>8. ASSUME NEW p \in Slots, CallbackStep(p) PROVE StartsHeard'
  <2>1. \A t \in Threads : cmd[t].op \in Handing \/ cmd'[t].op \in Handing => cmd'[t] = cmd[t]
    BY <1>8 DEF CallbackStep, CmdQuiet
  <2>2. \A q \in Slots \ {p} : Kept(q) /\ (Heard(q) => Heard(q)')
    BY <1>8, <2>1 DEF CallbackStep, Kept, Up, Heard, Live, Reporting, Handing
  <2>3. Heard(p) /\ Heard(p)' /\ sess'[p].own = sess[p].own
    BY <1>8 DEF CallbackStep, Heard, Live
  <2> QED
    BY <1>2, <1>3, <2>1, <2>2, <2>3 DEF Handing
<1>9. ASSUME NEW p \in Slots, EndStep(p) PROVE StartsHeard'
  <2> DEFINE Going(t, q) ==
        \/ Kept(q) /\ (Heard(q) => Heard(q)' \/ cmd[t].call \in lost')
        \/ sess'[q].inv = "Null" /\ (sess[q].own = cmd[t].call /\ Heard(q)
                                       => cmd[t].call \in lost')
        \/ Heard(q) /\ Heard(q)' /\ sess'[q].own = sess[q].own
  <2>1. \A t \in Threads : cmd'[t].op \in Starting =>
          /\ cmd[t].op \in Starting
          /\ cmd'[t].call = cmd[t].call /\ cmd'[t].slot = cmd[t].slot
    <3>1. \A t \in Threads : cmd'[t].op \in Starting => cmd'[t] = cmd[t]
      BY <1>4, <1>9 DEF EndStep, Starting
    <3> QED
      BY <3>1
  <2>2. \A q \in Slots \ {p} : Kept(q)
    BY <1>9 DEF EndStep
  <2>3. \A q \in Slots \ {p} : Heard(q) => Heard(q)'
    <3>1. \A t \in Threads : cmd'[t] = cmd[t] \/ cmd[t].slot = p
      BY <1>9 DEF EndStep
    <3> QED
      BY <2>2, <3>1 DEF Kept, Up, Heard, Live, Reporting
  <2>4. ASSUME NEW t \in Threads, cmd[t].op \in Starting, cmd[t].slot = p,
               sess[p].own = cmd[t].call
        PROVE  cmd[t].call \in lost'
    BY <1>2, <1>9, <2>4 DEF EndStep
  <2>5. \A t \in Threads, q \in Slots \ {p} :
          cmd[t].op \in Starting /\ cmd[t].slot = q => Going(t, q)
    BY <2>2, <2>3
  <2>6. CASE sess'[p] = FreeSlot
    <3>1. \A t \in Threads : cmd[t].op \in Starting /\ cmd[t].slot = p => Going(t, p)
      BY <1>4, <2>4, <2>6
    <3> QED
      BY <1>3, <2>1, <2>5, <3>1
  <2>7. CASE Kept(p)
    <3>1. ASSUME NEW t \in Threads, cmd[t].op \in Starting, cmd[t].slot = p, Heard(p)
          PROVE  cmd[t].call \in lost'
      <4>1. sess[p].inv # "Null"
        BY <3>1 DEF Heard, Live, Reporting, ReportsAlone
      <4> QED
        BY <2>4, <3>1, <4>1 DEF StartsHeard
    <3>2. \A t \in Threads : cmd[t].op \in Starting /\ cmd[t].slot = p => Going(t, p)
      BY <2>7, <3>1
    <3> QED
      BY <1>3, <2>1, <2>5, <3>2
  <2>8. CASE Allocatable(p)
    BY <1>3, <1>5, <2>1, <2>8, <2>5
  <2> QED
    BY <1>9, <2>6, <2>7, <2>8 DEF EndStep
<1>10. ASSUME NEW p \in Slots, FreeStep(p) PROVE StartsHeard'
  <2>1. /\ UNCHANGED cmd /\ sess'[p].inv = "Null" /\ ~Heard(p)
        /\ \A q \in Slots \ {p} : Kept(q) /\ (Heard(q) => Heard(q)')
    BY <1>4, <1>10 DEF FreeStep, Kept, Up, Heard, Live, Reporting
  <2> QED
    BY <1>2, <1>3, <2>1
<1>11. ASSUME NEW p \in Slots, IncomingUnknownAccount(p) \/ IncomingCall(p)
       PROVE  StartsHeard'
  <2>1. /\ UNCHANGED cmd /\ Allocatable(p)
        /\ \A q \in Slots \ {p} : Kept(q) /\ (Heard(q) => Heard(q)')
    BY <1>11 DEF IncomingUnknownAccount, IncomingCall, Kept, Up, Heard, Live, Reporting
  <2> QED
    BY <1>2, <1>3, <1>5, <2>1
<1>12. ASSUME NEW p \in Slots, NEW t \in Threads, HangupStep(t, p) PROVE StartsHeard'
  <2>1. /\ cmd[t].op = "hangup" /\ cmd'[t].op = "report" /\ cmd'[t].slot = p
        /\ \A u \in Threads \ {t} : cmd'[u] = cmd[u]
    BY <1>12 DEF HangupStep, Command
  <2>2. Heard(p) /\ Heard(p)' /\ sess'[p].own = sess[p].own
    BY <1>12, <2>1 DEF HangupStep, Heard, Reporting
  <2>3. \A q \in Slots \ {p} : Kept(q) /\ (Heard(q) => Heard(q)')
    BY <1>12, <2>1 DEF HangupStep, Kept, Up, Heard, Live, Reporting
  <2>4. "report" \notin Starting
    BY DEF Starting
  <2> QED
    BY <1>2, <1>3, <2>1, <2>2, <2>3, <2>4
<1>13. ASSUME NEW p \in Slots, NEW t \in Threads, MadeStep(t, p) PROVE StartsHeard'
  <2>1. /\ cmd'[t].call = nextId /\ cmd'[t].slot = p
        /\ \A u \in Threads \ {t} : cmd'[u] = cmd[u] /\ cmd[u].slot # p
        /\ cmd[t].op # "report"
        /\ sess'[p].own = nextId /\ Live(sess'[p])
    BY <1>5, <1>13 DEF MadeStep, Doing, Handing, Live
  <2>2. \A q \in Slots \ {p} : Kept(q) /\ (Heard(q) => Heard(q)')
    BY <1>13, <2>1 DEF MadeStep, Kept, Up, Heard, Live, Reporting
  <2>3. Heard(p)'
    BY <2>1 DEF Heard, Live
  <2>4. ASSUME NEW u \in Threads, cmd'[u].op \in Starting
        PROVE  /\ sess'[cmd'[u].slot].own = cmd'[u].call \/ sess'[cmd'[u].slot].inv = "Null"
               /\ \/ cmd'[u].call \in lost'
                  \/ sess'[cmd'[u].slot].own = cmd'[u].call
                     /\ (Live(sess'[cmd'[u].slot])
                         \/ \E r \in Threads : cmd'[r].op = "report" /\ cmd'[r].slot = cmd'[u].slot)
    <3>1. CASE u = t
      BY <2>1, <3>1
    <3>2. CASE u # t
      <4>1. cmd'[u] = cmd[u] /\ cmd[u].slot \in Slots \ {p}
        BY <1>2, <2>1, <2>4, <3>2
      <4>2. /\ sess[cmd[u].slot].own = cmd[u].call \/ sess[cmd[u].slot].inv = "Null"
            /\ cmd[u].call \in lost \/ (sess[cmd[u].slot].own = cmd[u].call /\ Heard(cmd[u].slot))
        BY <2>4, <4>1 DEF StartsHeard
      <4>3. Heard(cmd[u].slot) => Heard(cmd[u].slot)'
        BY <2>2, <4>1
      <4> QED
        BY <1>1, <2>2, <4>1, <4>2, <4>3 DEF Kept, Up, Heard, Live, Reporting
    <3> QED
      BY <3>1, <3>2
  <2> QED
    BY <2>4 DEF StartsHeard, Heard, Live, Reporting
<1>14. ASSUME NEW t \in Threads, CallsInsert(t) \/ MapInsert(t) PROVE StartsHeard'
  <2>1. UNCHANGED sess
    BY <1>14 DEF CallsInsert, MapInsert
  <2>2. \A u \in Threads : cmd'[u].op \in Starting =>
          /\ cmd[u].op \in Starting
          /\ cmd'[u].call = cmd[u].call /\ cmd'[u].slot = cmd[u].slot
    BY <1>4, <1>14 DEF CallsInsert, MapInsert, Continue, Finish, Command, Starting
  <2>3. \A u \in Threads : cmd[u].op = "report" => cmd'[u] = cmd[u]
    BY <1>14 DEF CallsInsert, MapInsert, Continue, Finish
  <2>4. \A q \in Slots : Kept(q) /\ (Heard(q) => Heard(q)')
    BY <2>1, <2>3 DEF Kept, Up, Heard, Live, Reporting
  <2> QED
    BY <1>3, <2>2, <2>4
<1> QED
  BY <1>6, <1>7, <1>8, <1>9, <1>10, <1>11, <1>12, <1>13, <1>14 DEF StepKind

\* A callback misses its call only while a thread is entering the call.
LEMMA LossStep ==
  ASSUME IInv, LInv, Routed, StepKind, NEW c \in lost' \ lost
  PROVE  \E t \in Threads : cmd[t].call = c /\ cmd[t].op \in Starting
<1> USE Shapes
<1>1. ASSUME NEW p \in Slots, c = sess[p].own, c \notin {NoCall, pjMap[p]}, Heard(p)
      PROVE  \E t \in Threads : cmd[t].call = c /\ cmd[t].op \in Starting
  BY <1>1 DEF Routed
<1>2. ASSUME NEW p \in Slots, CallbackStep(p)
      PROVE  c = sess[p].own /\ c \notin {NoCall, pjMap[p]} /\ Heard(p)
  BY <1>2 DEF CallbackStep, Heard
<1>3. ASSUME NEW p \in Slots, EndStep(p)
      PROVE  c = sess[p].own /\ c \notin {NoCall, pjMap[p]} /\ Heard(p)
  <2>1. c = sess[p].own /\ c \notin {NoCall, pjMap[p]}
    BY <1>3 DEF EndStep
  <2>2. ~Allocatable(p)
    BY <2>1 DEF Allocatable, LInv, AllSound, Sound, Up
  <2> QED
    BY <1>3, <2>1, <2>2 DEF EndStep, Heard, Reporting
<1>4. (\E p \in Slots : CallbackStep(p) \/ EndStep(p)) \/ lost' = lost
  BY DEF StepKind, QuietStep, LostId, FreeStep, IncomingUnknownAccount, IncomingCall,
         HangupStep, MadeStep, CallsInsert, MapInsert, table
<1> QED
  BY <1>1, <1>2, <1>3, <1>4

LEMMA ShownStep ==
  ASSUME IInv, LInv, StartsHeard, ShownIsLive, StepKind
  PROVE  ShownIsLive'
<1> USE Shapes
<1>1. lost \subseteq lost' /\ ReportsAlone
  BY LostStays DEF LInv
<1> DEFINE InSlot(c, p) == Live(sess[p]) /\ sess[p].own = c /\ pjMap[p] = c
           Entering(c, t) == cmd[t].call = c /\ cmd[t].op = "inserted"
           Leaving(c, t, p) == cmd[t].op = "report" /\ cmd[t].slot = p /\ sess[p].own = c
           Shown(c) == \/ \E p \in Slots : InSlot(c, p)
                       \/ \E t \in Threads : Entering(c, t)
                       \/ \E t \in Threads, p \in Slots : Leaving(c, t, p)
<1>2. \A c \in Known : c \notin ended /\ c \notin lost => Shown(c)
  BY <1>1 DEF ShownIsLive, ReportsAlone
<1>3. ASSUME \A c \in Known' : c \notin ended' /\ c \notin lost' => Shown(c)'
      PROVE  ShownIsLive'
  BY <1>3 DEF ShownIsLive
<1>4. ended \subseteq ended'
  BY DEF StepKind, QuietStep, LostId, CallbackStep, EndStep, FreeStep,
         IncomingUnknownAccount, IncomingCall, HangupStep, MadeStep,
         CallsInsert, MapInsert, table
\* Steps after which no call is shown that was not shown before.
<1>5. ASSUME \A c \in CallIds : calls[c].state = "Absent" => calls'[c].state = "Absent",
             \A c \in Known : c \notin ended' /\ c \notin lost' /\ Shown(c) => Shown(c)'
      PROVE  ShownIsLive'
  <2>1. \A c \in Known' : c \in Known
    BY <1>5 DEF Known
  <2> QED
    BY <1>1, <1>2, <1>3, <1>4, <1>5, <2>1
<1>6. \A p \in Slots : pjMap[p] # NoCall => calls[pjMap[p]].state # "Absent"
  BY DEF IInv, RoutesToItsSlot, Known
<1>7. CASE QuietStep
  <2>1. \A t \in Threads : cmd[t].op \in {"inserted", "report"} => cmd'[t] = cmd[t]
    BY <1>7 DEF QuietStep, CmdQuiet, Handing, Starting
  <2>2. \A c \in CallIds : calls[c].state = "Absent" => calls'[c].state = "Absent"
    BY <1>7 DEF QuietStep
  <2>3. ASSUME NEW c \in Known, Shown(c) PROVE Shown(c)'
    BY <1>7, <2>1, <2>3 DEF QuietStep, Kept, Up, Live
  <2> QED
    BY <1>5, <2>2, <2>3
<1>8. CASE LostId
  BY <1>8 DEF LostId, ShownIsLive, Known, Live
<1>9. ASSUME NEW p \in Slots, CallbackStep(p) PROVE ShownIsLive'
  <2>1. \A t \in Threads : cmd[t].op \in {"inserted", "report"} => cmd'[t] = cmd[t]
    BY <1>9 DEF CallbackStep, CmdQuiet, Handing, Starting
  <2>2. \A c \in CallIds : calls[c].state = "Absent" => calls'[c].state = "Absent"
    BY <1>6, <1>9 DEF CallbackStep
  <2>3. ASSUME NEW c \in Known, Shown(c) PROVE Shown(c)'
    BY <1>9, <2>1, <2>3 DEF CallbackStep, Kept, Up, Live
  <2> QED
    BY <1>5, <2>2, <2>3
<1>10. ASSUME NEW p \in Slots, EndStep(p) PROVE ShownIsLive'
  <2>1. /\ \A q \in Slots \ {p} : Kept(q) /\ pjMap'[q] = pjMap[q]
        /\ \A t \in Threads : cmd'[t] = cmd[t] \/ (cmd[t].op = "report" /\ cmd[t].slot = p)
    BY <1>10 DEF EndStep
  <2>2. \A c \in CallIds : calls[c].state = "Absent" => calls'[c].state = "Absent"
    BY <1>6, <1>10 DEF EndStep
  <2>3. ASSUME NEW c \in Known, c \notin ended', c \notin lost', Shown(c) PROVE Shown(c)'
    <3>0. c # NoCall
      BY DEF Known
    <3>1. ASSUME NEW q \in Slots, InSlot(c, q) PROVE Shown(c)'
      <4>1. q # p
        BY <1>10, <2>3, <3>0, <3>1 DEF EndStep
      <4> QED
        BY <2>1, <3>1, <4>1 DEF Kept, Up, Live
    <3>2. ASSUME NEW t \in Threads, Entering(c, t) PROVE Shown(c)'
      BY <2>1, <3>2
    <3>3. ASSUME NEW t \in Threads, NEW q \in Slots, Leaving(c, t, q) PROVE Shown(c)'
      <4>1. CASE q # p
        BY <2>1, <3>3, <4>1 DEF Kept, Up
      <4>2. CASE q = p
        <5>1. sess[p].own \notin {NoCall, pjMap[p]} => sess[p].own \in lost'
          BY <1>10 DEF EndStep
        <5>2. pjMap[p] # NoCall => pjMap[p] \in ended'
          BY <1>10 DEF EndStep
        <5> QED
          BY <2>3, <3>0, <3>3, <4>2, <5>1, <5>2
      <4> QED
        BY <4>1, <4>2
    <3> QED
      BY <2>3, <3>1, <3>2, <3>3
  <2> QED
    BY <1>5, <2>2, <2>3
<1>11. ASSUME NEW p \in Slots, FreeStep(p) PROVE ShownIsLive'
  <2>1. /\ UNCHANGED <<calls, pjMap, cmd>> /\ ~Reporting(p) /\ ~Live(sess[p])
        /\ \A q \in Slots \ {p} : Kept(q)
    BY <1>11 DEF FreeStep, Live
  <2>2. ASSUME NEW c \in Known, Shown(c) PROVE Shown(c)'
    BY <2>1, <2>2 DEF Kept, Up, Live, Reporting
  <2> QED
    BY <1>5, <2>1, <2>2
<1>12. ASSUME NEW p \in Slots, Allocatable(p), UNCHANGED cmd,
              \A q \in Slots \ {p} : Kept(q) /\ pjMap'[q] = pjMap[q],
              NEW c, Shown(c)
       PROVE  Shown(c)'
  <2>1. ~Reporting(p) /\ ~Live(sess[p])
    BY <1>1, <1>12 DEF Allocatable, Live, Reporting, ReportsAlone
  <2> QED
    BY <1>12, <2>1 DEF Kept, Up, Live, Reporting
<1>13. ASSUME NEW p \in Slots, IncomingUnknownAccount(p) PROVE ShownIsLive'
  <2>1. /\ Allocatable(p) /\ UNCHANGED <<calls, cmd, pjMap>>
        /\ \A q \in Slots \ {p} : Kept(q)
    BY <1>13 DEF IncomingUnknownAccount, table, Kept, Up
  <2> QED
    BY <1>5, <1>12, <2>1
<1>14. ASSUME NEW p \in Slots, IncomingCall(p) PROVE ShownIsLive'
  <2>0. PICK n : n = nextId
    OBVIOUS
  <2>1. /\ Allocatable(p) /\ UNCHANGED <<cmd, ended, lost>>
        /\ \A q \in Slots \ {p} : Kept(q) /\ pjMap'[q] = pjMap[q]
        /\ sess'[p].inv = "Incoming" /\ sess'[p].own = n /\ pjMap'[p] = n
        /\ \A d \in CallIds \ {n} : calls'[d] = calls[d]
    BY <1>14, <2>0 DEF IncomingCall, Kept, Up, NewSession
  <2>2. Shown(n)'
    BY <2>1 DEF Live
  <2>3. \A c \in Known' : c = n \/ c \in Known
    BY <2>1 DEF Known
  <2>4. ASSUME NEW c \in Known', c \notin ended', c \notin lost' PROVE Shown(c)'
    <3>1. CASE c = n
      BY <2>2, <3>1
    <3>2. CASE c # n
      <4>1. Shown(c)
        BY <1>2, <2>1, <2>3, <2>4, <3>2
      <4> QED
        BY <1>12, <2>1, <4>1
    <3> QED
      BY <3>1, <3>2
  <2> QED
    BY <1>3, <2>4
<1>15. ASSUME NEW p \in Slots, NEW t \in Threads, HangupStep(t, p) PROVE ShownIsLive'
  <2>1. /\ UNCHANGED <<calls, pjMap>> /\ \A q \in Slots \ {p} : Kept(q)
        /\ sess'[p].own = sess[p].own
        /\ cmd[t].op = "hangup" /\ cmd'[t].op = "report" /\ cmd'[t].slot = p
        /\ \A u \in Threads \ {t} : cmd'[u] = cmd[u]
    BY <1>15 DEF HangupStep, Command
  <2>2. ASSUME NEW c \in Known, Shown(c) PROVE Shown(c)'
    <3>1. ASSUME NEW q \in Slots, InSlot(c, q) PROVE Shown(c)'
      <4>1. CASE q = p
        BY <2>1, <3>1, <4>1
      <4>2. CASE q # p
        BY <2>1, <3>1, <4>2 DEF Kept, Up, Live
      <4> QED
        BY <4>1, <4>2
    <3>2. ASSUME NEW u \in Threads, Entering(c, u) PROVE Shown(c)'
      BY <2>1, <3>2
    <3>3. ASSUME NEW u \in Threads, NEW q \in Slots, Leaving(c, u, q) PROVE Shown(c)'
      BY <2>1, <3>3 DEF Kept, Up
    <3> QED
      BY <2>2, <3>1, <3>2, <3>3
  <2> QED
    BY <1>5, <2>1, <2>2
<1>16. ASSUME NEW p \in Slots, NEW t \in Threads, MadeStep(t, p) PROVE ShownIsLive'
  <2>1. /\ UNCHANGED pjMap /\ \A q \in Slots \ {p} : Kept(q)
        /\ cmd[t].op \notin {"inserted", "report"}
        /\ \A u \in Threads \ {t} : cmd'[u] = cmd[u]
        /\ ~Reporting(p) /\ ~Live(sess[p])
    BY <1>1, <1>16 DEF MadeStep, Handing, Starting, Allocatable, Reporting, ReportsAlone, Live
  <2>2. \A c \in CallIds : calls[c].state = "Absent" => calls'[c].state = "Absent"
    BY <1>6, <1>16 DEF MadeStep
  <2>3. ASSUME NEW c \in Known, Shown(c) PROVE Shown(c)'
    BY <2>1, <2>3 DEF Kept, Up, Live, Reporting
  <2> QED
    BY <1>5, <2>2, <2>3
<1>17. ASSUME NEW t \in Threads, CallsInsert(t) PROVE ShownIsLive'
  <2>1. /\ UNCHANGED <<sess, pjMap, ended, lost>>
        /\ cmd[t].op = "made" /\ cmd'[t].op = "inserted" /\ cmd'[t].call = cmd[t].call
        /\ \A u \in Threads \ {t} : cmd'[u] = cmd[u]
        /\ \A d \in CallIds \ {cmd[t].call} : calls'[d] = calls[d]
    BY <1>17 DEF CallsInsert, Continue, Command
  <2>2. \A c : Shown(c) => Shown(c)'
    BY <2>1 DEF Live
  <2>3. Shown(cmd[t].call)'
    BY <2>1
  <2>4. \A c \in Known' : c = cmd[t].call \/ c \in Known
    BY <2>1 DEF Known
  <2> QED
    BY <1>2, <1>3, <2>1, <2>2, <2>3, <2>4
<1>18. ASSUME NEW t \in Threads, MapInsert(t) PROVE ShownIsLive'
  <2>0. PICK p, n : p = cmd[t].slot /\ n = cmd[t].call
    OBVIOUS
  <2>1. /\ p \in Slots /\ cmd[t].op = "inserted" /\ pjMap[p] # n
        /\ cmd[t].call = n /\ cmd[t].slot = p
        /\ sess[p].own = n \/ sess[p].inv = "Null"
        /\ n \in lost \/ (sess[p].own = n /\ Heard(p))
    BY <1>18, <2>0 DEF MapInsert, IInv, HoldsSlot, HoldsNewCall, Starting, StartsHeard
  <2>2. /\ UNCHANGED <<calls, sess, ended, lost>> /\ pjMap'[p] = n
        /\ \A q \in Slots \ {p} : pjMap'[q] = pjMap[q]
        /\ \A u \in Threads \ {t} : cmd'[u] = cmd[u]
    BY <1>18, <2>1 DEF MapInsert, Finish
  <2>3. \A c \in CallIds : calls[c].state = "Absent" => calls'[c].state = "Absent"
    BY <2>2
  <2>4. ASSUME NEW c \in Known, c \notin lost', Shown(c) PROVE Shown(c)'
    <3>1. ASSUME NEW q \in Slots, InSlot(c, q) PROVE Shown(c)'
      <4>1. q # p
        BY <2>1, <3>1 DEF Live
      <4>2. InSlot(c, q)'
        BY <2>2, <3>1, <4>1 DEF Live
      <4> QED
        BY <4>2
    <3>2. ASSUME NEW u \in Threads, Entering(c, u) PROVE Shown(c)'
      <4>1. CASE u # t
        BY <2>2, <3>2, <4>1
      <4>2. CASE u = t
        <5>1. c = n /\ sess[p].own = c /\ Heard(p)
          BY <2>1, <2>2, <2>4, <3>2, <4>2
        <5>2. CASE Live(sess[p])
          <6>1. InSlot(c, p)'
            BY <2>2, <5>1, <5>2 DEF Live
          <6> QED
            BY <2>1, <6>1
        <5>3. CASE Reporting(p)
          <6>1. PICK r \in Threads : cmd[r].op = "report" /\ cmd[r].slot = p
            BY <5>3 DEF Reporting
          <6>2. r # t
            BY <2>1, <6>1
          <6> QED
            BY <2>1, <2>2, <5>1, <6>1, <6>2
        <5> QED
          BY <5>1, <5>2, <5>3 DEF Heard
      <4> QED
        BY <4>1, <4>2
    <3>3. ASSUME NEW u \in Threads, NEW q \in Slots, Leaving(c, u, q) PROVE Shown(c)'
      BY <2>1, <2>2, <3>3
    <3> QED
      BY <2>4, <3>1, <3>2, <3>3
  <2> QED
    BY <1>5, <2>3, <2>4
<1> QED
  BY <1>7, <1>8, <1>9, <1>10, <1>11, <1>13, <1>14, <1>15, <1>16, <1>17, <1>18
     DEF StepKind

\* Routed and StartsHeard are inductive relative to the other invariants, for
\* a pjsua that goes round its slots.
LEMMA HeldSlotsInvariant ==
  ASSUME ~QuickReuse
  PROVE  Spec => [](Routed /\ StartsHeard)
<1>1. Init => Routed /\ StartsHeard
  <2>1. Idle.op = "idle" /\ FreeSlot.own = NoCall
    BY DEF Idle, Doing, FreeSlot, NewSession
  <2> QED
    BY <2>1 DEF Init, Routed, StartsHeard, Starting
<1>2. IInv /\ AnswersAlone /\ LInv /\ Routed /\ StartsHeard /\ [Next]_vars
        => Routed' /\ StartsHeard'
  BY EveryStepKind, RoutedStep, StartsHeardStep DEF LInv
<1> QED
  BY <1>1, <1>2, Inductive, AnswersInvariant, LiveInvariant, PTL DEF Spec

\* A call the engine shows, that has not ended and has missed nothing, has a
\* live session whose callbacks reach it, or is on its way into or out of the
\* tables (cmd_call_start, pjsua_call_hangup); clients may name calls that
\* have ended.
THEOREM ShownHasSession ==
  ASSUME ~QuickReuse
  PROVE  Spec => []ShownIsLive
<1>1. Init => ShownIsLive
  <2>1. Absent.state = "Absent"
    BY DEF Absent, NewCall
  <2> QED
    BY <2>1 DEF Init, ShownIsLive, Known
<1>2. IInv /\ AnswersAlone /\ LInv /\ StartsHeard /\ ShownIsLive /\ [Next]_vars
        => ShownIsLive'
  BY EveryStepKind, ShownStep DEF LInv
<1> QED
  BY <1>1, <1>2, Inductive, AnswersInvariant, LiveInvariant, HeldSlotsInvariant, PTL
     DEF Spec

\* The only callbacks that miss their call are those that arrive before the
\* thread that made the call has entered it in both tables
\* (pjsip_on_call_state, cmd_call_start, engine_start_attended_xfer).
THEOREM OnlyEnteringLoses ==
  ASSUME ~QuickReuse
  PROVE  Spec => OnlyTheWindowLoses
<1> DEFINE Step == \A c \in lost' \ lost :
                     \E t \in Threads : cmd[t].call = c /\ cmd[t].op \in {"made", "inserted"}
<1>1. IInv /\ AnswersAlone /\ LInv /\ Routed /\ [Next]_vars => Step
  BY EveryStepKind, LossStep DEF LInv, Starting
<1>2. IInv /\ AnswersAlone /\ LInv /\ Routed /\ [Next]_vars => [Step]_vars
  BY <1>1
<1> HIDE DEF Step
<1>3. Spec => [][Step]_vars
  BY <1>2, Inductive, AnswersInvariant, LiveInvariant, HeldSlotsInvariant, PTL DEF Spec
<1> QED
  BY <1>3 DEF OnlyTheWindowLoses, Step
=============================================================================
