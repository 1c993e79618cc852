-------------------------------- MODULE CallUi --------------------------------
(***************************************************************************)
(* The Flutter side of a call (app_flutter/lib), composed with the call    *)
(* table of EngineCalls: the CallStateChanged events on their way to       *)
(* EngineChannel, the calls the interface shows, the history it writes,    *)
(* the banner and the tones, and the buttons, which act on the engine.     *)
(*                                                                         *)
(*   evq     events pushed by the engine and not yet handled               *)
(*   ui      activeCalls: what the interface shows of each call            *)
(*   hist    the entries of the call history, by call                      *)
(*   banner  the call of the incoming-call banner (IncomingCallNotifier)   *)
(*   tones, ops   the tones AudioService is playing, and the chain of its  *)
(*           operations that have not run                                  *)
(*   picked  the command the Flutter thread is about to dispatch, and the  *)
(*           call the engine has picked for it                             *)
(*   past    history: what has happened to a call                          *)
(*                                                                         *)
(* Dart runs on the Flutter thread alone: nothing of it is handled while a *)
(* command is inside the engine.  A pushed call is in the event as the     *)
(* table has it, because both happen under CALLS; only a new call is       *)
(* pushed just before it is entered, when nobody else knows its id.        *)
(* Consultation calls and conferences are left out.                        *)
(***************************************************************************)
EXTENDS EngineCallsRegistry, Sequences, FiniteSets

CONSTANTS
  Flutter,     \* the thread that runs Dart, the only one that sends commands
  MaxEvents,   \* bound on evq, for what the remote party does
  MaxChain,    \* bound on the operations of ops
  MaxPresses   \* bound on the buttons pressed during calls

ASSUME CallUiAssumption ==
  /\ Flutter \in Threads
  /\ MaxEvents \in Nat \ {0}
  /\ MaxChain \in Nat \ {0}
  /\ MaxPresses \in Nat

VARIABLES evq, ui, hist, banner, tones, ops, picked, presses, past

dart == <<ui, hist, banner, tones, ops>>
uiVars == <<calls, pjMap, nextId, dnd, sess, cmd, ended, lost,
            evq, ui, hist, banner, tones, ops, picked, presses, past>>

-----------------------------------------------------------------------------
(* Values *)

\* A call as the interface shows it.  started stands for startedAt # null:
\* InCall has been shown since the call is shown.
Hidden == [shown |-> FALSE, call |-> Shown(Absent), started |-> FALSE]

Event(c, call) == [call |-> c, entry |-> Shown(call)]
Of(c) == {i \in DOMAIN evq : evq[i].call = c}

Results == {"Answered", "Missed", "Disconnected"}
Tones == {"ringtone", "ringback"}

Buttons == {"answer", "hangup", "hold", "mute"}
NoPick == [op |-> "none", call |-> NoCall, on |-> FALSE]
Pick(op, c, on) == [op |-> op, call |-> c, on |-> on]

\* "media": the media were negotiated, possibly early; "answered": the call was
\* accepted; "unheld": CallHold(false) was run on it; "late": a command was
\* run on it after it had ended.
Happened == {"media", "answered", "unheld", "late"}

-----------------------------------------------------------------------------
(* The engine pushes what its callbacks and commands change *)

Bug_PushesBefore(c) == evq' = Append(evq, Event(c, calls[c]))

\* push_call_state, with the entry as this step leaves it.
Push(c) == evq' = Append(evq, Event(c, calls'[c]))

Quiet == UNCHANGED evq

\* A callback for slot p pushes the call it is routed to, if any.
PushRouted(p) == IF pjMap[p] = NoCall THEN Quiet ELSE Push(pjMap[p])

\* An answer is reported if it gets as far as the 200 OK.
PushAnswered(p) ==
  IF sess'[p].inv = sess[p].inv THEN Quiet ELSE PushRouted(p)

\* What the sessions show of each call after a step, and the commands run on it.
Remember ==
  past' = [c \in CallIds |->
    past[c]
    \cup {h \in {"media"} : \E p \in Slots : sess'[p].own = c /\ sess'[p].sdp}
    \cup {h \in {"answered"} : \E p \in Slots : sess'[p].own = c
            /\ sess'[p].inv \in {"Accepted", "Connecting", "Confirmed"}}]

ThreadPushes(t) ==
  \/ CallsInsert(t) /\ Push(cmd[t].call)
  \/ MapInsert(t) /\ Quiet
  \/ LogFailure(t) /\ Quiet
  \/ PjAnswer(t) /\ PushAnswered(cmd[t].slot)
  \/ AnswerSent(t) /\ PushAnswered(cmd[t].slot)
  \/ PjHangup(t) /\ Quiet
  \/ HangupReported(t) /\ PushRouted(cmd[t].slot)
  \/ PjHold(t) /\ Quiet
  \/ PjMute(t) /\ Quiet

WorkerPushes(p) ==
  \/ IncomingRejected(p) /\ PushRouted(p)
  \/ IncomingUnknownAccount(p) /\ Quiet
  \/ IncomingCall(p) /\ Push(nextId)
  \/ Early(p) /\ PushRouted(p)
  \/ EarlyMedia(p) /\ Quiet
  \/ MediaReport(p) /\ PushRouted(p)
  \/ Accepted(p) /\ PushRouted(p)
  \/ AcceptedMedia(p) /\ Quiet
  \/ Confirmed(p) /\ PushRouted(p)
  \/ ReinviteAnswered(p) /\ Quiet
  \/ ReinviteRefused(p) /\ Quiet
  \/ RemoteEnd(p) /\ PushRouted(p)
  \/ SlotFreed(p) /\ Quiet

\* The bound on evq: it keeps the remote party from doing more, and no one from
\* ending what they have begun.
Room(p) ==
  Len(evq) < MaxEvents \/ sess[p].inv \in {"Accepted", "Closing"} \/ sess[p].cb

EngineStep ==
  /\ \/ \E t \in Threads : ThreadPushes(t)
     \/ \E p \in Slots : Room(p) /\ WorkerPushes(p)
  /\ Remember
  /\ UNCHANGED <<dart, picked, presses>>

-----------------------------------------------------------------------------
(* The buttons.  engine_hangup, engine_set_hold, engine_set_mute and         *)
(* engine_answer_call pick a call of the table themselves, leave CALLS, and *)
(* dispatch a command that names it.                                        *)

DartRuns == cmd[Flutter] = Idle /\ picked = NoPick

\* activeCall: a call that is not held, or any call if all are held.
Foreground(c) ==
  /\ ui[c].shown
  /\ ~ui[c].call.on_hold \/ \A d \in CallIds : ui[d].shown => ui[d].call.on_hold

\* A mute counts for two in the bound: the interface only repeats its value.
Presses(op) == IF op = "mute" THEN 2 ELSE 1

Picks(op, c, on) ==
  /\ DartRuns /\ op \in Ops
  /\ presses + Presses(op) <= MaxPresses
  /\ presses' = presses + Presses(op)
  /\ picked' = Pick(op, c, on)
  /\ UNCHANGED <<vars, evq, ui, hist, tones, ops, past>>

Going == {c \in Known : calls[c].state # "Ended"}

AnswerButton(c) ==
  /\ banner # NoCall
  /\ calls[c].state = "Ringing" /\ calls[c].dir = "Incoming"
  /\ Picks("answer", c, FALSE)
  /\ UNCHANGED banner

\* onReject of the banner hangs up and clears it.
RejectButton(c) ==
  /\ banner # NoCall
  /\ Picks("hangup", c, FALSE)
  /\ banner' = NoCall

HangupButton(c) ==
  /\ \E f \in CallIds : ui[f].shown
  /\ Picks("hangup", c, FALSE)
  /\ UNCHANGED banner

\* The new value is the opposite of what the interface shows of its foreground
\* call, and is applied to the call the engine picks.
HoldButton(c) ==
  /\ \E f \in CallIds :
       /\ Foreground(f) /\ ui[f].call.state # "Ringing"
       /\ Picks("hold", c, ~ui[f].call.on_hold)
  /\ UNCHANGED banner

MuteButton(c) ==
  /\ \E f \in CallIds :
       /\ Foreground(f) /\ ui[f].call.state # "Ringing"
       /\ Picks("mute", c, ~ui[f].call.muted)
  /\ UNCHANGED banner

CallButton ==
  /\ DartRuns
  /\ CallStart(Flutter)
  /\ IF cmd' = cmd THEN Quiet ELSE PushRouted(cmd'[Flutter].slot)
  /\ Remember
  /\ UNCHANGED <<dart, picked, presses>>

Button ==
  \/ CallButton
  \/ \E c \in Going : \/ AnswerButton(c) \/ RejectButton(c) \/ HangupButton(c)
                      \/ HoldButton(c) \/ MuteButton(c)

\* The dispatched command, whatever has become of the call.
Dispatch ==
  LET c == picked.call IN
  /\ picked # NoPick
  /\ \/ picked.op = "answer" /\ CallAnswer(Flutter, c) /\ Quiet
     \/ picked.op = "hangup" /\ CallHangup(Flutter, c) /\ Quiet
     \/ picked.op = "hold" /\ CallHold(Flutter, c, picked.on) /\ Push(c)
     \/ picked.op = "mute" /\ CallMute(Flutter, c, picked.on) /\ Push(c)
  /\ picked' = NoPick
  /\ past' = [past EXCEPT ![c] = @
       \cup {h \in {"late"} : calls[c].state = "Ended"}
       \cup {h \in {"unheld"} : picked.op = "hold" /\ ~picked.on}]
  /\ UNCHANGED <<dart, presses>>

-----------------------------------------------------------------------------
(* EngineChannel and the listeners of FlutterEventBus, which keeps the order *)
(* of the events: its delay adds nothing to that of evq.                     *)

WasConnected(c) == ui[c].shown /\ (ui[c].call.state = "InCall" \/ ui[c].started)

Bug_LooksAtState(c, dir) ==
  IF ui[c].shown /\ ui[c].call.state = "InCall" THEN "Answered"
  ELSE IF dir = "Incoming" THEN "Missed" ELSE "Disconnected"

\* The result of a call that ended; the payload never has a sip_code.
Result(c, dir) ==
  IF WasConnected(c) THEN "Answered"
  ELSE IF dir = "Incoming" THEN "Missed" ELSE "Disconnected"

\* IncomingCallNotifier: any call that is answered or ends takes the banner
\* away.
BannerAfter(e) ==
  IF e.entry.state = "Ringing" /\ e.entry.dir = "Incoming" /\ ~dnd THEN e.call
  ELSE IF e.entry.state \in {"InCall", "Ended"} THEN NoCall
  ELSE banner

Bug_StopsIfPlaying(e) ==
  LET tone == IF e.entry.dir = "Incoming" THEN "ringtone" ELSE "ringback" IN
  IF e.entry.state = "Ringing"
  THEN IF tone \in tones THEN ops ELSE Append(ops, tone)
  ELSE IF e.entry.state \in {"InCall", "Ended"} /\ tones # {}
  THEN Append(ops, "stop") ELSE ops

\* AudioService looks at what is playing now and chains what is to be done.
OpsAfter(e) ==
  LET tone == IF e.entry.dir = "Incoming" THEN "ringtone" ELSE "ringback" IN
  IF e.entry.state = "Ringing"
  THEN IF tone \in tones THEN ops ELSE Append(ops, tone)
  ELSE IF e.entry.state \in {"InCall", "Ended"}
  THEN Append(ops, "stop") ELSE ops

Bug_ShowsEnded(e) ==
  [shown |-> TRUE, call |-> e.entry,
   started |-> ui[e.call].started \/ e.entry.state = "InCall"]

\* The entry of activeCalls.
ShownAfter(e) ==
  IF e.entry.state = "Ended" THEN Hidden
  ELSE [shown |-> TRUE, call |-> e.entry,
        started |-> ui[e.call].started \/ e.entry.state = "InCall"]

HandleEvent ==
  LET e == Head(evq)
      c == e.call
  IN
  /\ DartRuns
  /\ evq # <<>> /\ Len(ops) < MaxChain
  /\ evq' = Tail(evq)
  /\ ui' = [ui EXCEPT ![c] = ShownAfter(e)]
  /\ hist' = IF e.entry.state = "Ended" THEN
               [hist EXCEPT ![c] = Append(@, Result(c, e.entry.dir))]
             ELSE hist
  /\ banner' = BannerAfter(e)
  /\ ops' = OpsAfter(e)
  /\ UNCHANGED <<vars, tones, picked, presses, past>>

\* The next operation of the chain has had its effect.
RunAudio ==
  /\ DartRuns
  /\ ops # <<>>
  /\ ops' = Tail(ops)
  /\ tones' = IF Head(ops) = "stop" THEN {} ELSE tones \cup {Head(ops)}
  /\ UNCHANGED <<vars, evq, ui, hist, banner, picked, presses, past>>

-----------------------------------------------------------------------------
UiInit ==
  /\ Init
  /\ evq = <<>> /\ ops = <<>>
  /\ ui = [c \in CallIds |-> Hidden]
  /\ hist = [c \in CallIds |-> <<>>]
  /\ banner = NoCall
  /\ tones = {}
  /\ picked = NoPick
  /\ presses = 0
  /\ past = [c \in CallIds |-> {}]

UiNext ==
  \/ EngineStep
  \/ Button
  \/ Dispatch
  \/ HandleEvent
  \/ RunAudio

UiSpec == UiInit /\ [][UiNext]_uiVars

-----------------------------------------------------------------------------
(* Properties *)

\* Every variable of this module has its type.
UiTypeOK ==
  /\ \A i \in DOMAIN evq : evq[i].call \in CallIds
  /\ \A c \in CallIds :
       ui[c].shown => ui[c].call.state \in CallState \ {"Ended"}
  /\ \A c \in CallIds : \A i \in DOMAIN hist[c] : hist[c][i] \in Results
  /\ banner \in CallIds \cup {NoCall}
  /\ tones \subseteq Tones
  /\ picked.op \in Buttons \cup {"none"}
  /\ picked.call \in CallIds <=> picked # NoPick
  /\ past \in [CallIds -> SUBSET Happened]

\* The interface shows the table, late by the events on their way: the last
\* event of a call in flight, or if there is none what activeCalls has, is the
\* entry of CALLS, although a new call is pushed before it is entered, a
\* command may reach a call that has ended, and callbacks of an earlier call on
\* the slot go to whatever call the map names.
UiFollowsEngine ==
  \A c \in CallIds :
    IF Of(c) # {}
    THEN \E i \in Of(c) : /\ \A j \in Of(c) : j <= i
                          /\ evq[i].entry = Shown(calls[c])
    ELSE IF ui[c].shown THEN ui[c].call = Shown(calls[c])
    ELSE calls[c].state \in {"Absent", "Ended"}

\* The history has one entry for each call that ended and it says what came of
\* the call: Answered if it was accepted, however often it was held and
\* whatever state it ended in, and only if its media had started or somebody
\* took it off hold unanswered.  Excepted are a call that lost a callback while
\* it was being entered, and one that a command reached after its end
\* (engine_set_mute and engine_set_hold leave CALLS between pick and dispatch):
\* that call is entered twice or shown again.
HistoryIsTrue ==
  \A c \in CallIds :
    /\ c \in ended /\ Of(c) = {} => hist[c] # <<>>
    /\ "late" \notin past[c] => Len(hist[c]) <= 1
    /\ hist[c] = <<"Answered">> /\ c \notin lost
         => past[c] \cap {"media", "answered", "unheld"} # {}
    /\ hist[c] # <<>> /\ "answered" \in past[c] /\ c \notin lost
         => hist[c][1] = "Answered"

\* Once everything that was pushed has been handled the banner is that of a
\* call that is still ringing, or was put on hold while it rang, and the
\* ringtone and the ringback play only for such a call: no order in which
\* calls end, are rejected and follow each other leaves one of them on.
FeedbackEnds ==
  evq = <<>> =>
    LET waiting == {c \in Known : calls[c].state \in {"Ringing", "OnHold"}} IN
    /\ banner # NoCall => banner \in waiting
    /\ ops = <<>> /\ "ringtone" \in tones
         => \E c \in waiting : calls[c].dir = "Incoming"
    /\ ops = <<>> /\ "ringback" \in tones
         => \E c \in waiting : calls[c].dir = "Outgoing"
===============================================================================
