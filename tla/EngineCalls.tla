----------------------------- MODULE EngineCalls -----------------------------
(***************************************************************************)
(* The call table of the Rust engine (core_rust/src/lib.rs) between the    *)
(* threads that send it commands (the Flutter thread and one thread for    *)
(* each client of the named pipe) and the PJSIP callbacks that arrive      *)
(* through the C shim (core_rust/src/shim/pjsip_shim.c).                   *)
(*                                                                         *)
(*   calls   CALLS: our call id -> Call                                    *)
(*   pjMap   PJSIP_CALL_MAP: pjsua slot -> our call id                     *)
(*   nextId  NEXT_CALL_ID                                                  *)
(*   dnd     g_dnd_enabled of the shim                                     *)
(*   sess    the pjsua call slots, as far as the shim and its callbacks    *)
(*           can tell them apart (external)                                *)
(*   cmd     where each command thread is between two critical sections    *)
(*   ended, lost   history: the calls a callback has moved to Ended, and   *)
(*           the calls whose session had a callback that did not reach     *)
(*           their own entry of the table                                  *)
(*                                                                         *)
(* A callback is cut where it goes from the shim to the engine; what the   *)
(* two mutexes protect in the engine's half commutes with every command    *)
(* (README, "What is atomic").  A command is cut where the code leaves a   *)
(* mutex or enters PJSIP.                                                  *)
(*                                                                         *)
(* A definition named Bug_... is never used by the specification: it is a  *)
(* mistaken form of the definition after it, kept to show that a property  *)
(* fails when the code has that mistake.                                   *)
(***************************************************************************)
EXTENDS Naturals

CONSTANTS
  Slots,       \* the pjsua call slots, 0 .. max_calls - 1
  Threads,     \* the threads that send commands
  MaxCallId,   \* bound on NEXT_CALL_ID
  Ops,         \* the kinds of commands and remote behaviour of a run
  QuickReuse,  \* may pjsua hand out a slot a command still holds the id of?
  StaleIds,    \* may a client name a call that has already ended?
  NoSlot

AllOps == {"start", "answer", "hangup", "hold", "mute", "attended", "merge",
           "dnd", "early", "lateOffer", "remoteHold"}

ASSUME CallsAssumption ==
  /\ MaxCallId \in Nat \ {0}
  /\ NoSlot \notin Slots
  /\ Ops \subseteq AllOps
  /\ QuickReuse \in BOOLEAN
  /\ StaleIds \in BOOLEAN

VARIABLES calls, pjMap, nextId, dnd, sess, cmd, ended, lost

table == <<calls, pjMap, ended, lost>>
vars == <<calls, pjMap, nextId, dnd, sess, cmd, ended, lost>>

-----------------------------------------------------------------------------
(* Values *)

CallIds == 1 .. MaxCallId
NoCall == 0

CallState == {"Ringing", "InCall", "OnHold", "Ended"}
Direction == {"Outgoing", "Incoming"}

\* An entry of CALLS; state "Absent" where the table has no entry.  resumed
\* stands for last_resumed_at.is_some(): the talk-time clock is running.
Call == [state : CallState \cup {"Absent"}, dir : Direction,
         on_hold : BOOLEAN, muted : BOOLEAN, resumed : BOOLEAN,
         pj : Slots \cup {NoSlot}]

NewCall(dir, p) ==
  [state |-> "Ringing", dir |-> dir, on_hold |-> FALSE, muted |-> FALSE,
   resumed |-> FALSE, pj |-> p]

Absent == [NewCall("Outgoing", NoSlot) EXCEPT !.state = "Absent"]

Known == {c \in CallIds : calls[c].state # "Absent"}

\* The calls a command may name: the first one that has not ended (all the
\* engine_* functions), or any id the client still remembers.
Named == {c \in Known : StaleIds \/ calls[c].state # "Ended"}

\* A pjsua call.  inv is the INVITE session's state: "Null" is a free slot,
\* "Accepted" a call whose last 200 OK or ACK the worker thread is handling,
\* "Connecting" an answered incoming call that waits for the ACK,
\* "Closing" a call hung up here whose slot is still in use.  sdp: the first
\* offer and answer are done; held, remHold: this side, the remote side
\* stopped the media; pend: the re-INVITE in progress; active: the status of
\* the media at the last media callback; cb: the shim has handled that callback
\* and the engine has not; mic: the bridge sends the microphone to the call;
\* own: the entry of CALLS made for the session.
InvState == {"Null", "Calling", "Incoming", "Early", "Accepted", "Connecting",
             "Confirmed", "Closing"}
Session == [inv : InvState, dir : Direction, own : CallIds \cup {NoCall},
            sdp : BOOLEAN, held : BOOLEAN, remHold : BOOLEAN,
            pend : {"none", "hold", "unhold", "remote"}, active : BOOLEAN,
            cb : BOOLEAN, mic : BOOLEAN]

NewSession(inv, dir, c) ==
  [inv |-> inv, dir |-> dir, own |-> c, sdp |-> FALSE, held |-> FALSE,
   remHold |-> FALSE, pend |-> "none", active |-> FALSE, cb |-> FALSE,
   mic |-> FALSE]

FreeSlot == NewSession("Null", "Outgoing", NoCall)

Live(s) == s.inv \notin {"Null", "Closing"}
MediaActive(s) == Live(s) /\ s.active

Steps == {"idle", "made", "inserted", "answer", "answering", "hangup",
          "report", "hold", "unhold", "mute", "unmute", "attended", "merge",
          "failed"}
Command == [op : Steps, call : CallIds \cup {NoCall},
            slot : Slots \cup {NoSlot}, other : Slots \cup {NoSlot}]

Doing(op, c, p) == [op |-> op, call |-> c, slot |-> p, other |-> NoSlot]
Idle == Doing("idle", NoCall, NoSlot)

\* Thread t, having nothing to do, starts a command of kind op.
Accepts(t, op) == op \in Ops /\ cmd[t] = Idle
Finish(t) == cmd' = [cmd EXCEPT ![t] = Idle]
Continue(t, op) == cmd' = [cmd EXCEPT ![t].op = op]

-----------------------------------------------------------------------------
(* The callbacks of the engine: pjsip_on_call_state, pjsip_on_call_media *)

\* A call after on_call_state reported new: the clock starts on the way into
\* InCall and stops on the way from InCall to Ended.
Reported(call, new) ==
  [call EXCEPT !.state = new,
     !.resumed = IF new = "InCall" /\ call.state # "InCall" THEN TRUE
                 ELSE IF new = "Ended" /\ call.state = "InCall" THEN FALSE
                 ELSE @]

Bug_KeepsEnded(p, new) == pjMap
Bug_TakesAlways(p, new) == [pjMap EXCEPT ![p] = NoCall]

\* PJSIP_CALL_MAP after the callback has taken its call from it: the entry
\* is removed if the session is over.
Unrouted(p, new) == IF new = "Ended" THEN [pjMap EXCEPT ![p] = NoCall] ELSE pjMap

\* on_call_state for slot p, whose session was made for call own.  A slot
\* that is not in the map is an "unknown pj_call_id" and changes nothing.
OnCallState(p, own, new) ==
  LET c == pjMap[p] IN
  /\ calls' = IF c = NoCall THEN calls
              ELSE [calls EXCEPT ![c] = Reported(@, new)]
  /\ pjMap' = Unrouted(p, new)
  /\ ended' = IF c # NoCall /\ new = "Ended" THEN ended \cup {c} ELSE ended
  /\ lost' = IF own \notin {NoCall, c} /\ new # "Ringing"
             THEN lost \cup {own} ELSE lost

Bug_ClearsHold(call, active) ==
  [call EXCEPT !.state = IF active THEN "InCall" ELSE "OnHold",
               !.on_hold = ~active, !.resumed = active /\ @]

\* A call after on_call_media reported that its audio is active, or not.
MediaReported(call, active) ==
  IF active
  THEN [call EXCEPT !.state = IF call.on_hold THEN "OnHold" ELSE "InCall"]
  ELSE [call EXCEPT !.state = "OnHold", !.on_hold = TRUE, !.resumed = FALSE]

OnCallMedia(p, own, active) ==
  LET c == pjMap[p] IN
  /\ calls' = IF c = NoCall THEN calls
              ELSE [calls EXCEPT ![c] = MediaReported(@, active)]
  /\ lost' = IF own \notin {NoCall, c} THEN lost \cup {own} ELSE lost
  /\ UNCHANGED <<pjMap, ended>>

\* pjsua_call_set_hold and pjsua_call_reinvite refuse a call that is not
\* confirmed or has a re-INVITE in progress; the shim returns the error and
\* the engine ignores it.
Reinvited(s, kind) ==
  IF s.inv = "Confirmed" /\ s.pend = "none"
  THEN [s EXCEPT !.pend = kind, !.held = (kind = "hold")]
  ELSE s

\* Session s when on_call_media_state of the shim has run: whenever the audio
\* is active the microphone is connected, muted or not.
Bridged(s, active) == [s EXCEPT !.active = active, !.mic = active, !.cb = TRUE]

Bug_NoRemute(s, c) ==
  LET again == [s EXCEPT !.cb = FALSE]
      reheld == IF s.active /\ c # NoCall /\ calls[c].on_hold
                THEN Reinvited(again, "hold") ELSE again
  IN  [reheld EXCEPT !.pend = IF s.pend \in {"hold", "unhold"} THEN "none" ELSE @]

\* Session s when pjsip_on_call_media has run for call c: the microphone is
\* taken away again from a muted call, and a call with on_hold is held again.
\* Our re-INVITE, if that is what was answered, is over only then.
AfterMedia(s, c) ==
  LET again == [s EXCEPT !.cb = FALSE,
                         !.mic = @ /\ ~(c # NoCall /\ calls[c].muted)]
      reheld == IF s.active /\ c # NoCall /\ calls[c].on_hold
                THEN Reinvited(again, "hold") ELSE again
  IN  [reheld EXCEPT !.pend = IF s.pend \in {"hold", "unhold"} THEN "none" ELSE @]

-----------------------------------------------------------------------------
(* The dialog lock and the slots *)

\* Someone is inside a pjsua call or a callback that holds the dialog lock.
Locked(p) ==
  \/ sess[p].inv = "Accepted" \/ sess[p].cb
  \/ \E t \in Threads : cmd[t].slot = p /\ cmd[t].op \in {"answering", "report"}

\* alloc_call_id: a slot that is free; it goes round all slots, so that a
\* slot a command still holds comes back at once only with QuickReuse.
Allocatable(p) ==
  /\ sess[p].inv = "Null"
  /\ QuickReuse \/ \A t \in Threads : p \notin {cmd[t].slot, cmd[t].other}

-----------------------------------------------------------------------------
(* Commands *)

\* pjsua returns an error, above all PJ_ETIMEDOUT: acquire_call gives up when
\* it has not had PJSUA_LOCK and the dialog lock together for two seconds.
PjFails(t) == Continue(t, "failed")

\* cmd_call_answer and cmd_call_hangup log the error and return Ok.
LogFailure(t) ==
  /\ cmd[t].op = "failed"
  /\ Finish(t)
  /\ UNCHANGED <<table, nextId, dnd, sess>>

\* CallStart: NEXT_CALL_ID is taken first and is lost if pd_call_make fails.
\* On success pjsua has already reported CALLING from inside the call.
CallMade(t, p) ==
  /\ sess' = [sess EXCEPT ![p] = NewSession("Calling", "Outgoing", nextId)]
  /\ OnCallState(p, nextId, "Ringing")
  /\ cmd' = [cmd EXCEPT ![t] = Doing("made", nextId, p)]

Bug_StartUnchecked(t) ==
  /\ Accepts(t, "start")
  /\ nextId \in CallIds
  /\ nextId' = nextId + 1
  /\ \/ cmd' = [cmd EXCEPT ![t] = Doing("made", nextId, NoSlot)]
        /\ UNCHANGED <<table, sess>>
     \/ \E p \in Slots : Allocatable(p) /\ CallMade(t, p)
  /\ UNCHANGED dnd

CallStart(t) ==
  /\ Accepts(t, "start")
  /\ nextId \in CallIds
  /\ nextId' = nextId + 1
  /\ \/ UNCHANGED <<table, sess, cmd>>
     \/ \E p \in Slots : Allocatable(p) /\ CallMade(t, p)
  /\ UNCHANGED dnd

CallsInsert(t) ==
  /\ cmd[t].op = "made"
  /\ calls' = [calls EXCEPT ![cmd[t].call] = NewCall("Outgoing", cmd[t].slot)]
  /\ Continue(t, "inserted")
  /\ UNCHANGED <<pjMap, nextId, dnd, sess, ended, lost>>

MapInsert(t) ==
  /\ cmd[t].op = "inserted"
  /\ pjMap' = [pjMap EXCEPT ![cmd[t].slot] = cmd[t].call]
  /\ Finish(t)
  /\ UNCHANGED <<calls, nextId, dnd, sess, ended, lost>>

\* CallAnswer reads the slot under CALLS and answers without the lock.
CallAnswer(t, c) ==
  /\ Accepts(t, "answer")
  /\ cmd' = [cmd EXCEPT ![t] = Doing("answer", c, calls[c].pj)]
  /\ UNCHANGED <<table, nextId, dnd, sess>>

\* pjsua_call_answer: nothing to answer; or it fails; or the offer of the
\* INVITE is negotiated, if it is not yet, which reports the media before the
\* call is Connecting; or the INVITE had no offer and the answer carries it.
PjAnswer(t) ==
  LET p == cmd[t].slot
      s == sess[p]
  IN
  /\ cmd[t].op = "answer"
  /\ \/ PjFails(t) /\ UNCHANGED <<table, sess>>
     \/ /\ ~Locked(p)
        /\ s.inv # "Incoming"
        /\ Finish(t)
        /\ UNCHANGED <<table, sess>>
     \/ /\ ~Locked(p)
        /\ s.inv = "Incoming"
        /\ sess' = IF s.sdp THEN sess
                   ELSE [sess EXCEPT ![p] = Bridged([s EXCEPT !.sdp = TRUE], TRUE)]
        /\ Continue(t, "answering")
        /\ UNCHANGED table
     \/ /\ ~Locked(p)
        /\ s.inv = "Incoming" /\ ~s.sdp
        /\ "lateOffer" \in Ops
        /\ sess' = [sess EXCEPT ![p].inv = "Connecting"]
        /\ OnCallState(p, s.own, "InCall")
        /\ Finish(t)
  /\ UNCHANGED <<nextId, dnd>>

Bug_ConnectingRings(t) ==
  LET p == cmd[t].slot IN
  /\ cmd[t].op = "answering"
  /\ ~sess[p].cb
  /\ \/ PjFails(t) /\ UNCHANGED <<table, sess>>
     \/ /\ sess' = [sess EXCEPT ![p].inv = "Connecting"]
        /\ OnCallState(p, sess[p].own, "Ringing")
        /\ Finish(t)
  /\ UNCHANGED <<nextId, dnd>>

\* The 200 OK, once the media callback has returned; or it cannot be sent.
AnswerSent(t) ==
  LET p == cmd[t].slot IN
  /\ cmd[t].op = "answering"
  /\ ~sess[p].cb
  /\ \/ PjFails(t) /\ UNCHANGED <<table, sess>>
     \/ /\ sess' = [sess EXCEPT ![p].inv = "Connecting"]
        /\ OnCallState(p, sess[p].own, "InCall")
        /\ Finish(t)
  /\ UNCHANGED <<nextId, dnd>>

CallHangup(t, c) ==
  /\ Accepts(t, "hangup")
  /\ cmd' = [cmd EXCEPT ![t] = Doing("hangup", c, calls[c].pj)]
  /\ UNCHANGED <<table, nextId, dnd, sess>>

\* A call that is not Confirmed is left to the remote party.
Bug_HangupIgnored(t) ==
  LET p == cmd[t].slot IN
  /\ cmd[t].op = "hangup"
  /\ \/ PjFails(t) /\ UNCHANGED sess
     \/ /\ ~Locked(p)
        /\ sess[p].inv = "Confirmed"
        /\ sess' = [sess EXCEPT ![p] =
                      NewSession("Closing", sess[p].dir, sess[p].own)]
        /\ Continue(t, "report")
     \/ ~Locked(p) /\ sess[p].inv # "Confirmed" /\ Finish(t) /\ UNCHANGED sess
  /\ UNCHANGED <<table, nextId, dnd>>

\* pjsua_call_hangup fails, or marks the call as hanging up, which is what
\* other threads see, and then reports DISCONNECTED at once.
PjHangup(t) ==
  LET p == cmd[t].slot IN
  /\ cmd[t].op = "hangup"
  /\ \/ PjFails(t) /\ UNCHANGED sess
     \/ /\ ~Locked(p) /\ Live(sess[p])
        /\ sess' = [sess EXCEPT ![p] =
                      NewSession("Closing", sess[p].dir, sess[p].own)]
        /\ Continue(t, "report")
     \/ ~Locked(p) /\ ~Live(sess[p]) /\ Finish(t) /\ UNCHANGED sess
  /\ UNCHANGED <<table, nextId, dnd>>

HangupReported(t) ==
  /\ cmd[t].op = "report"
  /\ OnCallState(cmd[t].slot, sess[cmd[t].slot].own, "Ended")
  /\ Finish(t)
  /\ UNCHANGED <<nextId, dnd, sess>>

\* cmd_call_hold changes the entry whatever state it is in, for the display,
\* and asks PJSIP without the lock; the result is ignored.
CallHold(t, c, hold) ==
  /\ Accepts(t, "hold")
  /\ calls' = [calls EXCEPT ![c].on_hold = hold, ![c].resumed = ~hold,
                            ![c].state = IF hold THEN "OnHold" ELSE "InCall"]
  /\ cmd' = [cmd EXCEPT ![t] = Doing(IF hold THEN "hold" ELSE "unhold",
                                     c, calls[c].pj)]
  /\ UNCHANGED <<pjMap, nextId, dnd, sess, ended, lost>>

PjHold(t) ==
  LET p == cmd[t].slot IN
  /\ cmd[t].op \in {"hold", "unhold"}
  /\ \/ UNCHANGED sess
     \/ ~Locked(p) /\ sess' = [sess EXCEPT ![p] = Reinvited(@, cmd[t].op)]
  /\ Finish(t)
  /\ UNCHANGED <<table, nextId, dnd>>

CallMute(t, c, muted) ==
  /\ Accepts(t, "mute")
  /\ calls' = [calls EXCEPT ![c].muted = muted]
  /\ cmd' = [cmd EXCEPT ![t] = Doing(IF muted THEN "mute" ELSE "unmute",
                                     c, calls[c].pj)]
  /\ UNCHANGED <<pjMap, nextId, dnd, sess, ended, lost>>

PjMute(t) ==
  LET p == cmd[t].slot IN
  /\ cmd[t].op \in {"mute", "unmute"}
  /\ sess' = [sess EXCEPT ![p].mic = IF MediaActive(sess[p])
                                     THEN cmd[t].op = "unmute" ELSE @]
  /\ Finish(t)
  /\ UNCHANGED <<table, nextId, dnd>>

\* engine_start_attended_xfer: the call is held (the result is only logged),
\* then the consultation call is made; NEXT_CALL_ID is taken only if that
\* worked, and the entries are made as for CallStart.
StartAttendedXfer(t, c) ==
  /\ Accepts(t, "attended")
  /\ cmd' = [cmd EXCEPT ![t] = Doing("attended", c, calls[c].pj)]
  /\ UNCHANGED <<table, nextId, dnd, sess>>

PjStartAttendedXfer(t) ==
  LET p == cmd[t].slot IN
  /\ cmd[t].op = "attended"
  /\ \E s \in {sess[p]} \cup {h \in {Reinvited(sess[p], "hold")} : ~Locked(p)} :
       \/ /\ sess' = [sess EXCEPT ![p] = s]
          /\ Finish(t)
          /\ UNCHANGED <<table, nextId>>
       \/ /\ s.inv # "Null"
          /\ nextId \in CallIds
          /\ nextId' = nextId + 1
          /\ \E q \in Slots :
               /\ Allocatable(q)
               /\ sess' = [sess EXCEPT ![p] = s,
                             ![q] = NewSession("Calling", "Outgoing", nextId)]
               /\ OnCallState(q, nextId, "Ringing")
               /\ cmd' = [cmd EXCEPT ![t] = Doing("made", nextId, q)]
  /\ UNCHANGED dnd

\* engine_complete_xfer: the REFER to call a changes nothing here, then the
\* consultation call b is hung up.
CompleteXfer(t, a, b) ==
  /\ Accepts(t, "attended")
  /\ cmd' = [cmd EXCEPT ![t] = Doing("hangup", b, calls[b].pj)]
  /\ UNCHANGED <<table, nextId, dnd, sess>>

\* engine_merge_conference connects the two calls to each other and both to
\* the microphone, muted or not, if the audio of both is active.
MergeConference(t, a, b) ==
  /\ Accepts(t, "merge")
  /\ cmd' = [cmd EXCEPT ![t] = [Doing("merge", a, calls[a].pj)
                                  EXCEPT !.other = calls[b].pj]]
  /\ UNCHANGED <<table, nextId, dnd, sess>>

PjMergeConference(t) ==
  LET pair == {cmd[t].slot, cmd[t].other}
      bridged == \A p \in pair : MediaActive(sess[p])
  IN
  /\ cmd[t].op = "merge"
  /\ sess' = [p \in Slots |-> IF p \in pair /\ bridged
                              THEN [sess[p] EXCEPT !.mic = TRUE] ELSE sess[p]]
  /\ Finish(t)
  /\ UNCHANGED <<table, nextId, dnd>>

\* One store of an int that the worker thread reads without a lock.
SetGlobalDnd(t) ==
  /\ Accepts(t, "dnd")
  /\ dnd' = ~dnd
  /\ UNCHANGED <<table, nextId, sess, cmd>>

-----------------------------------------------------------------------------
(* The worker thread: what the remote party does, and its callbacks *)

Bug_OnlyConfirmed(p) == \E q \in Slots \ {p} : sess[q].inv = "Confirmed"
OtherLiveCall(p) == \E q \in Slots \ {p} : Live(sess[q])

\* An INVITE.  The shim answers 486 under DND or when busy, which reports
\* DISCONNECTED for a call nobody knows; a call for an account the engine
\* does not know is left alone; any other call enters the table.
IncomingRejected(p) ==
  /\ Allocatable(p)
  /\ dnd \/ OtherLiveCall(p)
  /\ sess' = [sess EXCEPT ![p] = NewSession("Closing", "Incoming", NoCall)]
  /\ OnCallState(p, NoCall, "Ended")
  /\ UNCHANGED <<nextId, dnd, cmd>>

IncomingUnknownAccount(p) ==
  /\ Allocatable(p)
  /\ ~dnd /\ ~OtherLiveCall(p)
  /\ sess' = [sess EXCEPT ![p] = NewSession("Incoming", "Incoming", NoCall)]
  /\ UNCHANGED <<table, nextId, dnd, cmd>>

Bug_IncomingUnmapped(p) ==
  /\ Allocatable(p)
  /\ ~dnd /\ ~OtherLiveCall(p)
  /\ nextId \in CallIds
  /\ nextId' = nextId + 1
  /\ sess' = [sess EXCEPT ![p] = NewSession("Incoming", "Incoming", nextId)]
  /\ calls' = [calls EXCEPT ![nextId] = NewCall("Incoming", p)]
  /\ UNCHANGED <<dnd, cmd, pjMap, ended, lost>>

IncomingCall(p) ==
  /\ Allocatable(p)
  /\ ~dnd /\ ~OtherLiveCall(p)
  /\ nextId \in CallIds
  /\ nextId' = nextId + 1
  /\ sess' = [sess EXCEPT ![p] = NewSession("Incoming", "Incoming", nextId)]
  /\ calls' = [calls EXCEPT ![nextId] = NewCall("Incoming", p)]
  /\ pjMap' = [pjMap EXCEPT ![p] = nextId]
  /\ UNCHANGED <<dnd, cmd, ended, lost>>

\* Every 18x to an outgoing call is reported; the first one that brings an
\* answer starts the media.
Early(p) ==
  /\ "early" \in Ops
  /\ sess[p].inv \in {"Calling", "Early"}
  /\ ~Locked(p)
  /\ sess' = [sess EXCEPT ![p].inv = "Early"]
  /\ OnCallState(p, sess[p].own, "Ringing")
  /\ UNCHANGED <<nextId, dnd, cmd>>

EarlyMedia(p) ==
  /\ sess[p].inv = "Early"
  /\ ~sess[p].sdp
  /\ ~Locked(p)
  /\ sess' = [sess EXCEPT ![p] = Bridged([@ EXCEPT !.sdp = TRUE], TRUE)]
  /\ UNCHANGED <<table, nextId, dnd, cmd>>

\* The engine's half of a media callback, on whichever thread negotiated.
MediaReport(p) ==
  /\ sess[p].cb
  /\ sess' = [sess EXCEPT ![p] = AfterMedia(@, pjMap[p])]
  /\ OnCallMedia(p, sess[p].own, sess[p].active)
  /\ UNCHANGED <<nextId, dnd, cmd>>

\* The 200 OK to an outgoing call: CONNECTING, the media unless it has
\* started early, and CONFIRMED once the ACK is sent, under one dialog lock.
Accepted(p) ==
  /\ sess[p].inv \in {"Calling", "Early"}
  /\ ~Locked(p)
  /\ sess' = [sess EXCEPT ![p].inv = "Accepted"]
  /\ OnCallState(p, sess[p].own, "InCall")
  /\ UNCHANGED <<nextId, dnd, cmd>>

\* The answer in the 200 OK, or in the ACK of a call answered with an offer.
AcceptedMedia(p) ==
  /\ sess[p].inv \in {"Accepted", "Connecting"}
  /\ ~sess[p].sdp
  /\ sess' = [sess EXCEPT ![p] =
                Bridged([@ EXCEPT !.sdp = TRUE, !.inv = "Accepted"], TRUE)]
  /\ UNCHANGED <<table, nextId, dnd, cmd>>

Confirmed(p) ==
  /\ sess[p].inv \in {"Accepted", "Connecting"}
  /\ sess[p].sdp /\ ~sess[p].cb
  /\ sess' = [sess EXCEPT ![p].inv = "Confirmed"]
  /\ OnCallState(p, sess[p].own, "InCall")
  /\ UNCHANGED <<nextId, dnd, cmd>>

\* The 200 OK to our re-INVITE, which is still in progress while the media
\* callback runs.
ReinviteAnswered(p) ==
  LET s == sess[p]
      active == ~s.held /\ ~s.remHold
  IN
  /\ s.pend \in {"hold", "unhold"}
  /\ ~Locked(p)
  /\ sess' = [sess EXCEPT ![p] = Bridged(s, active)]
  /\ UNCHANGED <<table, nextId, dnd, cmd>>

ReinviteRefused(p) ==
  /\ sess[p].pend \in {"hold", "unhold"}
  /\ ~Locked(p)
  /\ sess' = [sess EXCEPT ![p].held = (sess[p].pend = "unhold"),
                          ![p].pend = "none"]
  /\ UNCHANGED <<table, nextId, dnd, cmd>>

\* A re-INVITE of the remote party that stops or resumes the media, and the
\* ACK to our answer.
RemoteReinvite(p) ==
  LET s == [sess[p] EXCEPT !.remHold = ~@, !.pend = "remote"]
      active == ~s.held /\ ~s.remHold
  IN
  /\ "remoteHold" \in Ops
  /\ sess[p].inv = "Confirmed"
  /\ sess[p].pend = "none"
  /\ ~Locked(p)
  /\ sess' = [sess EXCEPT ![p] = Bridged(s, active)]
  /\ UNCHANGED <<table, nextId, dnd, cmd>>

RemoteAck(p) ==
  /\ sess[p].pend = "remote"
  /\ ~Locked(p)
  /\ sess' = [sess EXCEPT ![p].pend = "none"]
  /\ UNCHANGED <<table, nextId, dnd, cmd>>

\* A final response, a CANCEL, a BYE or a timeout of a call that is not
\* being hung up here.
RemoteEnd(p) ==
  /\ Live(sess[p])
  /\ ~Locked(p)
  /\ sess' = [sess EXCEPT ![p] = FreeSlot]
  /\ OnCallState(p, sess[p].own, "Ended")
  /\ UNCHANGED <<nextId, dnd, cmd>>

\* The session of a call hung up here is over; its callbacks are suppressed.
SlotFreed(p) ==
  /\ sess[p].inv = "Closing"
  /\ ~Locked(p)
  /\ sess' = [sess EXCEPT ![p] = FreeSlot]
  /\ UNCHANGED <<table, nextId, dnd, cmd>>

-----------------------------------------------------------------------------
Init ==
  /\ calls = [c \in CallIds |-> Absent]
  /\ pjMap = [p \in Slots |-> NoCall]
  /\ nextId = 1
  /\ dnd = FALSE
  /\ sess = [p \in Slots |-> FreeSlot]
  /\ cmd = [t \in Threads |-> Idle]
  /\ ended = {}
  /\ lost = {}

\* What a thread that is inside a command does next.
ThreadStep(t) ==
  \/ CallsInsert(t)
  \/ MapInsert(t)
  \/ LogFailure(t)
  \/ PjAnswer(t)
  \/ AnswerSent(t)
  \/ PjHangup(t)
  \/ HangupReported(t)
  \/ PjHold(t)
  \/ PjMute(t)
  \/ PjStartAttendedXfer(t)
  \/ PjMergeConference(t)

NewCommand(t) ==
  \/ CallStart(t)
  \/ SetGlobalDnd(t)
  \/ \E c \in Named :
       \/ CallAnswer(t, c)
       \/ CallHangup(t, c)
       \/ StartAttendedXfer(t, c)
       \/ \E on \in BOOLEAN : CallHold(t, c, on) \/ CallMute(t, c, on)
       \/ \E b \in Named : CompleteXfer(t, c, b) \/ MergeConference(t, c, b)

WorkerStep(p) ==
  \/ IncomingRejected(p)
  \/ IncomingUnknownAccount(p)
  \/ IncomingCall(p)
  \/ Early(p)
  \/ EarlyMedia(p)
  \/ MediaReport(p)
  \/ Accepted(p)
  \/ AcceptedMedia(p)
  \/ Confirmed(p)
  \/ ReinviteAnswered(p)
  \/ ReinviteRefused(p)
  \/ RemoteReinvite(p)
  \/ RemoteAck(p)
  \/ RemoteEnd(p)
  \/ SlotFreed(p)

Next ==
  \/ \E t \in Threads : ThreadStep(t) \/ NewCommand(t)
  \/ \E p \in Slots : WorkerStep(p)

Spec == Init /\ [][Next]_vars

\* A thread finishes the command it is in, a media callback reaches the engine,
\* the worker thread handles a 200 OK to its end, and pjsua frees the slot of a
\* call that was hung up.
AcceptedStep(p) ==
  sess[p].inv = "Accepted" /\ (AcceptedMedia(p) \/ Confirmed(p))

Fairness ==
  /\ \A t \in Threads : WF_vars(ThreadStep(t))
  /\ \A p \in Slots : /\ WF_vars(MediaReport(p))
                      /\ WF_vars(AcceptedStep(p)) /\ WF_vars(SlotFreed(p))

FairSpec == Spec /\ Fairness

-----------------------------------------------------------------------------
(* Properties *)

\* Every variable has its type, and every call in the table was wired to a
\* pjsua slot (pjsip_call_id is Some: a failed pd_call_make enters nothing).
TypeOK ==
  /\ calls \in [CallIds -> Call]
  /\ pjMap \in [Slots -> CallIds \cup {NoCall}]
  /\ nextId \in 1 .. (MaxCallId + 1)
  /\ dnd \in BOOLEAN
  /\ sess \in [Slots -> Session]
  /\ cmd \in [Threads -> Command]
  /\ ended \subseteq CallIds
  /\ lost \subseteq CallIds
  /\ \A c \in Known : calls[c].pj \in Slots

\* PJSIP_CALL_MAP and pjsip_call_id agree although two mutexes guard them and
\* a slot is used by one call after another: a callback for a slot is routed
\* to a call that was made on that slot and that has not ended yet, whatever
\* a late insert of a finished call or a quick reuse of the slot does.
RoutesToItsSlot ==
  \A p \in Slots :
    LET c == pjMap[p] IN
    c # NoCall => c \in Known /\ calls[c].pj = p /\ c \notin ended

\* The busy check of the shim (pd_has_other_live_call) keeps two incoming
\* calls from being live at once, although the second may arrive after
\* outgoing calls, during a hangup or while the first is being answered.
OneLiveIncoming ==
  \A p, q \in Slots :
    Live(sess[p]) /\ Live(sess[q])
      /\ sess[p].dir = "Incoming" /\ sess[q].dir = "Incoming" => p = q

\* Once DISCONNECTED has been reported to a call no later callback, of its
\* own session or of the next one on its slot, brings it back
\* (pjsip_on_call_state, pjsip_on_call_media; only cmd_call_hold of a client
\* that still names the call can, so this is for runs without StaleIds).
EndedStays == ~StaleIds => \A c \in ended : calls[c].state = "Ended"

\* The only callbacks that miss their call are those that arrive while the
\* thread that made the call has not yet entered it in both tables
\* (cmd_call_start and engine_start_attended_xfer insert after pd_call_make).
OnlyTheWindowLoses ==
  [][\A c \in lost' \ lost :
       \E t \in Threads : cmd[t].call = c /\ cmd[t].op \in {"made", "inserted"}
    ]_vars

\* Every call the engine shows that has not ended, and missed nothing, has a
\* live session whose callbacks reach it, or is on the way into or out of
\* the tables (cmd_call_start, pjsua_call_hangup's own report).
ShownIsLive ==
  \A c \in Known \ (ended \cup lost) :
    \/ \E p \in Slots : Live(sess[p]) /\ sess[p].own = c /\ pjMap[p] = c
    \/ \E t \in Threads : cmd[t].call = c /\ cmd[t].op = "inserted"
    \/ \E t \in Threads : cmd[t].op = "report" /\ sess[cmd[t].slot].own = c

\* A call both sides have set up is not shown as ringing, in whatever order
\* the media and state callbacks of the two directions arrive.
TableFollowsSession ==
  \A p \in Slots :
    LET c == sess[p].own IN
    /\ sess[p].inv \in {"Accepted", "Connecting", "Confirmed"}
    /\ c # NoCall /\ pjMap[p] = c /\ c \notin lost
    => calls[c].state \in {"InCall", "OnHold"}

\* on_hold is the wish of the user and survives every callback: answers,
\* refusals, the remote party's own holds.  Only CallHold(false) clears it.
StickyHold ==
  [][\A c \in CallIds :
       calls[c].on_hold /\ ~calls'[c].on_hold =>
         \E t \in Threads : cmd[t] = Idle /\ cmd'[t].op = "unhold"
                            /\ cmd'[t].call = c]_vars

\* "Sticky behavior: re-apply mute" (lib.rs:626): no microphone goes out on a
\* muted call, however often its media restarts, once its media callback is
\* over, no command is about to act on its slot and no other call that is still
\* shown has the same slot.  With one thread and without merging: PjMute takes
\* its value along unlocked and engine_merge_conference ignores muted.
MuteSticks ==
  \A p \in Slots :
    LET c == pjMap[p] IN
    /\ c # NoCall /\ calls[c].muted /\ MediaActive(sess[p]) /\ ~sess[p].cb
    /\ \A t \in Threads : cmd[t].slot # p
    /\ \A d \in Known \ {c} : calls[d].pj = p => calls[d].state = "Ended"
    => ~sess[p].mic

\* The shim connects the microphone of a muted call whenever its media restart
\* (pjsip_shim.c:424), and the engine takes it away again later in the same
\* callback (lib.rs:626): until then the muted call is heard.  That second half
\* misses none.  A muted call comes to send outside a callback only by
\* engine_merge_conference, whose conference has all the microphones
\* (pjsip_shim.c:1630), or by an unmute that took its value along before the
\* call was muted again; each must name its slot.
Sends(s) == s.mic /\ ~s.cb

OnlyMergeUnmutes ==
  [][\A p \in Slots :
       LET c == pjMap[p] IN
       /\ c # NoCall /\ calls[c].muted
       /\ ~Sends(sess[p]) /\ Sends(sess'[p])
       => \E t \in Threads : /\ cmd[t].op \in {"merge", "unmute"}
                             /\ p \in {cmd[t].slot, cmd[t].other}]_vars

\* A hangup ends the call that was named, which is reported as ended unless its
\* callbacks are lost because it was still being entered; or pjsua fails, which
\* cmd_call_hangup only logs (lib.rs:1917-1924).  No third way: a hangup that
\* crosses an answer, the remote end or another hangup is never swallowed.
HangupEnds ==
  \A c \in CallIds :
    (\E t \in Threads : cmd[t].op = "hangup" /\ cmd[t].call = c)
      ~> \/ c \in ended \cup lost
         \/ \E t \in Threads : cmd[t].op = "failed" /\ cmd[t].call = c

\* Answering a ringing incoming call takes it out of Ringing: it is in a call,
\* or the caller gave up first, or pjsua fails, which cmd_call_answer only logs
\* (lib.rs:1873-1883).
AnswerTakesEffect ==
  \A c \in CallIds :
    (\E t \in Threads : cmd[t].op = "answer" /\ cmd[t].call = c
                        /\ calls[c].dir = "Incoming")
      ~> \/ calls[c].state # "Ringing"
         \/ \E t \in Threads : cmd[t].op = "failed" /\ cmd[t].call = c

\* last_resumed_at is the "Timestamp of the last time the call was resumed/
\* started" (lib.rs:196): the clock runs for a confirmed call in InCall.
TalkTimeRuns ==
  \A p \in Slots :
    LET c == pjMap[p] IN
    /\ c # NoCall /\ c \notin lost /\ sess[p].own = c
    /\ sess[p].inv = "Confirmed" /\ calls[c].state = "InCall"
    => calls[c].resumed
=============================================================================
