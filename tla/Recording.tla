------------------------------ MODULE Recording ------------------------------
(***************************************************************************)
(* Call recording: the engine's commands (core_rust/src/lib.rs), the       *)
(* shim's recorder of each call slot (core_rust/src/shim/pjsip_shim.c) and *)
(* the record the Flutter application keeps of every call                  *)
(* (app_flutter/lib/core/recording_service.dart), while calls are held,    *)
(* resumed and ended.                                                      *)
(*                                                                         *)
(*   calls   CALLS: the state of each call, and its recording_path         *)
(*   onSlot  the pjsua slots (external): the call whose audio the slot's   *)
(*           conference port carries                                       *)
(*   flag    g_is_recording and g_recorder_id: the recorder the shim knows *)
(*           for a slot, or none                                           *)
(*   recs    the pjsua recorders (external), in the order of creation; a   *)
(*           recorder and its file are the same thing here                 *)
(*   cmd     where each thread is in a recording command of the engine;    *)
(*           the worker thread stops the recording of a call that ends     *)
(*   events  what the engine pushed and Dart has not handled               *)
(*   dart    the call as Dart last saw it, the phase of its recording, and *)
(*           whether an automatic start is pending                         *)
(*   asyncs  the starts that wait in Dart for a path or to be tried again  *)
(*   raced   history: the calls that ended during a start of their         *)
(*           recording, or whose recording was started by two threads at   *)
(*           once                                                          *)
(*                                                                         *)
(* Commands are synchronous: while the Flutter thread is in the engine,    *)
(* Dart handles nothing else.                                              *)
(*                                                                         *)
(* A definition named Bug_... is never used by the specification: it is a  *)
(* mistaken form of the definition after it, kept to show that a property  *)
(* fails when the code has that mistake.                                   *)
(***************************************************************************)
EXTENDS Naturals, Sequences

CONSTANTS
  Calls,      \* call ids
  Slots,      \* the pjsua call slots
  Flutter,    \* the Flutter thread
  Worker,     \* PJSIP's worker thread
  Clients,    \* the threads of the named pipe's clients
  Asyncs,     \* the asynchronous starts Dart can have open (a bound)
  MaxRec,     \* bound on recorders made
  MaxQueue,   \* bound on waiting events, beyond which nothing new is asked for
  MaxRetry,   \* 5 in the code
  AutoRecord, \* AppSettingsService.localCallRecordingEnabled
  NoCall, NoSlot

Threads == {Flutter, Worker} \cup Clients

ASSUME RecordingAssumption ==
  /\ MaxRec \in Nat /\ MaxQueue \in Nat /\ MaxRetry \in Nat
  /\ AutoRecord \in BOOLEAN
  /\ NoCall \notin Calls
  /\ NoSlot \notin Slots
  /\ Flutter # Worker
  /\ Flutter \notin Clients /\ Worker \notin Clients

VARIABLES calls, onSlot, flag, recs, cmd, events, dart, asyncs, raced

engine == <<calls, onSlot, flag, recs, raced>>
flutter == <<dart, asyncs>>
vars == <<calls, onSlot, flag, recs, cmd, events, dart, asyncs, raced>>

-----------------------------------------------------------------------------
(* Values *)

RecIds == 1 .. MaxRec
NoRec == 0

\* "None": a call that has not been connected; Ringing cannot be recorded and
\* the dialer does not offer it.
CallState == {"None", "InCall", "OnHold", "Ended"}
Call == [state : CallState, slot : Slots \cup {NoSlot},
         path : RecIds \cup {NoRec}]

Recorder == [call : Calls, open : BOOLEAN, saved : BOOLEAN]

\* The steps of start_recording_for_call, of stop_recording_for_call and of the
\* end of a call, and what a command returned to Dart.
StartSteps == {"start", "check", "pjstart", "create", "path", "started"}
StopSteps == {"stop", "wasrec", "pjstop", "destroy", "stopped", "saved"}
Returns == {"ok", "notReady", "error"}
Command == [op : {"idle", "cleanup", "release"} \cup StartSteps \cup StopSteps
                   \cup Returns,
            call : Calls \cup {NoCall}, rec : RecIds \cup {NoRec}]

Idle == [op |-> "idle", call |-> NoCall, rec |-> NoRec]
At(t, op) == cmd[t].op = op
Doing(t, op, c) == cmd' = [cmd EXCEPT ![t] = [op |-> op, call |-> c, rec |-> NoRec]]
Goto(t, op) == cmd' = [cmd EXCEPT ![t].op = op]

\* A command returns: to Dart, to nobody, or to the end of the call.
Return(t, rc) ==
  cmd' = [cmd EXCEPT ![t] = CASE t = Flutter -> [@ EXCEPT !.op = rc]
                              [] t = Worker -> [@ EXCEPT !.op = "release"]
                              [] OTHER -> Idle]

\* A CallStateChanged event names the state; with Ended it also says whether
\* the call has a recording_path.
Event == [type : {"InCall", "OnHold", "Ended", "Started", "Stopped", "Saved",
                  "Error"},
          call : Calls, path : BOOLEAN]
PushWith(type, c, path) ==
  events' = Append(events, [type |-> type, call |-> c, path |-> path])
Push(type, c) == PushWith(type, c, FALSE)
Room == Len(events) < MaxQueue

Phase == {"none", "starting", "recording", "stopping", "stopped", "failed"}
Active(phase) == phase \in {"starting", "recording"}
Session == [call : CallState, phase : Phase, pending : BOOLEAN]

NoAsync == [at |-> "idle", call |-> NoCall, auto |-> FALSE, tries |-> 0]
Async == [at : {"idle", "path", "engine", "delay"}, call : Calls \cup {NoCall},
          auto : BOOLEAN, tries : 0 .. MaxRetry]

Of(t) == cmd[t].call
Slot(t) == calls[Of(t)].slot

\* Thread t is in start_recording_for_call and has seen c in a call.
Starting(t, c) == Of(t) = c /\ cmd[t].op \in StartSteps \ {"start"}

-----------------------------------------------------------------------------
(* The call *)

\* The call is connected, on a slot that is free and that no command holds.
CallConnects(c, p) ==
  /\ Room
  /\ calls[c].state = "None"
  /\ onSlot[p] = NoCall
  /\ \A t \in Threads : Of(t) # NoCall => Slot(t) # p
  /\ calls' = [calls EXCEPT ![c].state = "InCall", ![c].slot = p]
  /\ onSlot' = [onSlot EXCEPT ![p] = c]
  /\ Push("InCall", c)
  /\ UNCHANGED <<flag, recs, cmd, raced, flutter>>

\* Hold and resume, by either side; mute and media callbacks report InCall
\* again.
CallReports(c, state) ==
  /\ Room
  /\ calls[c].state \in {"InCall", "OnHold"}
  /\ calls' = [calls EXCEPT ![c].state = state]
  /\ Push(state, c)
  /\ UNCHANGED <<onSlot, flag, recs, cmd, raced, flutter>>

\* pjsip_on_call_state with Ended, the first critical section.
CallEnds(c) ==
  /\ cmd[Worker] = Idle
  /\ calls[c].state \in {"InCall", "OnHold"}
  /\ calls' = [calls EXCEPT ![c].state = "Ended"]
  /\ PushWith("Ended", c, calls[c].path # NoRec)
  /\ Doing(Worker, "cleanup", c)
  /\ raced' = IF \E t \in Threads : Starting(t, c) THEN raced \cup {c} ELSE raced
  /\ UNCHANGED <<onSlot, flag, recs, flutter>>

Bug_NoCleanup ==
  /\ At(Worker, "cleanup")
  /\ Goto(Worker, "release")
  /\ UNCHANGED <<engine, events, flutter>>

\* The second critical section: stop_recording_for_call if there is a path.
EndCleanup ==
  /\ At(Worker, "cleanup")
  /\ Goto(Worker, IF calls[Of(Worker)].path # NoRec THEN "stop" ELSE "release")
  /\ UNCHANGED <<engine, events, flutter>>

\* After the callback pjsua removes the conference port and frees the slot.
ReleaseSlot ==
  /\ At(Worker, "release")
  /\ onSlot' = [onSlot EXCEPT ![Slot(Worker)] = NoCall]
  /\ cmd' = [cmd EXCEPT ![Worker] = Idle]
  /\ UNCHANGED <<calls, flag, recs, events, raced, flutter>>

-----------------------------------------------------------------------------
(* start_recording_for_call *)

StartRead(t) ==
  /\ At(t, "start")
  /\ CASE calls[Of(t)].state = "InCall" -> Goto(t, "check")
       [] calls[Of(t)].state = "OnHold" -> Return(t, "notReady")
       [] OTHER -> Return(t, "error")
  /\ UNCHANGED <<engine, events, flutter>>

\* pd_call_is_recording, without any lock.
StartCheck(t) ==
  /\ At(t, "check")
  /\ IF flag[Slot(t)] # NoRec THEN Return(t, "error") ELSE Goto(t, "pjstart")
  /\ UNCHANGED <<engine, events, flutter>>

CommandFails(t) ==
  /\ Push("Error", Of(t))
  /\ Return(t, "error")
  /\ UNCHANGED <<engine, flutter>>

\* The shim looks at its flag once more.
PjStart(t) ==
  /\ At(t, "pjstart")
  /\ IF flag[Slot(t)] # NoRec
       THEN CommandFails(t)
       ELSE Goto(t, "create") /\ UNCHANGED <<engine, events, flutter>>

\* The recorder cannot be made, or the call's conference port is gone.
PjCreateFails(t) ==
  /\ At(t, "create")
  /\ CommandFails(t)

\* The recorder is made, connected and entered for the slot, over one that
\* another thread may have entered since.
PjCreate(t) ==
  LET r == Len(recs) + 1 IN
  /\ At(t, "create")
  /\ onSlot[Slot(t)] = Of(t)
  /\ r \in RecIds
  /\ recs' = Append(recs, [call |-> Of(t), open |-> TRUE, saved |-> FALSE])
  /\ flag' = [flag EXCEPT ![Slot(t)] = r]
  /\ cmd' = [cmd EXCEPT ![t].op = "path", ![t].rec = r]
  /\ raced' = IF flag[Slot(t)] # NoRec THEN raced \cup {Of(t)} ELSE raced
  /\ UNCHANGED <<calls, onSlot, events, flutter>>

SetPath(t) ==
  /\ At(t, "path")
  /\ calls' = [calls EXCEPT ![Of(t)].path = cmd[t].rec]
  /\ Goto(t, "started")
  /\ UNCHANGED <<onSlot, flag, recs, events, raced, flutter>>

EmitStarted(t) ==
  /\ At(t, "started")
  /\ Push("Started", Of(t))
  /\ Return(t, "ok")
  /\ UNCHANGED <<engine, flutter>>

-----------------------------------------------------------------------------
(* stop_recording_for_call *)

StopRead(t) ==
  /\ At(t, "stop")
  /\ LET path == calls[Of(t)].path IN
       IF path = NoRec
         THEN Return(t, "error")
         ELSE cmd' = [cmd EXCEPT ![t].op = "wasrec", ![t].rec = path]
  /\ UNCHANGED <<engine, events, flutter>>

WasRecording(t) ==
  /\ At(t, "wasrec")
  /\ IF flag[Slot(t)] = NoRec THEN Return(t, "error") ELSE Goto(t, "pjstop")
  /\ UNCHANGED <<engine, events, flutter>>

PjStop(t) ==
  /\ At(t, "pjstop")
  /\ IF flag[Slot(t)] = NoRec
       THEN CommandFails(t)
       ELSE Goto(t, "destroy") /\ UNCHANGED <<engine, events, flutter>>

Bug_ForgetsRecorder(t) ==
  /\ At(t, "destroy")
  /\ flag' = [flag EXCEPT ![Slot(t)] = NoRec]
  /\ Goto(t, "stopped")
  /\ UNCHANGED <<calls, onSlot, recs, events, raced, flutter>>

Bug_KeepsFlag(t) ==
  LET r == flag[Slot(t)] IN
  /\ At(t, "destroy")
  /\ recs' = IF r = NoRec THEN recs ELSE [recs EXCEPT ![r].open = FALSE]
  /\ Goto(t, "stopped")
  /\ UNCHANGED <<calls, onSlot, flag, events, raced, flutter>>

\* Whatever recorder the slot has by now is destroyed.
PjDestroy(t) ==
  LET r == flag[Slot(t)] IN
  /\ At(t, "destroy")
  /\ recs' = IF r = NoRec THEN recs ELSE [recs EXCEPT ![r].open = FALSE]
  /\ flag' = [flag EXCEPT ![Slot(t)] = NoRec]
  /\ Goto(t, "stopped")
  /\ UNCHANGED <<calls, onSlot, events, raced, flutter>>

\* recording_path stays as it was.
EmitStopped(t) ==
  /\ At(t, "stopped")
  /\ Push("Stopped", Of(t))
  /\ Goto(t, "saved")
  /\ UNCHANGED <<engine, flutter>>

EmitSaved(t) ==
  /\ At(t, "saved")
  /\ Push("Saved", Of(t))
  /\ recs' = [recs EXCEPT ![cmd[t].rec].saved = TRUE]
  /\ Return(t, "ok")
  /\ UNCHANGED <<calls, onSlot, flag, raced, flutter>>

\* A client of the pipe sends CallStartRecording or CallStopRecording.
ClientCommand(t, c, op) ==
  /\ Room
  /\ t \in Clients /\ cmd[t] = Idle
  /\ calls[c].state # "None"
  /\ Doing(t, op, c)
  /\ UNCHANGED <<engine, events, flutter>>

-----------------------------------------------------------------------------
(* RecordingService, on the Flutter thread *)

DartFree == cmd[Flutter] = Idle

\* startRecordingForCall up to its first await: nothing to do if a start or a
\* recording is under way, or a wait for the path of the file.
BeginStart(c, auto, tries, others) ==
  IF Active(dart[c].phase)
    THEN /\ asyncs' = others
         /\ dart' = [dart EXCEPT ![c].pending = @ /\ ~auto]
    ELSE /\ \E k \in Asyncs :
              /\ others[k] = NoAsync
              /\ asyncs' = [others EXCEPT ![k] =
                    [at |-> "path", call |-> c, auto |-> auto, tries |-> tries]]
         /\ UNCHANGED dart

\* The RECORD button of the call the dialer shows: one that is not on hold, if
\* there is one.
Shown(c) ==
  \/ dart[c].call = "InCall"
  \/ dart[c].call = "OnHold" /\ \A d \in Calls : dart[d].call # "InCall"

ToggleStop(c) ==
  /\ Room /\ DartFree /\ Shown(c)
  /\ dart[c].phase = "recording"
  /\ dart' = [dart EXCEPT ![c].phase = "stopping"]
  /\ Doing(Flutter, "stop", c)
  /\ UNCHANGED <<engine, events, asyncs>>

ToggleStart(c) ==
  /\ Room /\ DartFree /\ Shown(c)
  /\ dart[c].phase # "recording"
  /\ BeginStart(c, FALSE, 0, asyncs)
  /\ UNCHANGED <<engine, events, cmd>>

\* The start k of a call has come to its end.
EndStart(k) == asyncs' = [asyncs EXCEPT ![k] = NoAsync]
NoPending(k) ==
  IF asyncs[k].auto THEN [dart EXCEPT ![asyncs[k].call].pending = FALSE] ELSE dart

\* The folder cannot be made: the exception ends the start.
PathFails(k) ==
  /\ DartFree
  /\ asyncs[k].at = "path"
  /\ EndStart(k)
  /\ dart' = NoPending(k)
  /\ UNCHANGED <<engine, events, cmd>>

\* The path is there, whatever happened meanwhile.
PathReady(k) ==
  /\ DartFree
  /\ asyncs[k].at = "path"
  /\ dart' = [dart EXCEPT ![asyncs[k].call].phase = "starting"]
  /\ asyncs' = [asyncs EXCEPT ![k].at = "engine"]
  /\ Doing(Flutter, "start", asyncs[k].call)
  /\ UNCHANGED <<engine, events>>

Bug_MayRetry(a) == a.tries <= MaxRetry
MayRetry(a) == a.tries < MaxRetry

StartReturned(k) ==
  LET a == asyncs[k] IN
  /\ asyncs[k].at = "engine"
  /\ \/ /\ At(Flutter, "ok")
        /\ EndStart(k)
        /\ dart' = NoPending(k)
     \/ /\ At(Flutter, "notReady") /\ MayRetry(a)
        /\ asyncs' = [asyncs EXCEPT ![k].at = "delay", ![k].tries = @ + 1]
        /\ UNCHANGED dart
     \/ /\ \/ At(Flutter, "error")
           \/ At(Flutter, "notReady") /\ ~MayRetry(a)
        /\ EndStart(k)
        /\ dart' = [NoPending(k) EXCEPT ![a.call].phase = "failed"]
  /\ cmd' = [cmd EXCEPT ![Flutter] = Idle]
  /\ UNCHANGED <<engine, events>>

\* The timer of a retry: startRecordingForCall once more.
Retry(k) ==
  LET a == asyncs[k] IN
  /\ DartFree
  /\ a.at = "delay"
  /\ BeginStart(a.call, a.auto, a.tries, [asyncs EXCEPT ![k] = NoAsync])
  /\ UNCHANGED <<engine, events, cmd>>

StopReturned ==
  /\ cmd[Flutter].op \in Returns
  /\ \A k \in Asyncs : asyncs[k].at # "engine"
  /\ dart' = IF At(Flutter, "ok") THEN dart
             ELSE [dart EXCEPT ![Of(Flutter)].phase = "failed"]
  /\ cmd' = [cmd EXCEPT ![Flutter] = Idle]
  /\ UNCHANGED <<engine, events, asyncs>>

-----------------------------------------------------------------------------
(* EngineChannel._handleEvent *)

Handle(type) ==
  /\ DartFree
  /\ events # <<>> /\ Head(events).type = type
  /\ events' = Tail(events)
  /\ UNCHANGED <<engine, cmd>>

\* CallStateChanged with InCall: maybeAutoStartForCall.
HandleInCall(c) ==
  /\ Handle("InCall") /\ Head(events).call = c
  /\ LET seen == [dart EXCEPT ![c].call = "InCall"] IN
       IF /\ AutoRecord
          /\ dart[c].phase \notin {"starting", "recording", "stopping"}
          /\ ~dart[c].pending
         THEN \E k \in Asyncs :
                /\ asyncs[k] = NoAsync
                /\ asyncs' = [asyncs EXCEPT ![k] =
                      [at |-> "path", call |-> c, auto |-> TRUE, tries |-> 0]]
                /\ dart' = [seen EXCEPT ![c].pending = TRUE]
         ELSE dart' = seen /\ UNCHANGED asyncs

HandleOnHold(c) ==
  /\ Handle("OnHold") /\ Head(events).call = c
  /\ dart' = [dart EXCEPT ![c].call = "OnHold"]
  /\ UNCHANGED asyncs

Bug_KeepsRecording(phase, path) ==
  IF phase = "none" /\ path THEN "stopped" ELSE phase

\* handleCallEnded: a recording is being stopped by the engine.
PhaseAtEnd(phase, path) ==
  CASE phase = "recording" -> "stopping"
    [] phase = "none" /\ path -> "stopped"
    [] OTHER -> phase

HandleEnded(c) ==
  /\ Handle("Ended") /\ Head(events).call = c
  /\ dart' = [dart EXCEPT ![c] =
        [call |-> "Ended", pending |-> FALSE,
         phase |-> PhaseAtEnd(@.phase, Head(events).path)]]
  /\ UNCHANGED asyncs

\* handleRecordingStarted, ...Stopped, ...Saved and ...Error: the last one
\* decides.
PhaseAfter(type) ==
  CASE type = "Started" -> "recording"
    [] type \in {"Stopped", "Saved"} -> "stopped"
    [] type = "Error" -> "failed"

HandleRecording(c, type) ==
  /\ Handle(type) /\ Head(events).call = c
  /\ dart' = [dart EXCEPT ![c].phase = PhaseAfter(type)]
  /\ UNCHANGED asyncs

-----------------------------------------------------------------------------
(* Specification *)

Init ==
  /\ calls = [c \in Calls |-> [state |-> "None", slot |-> NoSlot, path |-> NoRec]]
  /\ onSlot = [p \in Slots |-> NoCall]
  /\ flag = [p \in Slots |-> NoRec]
  /\ recs = <<>>
  /\ cmd = [t \in Threads |-> Idle]
  /\ events = <<>>
  /\ dart = [c \in Calls |-> [call |-> "None", phase |-> "none", pending |-> FALSE]]
  /\ asyncs = [k \in Asyncs |-> NoAsync]
  /\ raced = {}

CallStep ==
  \/ \E c \in Calls, p \in Slots : CallConnects(c, p)
  \/ \E c \in Calls, state \in {"InCall", "OnHold"} : CallReports(c, state)
  \/ \E c \in Calls : CallEnds(c)
  \/ EndCleanup
  \/ ReleaseSlot

StartStep(t) ==
  \/ StartRead(t) \/ StartCheck(t) \/ PjStart(t) \/ PjCreateFails(t)
  \/ PjCreate(t) \/ SetPath(t) \/ EmitStarted(t)

StopStep(t) ==
  \/ StopRead(t) \/ WasRecording(t) \/ PjStop(t) \/ PjDestroy(t)
  \/ EmitStopped(t) \/ EmitSaved(t)

DartStep ==
  \/ \E c \in Calls : ToggleStop(c) \/ ToggleStart(c)
  \/ \E k \in Asyncs : PathFails(k) \/ PathReady(k) \/ StartReturned(k) \/ Retry(k)
  \/ StopReturned
  \/ \E c \in Calls : HandleInCall(c) \/ HandleOnHold(c) \/ HandleEnded(c)
  \/ \E c \in Calls, type \in {"Started", "Stopped", "Saved", "Error"} :
       HandleRecording(c, type)

Next ==
  \/ CallStep
  \/ \E t \in Threads : StartStep(t) \/ StopStep(t)
  \/ \E t \in Clients, c \in Calls, op \in {"start", "stop"} :
       ClientCommand(t, c, op)
  \/ DartStep

Spec == Init /\ [][Next]_vars

-----------------------------------------------------------------------------
(* Properties *)

\* Every variable keeps the type of the data it stands for; a start is tried
\* again MaxRetry times at most (recording_service.dart:184).
TypeOK ==
  /\ calls \in [Calls -> Call]
  /\ onSlot \in [Slots -> Calls \cup {NoCall}]
  /\ flag \in [Slots -> RecIds \cup {NoRec}]
  /\ recs \in Seq(Recorder)
  /\ cmd \in [Threads -> Command]
  /\ events \in Seq(Event)
  /\ dart \in [Calls -> Session]
  /\ asyncs \in [Asyncs -> Async]
  /\ raced \subseteq Calls

\* The end of call c has been dealt with: the callback is over and no command
\* names the call.
Over(c) ==
  /\ calls[c].state = "Ended"
  /\ \A t \in Threads : Of(t) # c

\* A recorder stays open after the end of its call only if the call ended while
\* its recording was being started or two threads started it at once
\* (lib.rs:591-606: the cleanup goes by recording_path).
NoRecorderLeft ==
  \A r \in DOMAIN recs :
    recs[r].open /\ Over(recs[r].call) => recs[r].call \in raced

\* The recorder the shim keeps for a slot is open and records the call of that
\* slot, so that the flag never blocks the recording of the next call; the same
\* exception applies.
SlotRecordsItsCall ==
  \A p \in Slots : flag[p] # NoRec =>
    LET r == recs[flag[p]] IN
    /\ r.open
    /\ onSlot[p] = r.call \/ r.call \in raced

\* A file the engine has reported as saved is no longer written, unless two
\* threads started the recording at once.
SavedIsClosed ==
  \A r \in DOMAIN recs : recs[r].saved /\ recs[r].open => recs[r].call \in raced

\* The dialer does not show a recording as running after it has seen the call
\* end, unless the call ended during the start.
NoRecordingAfterEnd ==
  \A c \in Calls :
    dart[c].call = "Ended" /\ dart[c].phase = "recording" => c \in raced

\* Nothing is going on: every event handled, every command and every start of
\* Dart finished.
Quiet ==
  /\ events = <<>>
  /\ \A t \in Threads : cmd[t] = Idle
  /\ \A k \in Asyncs : asyncs[k] = NoAsync

\* "Recording state is tracked per call in Flutter" (developer-guide.md:142):
\* at rest Flutter shows a call as being recorded exactly if it is, and as
\* starting never.
TrackedInFlutter ==
  Quiet => \A c \in Calls \ raced :
    /\ dart[c].phase # "starting"
    /\ dart[c].phase = "recording"
         <=> \E p \in Slots : flag[p] # NoRec /\ recs[flag[p]].call = c

=============================================================================
