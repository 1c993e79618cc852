# PacketDial: TLA+ models, model checking and proofs

PacketDial is a desktop softphone. A Flutter application (`app_flutter/`) shows
the dialer and keeps the user's accounts, a Rust engine (`core_rust/src/lib.rs`)
owns the accounts and calls, a C shim (`core_rust/src/shim/pjsip_shim.c`) wraps
PJSIP's `pjsua` API, and pjsua (external) talks SIP and RTP. This directory holds
TLA+ models of the parts whose behaviour depends on the order of events, the TLC
configurations that check them on small instances, and TLAPS proofs of the
results that hold for every instance. Paths and line numbers below refer to the
repository's sources.

Run a check with `tlc -config CallsLifecycle.cfg MCEngineCalls`, a proof with
`tlapm EngineCallsProofs.tla`. `PROJECT.json` lists every run, the lines each
definition models, the hazards and the findings.

## 1. Inventory

### Who runs

| Thread | Where | What it does |
|---|---|---|
| Flutter thread | `engine_channel.dart`, `ffi/engine.dart` | calls the `engine_*` functions of `lib.rs`, most of which end in `dispatch` |
| one thread per client of the named pipe | `handle_api_client` (`lib.rs:3398`) | reads JSON commands and calls `dispatch`, concurrently with the Flutter thread |
| PJSIP worker thread | pjsua, one thread | receives SIP messages and timers, calls the shim's callbacks, which call `pjsip_on_*` of `lib.rs` |
| Dart event loop | `engine_channel.dart` | receives the events the engine pushed, in order, some time later |

Commands are synchronous: `dispatch` runs the command on the caller's thread.
Callbacks run on whichever thread is inside pjsua, mostly the worker thread, but
`pd_call_make`, `pd_call_answer` and `pd_call_hangup` also report states and
media from inside the call, on the command's own thread.

### Components

| Component | State | Operations | What makes it correct |
|---|---|---|---|
| **Call table and call commands** (`lib.rs` 480-657, 1591-2003, 4076-4288; shim 322-433, 1195-1642) | `CALLS`, `PJSIP_CALL_MAP`, `NEXT_CALL_ID`, `g_dnd_enabled`; pjsua's call slots | start, answer, hang up, hold, mute, attended transfer, merge; incoming call, state and media callbacks | a callback reaches the call it is about; an ended call stays ended; a shown call is live; hold and mute survive everything the remote side does; a hangup ends the call; one live incoming call |
| **Account registration** (`lib.rs` 415-476, 1266-1566, 2944-2985; shim 296-320, 965-1080) | `ACCOUNTS`, `PJSIP_ACC_MAP`; pjsua's account slots | upsert, register, unregister, delete; registration result | a result is shown at its own account; a command removes only its own pjsua account; at most one pjsua account for an account; "Registered" is real; a failure is shown |
| **Lock order** (`lib.rs` 2231-2256, 613-657, 1077-1133; pjsua) | the mutexes `CALLS`, `ACCOUNTS`, pjsua's `PJSUA_LOCK` and dialog locks | every command and callback that takes two of them | no command waits for the worker thread while the worker thread waits for it |
| **Call recording** (`lib.rs` 1148-1211, 2257-2396; shim 1992-2110; `recording_service.dart`) | `recording_path` of a call, the shim's recorder per slot, the Dart service's record | start, stop, end of call | a file is open for at most one live call; every started recording is stopped and saved |
| **Engine events** (`lib.rs` 972-1036, 3519-3568; `engine_channel.dart`) | the ring `RETAINED_PAYLOADS`, pipe clients' queues, the Dart model of calls | push, broadcast, handle | the interface ends in the engine's state; a payload is not reused before it was read |
| **Named-pipe API server** (`lib.rs` 3369-3518) | the clients | connect, command, event, disconnect | a slow or vanished client blocks nobody |
| **Integrations** (`integration_service.dart`, `call_event_service.dart`, `customer_lookup_service.dart`, `screen_pop_service.dart`) | calls already started or ended, the last customer | webhook on ring, answer and end; lookup; screen pop | each webhook once per call, with the data of that call |
| **Saved accounts and trial registration** (`account_service.dart`, `account_setup_provider.dart`, `accounts_screen.dart`) | the list of accounts, `accounts.json`, the switches and the forms under way, a trial account and its timer | toggle, save, delete, select; try, result, time-out, purge | one account is selected; the file holds the list; the engine has the stored accounts; a trial's answer is its own, and the trial is gone afterwards |
| **Incoming call interface and audio feedback** (`incoming_call_provider.dart`, `audio_service.dart`, `tray_controller.dart`) | the banner, the chain of audio operations | show, hide, ring, ring back, stop | no banner and no tone outlives the ringing |
| **Settings of accounts** (`lib.rs` 2397-2943; shim 68-92, 1850-1990) | arrays indexed by pjsua account ids | set, read at an INVITE or DTMF | a slot holds what was set for an account that has had it |
| **Engine lifecycle** (`lib.rs` 3304-3368) | `INITIALIZED`, everything above | init, once, before any command; shutdown, when the process exits | nothing outlives it |
| **Transfer and DTMF** (`lib.rs` 2020-2256) | none of their own | blind transfer, DTMF | covered by lock order |
| **Audio devices, log ring, SIP capture, BLF, diagnostics** | rings of log lines and SIP messages, selected devices | list, select, append | sequential; little that several steps can break |
| **Screens, themes, storage** (`app_flutter/lib/screens`, ...) | widgets, preferences | | interface only |
| **PJSIP** (external) | call and account slots, dialogs, media | | modelled as its callbacks and return values show it |
| **Build scripts, tools** | none | | not part of the running system |

### How they interact

A command changes `CALLS` or `ACCOUNTS` under the mutex, releases it, calls the
shim, which takes pjsua's locks, and afterwards may change the tables again. A
callback arrives with a pjsua id, is translated by `PJSIP_CALL_MAP` or
`PJSIP_ACC_MAP`, changes the table under its mutex and pushes an event. pjsua
reuses its ids. So the two id tables, the two maps and pjsua's slots are five
pieces of state under four locks that have to agree, and most of the hazards of
this code are orders in which they do not: callbacks that arrive before the map
knows the call, late inserts and removals, ids that already mean something else,
the value read under the lock and used after it. `PROJECT.json` lists each hazard
at its line.

## 2. Plan

| # | Module | Models | Composes / proves | Status |
|---|---|---|---|---|
| 1 | `EngineCalls`, `MCEngineCalls` | call table, call commands, callbacks, pjsua sessions | | done |
| 2 | `EngineCallsProofs`, `EngineCallsLiveProofs`, `EngineCallsHistoryProofs` | | every safety property of the calls | done |
| 3 | `Registration` | accounts, registration results | | done |
| 4 | `RegistrationProofs` | | every safety property of the accounts, some as long as commands do not overlap, and of `AccountSettings` | done |
| 5 | `EngineLocks`, `EngineLocksProofs` | who waits for which lock | the deadlocks there are, and that there is no other | done |
| 6 | `CallRegistry`, `EngineCallsRegistry` | abstract: a call enters once, is ringing, talking or held, ends for good | `EngineCalls` implements it (TLC, and TLAPS in `EngineCallsHistoryProofs`) | done |
| 7 | `Recording`, `MCRecording`, `RecordingProofs` | start and stop against the end of the call, three layers | every safety property of the recordings | done |
| 8 | `AccountSetup`, `AccountSetupProofs` | the saved accounts, their switches, form and file, and the trial registration, against the engine's events | every safety property of them | done |
| 9 | `CallUi`, `MCCallUi`, `CallUiProofs` | events, activeCalls, history, banner, tones and buttons | composed with `EngineCalls`, whose theorems hold of it | done |
| 10 | `AccountSettings`, `MCAccountSettings` | the arrays by slot | composed with `Registration`, whose theorems hold of it | done |

Runs stay at two slots, two threads, two calls or accounts where interleavings
are the question and at one thread where the data is. The theorems were proved in
this order: that callbacks are routed to the right call; that the busy rule holds;
that a call reported as ended stays so; that hold sticks; that a media callback leaves no muted call sending;
that a register or unregister removes only its own pjsua account; that a setting comes
from a holder of its slot; that a recorder belongs to the call of its slot and is
closed at its end; that the call table implements `CallRegistry`; that shown calls are
live and follow their session; what holds as long as registering commands come one after another; that trials are
earned and purged, the file follows the list and accounts the engine has are listed;
that the interface follows the table, the history is true and no tone is left on; that
the known deadlocks are all there are, and locks are taken and let go in pairs, for any
number of threads. With that every
invariant the runs check has its theorem.

## 3. EngineCalls

| Model | Code |
|---|---|
| `calls` | `CALLS`; of `Call` the fields `state`, `direction`, `on_hold`, `muted`, `pjsip_call_id`, and whether `last_resumed_at` is set |
| `pjMap` | `PJSIP_CALL_MAP` |
| `nextId` | `NEXT_CALL_ID`, bounded by `MaxCallId` |
| `dnd` | `g_dnd_enabled` of the shim |
| `sess` | pjsua's call slots (external): the INVITE session's state, whether its first offer and answer are done, holds of both sides, the re-INVITE in progress, whether audio is active and the microphone connected, and whether a media callback is between the shim and the engine (`cb`) |
| `cmd` | the command each thread is in and how far it is |
| `ended`, `lost` | history: calls reported as ended; calls that missed a callback |

Each command is an action per critical section and per call into PJSIP:
`CallStart` (`cmd_call_start` up to and with `pd_call_make`), `CallsInsert`,
`MapInsert` (the two inserts afterwards), `CallAnswer` then `PjAnswer` and
`AnswerSent`, `CallHangup` then `PjHangup` and `HangupReported` (for both, `LogFailure` if pjsua
returned an error), `CallHold` and
`CallMute` (the change of the entry) then `PjHold` and `PjMute`,
`StartAttendedXfer`, `CompleteXfer` and `MergeConference` with their `Pj...`
halves. The worker thread's actions are an INVITE (`IncomingRejected`,
`IncomingUnknownAccount`, `IncomingCall`), provisional and final responses
(`Early`, `EarlyMedia`, `Accepted`, `AcceptedMedia`, `Confirmed`), re-INVITEs in
both directions and the end of a call. `OnCallState` and `OnCallMedia` are the
engine's callbacks, used by all of them.

A media callback has two halves. The shim connects the microphone whenever the audio
is active, without asking for mute (`pjsip_shim.c:424`; `Bridged`, part of the step that
negotiated the media), and calls the engine, which takes `CALLS`, brings the entry up
to date and takes the microphone away again from a muted call (`lib.rs:626`;
`MediaReport`, with `AfterMedia`). Between the two a muted call is heard, and other
threads run: they may mute, unmute and merge, and hold or hang up in the table.

**What is atomic.** The engine's half of a callback takes `PJSIP_CALL_MAP`, leaves it,
takes `CALLS` and leaves it. It is one step of the model. In between, a command may change
`CALLS` in one critical section or insert into the map. A command never reads
the map, the callback's own slot is not given away while the callback runs
(pjsua holds the dialog lock), and each section is a mutex section, so a command
that falls between the two halves can be moved before or after the callback with
the same result, with one exception: the insert of the call the callback is
about, which either precedes the lookup (callback reaches the call) or follows it
(callback is lost); both are behaviours of the model. A command is never one step:
it is cut wherever it leaves a mutex or enters PJSIP.

**The dialog lock.** `pjsua_call_answer`, `..._hangup` and `..._set_hold` take the
dialog lock of their call, which the worker thread holds while it handles a
message of that call and until a media callback is over. `Locked(p)` is that lock.
`acquire_call` tries for it for about two seconds and then returns `PJ_ETIMEDOUT`
(`pjsua_call.c:2306`). There is no clock in the model: `PjAnswer` and `PjHangup` may
fail at any time (`PjFails`), by the time-out or by another error of pjsua, and so may
the 200 OK of an answer once the media are up. `cmd_call_answer` and `cmd_call_hangup`
log the error and return Ok (`LogFailure`): the call goes on, or goes on ringing, and
the client is not told. A hold that fails leaves the session as it is.

The busy check of the shim reads the calls one after the other. It is one step
here: INVITEs are handled by one thread, so no incoming call can appear during the
scan, and a call that ends or goes out during it could as well have done so before
or after.

**pjsua's slots.** `alloc_call_id` goes round the slots, so a slot a command still
holds is normally not handed out again at once. `QuickReuse = TRUE` allows it
all the same, and `StaleIds = TRUE` lets clients name calls that have ended. The
runs set both to `FALSE`, which `ShownIsLive` and `OnlyTheWindowLoses` need (a
hangup of an old id may otherwise end the next call on the slot); the theorems
hold for both values.

**What the engine promises.** `CallRegistry` is the table as a client sees it (the
fields of a `CallStateChanged` event), without threads, slots or PJSIP: a call
enters once and ringing, keeps its direction, makes progress, is put on hold by
its user or by its media, is taken off hold, muted and unmuted by its user only,
and ends for good. `EngineCallsRegistry` maps `CALLS` to it, entry by entry, by what
`push_call_state` shows (`Shown`, `Book`); `ImplementsRegistry` is the abstract
specification under that mapping, for `StaleIds = FALSE`.

### Runs

Two slots let one call end and the next take its slot while a second call is
live: that is the smallest instance in which reuse, the busy rule, transfer and
merge occur. Two calls are enough for every pair "old and new call of a slot"
and "held and consultation call"; a third call repeats one of them. Two threads
give every race between two commands, and a race of either with the worker
thread, which is always there. `Ops` names the commands and the kinds of remote
behaviour of a run, so that a run holds what its properties are about and not the
product of everything. `Slots` and `Threads` are symmetric: they are compared
only for equality.

| Run | Question | Bounds | Result |
|---|---|---|---|
| `CallsLifecycle` | Do map and table agree (`RoutesToItsSlot`), does the busy check work (`OneLiveIncoming`), do ended calls stay ended (`EndedStays`), are shown calls live (`ShownIsLive`), does the table follow the session (`TableFollowsSession`), and is the window of `cmd_call_start` the only place where callbacks get lost (`OnlyTheWindowLoses`)? Is the microphone that the shim gives a muted call taken away again before its media callback is over, and does otherwise only a merge, or an unmute that was under way, make a muted call send (`OnlyMergeUnmutes`)? | 2 slots, 2 threads, 2 calls; mute and merge, no hold | holds |
| `CallsMedia` | Does `on_hold` survive every callback (`StickyHold`), is a muted call silent when the callback of every restart of its media is over (`MuteSticks`), and is the table a `CallRegistry` (`ImplementsRegistry`)? | 2 slots, 1 thread, 2 calls, re-INVITEs of both sides, attended transfers | holds |
| `CallsProgress` | Does a hangup end the call (`HangupEnds`) and an answer take it out of Ringing (`AnswerTakesEffect`), or else the engine log that pjsua failed, also while do-not-disturb is switched? | 2 threads, fairness | holds |
| `CallsTalkTime` | "Timestamp of the last time the call was resumed/started" (`lib.rs:196`) | 1 call | violated |

The violation is a finding: the answer to an incoming call reports media before
CONNECTING, the media callback sets InCall without starting the clock, and the state
callback then finds nothing to do. A callback between `pd_call_make` and the inserts
is dropped, so that a call which fails at once stays Ringing for ever;
`OnlyTheWindowLoses` says that this window is the only place where that happens, and
the properties about the table except the calls in `lost`. `StickyHold` says that
`on_hold` is remembered, not that the call is on hold: a hold asked for before the
call is confirmed is refused by pjsua, and the engine ignores the refusal
(`lib.rs:634`).

`MuteSticks` is claimed for one thread, for which reason `CallsMedia` has one
(`StickyHold` is proved for any number), without merging, and for slots that carry
one shown call, because the code does not claim more: `PjMute` takes its value along
after the lock is left, and `engine_merge_conference` connects the microphone
whatever `muted` says. `OnlyMergeUnmutes` is the part of it that holds for any
threads and slots, and is proved. A call sends (`Sends`) if it has the microphone and
is in no media callback; what sends to a muted call during the callback is excepted,
as the code has it so. The property says that the callback's second half misses no
muted call, although the table may have changed since the first, and that a muted call
otherwise begins to send by a merge only, or by the second half of an unmute.
Neither property denies that a merge, or two threads, leave a muted call sending.

`HangupEnds` and `AnswerTakesEffect` have a failure of pjsua as their only other
outcome. What they deny is a third way: that a hangup that crosses an answer, an end by
the remote party or another hangup, or an answer that crosses the caller's CANCEL, is
forgotten without a word. `EndedStays` excludes
`StaleIds`, because `cmd_call_hold` sets the state of whatever call it is given; with
stale ids it fails, and `CallUi` (section 8) shows what the interface makes of that.

**Fairness** (`FairSpec`): a thread inside a command takes its next step (weak
fairness of `ThreadStep(t)`): the operating system runs it, and every lock it
waits for is held by a thread of the same kind, or it gives up. A media callback reaches
the engine, on whichever thread it runs, the worker thread finishes the 200 OK it is
handling, and pjsua frees the slot of a call hung up here (its
transaction times out after 32 s at the latest). Nothing is assumed of users and
of the remote party: they may never answer, hold or hang up.

## 4. Registration

| Model | Code |
|---|---|
| `accounts` | `ACCOUNTS`: whether the account is there, and its `pjsip_acc_id` |
| `accMap` | `PJSIP_ACC_MAP` |
| `shown` | the last `RegistrationStateChanged` event of each account |
| `pjacc` | pjsua's account slots (external), by the account they were added for |
| `cmd`, `report` | where each command and the worker's callback are |
| `stuck` | the thread that waits for `ACCOUNTS` while it holds it |
| `missed` | history: accounts one of whose results was dropped |
| `overlapped` | history: has a command begun while another thread was in one |

`AccountUpsert`, `AccountRegister`, `AccountUnregister` and
`AccountDeleteProfile` start a command; `TakeForRegister`, `AccRemove`,
`MapRemove`, `ShowUnregistered`, `ShowRegistering`, `ConfigRejected`, `AccAdd`,
`AccAddFailed`, `StorePjId` and `MapInsert` are its critical sections, in the
code's order. `RegistrationResult` and `ResultShown` are `pjsip_on_reg_state`
up to and from the lock of `ACCOUNTS`. `RegState` translates a result as the code
does, for the values the shim can report: pjsua destroys the registration before
it reports a refusal, a redirection or a 200 that grants nothing, and `expires`
is then all ones, -1 as an int.

pjsua facts used: `pjsua_acc_add` takes the lowest free slot and sends the
REGISTER after it has released its lock; `pjsua_acc_del` destroys the
registration under the lock, so no result comes afterwards; a result is reported
with the lock held.

| Run | Question | Bounds | Result |
|---|---|---|---|
| `AccountSettings` | Two threads register, unregister and delete, also the same account at once: does a command remove only a pjsua account that was added for its own account (`RemovesOnlyItsOwn`)? As long as commands come one after another: is the map right (`MapNamesOwner`), is there one pjsua account each (`OnePjAccount`), is "Registered" real (`RegisteredIsReal`), are results missed only in the window (`OnlyTheWindowMisses`)? And while a client changes settings, where do they come from (`SettingsComeFromHolders`)? | 2 accounts, 2 slots, 2 registering threads, 1 setter, refusals; `Bound` | holds |
| `RegFailure` | "Rust emits registration state changes" (`developer-guide.md:115`) | 1 account, fairness | violated |

Two accounts and two slots are the smallest instance in which a slot changes its
owner. As long as commands do not overlap an account has at most one pjsua account, so
a third slot would never be used and the bound does not stop a register; afterwards, a
register may find no slot free, which is a refusal as well. Two registering threads
have every race of two registers, unregisters or deletes, of one account or of two that
follow each other on a slot. `Bound`, an action constraint of `MCAccountSettings`, lets
commands overlap only where no result has come and nothing has been set, and none
comes or is set afterwards: `RemovesOnlyItsOwn` is about commands and pjsua accounts
alone, and the properties of results end with the first overlap.
`SettingsComeFromHolders` is thereby checked without overlaps; it is proved with them. No run checks for deadlock because the code does deadlock there: the failure branch of
`cmd_account_register` (`lib.rs:1506-1513`) calls `push_reg_state`, which locks
`ACCOUNTS`, with the guard of `ACCOUNTS` alive. That is what `RegFailure` shows.

**Fairness** (`FairSpec`): a thread inside a command goes on when the lock it
needs is free, and the worker thread finishes the result it delivers. No result is
assumed ever to arrive.

When commands overlap `MapNamesOwner` and `OnePjAccount` fail, which is why they,
`RegisteredIsReal` and `OnlyTheWindowMisses` are claimed, and proved, until two
commands have (`overlapped`): without clients of the pipe this is always so, since the
Flutter thread sends one command after another. `RemovesOnlyItsOwn` is claimed whatever
overlaps.
`cmd_account_register` enters a pjsua account in `PJSIP_ACC_MAP` after it has left
`ACCOUNTS` (`lib.rs:1527`): an unregister in between deletes the pjsua account and
removes an entry that is not there yet, and the late insert then routes the results
of the slot's next account to the wrong one, until that enters its own. And two
registers that both find no old pjsua account (`lib.rs:1353`) add one each, of which
the first is forgotten.

### AccountSettings

`AccountSettings` adds to `Registration` what the shim keeps by slot: forwarding, the
lookup URL, auto-answer and the DTMF method, four arrays that behave alike, so that
one, `setting`, stands for all. `AccountSet` is the section under `ACCOUNTS` of the
commands that set one of them, `SetGlobalDtmf` the enumeration of
`pd_set_global_dtmf_method`, and `Store` a write to the array afterwards, which no
lock guards (`pending` is what is to be written). `held` is history: which accounts
have had a slot. A value is identified with the account it was set for.

`SettingsComeFromHolders` is what is left of "Per-account storage"
(`pjsip_shim.c:64`). Nothing clears a slot, so the next account on it inherits what
the one before has left, for instance to forward its calls; an account that is set
before it is registered is answered with Ok although nothing is stored; and an
account without a DTMF method of its own has 0, in-band, and not the global method
that the comment at `pjsip_shim.c:1401` speaks of, unless it was registered when the
latter was set. But a write never lands in a slot that was never that of its account.

## 5. Recording

Three layers keep a record of the recording of a call, and no two of them change
together: Dart's phase, the engine's `recording_path`, and the shim's recorder of
the call's slot.

| Model | Code |
|---|---|
| `calls` | `CALLS`: the state of a call as far as recording asks for it, `pjsip_call_id`, `recording_path` |
| `onSlot` | pjsua's call slots (external): whose audio the slot's conference port carries |
| `flag` | `g_is_recording` and `g_recorder_id` of the shim |
| `recs` | the recorders made so far (external), open or closed, reported as saved or not; a recorder stands for its file |
| `cmd` | where each thread is in `start_recording_for_call` or `stop_recording_for_call`; the worker thread stops the recording of a call that ends |
| `events` | pushed and not yet handled by Dart |
| `dart`, `asyncs` | `RecordingService`: the phase of each call and whether an automatic start is pending; the starts that wait for a path or for their retry |
| `raced` | history: calls that ended during a start, or were started by two threads at once |

`StartRead`, `StartCheck`, `PjStart`, `PjCreate` or `PjCreateFails`, `SetPath` and
`EmitStarted` are the steps of a start, `StopRead`, `WasRecording`, `PjStop`,
`PjDestroy`, `EmitStopped` and `EmitSaved` those of a stop: a step ends where the
code leaves `CALLS`, or has looked at a flag it does not lock. `CallEnds` and
`EndCleanup` are the two critical sections of `pjsip_on_call_state`, whose stop is
the same `stop_recording_for_call` on the worker thread; `ReleaseSlot` is pjsua
afterwards. In Dart a step ends at an `await`: `ToggleStart` and `HandleInCall` lead
to the wait for the path, `PathReady` to the engine, `StartReturned` to the end or to
the delay of a retry, `Retry` back to the first. While a command of Dart is in the
engine, Dart handles nothing.

Left out: ringing calls (they cannot be recorded, and the dialer offers the button
for a call on the screen only); the file name, which has a resolution of one second;
the check of the directory; `recording_started_at_ms`, which only gives a duration;
`engine_start_recording` and its kin, which pick a call and dispatch. A slot is not
given to the next call while a command still works with it, as with
`QuickReuse = FALSE` above.

| Run | Question | Bounds | Result |
|---|---|---|---|
| `RecordingEnds` | Does the recorder kept for a slot record the call on it (`SlotRecordsItsCall`), is it closed at the end of its call (`NoRecorderLeft`) and when it is reported as saved (`SavedIsClosed`), and does the dialer stop showing it (`NoRecordingAfterEnd`)? | 1 call, a client, 2 recorders, automatic recording, 1 retry | holds |
| `RecordingStuck` | "Recording state is tracked per call in Flutter" (`developer-guide.md:142`) | 1 call, by hand, 2 starts | violated |

One call at a time is enough for the order of the end of a call and of its recording.
That a client goes on naming the call that had the slot before is a matter of two
calls: `RecordersClosed` and `SlotCorrect` (section 9) are proved for any number of
them. A second recorder is what it takes to record a call again, or to start it twice; a
client is a second thread beside Flutter and the worker. With one event as the bound
on what waits when something new is asked for, a command still pushes its two events
while those of another are waiting, so that every order of "Started", "Stopped" and
"Ended" occurs. One retry in place of five has both outcomes of the test.
`RecordingStuck` does not check for deadlock: once its call has ended nothing is left
to do. The safety properties need no fairness.

**The exception.** All four properties except calls in `raced`, because the code does
leave a recorder open there: a start that has seen the call InCall goes on after the
call has ended, and the cleanup, which goes by `recording_path`, has come too early;
of two starts that both find the flag clear, the second one takes the place of the
first, whose recorder nobody can close any more. `raced` holds these calls and no
others; for every other call the recorder is accounted for.

`RecordingStuck` is a finding. RECORD on a call that is on hold is answered with
MediaNotReady; the retry finds the phase "starting" which its own first attempt has
set, takes it for a start under way and returns true. The phase stays "starting", so
neither the button nor the automatic start can record this call again, and the dialer
says "Recording started".

## 6. AccountSetup

| Model | Code |
|---|---|
| `accounts`, `selected`, `enabled` | `_accounts` of `AccountService`, `isSelected` and `isEnabled` |
| `file`, `saves` | `accounts.json`; the calls of `_saveAccounts` that have not returned |
| `engine` | the engine's accounts, with the result of the last registration outstanding (`added`) or given (`answered`); trials are numbers |
| `events`, `shown` | `RegistrationStateChanged` events on their way; `EngineChannel.accounts` |
| `cards` | the accounts the cards of the Accounts tab show; empty on another tab |
| `flow` | the runs of `_toggleRegistration` and of the forms' `saveAccount` that have not returned |
| `existing` | of each form, the object it was opened with (`existing`): listed, or no longer, with the flag it had then |
| `stuck` | the thread of Dart waits for ever in `AccountRegister` |
| `busy` | `accountRegisteringProvider` |
| `torn`, `granted`, `raced`, `reverted` | history, see the properties |

Dart runs from one `await` to the next without interruption, and that is an action.
`Toggle` stores the new value and waits for the file; `SwitchOn` goes on with a trial,
`SwitchOff` unregisters; `SwitchRefused` and `SwitchVerified` are what follows the
trial, with the purge of the trial account, which no event can come before.
`FormSubmit`, `FormRefused`, `FormVerified` and `FormSaved` are the form's steps;
`FormLeft` is its back button, which works while it registers. Afterwards the form's
provider has been disposed of, and whether the rest still runs depends on what it
touches: `FormVerified` and `FormDropped` are both possible. A form that was left may
still be at its trial when the next one is saved, for the same account or another.
`FormVerified` puts an object with `isSelected: existing?.isSelected ?? false`
(`account_setup_provider.dart:141`) in the place of the listed one; if another form has
replaced that in the meantime, or it was deleted, `existing` is an object nobody keeps
up to date (`Former`), and its flag of then comes back (`SelectedByForm`).
`DeleteAccount`,
`SelectAccount` and `LeaveTab` are the user elsewhere, `Rebuild` the list after
`notifyListeners`. A save is `Encode` (the path is known, the list is encoded, the
file opened and emptied) and `Write`.

A card has no key: `Rebuild` gives the flow of the card at a position the account
that has moved there, as `widget.account` does, and unmounts what is beyond the end.

The engine's commands are one step here: each is one call of the Flutter thread, and
the window in which `Registration` loses a result looks like a server that does not
answer. `ok` is `FALSE` where pjsua refuses the account. The command does not return
then: it locks `ACCOUNTS` twice (`lib.rs:1506-1518`, the finding of `RegFailure`), on the
thread that runs Dart. From then on (`stuck`) no continuation runs, no timer fires, no
event is handled and no result gets past `ACCOUNTS`: nothing of the model moves any
more, the trial that was being started least of all (a write under way may still reach
the disk). Left out: the history of calls; results of later refreshes; closing the
application during a write. (What is left then is an empty or partial file, which
`loadAccounts` reads as no accounts, and the next save makes that permanent.)

| Run | Question | Bounds | Result |
|---|---|---|---|
| `AccountSetup` | While forms for the same and for other accounts overlap, and accounts are deleted and selected, is one listed account selected (`OneSelected`)? Is the file current (`FileIsCurrent`), what is shown real (`ShownFollowsEngine`), what the engine has stored (`GhostsAreRaces`); is a trial earned (`TrialIsEarned`), gone afterwards (`TrialIsPurged`), and does it end unless Dart is stuck (`TrialEnds`)? | 0 to 2 accounts, 2 edits (and a selection), 2 trials, 2 flows, 2 saves | holds |
| `SetupStuckSwitch` | "Reset switch to off state happens in finally" (`accounts_screen.dart:179`) | the same | violated |

Two edits are what any of these races takes, a toggle or a form and what is done
under it, with one exception: that a form brings back an old flag takes a second form and
a selection in between, so `Edit` leaves one more selection where a form is about to do so
(`FormBehind`). Two trials and two saves are every pair that can meet, two accounts have
one card behind the other. A result is put in an empty queue only; a command still
adds its two or three events to what is waiting. Which account is first in the list
does not matter, and at the start all are enabled or none. `CHECK_DEADLOCK` is off
because the edits run out.

**The exceptions.** A form that saves the flag of an object that has left the list
may leave two accounts selected, or none: `OneSelected` speaks of the others, and of
these again once the user has selected an account (`reverted`). It says then that
nothing else does that, such as a deletion under a form or two forms for new accounts.
Two saves that overlap may leave an older list or a mixture of
both (`Garbage`), which cannot be read at the next start: `FileIsCurrent` speaks of
the others (`torn`). An account that is deleted during its own trial is registered by
`SwitchVerified` all the same (`accounts_screen.dart:183` does not look whether it is
still there), and nothing in the application can unregister it: `raced`. A trial that
was being started, or any other, does not end once Dart is stuck: `TrialEnds` says that
all others do.

`SetupStuckSwitch` is a finding: a change of the tab during the trial leaves the
switch disabled until the application is restarted.

**Fairness** (`FairSpec`): the event loop runs the continuation of a flow that is due,
the timer of a trial fires, and writes of files end. Nothing is assumed of the server
or the user, nor that events are delivered soon.

## 7. EngineLocks

| Model | Code |
|---|---|
| `owner` | who holds `CALLS`, `ACCOUNTS`, pjsua's `PJSUA_LOCK` and the lock of each dialog |
| `code`, `job` | what a thread has still to do, and the command or event it is in |
| `sess` | pjsua's call slots: free, incoming, up, being hung up (`hanging_up`) |
| `known`, `routed` | the slots an entry of `CALLS` names, and those in `PJSIP_CALL_MAP` |

A thread's `code` is a sequence of instructions, each for one section or call, and an
instruction is replaced by what it calls: `CommandOn`, `Register` and the `Begin`s of
`NewCommand` are the bodies of the commands, `NewEvent` those of pjsua's handlers,
`Acquire`, `Hangup`, `Close`, `Answer`, `Start`, `Invite`, `Media`, `State` and `Ended`
what pjsua does. So the same media callback runs on the worker thread, which has the
dialog lock, and inside `pjsua_call_answer` on the thread of a command. `Mutexes` of
Rust deadlock when taken twice, the locks of pjsua do not. `Acquire` is
`acquire_call`: it tries both locks, and gives up after two seconds, which is what
its third disjunct stands for; a lock that is merely wanted has no such way out.

The other mutexes of `lib.rs` are leaves. What the tables hold decides only which
locks are taken (is the call muted, on hold, recorded?) and is left open, except for
`known` and `routed`, which say when a command or callback does anything at all.

| Run | Question | Bounds | Result |
|---|---|---|---|
| `Locks` | Which circular waits are there (`OnlyKnownDeadlocks`), does every command return otherwise (`CommandsReturn`), does none return with a lock, and does only its holder let go of one (`LocksBalanced`)? | 2 slots, 2 threads, 2 commands, 3 events | holds |

Two commands and three events are what the longest of these stories takes: an entry
and its dialog, a callback that mutes during its answer, and an INVITE meanwhile. Three
threads (two commands and the worker) make every circle of the four kinds of locks
possible. `CHECK_DEADLOCK` is off because the known deadlocks are real.
The types of the module (`TypeOK`) are proved, section 9; the run asks for more.

**The exceptions.** "Now call PJSIP WITHOUT holding the lock to avoid deadlock"
(`lib.rs:1866`) is kept everywhere but here:

- the failure branch of `cmd_account_register` locks `ACCOUNTS` twice (the finding of
  `RegFailure`);
- `cmd_call_send_dtmf` (`lib.rs:2250`) enters pjsua with `CALLS` locked, and an INVITE
  that arrives meanwhile waits for `CALLS` with `PJSUA_LOCK` held;
- so does the muting in `pjsip_on_call_media` (`lib.rs:628`), on the thread of an
  answer, which does not hold `PJSUA_LOCK`.

Everything else that crosses two locks is harmless: holding again inside the media
callback and a DTMF wait for a dialog with a time-out only.

**Fairness** (`FairSpec`): each thread goes on when what it needs is free (`WF` of its
`Step`). Between two threads that want the same mutex all the time this assumes
nothing, as the number of commands is bounded.

## 8. CallUi

`CallUi` puts the Dart side of a call on top of `EngineCalls`. Every action of the
engine that calls `push_call_state` appends to the queue of events; Dart handles them
later, and its buttons act on the engine as it is by then.

| Model | Code |
|---|---|
| `evq` | `CallStateChanged` events pushed and not yet handled by `EngineChannel` |
| `ui` | `activeCalls`, with the fields of the event and whether `startedAt` is set |
| `hist` | the entries `saveCallHistory` gets when a call has ended |
| `banner` | the call of `IncomingCallNotifier` |
| `tones`, `ops` | what `AudioService` plays; the chain of its operations |
| `picked`, `presses` | the call `engine_hangup`, `engine_set_hold`, ... have picked and not yet dispatched to; a bound |
| `past` | history: what has happened to a call |

`EngineStep` is a step of `EngineCalls` with what it pushes (`ThreadPushes`,
`WorkerPushes`); `CallButton`, `AnswerButton`, `RejectButton`, `HangupButton`,
`HoldButton` and `MuteButton` are the buttons up to the choice of a call, `Dispatch`
the command; `HandleEvent` is `_handleEvent` with the listeners of
`FlutterEventBus`, which delivers in a later frame but in order, so that its delay
adds nothing to that of `evq`; `RunAudio` is the next operation of the audio chain.
Dart has one thread: while a command is in the engine it handles nothing. The buttons
name no call. The engine takes any call that has not ended (the order of a
`HashMap`), leaves `CALLS`, and dispatches by id: hence `StaleIds = TRUE`.

| Run | Question | Bounds | Result |
|---|---|---|---|
| `CallUi` | Does the interface follow the table (`UiFollowsEngine`), does the history tell the truth (`HistoryIsTrue`), and do banner and tones end with the ringing (`FeedbackEnds`)? | 2 slots, Flutter and the worker, 2 calls, 2 events, 2 operations, 2 presses | holds |

Two calls are the least with which a button can reach another call than the one
shown. The bound on `evq` holds back new steps of the remote party only, so that it
never keeps anybody from finishing; two presses are enough for hold and unhold, and
for a press after which the call ends. A longer queue lets a call that has ended hear
more of the session that follows it on its slot; the properties were also checked with
5 events and 1 press, and section 9 proves them for all bounds. Consultation calls,
conferences, holds by the remote party and early media are left out of the run: they
push the same events.
Only safety is claimed, and nothing is assumed fair.

**The exceptions.** Between pick and dispatch the call may end. A late hold brings
it back to life: it is shown again although it is gone, and stays. A late mute
pushes "Ended" again, and the history gets a second entry. `HistoryIsTrue` excepts
calls with `late` in `past` from being entered once; `UiFollowsEngine` holds even of
them, as it is the table that is wrong. And it excepts a call in `lost` from telling
the truth: a call that ended before it was entered in the map is never told so, takes
the callbacks of the next session of its slot, and may get "Answered" from them, or
miss it. A new value of hold and mute is the opposite
of what the interface shows of its foreground call and is applied to the call the
engine picks; the reject button may hang up another call than the one that rings.

What the properties do not say, because the code does not keep it: "Answered" in the
history may stand for early media, or for a call unheld while it rang; "Busy",
"Cancelled", "Rejected" and "Failed" never occur, because the event has no
`sip_code`; and a ringtone may be missing, when a second call rings while the stop of
the first one's tone is still in the chain (`FeedbackEnds` says that none is left on,
not that each is heard).

## 9. Proofs

TLAPS 1.4.5 with Z3, Zenon and LS4 checks every leaf of the proof modules. The
theorems need the named assumptions on the constants of their module, and where the
table says so one of these:

- `~StaleIds`: clients do not name calls that have ended. `StaleIds` is the other
  case; the buttons of the interface are in it, since they pick a call before they act
  on it.
- `~QuickReuse`: pjsua does not hand out a slot again while a command that still holds
  it runs. Otherwise a call could be entered for the slot of another one.
- `OneThread`: one thread of commands. It is the Flutter thread as long as no client
  uses the named pipe; the worker thread and its callbacks are there as well. (The
  theorems about registration need no such assumption: their properties say themselves
  until when they hold.)

| Theorem | Module | States |
|---|---|---|
| `TypeCorrect` | `EngineCallsProofs` | `Spec => []TypeOK` |
| `RoutingCorrect` | `EngineCallsProofs` | `Spec => []RoutesToItsSlot` |
| `BusyCorrect` | `EngineCallsProofs` | `Spec => []OneLiveIncoming` |
| `CallbackMutesAgain` | `EngineCallsProofs` | `Spec => OnlyMergeUnmutes` |
| `TableIsCurrent` | `EngineCallsLiveProofs` | `Spec => []TableFollowsSession` |
| `ShownHasSession` | `EngineCallsLiveProofs` | `Spec => []ShownIsLive`, if `~QuickReuse` |
| `OnlyEnteringLoses` | `EngineCallsLiveProofs` | `Spec => OnlyTheWindowLoses`, if `~QuickReuse` |
| `EndedIsFinal` | `EngineCallsHistoryProofs` | `Spec => []EndedStays` |
| `OnlyTheUserUnholds` | `EngineCallsHistoryProofs` | `Spec => StickyHold` |
| `MuteIsSticky` | `EngineCallsHistoryProofs` | `Spec => []MuteSticks`, if `OneThread`, `~StaleIds` and there is no merge |
| `RegistryImplemented` | `EngineCallsHistoryProofs` | `Spec => ImplementsRegistry`, if `~StaleIds` |
| `TypeCorrect` | `RegistrationProofs` | `Spec => []TypeOK` |
| `RemovalCorrect` | `RegistrationProofs` | `Spec => []RemovesOnlyItsOwn` |
| `MapCorrect` | `RegistrationProofs` | `Spec => []MapNamesOwner` |
| `OneAtATime` | `RegistrationProofs` | `Spec => []OnePjAccount` |
| `ShownRegistrationIsReal` | `RegistrationProofs` | `Spec => []RegisteredIsReal` |
| `OnlyTheWindowDrops` | `RegistrationProofs` | `Spec => OnlyTheWindowMisses` |
| `RunsRegistration` | `RegistrationProofs` | `SettingsSpec => Spec` |
| `SettingsCorrect` | `RegistrationProofs` | `SettingsSpec => []SettingsComeFromHolders` |
| `TypeCorrect` | `RecordingProofs` | `Spec => []TypeOK` |
| `RecordersClosed` | `RecordingProofs` | `Spec => []NoRecorderLeft` |
| `SlotCorrect` | `RecordingProofs` | `Spec => []SlotRecordsItsCall` |
| `SavedCorrect` | `RecordingProofs` | `Spec => []SavedIsClosed` |
| `EndedIsNotRecorded` | `RecordingProofs` | `Spec => []NoRecordingAfterEnd` |
| `TypeCorrect` | `AccountSetupProofs` | `Spec => []TypeOK` |
| `SelectionCorrect` | `AccountSetupProofs` | `Spec => []OneSelected` |
| `FileFollowsList` | `AccountSetupProofs` | `Spec => []FileIsCurrent` |
| `TrialsArePurged` | `AccountSetupProofs` | `Spec => []TrialIsPurged` |
| `TrialsAreEarned` | `AccountSetupProofs` | `Spec => []TrialIsEarned` |
| `GhostsWereDeleted` | `AccountSetupProofs` | `Spec => []GhostsAreRaces` |
| `ShownIsRegistered` | `AccountSetupProofs` | `Spec => []ShownFollowsEngine` |
| `LocksTypeCorrect` | `EngineLocksProofs` | `Spec => []TypeOK` |
| `LocksComeInPairs` | `EngineLocksProofs` | `Spec => []LocksBalanced` |
| `DeadlocksAreKnown` | `EngineLocksProofs` | `Spec => []OnlyKnownDeadlocks` |
| `UiRunsCalls` | `CallUiProofs` | `UiSpec => Spec`, if `StaleIds` |
| `UiTypeCorrect` | `CallUiProofs` | `UiSpec => []UiTypeOK`, if `StaleIds` |
| `InterfaceFollows` | `CallUiProofs` | `UiSpec => []UiFollowsEngine`, if `StaleIds` |
| `HistoryCorrect` | `CallUiProofs` | `UiSpec => []HistoryIsTrue`, if `StaleIds` |
| `FeedbackCorrect` | `CallUiProofs` | `UiSpec => []FeedbackEnds`, if `StaleIds` |

The inductive invariants themselves are theorems too (`Inductive` of
`EngineCallsProofs`, `RegistrationProofs` and `AccountSetupProofs`, `ApartInductive`,
`LocksAreHeldInShape`).

### Calls

`RoutesToItsSlot` is not inductive. A thread in `inserted` will write its call into
the map, so one has to know that this call has not been ended by a callback (its
callbacks cannot reach it before it is in the map), that its entry names the slot
the thread holds, and that no other thread is about to enter the same call.
`IInv` adds: an id at or above `nextId` has no entry and has not ended
(`FreshIds`); a thread inside a command holds a slot (`HoldsSlot`); a call on its
way into the tables is not in the map, has not ended and has an entry for the slot
of its thread once `CallsInsert` is done (`HoldsNewCall`), and belongs to one
thread (`HoldApart`). Most actions change the tables only as a callback may
(`TableStep`) and the rest of the state in an innocent way (`OtherStep`), and one
lemma covers them all; the steps that make a call, enter it, and the INVITE have
lemmas of their own. `InductiveStep` combines them.

The second half of `EngineCallsProofs` proves that no step but an INVITE makes an incoming session
live (`BusyStep`). The step for which this is not evident is `AnswerSent`, which
moves a session to Connecting without looking at it: it needs that the session is
still the incoming one, which holds because the answering thread has the dialog
lock (`AnswersAlone`). `OnlyMergeUnmutes` needs no more than the types: `Bridged` turns the
microphone on, but sets `cb`, so that the call does not send yet in the sense of `Sends`;
the engine's half reads `muted` under the lock that `cmd_call_mute` writes it under, and
leaves the microphone off if the call is muted at that moment (`AfterMediaIs`); and of
the steps that touch a session outside a callback only `PjMute` and the merge turn a
microphone on.

`EngineCallsLiveProofs` sorts the steps into kinds by what they do to the tables, the
slots and the threads that are entering a call (`StepKind`: nothing, a callback, an end,
a slot freed, an INVITE, a hangup, a call made, an insert) and proves each invariant
kind by kind. Where a media callback is under way the session is live and has negotiated
media (`Sound`), so that its engine's half is like any other callback.
`TableFollowsSession` needs that a session was made for an id that has
been given out (`OwnFresh`), that an outgoing session that came up while its call was
being entered has lost that callback (`StartsUp`), and that a session
about to be reported as ended by `pjsua_call_hangup` is closing, and one thread's
(`ReportsAlone`). `ShownIsLive` and `OnlyTheWindowLoses` also need that
the callbacks of a session reach its call, or a thread is still entering the call for
that very slot (`Routed`), and that such a call still has its session or has missed
its end (`StartsHeard`). These two fail with `QuickReuse`.

`EngineCallsHistoryProofs` lists the five ways in which a step can change `CALLS`
(`TableChange`: not at all, a state callback, a media callback, a new entry, hold
or mute) and proves that every action is one of them. `EndedStays` is then
inductive on top of `IInv`: callbacks reach only the call of their slot, which by
`RoutesToItsSlot` has not ended, and new entries have fresh ids. `StickyHold` needs
in addition that a missing entry is not on hold (`AbsentFree`). `MuteSticks` speaks of
slots no command is at; the invariant is about all slots (`MuteUnderWay`): the
microphone of a muted call that is alone on its slot is off, unless a media callback is
under way or the thread that muted it has still to tell pjsua, and nobody is about to
turn it on.

The refinement uses the same list: an entry that is Ended was ended by a callback
(`EndedOnly`), so the call a slot is routed to is live in the book, and a callback
about it is Progress, Hold or End; an insert is Enter; hold and mute of a call that has
not ended are Hold, Resume and Mute; and every other step leaves the book alone.
`~StaleIds` is needed: `cmd_call_hold` takes an ended call out of Ended.

### Accounts and settings

`RemovesOnlyItsOwn` needs that a pjsua account is referred to from one place
only: by one account, or by one thread between `pjsua_acc_add` and the store or
between the take and the removal. This is the invariant `take()` establishes and
every other action keeps; it fails as soon as the id is read and not moved out,
which is the mutant of that property.

As long as commands come one after another a thread that takes a step is the only one
inside a command (`OneAtWork`, `Alone`), and nothing is forgotten: a pjsua account is its
owner's or in the hand of that thread (`Owned`), it is in the map or about to be (`Mapped`), between the
take and the store the account refers to nothing (`Cleared`), and a result that is
being delivered is about a pjsua account that is still there (`ReportIsReal`).
`OneInv` is their conjunction with lesser facts, among them what `MapNamesOwner` and
`RegisteredIsReal` say (`NamesOwner`, `ShownIsReal`); `ApartInv` has it until two commands
overlap. Commands that do break `Cleared` first: both find no old pjsua account and both add one (section 4).

Settings change nothing for the accounts (`RunsRegistration`), so that all these
theorems hold of the composition. `SettingsCorrect` then is a matter of `held`: it only
grows, an account that has a slot in `ACCOUNTS` or on its way there is in it, since only
`pd_acc_add` gives slots away, so that a pending write names an account, or the global
method, that its slots have seen.

### Locks

Which locks an agent holds is not in its `code`, but what it has still to do with them
is. `LocksInv` says that an agent holds a lock exactly where its code lets it go without
taking it before (`Held`, by `Under`), and that its code has a `Shape`: what is let go is
not let go again before it is taken, each instruction that may be met with `CALLS` or
`PJSUA_LOCK` held is one of a few (`UnderCalls`, `UnderPjsua`), some belong to certain
commands and events only (`OfKind`), and the lock of a dialog is waited for by the worker
as its first instruction alone, with no other lock (`LocksFirst`); a command gets it from
`acquire_call`, which does not wait for good.
The shape is proved from the end of the code to its beginning, one instruction before
the rest (`ShapeCons`, `ShapeRest`): what a callback or a command puts before the rest
has to fit what is held there, and most of it is put where neither `CALLS` nor, but in an
INVITE, `PJSUA_LOCK` is (`Clear`). A command or event begins with code that has no lock
of its own to let go (`Lockless`), and a step changes no lock of another agent
(`ByItself`). TLC has checked `LocksInv` with the bounds of `Locks`.

The two directions of `Held` are those of `LocksBalanced`: a lock that is held is still to
be let go, and what lets go of a lock has it, which `pj_mutex_unlock` asserts.
In a hangup inside an INVITE the worker has the dialog already and `acquire_call` adds no
second unlock; elsewhere the dialog is free, so that nothing in the code lets it go and
the unlock that is added is the only one.

`OnlyKnownDeadlocks` then follows without the steps (`CircularWaits`). Who holds
`ACCOUNTS` across an instruction is in `cmd_account_register`. Otherwise who holds
`CALLS` waits for `PJSUA_LOCK` only, and only in a DTMF, in the muting of a media
callback of the worker or inside an answer; who holds `PJSUA_LOCK` and waits for
anything but `ACCOUNTS` is the worker in an INVITE, which can take that lock again, so
that it waits for `CALLS`. The theorem needs of the constants that the worker is not one
of the threads, and that `Nobody` and the names of the three locks stand for nothing else.

### Recordings

That a recorder is closed in the end is not inductive. The argument goes backwards from
the cleanup: an open recorder of a call that is not in
`raced` is the one in the shim's flag, and the call has its path or a thread is about
to enter it (`Tabled`); if the call has ended, no such thread is left, because a start
that outlives its call puts it in `raced` (`StartsRaced`), so the worker thread finds
the path; from the cleanup to the destruction of the recorder the worker is on its way
to close it (`Closing`), and nobody else can make it turn back, since a clear flag or
a missing path would mean that no recorder is open (`WorkerFinds`). Steps that change
only where a thread is are covered by one lemma, `ControlStep`; each other step has
its own.

`NoRecordingAfterEnd` is about the order of the events: Dart sees a call end only after
the engine has ended it (`EndedTold`), and unless the call is in `raced` no
RecordingStarted is behind its end, in the queue or after it (`NoLateStart`). Every step
pushes an event, or handles one, or does neither (`EventStep`).

### Saved accounts and trials

All of `AccountSetupProofs` rests on `Types`, which has more than types: a flow past its
trial acts on an account (`ActsOnAccount`) and each flow waits for one save
(`SavesAwaited`). `OneSelected` is inductive (`SelectedInv`): what a step does to the list and
what it selects fit, but for the form that raises `reverted`. For the file (`FileInv`): a write that has met no other is the only
one, writes into an emptied file, and writes the list as it is, or the list has changed
and is going to be written again. For the trials (`TrialInv`): a step begins a trial
under an id of its own, leaves one and purges it, or lets them go on (`TrialStep`), and a
flow can see "Registered" of a trial only in an event that followed the grant
(`GrantedFirst`). `ShownFollowsEngine` needs the order of the queue: after everything that
says an account is registered, if pjsua has dropped it, comes an event that takes it back
(`ResultsRetracted`). For `GhostsAreRaces` (`GhostInv`) a flow that may still register its
account claims it: it is listed, or has been deleted under the flow.

### The interface

`UiRunsCalls` needs `StaleIds`, as the buttons name a call that may have ended before
they act on it; it makes all theorems about calls that do not exclude `StaleIds` hold
with the interface. Every step of `CallUi` then is of a kind (`UiKind`), and the
engine's are of three (`EngineKind`): silent, a callback that tells the call the map
names and pushes it, or a new call that enters; each is shown to push exactly the entry
it leaves in the table (`Pushed`), from which `UiFollowsEngine` follows.

`HistoryIsTrue` needs what `past` remembers against the table: a slot tells only a call
of its own session, unless that call has lost callbacks (`Owned`), the sessions that are up
are in `past` (`UpSeen`), an ended call that is shown again was reached late (`LateSeen`)
and one shown as InCall came to be so in a way that `past` has (`InCallCame`). On top of
that `HistoryInv` follows each call along the queue: one that has not ended has no entry
and no Ended event on its way (`Uncounted`), one that has ended has either (`Counted`),
nothing follows the end of a call no command reached late (`Once`), what will be shown as
having been in call was (`CameShown`), and an accepted call is shown as such before its
end is told (`UpShown`).

`FeedbackEnds` speaks of an empty queue, its invariant `Warranted` of any: the banner is
that of a call shown as waiting, and a tone that is playing with no stop behind it, or
is to be started with no stop behind it, has one of its direction (`Sounds`). That a call
does not change its direction on the way is `Directed`.

### Only model-checked

The liveness properties `HangupEnds`, `AnswerTakesEffect`, `CommandsReturn` and
`TrialEnds` stay with TLC: liveness under fairness and `ENABLED` are out of the prover's
reach. The findings are violations, which a run shows.

## 10. What is not modelled

For good: wording and masking of events, log and SIP capture rings, device lists,
statistics, the diagnostics bundle, screens, themes and preferences (no order of
events matters there), encryption of stored passwords, the list of recordings (it
lists, plays and deletes files), the build. The vendored PJSIP and its
applications are a library of several hundred thousand lines, of which the models have
what the shim and the engine can observe: slots, sessions, locks and callbacks.

Within the modelled parts: how long `acquire_call` tries (it may give up at any time),
running out of call ids, panics while a mutex is held
(poisoning), codecs and what is said in SDP beyond "active or not".

**Engine lifecycle.** `engine_init` runs once, before any command, and
`engine_shutdown` when the application exits. It leaves `CALLS` and the `pjsip_acc_id`
of `ACCOUNTS` as they are, which would matter to a second `engine_init` in the same
process; the application never makes one.

**Named-pipe server.** Its threads are the second thread of the models; the pipe
itself is I/O, and the queue of a client has no bound, so that a slow client delays
nobody.

**The ring of payloads** (`lib.rs:3519`). The queue between the engine and the Dart
listener has no bound, the ring keeps 4096 payloads. There is no acknowledgement the
code could go by, so nothing can be claimed but what the constant says.

**Integrations.** They follow the call events, in the order `CallUi` has, and change
nothing of the call. Two things were found reading them: the web hook of the end is
sent twice for a call that was shown, by `EngineChannel` (`engine_channel.dart:611`)
and by the listener of the same event (`integration_service.dart:102`), whose guard
knows only of itself; and the upload of a recording
(`integration_service.dart:212`) begins with the event Ended, which the engine pushes
before it stops the recorder. It reads the file when the web hook has been answered,
whether or not the recorder has been closed by then; nothing in the code orders the
two.
