--------------------------- MODULE RecordingProofs ---------------------------
(***************************************************************************)
(* Proofs about Recording, for any calls, slots, clients and bounds: types,*)
(* that recorders are closed at the end of their call, belong to the call  *)
(* of their slot and are closed when they are reported as saved, and that  *)
(* the application shows no recording of a call it has seen end.           *)
(***************************************************************************)
EXTENDS Recording, SequenceTheorems, TLAPS

USE RecordingAssumption

-----------------------------------------------------------------------------
(* The inductive invariant *)

\* A call that has been connected, or recorded, has a slot.
HasSlot ==
  \A c \in Calls :
    calls[c].state # "None" \/ calls[c].path # NoRec => calls[c].slot \in Slots

\* A call in progress, or whose end the worker thread is handling, is on its
\* slot.
OnItsSlot ==
  \A c \in Calls :
    calls[c].state \in {"InCall", "OnHold"} \/ Of(Worker) = c
      => onSlot[calls[c].slot] = c

\* A recorder the table or a call refers to was made for it.
PathIsOwn ==
  \A c \in Calls : calls[c].path # NoRec =>
    /\ calls[c].path \in DOMAIN recs
    /\ recs[calls[c].path].call = c

FlagIsOwn ==
  \A p \in Slots : flag[p] # NoRec =>
    /\ flag[p] \in DOMAIN recs
    /\ recs[flag[p]].open
    /\ calls[recs[flag[p]].call].slot = p
    /\ calls[recs[flag[p]].call].state # "None"

\* What a thread inside a command has found out about its call.
InsideCommand(t) ==
  /\ cmd[t].op = "idle" => cmd[t] = Idle
  /\ cmd[t].op # "idle" => Of(t) \in Calls
  /\ cmd[t].op \in (StartSteps \cup StopSteps) \ {"start", "stop"} => Slot(t) \in Slots
  /\ cmd[t].op \in {"path", "started"} \cup (StopSteps \ {"stop"}) =>
       /\ cmd[t].rec \in DOMAIN recs
       /\ recs[cmd[t].rec].call = Of(t)
  /\ cmd[t].op \in {"stopped", "saved"} =>
       ~recs[cmd[t].rec].open \/ Of(t) \in raced
  /\ cmd[t].op \in StartSteps \ {"start"} => calls[Of(t)].state # "None"

WorkerEnds ==
  /\ cmd[Worker].op \in {"idle", "cleanup", "release"} \cup StopSteps
  /\ cmd[Worker].op # "idle" => calls[Of(Worker)].state = "Ended"

\* A start that goes on after the end of its call is on record.
StartsRaced ==
  \A t \in Threads, c \in Calls :
    calls[c].state = "Ended" /\ Starting(t, c) => c \in raced

\* A recorder of a call without such mishaps is the one of the call's slot, and
\* the call knows it or is about to.
Tabled ==
  \A r \in DOMAIN recs :
    LET c == recs[r].call IN
    recs[r].open /\ c \notin raced =>
      /\ flag[calls[c].slot] = r
      /\ calls[c].state # "None"
      /\ calls[c].path = NoRec => \E t \in Threads : At(t, "path") /\ Of(t) = c

\* After the end of its call such a recorder is on its way to be closed by the
\* worker thread.
Closing ==
  \A r \in DOMAIN recs :
    LET c == recs[r].call IN
    recs[r].open /\ c \notin raced /\ calls[c].state = "Ended" =>
      Of(Worker) = c /\ cmd[Worker].op \in {"cleanup", "stop", "wasrec", "pjstop", "destroy"}

Core ==
  /\ HasSlot
  /\ OnItsSlot
  /\ PathIsOwn
  /\ FlagIsOwn
  /\ \A t \in Threads : InsideCommand(t)
  /\ WorkerEnds
  /\ StartsRaced
  /\ Tabled
  /\ Closing
  /\ SavedIsClosed

\* The starts that wait in Dart are starts of a call.
AsyncsName == \A k \in Asyncs : asyncs[k].at # "idle" => asyncs[k].call \in Calls

IInv == TypeOK /\ Core /\ AsyncsName

-----------------------------------------------------------------------------
(* Steps that change nothing but where a thread is *)

\* Thread t may go on at x: it knows what it has to know, it is not the one
\* that still has to enter a path, and the worker thread goes on with the call
\* it ends, and past the end of a recording only if none is open.
MayGoTo(t, x) ==
  /\ x \in Command
  /\ cmd[t].op # "path"
  /\ \A c \in Calls :
       calls[c].state = "Ended" /\ x.call = c /\ x.op \in StartSteps \ {"start"}
         => c \in raced
  /\ t = Worker =>
       /\ x.call = Of(Worker)
       /\ x.call \in Calls
       /\ calls[x.call].state = "Ended"
       /\ x.op \in {"release"} \cup StopSteps
       /\ \/ x.op \in {"stop", "wasrec", "pjstop", "destroy"}
          \/ \A r \in DOMAIN recs : recs[r].open /\ recs[r].call = x.call => x.call \in raced

\* Recorders are numbered from 1 and belong to calls.
LEMMA RecorderTyped ==
  ASSUME recs \in Seq(Recorder), NEW q \in DOMAIN recs
  PROVE  recs[q] \in Recorder /\ recs[q].call \in Calls /\ q \in Nat /\ q # NoRec
<1>1. recs[q] \in Recorder /\ q \in 1 .. Len(recs) /\ Len(recs) \in Nat
  BY ElementOfSeq, LenProperties
<1> QED
  BY <1>1 DEF Recorder, NoRec

\* The engine as it was, but for files reported as saved.
SameTable ==
  /\ UNCHANGED <<calls, onSlot, flag, raced>>
  /\ DOMAIN recs' = DOMAIN recs
  /\ \A q \in DOMAIN recs : recs'[q].call = recs[q].call /\ (recs'[q].open <=> recs[q].open)
  /\ SavedIsClosed'

LEMMA SameEngine ==
  ASSUME Core, UNCHANGED engine
  PROVE  SameTable
BY DEF Core, engine, SameTable, SavedIsClosed

LEMMA ControlStep ==
  ASSUME TypeOK, Core, NEW t \in Threads, NEW x, MayGoTo(t, x),
         SameTable, cmd' = [cmd EXCEPT ![t] = x], InsideCommand(t)'
  PROVE  Core'
<1>1. /\ UNCHANGED <<calls, onSlot, flag, raced>>
      /\ DOMAIN recs' = DOMAIN recs
      /\ \A q \in DOMAIN recs : recs'[q].call = recs[q].call /\ (recs'[q].open <=> recs[q].open)
      /\ cmd'[t] = x
      /\ \A u \in Threads : u # t => cmd'[u] = cmd[u]
      /\ Worker \in Threads
  BY DEF SameTable, TypeOK, Threads
<1>2. HasSlot' /\ PathIsOwn' /\ FlagIsOwn' /\ SavedIsClosed'
  BY <1>1 DEF Core, HasSlot, PathIsOwn, FlagIsOwn, SameTable
<1>3. OnItsSlot'
  BY <1>1 DEF Core, OnItsSlot, Of, MayGoTo
<1>4. \A u \in Threads : InsideCommand(u)'
  <2>1. ASSUME NEW u \in Threads, u # t
        PROVE  InsideCommand(u)'
    <3>1. cmd'[u] = cmd[u] /\ InsideCommand(u)
      BY <1>1, <2>1 DEF Core
    <3> QED BY <1>1, <3>1 DEF InsideCommand, Of, Slot, StartSteps, StopSteps
  <2> QED BY <2>1
<1>5. WorkerEnds'
  BY <1>1 DEF Core, WorkerEnds, Of, MayGoTo
<1>6. StartsRaced'
  BY <1>1 DEF Core, StartsRaced, Starting, Of, MayGoTo
<1>7. Tabled'
  <2>1. \A u \in Threads : At(u, "path") => u # t
    BY DEF MayGoTo, At
  <2>2. \A u \in Threads : \A c : At(u, "path") /\ Of(u) = c => (At(u, "path") /\ Of(u) = c)'
    BY <1>1, <2>1 DEF At, Of
  <2> QED
    BY <1>1, <2>2 DEF Core, Tabled
<1>8. Closing'
  <2>1. CASE t = Worker
    BY <1>1, <2>1 DEF Core, Closing, Of, MayGoTo
  <2>2. CASE t # Worker
    BY <1>1, <2>2 DEF Core, Closing, Of
  <2> QED BY <2>1, <2>2
<1> QED
  BY <1>2, <1>3, <1>4, <1>5, <1>6, <1>7, <1>8 DEF Core

\* What the worker thread has to know when it leaves a recording as it is.
NoneOpen(t) ==
  t = Worker => \A r \in DOMAIN recs :
    recs[r].open /\ recs[r].call = Of(t) => Of(t) \in raced

LEMMA ReturnStep ==
  ASSUME TypeOK, Core, NEW t \in Threads, NEW rc \in Returns, Return(t, rc),
         SameTable, cmd[t].op \in (StartSteps \cup StopSteps) \ {"path"},
         NoneOpen(t)
  PROVE  Core' /\ cmd' \in [Threads -> Command]
<1> DEFINE x == CASE t = Flutter -> [cmd[t] EXCEPT !.op = rc]
                  [] t = Worker -> [cmd[t] EXCEPT !.op = "release"]
                  [] OTHER -> Idle
<1>1. /\ cmd' = [cmd EXCEPT ![t] = x]
      /\ cmd[t] \in Command
      /\ Of(t) \in Calls
      /\ t = Worker => calls[Of(t)].state = "Ended"
      /\ Flutter # Worker
  BY DEF Return, TypeOK, Core, InsideCommand, WorkerEnds, Of, StartSteps, StopSteps
<1>2. x \in Command /\ cmd'[t] = x
  BY <1>1 DEF Command, Idle, Returns, TypeOK
<1>3. x.op \in Returns \cup {"release", "idle"} /\ (x.op = "idle" => x = Idle)
      /\ (x.op # "idle" => x.call = Of(t))
  BY <1>1 DEF Returns, Idle, Command, Of
<1>4. MayGoTo(t, x)
  BY <1>1, <1>2, <1>3 DEF MayGoTo, NoneOpen, StartSteps, StopSteps, Returns, Of, Command
<1>5. InsideCommand(t)'
  BY <1>1, <1>2, <1>3 DEF InsideCommand, StartSteps, StopSteps, Returns, Of
<1>6. cmd' \in [Threads -> Command]
  BY <1>1, <1>2 DEF TypeOK
<1> QED
  BY <1>1, <1>4, <1>5, <1>6, ControlStep

LEMMA GotoStep ==
  ASSUME TypeOK, Core, NEW t \in Threads, NEW op \in StartSteps \cup StopSteps,
         Goto(t, op), UNCHANGED engine,
         cmd[t].op \in (StartSteps \cup StopSteps) \ {"path"},
         MayGoTo(t, [cmd[t] EXCEPT !.op = op]), InsideCommand(t)'
  PROVE  Core' /\ cmd' \in [Threads -> Command]
<1> DEFINE x == [cmd[t] EXCEPT !.op = op]
<1>1. cmd' = [cmd EXCEPT ![t] = x]
  BY DEF Goto
<1>2. x \in Command
  BY DEF MayGoTo
<1>3. cmd' \in [Threads -> Command]
  BY <1>1, <1>2 DEF TypeOK
<1> QED
  BY <1>1, <1>3, ControlStep, SameEngine

\* An open recorder of a call that the worker thread is ending is the one of
\* the slot, and the call has its path.
LEMMA WorkerFinds ==
  ASSUME TypeOK, Core, NEW r \in DOMAIN recs, recs[r].open,
         recs[r].call = Of(Worker), Of(Worker) \notin raced, cmd[Worker].op # "idle"
  PROVE  /\ flag[Slot(Worker)] = r
         /\ calls[Of(Worker)].path # NoRec
         /\ r # NoRec
<1>1. /\ r \in Nat \ {0}
      /\ Worker \in Threads
      /\ calls[Of(Worker)].state = "Ended"
      /\ Of(Worker) \in Calls
  BY DEF TypeOK, Core, WorkerEnds, Threads, InsideCommand
<1>2. /\ flag[Slot(Worker)] = r
      /\ calls[Of(Worker)].path = NoRec =>
           \E t \in Threads : At(t, "path") /\ Of(t) = Of(Worker)
  BY <1>1 DEF Core, Tabled, Slot
<1>3. \A t \in Threads : At(t, "path") /\ Of(t) = Of(Worker) => Of(Worker) \in raced
  BY <1>1 DEF Core, StartsRaced, Starting, At, StartSteps
<1> QED
  BY <1>1, <1>2, <1>3 DEF NoRec

-----------------------------------------------------------------------------
(* start_recording_for_call *)

LEMMA FailStep ==
  ASSUME TypeOK, Core, NEW t \in Threads, CommandFails(t),
         cmd[t].op \in (StartSteps \cup StopSteps) \ {"path"}, NoneOpen(t)
  PROVE  Core' /\ TypeOK' /\ UNCHANGED asyncs
<1>1. Of(t) \in Calls
  BY DEF Core, InsideCommand, StartSteps, StopSteps
<1>2. events' \in Seq(Event)
  BY <1>1 DEF TypeOK, CommandFails, Push, PushWith, Event
<1>3. Core' /\ cmd' \in [Threads -> Command]
  BY ReturnStep, SameEngine DEF CommandFails, Returns
<1> QED
  BY <1>2, <1>3 DEF TypeOK, CommandFails, engine, flutter

LEMMA StartReadStep ==
  ASSUME TypeOK, Core, NEW t \in Threads, StartRead(t)
  PROVE  Core' /\ TypeOK' /\ UNCHANGED asyncs
<1>1. /\ cmd[t].op = "start" /\ t # Worker
      /\ Of(t) \in Calls /\ cmd[t] \in Command
  BY DEF StartRead, At, Core, InsideCommand, WorkerEnds, StartSteps, StopSteps, TypeOK
<1>2. CASE calls[Of(t)].state = "InCall" /\ Goto(t, "check")
  <2>1. Slot(t) \in Slots
    BY <1>1, <1>2 DEF Core, HasSlot, Slot
  <2>2. MayGoTo(t, [cmd[t] EXCEPT !.op = "check"])
    BY <1>1, <1>2 DEF MayGoTo, Command, Of, StartSteps
  <2>3. InsideCommand(t)'
    BY <1>1, <1>2, <2>1 DEF InsideCommand, Goto, Of, Slot, StartRead, engine,
                            StartSteps, StopSteps, TypeOK
  <2>4. Core' /\ cmd' \in [Threads -> Command]
    BY <1>1, <1>2, <2>2, <2>3, GotoStep DEF StartRead, StartSteps, StopSteps
  <2> QED
    BY <2>4 DEF TypeOK, StartRead, engine, flutter
<1>3. CASE \E rc \in {"notReady", "error"} : Return(t, rc)
  <2>1. Core' /\ cmd' \in [Threads -> Command]
    BY <1>1, <1>3, ReturnStep, SameEngine DEF StartRead, StartSteps, StopSteps, Returns, NoneOpen
  <2> QED
    BY <2>1 DEF TypeOK, StartRead, engine, flutter
<1> QED
  BY <1>2, <1>3 DEF StartRead

LEMMA StartCheckStep ==
  ASSUME TypeOK, Core, NEW t \in Threads, StartCheck(t) \/ PjStart(t)
  PROVE  Core' /\ TypeOK' /\ UNCHANGED asyncs
<1>1. /\ cmd[t].op \in {"check", "pjstart"} /\ t # Worker
      /\ Of(t) \in Calls /\ cmd[t] \in Command
  BY DEF StartCheck, PjStart, At, Core, InsideCommand, WorkerEnds, StartSteps, StopSteps, TypeOK
<1>2. ASSUME NEW op \in {"pjstart", "create"}, Goto(t, op), UNCHANGED <<engine, events, flutter>>
      PROVE  Core' /\ TypeOK' /\ UNCHANGED asyncs
  <2>1. MayGoTo(t, [cmd[t] EXCEPT !.op = op])
    BY <1>1, <1>2 DEF MayGoTo, Command, Of, StartSteps, Core, StartsRaced, Starting
  <2>2. InsideCommand(t)'
    BY <1>1, <1>2 DEF Core, InsideCommand, Goto, Of, Slot, engine, StartSteps, StopSteps, TypeOK
  <2>3. Core' /\ cmd' \in [Threads -> Command]
    BY <1>1, <1>2, <2>1, <2>2, GotoStep DEF StartSteps, StopSteps
  <2> QED
    BY <1>2, <2>3 DEF TypeOK, engine, flutter
<1>3. ASSUME Return(t, "error"), UNCHANGED <<engine, events, flutter>>
      PROVE  Core' /\ TypeOK' /\ UNCHANGED asyncs
  <2>1. Core' /\ cmd' \in [Threads -> Command]
    BY <1>1, <1>3, ReturnStep, SameEngine DEF StartSteps, StopSteps, Returns, NoneOpen
  <2> QED
    BY <1>3, <2>1 DEF TypeOK, engine, flutter
<1>4. CommandFails(t) => Core' /\ TypeOK' /\ UNCHANGED asyncs
  BY <1>1, FailStep DEF StartSteps, StopSteps, NoneOpen
<1> QED
  BY <1>2, <1>3, <1>4 DEF StartCheck, PjStart

\* The recorders change, and what a thread has found out about its call stays
\* true: none of its recorder's is lost, renamed or opened again.
LEMMA InsideKept ==
  ASSUME NEW u \in Threads, InsideCommand(u), cmd'[u] = cmd[u], calls' = calls,
         raced \subseteq raced',
         \A q \in DOMAIN recs : q \in DOMAIN recs',
         \A q \in DOMAIN recs : recs'[q].call = recs[q].call,
         \A q \in DOMAIN recs : recs'[q].open => recs[q].open
  PROVE  InsideCommand(u)'
<1>1. Of(u)' = Of(u) /\ Slot(u)' = Slot(u)
  BY DEF Of, Slot
<1>2. /\ (cmd[u].op = "idle" => cmd[u] = Idle)'
      /\ (cmd[u].op # "idle" => Of(u) \in Calls)'
      /\ (cmd[u].op \in (StartSteps \cup StopSteps) \ {"start", "stop"} => Slot(u) \in Slots)'
      /\ (cmd[u].op \in StartSteps \ {"start"} => calls[Of(u)].state # "None")'
  BY <1>1 DEF InsideCommand
<1>3. ASSUME cmd'[u].op \in {"path", "started"} \cup (StopSteps \ {"stop"})
      PROVE  cmd'[u].rec \in DOMAIN recs' /\ recs'[cmd'[u].rec].call = Of(u)'
  <2>1. cmd[u].rec \in DOMAIN recs /\ recs[cmd[u].rec].call = Of(u)
    BY <1>3 DEF InsideCommand
  <2>2. cmd[u].rec \in DOMAIN recs' /\ recs'[cmd[u].rec].call = recs[cmd[u].rec].call
    BY <2>1
  <2> QED
    BY <1>1, <2>1, <2>2
<1>4. ASSUME cmd'[u].op \in {"stopped", "saved"}
      PROVE  ~recs'[cmd'[u].rec].open \/ Of(u)' \in raced'
  <2>1. cmd[u].rec \in DOMAIN recs
    BY <1>4 DEF InsideCommand, StopSteps
  <2>2. ~recs[cmd[u].rec].open \/ Of(u) \in raced
    BY <1>4 DEF InsideCommand
  <2>3. recs'[cmd[u].rec].open => recs[cmd[u].rec].open
    BY <2>1
  <2> QED
    BY <1>1, <2>2, <2>3
<1> QED
  BY <1>2, <1>3, <1>4 DEF InsideCommand

LEMMA PjCreateStep ==
  ASSUME TypeOK, Core, NEW t \in Threads, PjCreate(t)
  PROVE  Core' /\ TypeOK' /\ UNCHANGED asyncs
<1> DEFINE c == Of(t)
           p == Slot(t)
           r == Len(recs) + 1
           new == [call |-> c, open |-> TRUE, saved |-> FALSE]
           x == [cmd[t] EXCEPT !.op = "path", !.rec = r]
<1>1. /\ cmd[t].op = "create" /\ t # Worker
      /\ c \in Calls /\ cmd[t] \in Command /\ cmd[t].call = c
      /\ p \in Slots /\ p = calls[c].slot /\ onSlot[p] = c
      /\ calls[c].state # "None"
      /\ r \in RecIds /\ r \in Nat \ {0}
  BY DEF PjCreate, At, Core, InsideCommand, WorkerEnds, StartSteps, StopSteps, TypeOK, Of, Slot, RecIds
<1>2. /\ recs' = Append(recs, new)
      /\ flag' = [flag EXCEPT ![p] = r]
      /\ raced' = IF flag[p] # NoRec THEN raced \cup {c} ELSE raced
      /\ UNCHANGED <<calls, onSlot, events, dart, asyncs>>
  BY DEF PjCreate, flutter
<1>3. cmd' = [cmd EXCEPT ![t] = x]
  BY DEF PjCreate
<1>4. x \in Command /\ x.op = "path" /\ x.rec = r /\ x.call = c
  BY <1>1 DEF Command, StartSteps
<1>5. /\ new \in Recorder /\ new.call = c /\ new.open /\ ~new.saved
      /\ recs' \in Seq(Recorder)
      /\ DOMAIN recs' = DOMAIN recs \cup {r}
      /\ r \notin DOMAIN recs
      /\ recs'[r] = new
      /\ \A q \in DOMAIN recs : recs'[q] = recs[q]
  BY <1>1, <1>2 DEF Recorder, TypeOK
<1>6. TypeOK'
  BY <1>1, <1>2, <1>3, <1>4, <1>5 DEF TypeOK
<1>7. /\ cmd'[t] = x
      /\ \A u \in Threads : u # t => cmd'[u] = cmd[u]
      /\ Worker \in Threads
      /\ raced \subseteq raced' /\ c \in Calls
      /\ \A q \in Slots : q # p => flag'[q] = flag[q]
      /\ flag'[p] = r
  BY <1>1, <1>2, <1>3 DEF TypeOK, Threads
<1>8. HasSlot' /\ OnItsSlot' /\ PathIsOwn' /\ WorkerEnds'
  <2>1. HasSlot' /\ OnItsSlot'
    BY <1>1, <1>2, <1>7 DEF Core, HasSlot, OnItsSlot, Of
  <2>2. PathIsOwn'
    BY <1>2, <1>5 DEF Core, PathIsOwn
  <2>3. WorkerEnds'
    BY <1>1, <1>2, <1>7 DEF Core, WorkerEnds, Of
  <2> QED BY <2>1, <2>2, <2>3
<1>9. FlagIsOwn'
  <2>1. ASSUME NEW q \in Slots, flag'[q] # NoRec, q # p
        PROVE  /\ flag'[q] = flag[q] /\ flag[q] \in DOMAIN recs /\ recs[flag[q]].open
               /\ calls[recs[flag[q]].call].slot = q
               /\ calls[recs[flag[q]].call].state # "None"
    BY <1>7, <2>1 DEF Core, FlagIsOwn
  <2>2. recs'[flag'[p]] = new /\ flag'[p] \in DOMAIN recs'
    BY <1>5, <1>7
  <2>3. \A q \in DOMAIN recs : q \in DOMAIN recs' /\ recs'[q] = recs[q]
    BY <1>5
  <2>4. /\ recs'[flag'[p]].open
        /\ calls'[recs'[flag'[p]].call].slot = p /\ calls'[recs'[flag'[p]].call].state # "None"
    BY <1>1, <1>2, <1>5, <2>2
  <2> HIDE DEF new, r, p, c
  <2> QED
    BY <1>2, <2>1, <2>2, <2>3, <2>4 DEF FlagIsOwn
<1>10. \A u \in Threads : InsideCommand(u)'
  <2>1. InsideCommand(t)'
    BY <1>1, <1>2, <1>4, <1>5, <1>7 DEF InsideCommand, Of, Slot, StartSteps, StopSteps
  <2>2. ASSUME NEW u \in Threads, u # t
        PROVE  InsideCommand(u)'
    <3>1. InsideCommand(u) /\ cmd'[u] = cmd[u] /\ calls' = calls /\ raced \subseteq raced'
      BY <1>2, <1>7, <2>2 DEF Core
    <3>2. \A q \in DOMAIN recs : q \in DOMAIN recs' /\ recs'[q] = recs[q]
      BY <1>5
    <3> QED
      BY <3>1, <3>2, InsideKept
  <2> QED BY <2>1, <2>2
<1>11. StartsRaced'
  <2>1. Starting(t, c) /\ Of(t) = c
    BY <1>1 DEF Starting, Of, StartSteps
  <2>2. \A u \in Threads, d \in Calls : Starting(u, d)' => Starting(u, d)
    BY <1>4, <1>7, <2>1 DEF Starting, Of
  <2>3. calls' = calls /\ raced \subseteq raced' /\ StartsRaced
    BY <1>2, <1>7 DEF Core
  <2> QED
    BY <2>2, <2>3 DEF StartsRaced
<1>12. Tabled'
  <2>1. ASSUME NEW q \in DOMAIN recs, recs[q].open, recs[q].call \notin raced'
        PROVE  /\ flag'[calls[recs[q].call].slot] = q
               /\ calls[recs[q].call].state # "None"
               /\ calls[recs[q].call].path = NoRec =>
                    \E u \in Threads : (At(u, "path") /\ Of(u) = recs[q].call)'
    <3>1. /\ recs[q].call \in Calls /\ q # NoRec
          /\ flag[calls[recs[q].call].slot] = q
          /\ calls[recs[q].call].state # "None"
          /\ calls[recs[q].call].path = NoRec =>
               \E u \in Threads : At(u, "path") /\ Of(u) = recs[q].call
      <4>1. recs[q].call \in Calls /\ q # NoRec
        BY <2>1, RecorderTyped DEF TypeOK
      <4>2. recs[q].call \notin raced
        BY <1>7, <2>1
      <4> QED BY <2>1, <4>1, <4>2 DEF Core, Tabled
    <3>2. calls[recs[q].call].slot # p
      <4>1. recs[q].call # c \/ flag[p] = NoRec
        BY <1>1, <1>2, <2>1
      <4>2. CASE calls[recs[q].call].slot = p
        <5>1. recs[q].call # c
          BY <3>1, <4>1, <4>2
        <5>2. calls[recs[q].call].state \in {"InCall", "OnHold"} \/ Of(Worker) = recs[q].call
          BY <1>7, <2>1, <3>1 DEF Core, Closing, TypeOK, Call, CallState
        <5>3. onSlot[p] = recs[q].call
          BY <3>1, <4>2, <5>2 DEF Core, OnItsSlot
        <5> QED BY <1>1, <5>1, <5>3
      <4> QED BY <4>2
    <3>3. calls[recs[q].call].slot \in Slots
      BY <3>1 DEF Core, HasSlot
    <3>4. \A u \in Threads : At(u, "path") => u # t
      BY <1>1 DEF At
    <3>5. \A u \in Threads : At(u, "path") /\ Of(u) = recs[q].call
            => (At(u, "path") /\ Of(u) = recs[q].call)'
      BY <1>5, <1>7, <2>1, <3>4 DEF At, Of
    <3> QED BY <1>7, <3>1, <3>2, <3>3, <3>5
  <2>2. At(t, "path")' /\ Of(t)' = c
    BY <1>2, <1>4, <1>7 DEF At, Of
  <2>3. ASSUME NEW q \in DOMAIN recs', recs'[q].open, recs'[q].call \notin raced'
        PROVE  /\ flag'[calls'[recs'[q].call].slot] = q
               /\ calls'[recs'[q].call].state # "None"
               /\ calls'[recs'[q].call].path = NoRec =>
                    \E u \in Threads : (At(u, "path") /\ Of(u) = recs[q].call)'
    <3>1. CASE q \in DOMAIN recs
      BY <1>2, <1>5, <2>1, <2>3, <3>1
    <3>2. CASE q = r
      <4>1. recs'[q].call = c
        BY <1>5, <3>2
      <4>2. \E u \in Threads : (At(u, "path") /\ Of(u) = recs[q].call)'
        BY <1>2, <2>2, <4>1
      <4> QED BY <1>1, <1>2, <1>7, <3>2, <4>1, <4>2
    <3> QED BY <1>5, <2>3, <3>1, <3>2
  <2> QED BY <2>3 DEF Tabled, At, Of
<1>13. Closing'
  <2>1. calls[c].state = "Ended" => c \in raced
    BY <1>1 DEF Core, StartsRaced, Starting, StartSteps
  <2>2. cmd'[Worker] = cmd[Worker] /\ calls' = calls
    BY <1>1, <1>2, <1>7
  <2>3. ASSUME NEW q \in DOMAIN recs', recs'[q].open, recs'[q].call \notin raced',
               calls[recs'[q].call].state = "Ended"
        PROVE  q # r /\ q \in DOMAIN recs /\ recs'[q] = recs[q] /\ recs[q].call \notin raced
    <3>1. q # r
      BY <1>5, <1>7, <2>1, <2>3
    <3> QED
      BY <1>5, <1>7, <2>3, <3>1
  <2>4. Closing
    BY DEF Core
  <2> HIDE DEF c, p, r, new, x
  <2> QED
    BY <2>2, <2>3, <2>4 DEF Closing, Of
<1>14. SavedIsClosed'
  BY <1>2, <1>5, <1>7 DEF Core, SavedIsClosed
<1> QED
  BY <1>2, <1>6, <1>8, <1>9, <1>10, <1>11, <1>12, <1>13, <1>14 DEF Core

LEMMA SetPathStep ==
  ASSUME TypeOK, Core, NEW t \in Threads, SetPath(t)
  PROVE  Core' /\ TypeOK' /\ UNCHANGED asyncs
<1> DEFINE c == Of(t)
           x == [cmd[t] EXCEPT !.op = "started"]
<1>1. /\ cmd[t].op = "path" /\ t # Worker
      /\ c \in Calls /\ cmd[t] \in Command /\ cmd[t].call = c
      /\ cmd[t].rec \in DOMAIN recs /\ recs[cmd[t].rec].call = c
      /\ Slot(t) \in Slots /\ calls[c] \in Call
      /\ calls[c].state # "None"
      /\ cmd[t].rec \in RecIds \cup {NoRec}
  BY DEF SetPath, At, Core, InsideCommand, WorkerEnds, StartSteps, StopSteps, TypeOK, Of, Slot, Command
<1>2. /\ calls' = [calls EXCEPT ![c].path = cmd[t].rec]
      /\ cmd' = [cmd EXCEPT ![t].op = "started"]
      /\ UNCHANGED <<onSlot, flag, recs, events, raced, dart, asyncs>>
  BY DEF SetPath, Goto, flutter
<1>3. /\ calls' \in [Calls -> Call]
      /\ \A d \in Calls : calls'[d].state = calls[d].state /\ calls'[d].slot = calls[d].slot
      /\ \A d \in Calls : d # c => calls'[d] = calls[d]
      /\ calls'[c].path = cmd[t].rec
  BY <1>1, <1>2 DEF TypeOK, Call
<1>4. cmd' = [cmd EXCEPT ![t] = x]
  BY <1>2
<1>5. x \in Command /\ x.op = "started" /\ x.call = c /\ x.rec = cmd[t].rec
  BY <1>1 DEF Command, StartSteps
<1>6. TypeOK'
  BY <1>2, <1>3, <1>4, <1>5 DEF TypeOK
<1>7. /\ cmd'[t] = x
      /\ \A u \in Threads : u # t => cmd'[u] = cmd[u]
      /\ Worker \in Threads
      /\ cmd[t].rec # NoRec
  BY <1>1, <1>4, RecorderTyped DEF TypeOK, Threads
<1>8. HasSlot' /\ OnItsSlot' /\ PathIsOwn'
  <2>1. HasSlot'
    BY <1>1, <1>3 DEF Core, HasSlot
  <2>2. OnItsSlot'
    BY <1>1, <1>2, <1>3, <1>7 DEF Core, OnItsSlot, Of
  <2>3. PathIsOwn'
    BY <1>1, <1>2, <1>3, <1>7 DEF Core, PathIsOwn, Of
  <2> QED BY <2>1, <2>2, <2>3
<1>9. WorkerEnds' /\ SavedIsClosed'
  <2>1. WorkerEnds'
    <3>1. cmd'[Worker] = cmd[Worker]
      BY <1>1, <1>7
    <3>2. cmd[Worker].op # "idle" => Of(Worker) \in Calls
      BY <1>7 DEF Core, InsideCommand
    <3> QED BY <1>3, <3>1, <3>2 DEF Core, WorkerEnds, Of
  <2>2. SavedIsClosed'
    BY <1>2 DEF Core, SavedIsClosed
  <2> QED BY <2>1, <2>2
<1>10. FlagIsOwn'
  <2>1. ASSUME NEW p \in Slots, flag[p] # NoRec
        PROVE  recs[flag[p]].call \in Calls
    BY <2>1, RecorderTyped DEF Core, FlagIsOwn, TypeOK
  <2> QED BY <1>2, <1>3, <2>1 DEF Core, FlagIsOwn
<1>11. \A u \in Threads : InsideCommand(u)'
  <2>1. InsideCommand(t)'
    BY <1>1, <1>2, <1>3, <1>5, <1>7 DEF InsideCommand, Of, Slot, StartSteps, StopSteps
  <2>2. ASSUME NEW u \in Threads, u # t
        PROVE  InsideCommand(u)'
    BY <1>2, <1>3, <1>7, <2>2 DEF Core, InsideCommand, Of, Slot, StartSteps, StopSteps
  <2> QED BY <2>1, <2>2
<1>12. StartsRaced'
  BY <1>1, <1>2, <1>3, <1>5, <1>7 DEF Core, StartsRaced, Starting, Of, StartSteps
<1>13. Tabled'
  <2>1. ASSUME NEW q \in DOMAIN recs, recs[q].open, recs[q].call \notin raced
        PROVE  /\ flag[calls'[recs[q].call].slot] = q
               /\ calls'[recs[q].call].state # "None"
               /\ calls'[recs[q].call].path = NoRec =>
                    \E u \in Threads : At(u, "path")' /\ Of(u)' = recs[q].call
    <3>1. recs[q].call \in Calls
      BY <2>1, RecorderTyped DEF TypeOK
    <3>2. /\ flag[calls[recs[q].call].slot] = q
          /\ calls[recs[q].call].state # "None"
          /\ calls[recs[q].call].path = NoRec =>
               \E u \in Threads : At(u, "path") /\ Of(u) = recs[q].call
      BY <2>1 DEF Core, Tabled
    <3>3. CASE recs[q].call = c
      BY <1>3, <1>7, <3>1, <3>2, <3>3
    <3>4. CASE recs[q].call # c
      BY <1>1, <1>3, <1>7, <3>1, <3>2, <3>4 DEF At, Of
    <3> QED BY <3>3, <3>4
  <2> QED BY <1>2, <2>1 DEF Tabled, At, Of
<1>14. Closing'
  <2>1. \A q \in DOMAIN recs : recs[q].call \in Calls
    BY RecorderTyped DEF TypeOK
  <2> QED
    BY <1>1, <1>2, <1>3, <1>7, <2>1 DEF Core, Closing, Of
<1> QED
  BY <1>2, <1>6, <1>8, <1>9, <1>10, <1>11, <1>12, <1>13, <1>14 DEF Core

\* EmitStarted, EmitStopped: an event, and the thread goes on.
LEMMA EmitStartedStep ==
  ASSUME TypeOK, Core, NEW t \in Threads, EmitStarted(t)
  PROVE  Core' /\ TypeOK' /\ UNCHANGED asyncs
<1>1. /\ cmd[t].op = "started" /\ t # Worker /\ Of(t) \in Calls
  BY DEF EmitStarted, At, Core, InsideCommand, WorkerEnds, StartSteps, StopSteps
<1>2. events' \in Seq(Event)
  BY <1>1 DEF TypeOK, EmitStarted, Push, PushWith, Event
<1>3. Core' /\ cmd' \in [Threads -> Command]
  BY <1>1, ReturnStep, SameEngine DEF EmitStarted, Returns, NoneOpen, StartSteps
<1> QED
  BY <1>2, <1>3 DEF TypeOK, EmitStarted, engine, flutter

-----------------------------------------------------------------------------
(* stop_recording_for_call *)

LEMMA StopReadStep ==
  ASSUME TypeOK, Core, NEW t \in Threads, StopRead(t)
  PROVE  Core' /\ TypeOK' /\ UNCHANGED asyncs
<1> DEFINE path == calls[Of(t)].path
           x == [cmd[t] EXCEPT !.op = "wasrec", !.rec = path]
<1>1. /\ cmd[t].op = "stop" /\ Of(t) \in Calls /\ cmd[t] \in Command
      /\ path \in RecIds \cup {NoRec}
      /\ UNCHANGED <<engine, events, flutter>>
  BY DEF StopRead, At, Core, InsideCommand, TypeOK, Call, StopSteps
<1>2. CASE path = NoRec /\ Return(t, "error")
  <2>1. NoneOpen(t)
    BY <1>1, <1>2, WorkerFinds DEF NoneOpen
  <2>2. Core' /\ cmd' \in [Threads -> Command]
    BY <1>1, <1>2, <2>1, ReturnStep, SameEngine DEF Returns, StopSteps
  <2> QED
    BY <1>1, <2>2 DEF TypeOK, engine, flutter
<1>3. CASE path # NoRec /\ cmd' = [cmd EXCEPT ![t] = x]
  <2>1. x \in Command /\ x.op = "wasrec" /\ x.rec = path /\ x.call = Of(t) /\ cmd'[t] = x
    BY <1>1, <1>3 DEF Command, StopSteps, Of, TypeOK
  <2>2. path \in DOMAIN recs /\ recs[path].call = Of(t) /\ Slot(t) \in Slots
    BY <1>1, <1>3 DEF Core, PathIsOwn, HasSlot, Slot
  <2>3. MayGoTo(t, x)
    BY <1>1, <2>1 DEF MayGoTo, Core, WorkerEnds, Of, StartSteps, StopSteps
  <2>4. InsideCommand(t)'
    BY <1>1, <2>1, <2>2 DEF InsideCommand, Of, Slot, engine, StartSteps, StopSteps
  <2>5. Core'
    BY <1>1, <1>3, <2>3, <2>4, ControlStep, SameEngine
  <2> QED
    BY <1>1, <1>3, <2>1, <2>5 DEF TypeOK, engine, flutter
<1> QED
  BY <1>2, <1>3 DEF StopRead

LEMMA WasRecordingStep ==
  ASSUME TypeOK, Core, NEW t \in Threads, WasRecording(t) \/ PjStop(t)
  PROVE  Core' /\ TypeOK' /\ UNCHANGED asyncs
<1>1. /\ cmd[t].op \in {"wasrec", "pjstop"}
      /\ Of(t) \in Calls /\ cmd[t] \in Command
  BY DEF WasRecording, PjStop, At, Core, InsideCommand, StopSteps, TypeOK
<1>2. flag[Slot(t)] = NoRec => NoneOpen(t)
  BY <1>1, WorkerFinds DEF NoneOpen
<1>3. ASSUME NEW op \in {"pjstop", "destroy"}, Goto(t, op), UNCHANGED <<engine, events, flutter>>
      PROVE  Core' /\ TypeOK' /\ UNCHANGED asyncs
  <2>1. MayGoTo(t, [cmd[t] EXCEPT !.op = op])
    BY <1>1, <1>3 DEF MayGoTo, Command, Of, StartSteps, StopSteps, Core, WorkerEnds
  <2>2. InsideCommand(t)'
    BY <1>1, <1>3 DEF Core, InsideCommand, Goto, Of, Slot, engine, StartSteps, StopSteps, TypeOK
  <2>3. Core' /\ cmd' \in [Threads -> Command]
    BY <1>1, <1>3, <2>1, <2>2, GotoStep DEF StopSteps
  <2> QED
    BY <1>3, <2>3 DEF TypeOK, engine, flutter
<1>4. ASSUME NoneOpen(t), Return(t, "error"), UNCHANGED <<engine, events, flutter>>
      PROVE  Core' /\ TypeOK' /\ UNCHANGED asyncs
  <2>1. Core' /\ cmd' \in [Threads -> Command]
    BY <1>1, <1>4, ReturnStep, SameEngine DEF StopSteps, Returns
  <2> QED
    BY <1>4, <2>1 DEF TypeOK, engine, flutter
<1>5. NoneOpen(t) /\ CommandFails(t) => Core' /\ TypeOK' /\ UNCHANGED asyncs
  BY <1>1, FailStep DEF StopSteps
<1> QED
  BY <1>2, <1>3, <1>4, <1>5 DEF WasRecording, PjStop

LEMMA PjDestroyStep ==
  ASSUME TypeOK, Core, NEW t \in Threads, PjDestroy(t)
  PROVE  Core' /\ TypeOK' /\ UNCHANGED asyncs
<1> DEFINE c == Of(t)
           p == Slot(t)
           r == flag[p]
           x == [cmd[t] EXCEPT !.op = "stopped"]
<1>1. /\ cmd[t].op = "destroy"
      /\ c \in Calls /\ cmd[t] \in Command /\ cmd[t].call = c
      /\ p \in Slots /\ p = calls[c].slot
      /\ cmd[t].rec \in DOMAIN recs /\ recs[cmd[t].rec].call = c
      /\ r \in RecIds \cup {NoRec}
  BY DEF PjDestroy, At, Core, InsideCommand, StartSteps, StopSteps, TypeOK, Of, Slot
<1>2. /\ flag' = [flag EXCEPT ![p] = NoRec]
      /\ cmd' = [cmd EXCEPT ![t].op = "stopped"]
      /\ UNCHANGED <<calls, onSlot, raced, events, dart, asyncs>>
  BY DEF PjDestroy, Goto, flutter
<1>3. r # NoRec => r \in DOMAIN recs /\ calls[recs[r].call].slot = p
  BY <1>1 DEF Core, FlagIsOwn
<1>4. /\ recs' \in Seq(Recorder)
      /\ DOMAIN recs' = DOMAIN recs
      /\ \A q \in DOMAIN recs : q # r => recs'[q] = recs[q]
      /\ r # NoRec => ~recs'[r].open
      /\ \A q \in DOMAIN recs : recs'[q].call = recs[q].call /\ recs'[q].saved = recs[q].saved
  <2>1. CASE r = NoRec
    BY <2>1 DEF TypeOK, PjDestroy
  <2>2. CASE r # NoRec
    <3>1. recs[r] \in Recorder
      BY <1>3, <2>2, RecorderTyped DEF TypeOK
    <3>2. recs' = [recs EXCEPT ![r] = [recs[r] EXCEPT !.open = FALSE]]
      BY <2>2 DEF PjDestroy
    <3>3. [recs[r] EXCEPT !.open = FALSE] \in Recorder
      BY <3>1 DEF Recorder
    <3>4. recs' \in Seq(Recorder) /\ DOMAIN recs' = DOMAIN recs
      BY <1>3, <2>2, <3>2, <3>3, ExceptSeq DEF TypeOK
    <3> QED
      BY <1>3, <2>2, <3>1, <3>2, <3>4 DEF Recorder
  <2> QED BY <2>1, <2>2
<1>5. \A q \in DOMAIN recs : recs'[q].open => q # r /\ recs[q].open
  BY <1>3, <1>4, RecorderTyped DEF TypeOK
<1>6. cmd' = [cmd EXCEPT ![t] = x]
  BY <1>2
<1>7. x \in Command /\ x.op = "stopped" /\ x.call = c /\ x.rec = cmd[t].rec
  BY <1>1 DEF Command, StopSteps
<1>8. TypeOK'
  BY <1>2, <1>4, <1>6, <1>7 DEF TypeOK
<1>9. /\ cmd'[t] = x
      /\ \A u \in Threads : u # t => cmd'[u] = cmd[u]
      /\ Worker \in Threads
      /\ \A q \in Slots : q # p => flag'[q] = flag[q]
      /\ flag'[p] = NoRec
  BY <1>1, <1>2, <1>6 DEF TypeOK, Threads
<1>10. HasSlot' /\ OnItsSlot' /\ PathIsOwn' /\ WorkerEnds' /\ StartsRaced'
  <2>1. HasSlot' /\ OnItsSlot'
    BY <1>1, <1>2, <1>7, <1>9 DEF Core, HasSlot, OnItsSlot, Of
  <2>2. PathIsOwn'
    BY <1>2, <1>4 DEF Core, PathIsOwn
  <2>3. WorkerEnds'
    BY <1>1, <1>2, <1>7, <1>9 DEF Core, WorkerEnds, Of, StopSteps
  <2>4. \A u \in Threads, d \in Calls : Starting(u, d)' => Starting(u, d)
    BY <1>7, <1>9 DEF Starting, Of, StartSteps
  <2>5. calls' = calls /\ raced' = raced /\ StartsRaced
    BY <1>2 DEF Core
  <2>6. StartsRaced'
    BY <2>4, <2>5 DEF StartsRaced
  <2> QED BY <2>1, <2>2, <2>3, <2>6
<1>11. FlagIsOwn'
  <2>1. ASSUME NEW q \in Slots, flag'[q] # NoRec
        PROVE  q # p /\ flag[q] \in DOMAIN recs /\ flag[q] # r /\ recs[flag[q]].open
    BY <1>3, <1>9, <2>1 DEF Core, FlagIsOwn
  <2> QED
    BY <1>2, <1>4, <1>9, <2>1 DEF Core, FlagIsOwn
<1>12. \A u \in Threads : InsideCommand(u)'
  <2>1. ~recs'[cmd[t].rec].open \/ c \in raced
    BY <1>1, <1>5 DEF Core, Tabled
  <2>2. InsideCommand(t)'
    <3>1. /\ Of(t)' = c /\ Slot(t)' = p /\ cmd'[t].rec = cmd[t].rec
          /\ cmd'[t].op = "stopped"
      BY <1>1, <1>2, <1>7, <1>9 DEF Of, Slot
    <3>2. cmd[t].rec \in DOMAIN recs' /\ recs'[cmd[t].rec].call = c /\ raced' = raced
      BY <1>1, <1>2, <1>4
    <3>3. c \in Calls /\ p \in Slots
      BY <1>1
    <3> HIDE DEF c, p, r, x
    <3> QED
      BY <2>1, <3>1, <3>2, <3>3 DEF InsideCommand, StartSteps, StopSteps
  <2>3. ASSUME NEW u \in Threads, u # t
        PROVE  InsideCommand(u)'
    <3>1. InsideCommand(u) /\ cmd'[u] = cmd[u] /\ calls' = calls /\ raced' = raced
      BY <1>2, <1>9, <2>3 DEF Core
    <3>2. \A q \in DOMAIN recs :
             q \in DOMAIN recs' /\ recs'[q].call = recs[q].call /\ (recs'[q].open => recs[q].open)
      BY <1>4, <1>5
    <3> QED
      BY <3>1, <3>2, InsideKept
  <2> QED BY <2>2, <2>3
<1>13. Tabled'
  <2>1. ASSUME NEW q \in DOMAIN recs, recs'[q].open, recs[q].call \notin raced
        PROVE  /\ flag'[calls[recs[q].call].slot] = q
               /\ calls[recs[q].call].state # "None"
               /\ calls[recs[q].call].path = NoRec =>
                    \E u \in Threads : At(u, "path")' /\ Of(u)' = recs[q].call
    <3>1. recs[q].call \in Calls /\ q # r /\ recs[q].open
      BY <1>5, <2>1, RecorderTyped DEF TypeOK
    <3>2. /\ flag[calls[recs[q].call].slot] = q
          /\ calls[recs[q].call].state # "None"
          /\ calls[recs[q].call].path = NoRec =>
               \E u \in Threads : At(u, "path") /\ Of(u) = recs[q].call
      BY <2>1, <3>1 DEF Core, Tabled
    <3>3. calls[recs[q].call].slot \in Slots \ {p}
      BY <3>1, <3>2 DEF Core, HasSlot
    <3> QED BY <1>1, <1>9, <3>2, <3>3 DEF At, Of
  <2> QED BY <1>2, <1>4, <2>1 DEF Tabled, At, Of
<1>14. Closing'
  <2>1. ASSUME NEW q \in DOMAIN recs, recs'[q].open, recs[q].call \notin raced,
               calls[recs[q].call].state = "Ended"
        PROVE  /\ t # Worker
               /\ Of(Worker) = recs[q].call
               /\ cmd[Worker].op \in {"cleanup", "stop", "wasrec", "pjstop", "destroy"}
    BY <1>1, <1>5, <2>1 DEF Core, Closing, Tabled
  <2> QED
    BY <1>2, <1>4, <1>9, <2>1 DEF Closing, Of
<1>15. SavedIsClosed'
  BY <1>2, <1>4, <1>5 DEF Core, SavedIsClosed
<1> QED
  BY <1>2, <1>8, <1>10, <1>11, <1>12, <1>13, <1>14, <1>15 DEF Core

LEMMA EmitStoppedStep ==
  ASSUME TypeOK, Core, NEW t \in Threads, EmitStopped(t)
  PROVE  Core' /\ TypeOK' /\ UNCHANGED asyncs
<1>1. /\ cmd[t].op = "stopped" /\ Of(t) \in Calls /\ cmd[t] \in Command
      /\ Goto(t, "saved") /\ UNCHANGED <<engine, flutter>>
  BY DEF EmitStopped, At, Core, InsideCommand, StopSteps, TypeOK
<1>2. events' \in Seq(Event)
  BY <1>1 DEF TypeOK, EmitStopped, Push, PushWith, Event
<1>3. t = Worker => \A r \in DOMAIN recs :
        recs[r].open /\ recs[r].call = Of(t) => Of(t) \in raced
  BY <1>1 DEF Core, Closing, WorkerEnds
<1>4. MayGoTo(t, [cmd[t] EXCEPT !.op = "saved"])
  BY <1>1, <1>3 DEF MayGoTo, Command, Of, StartSteps, StopSteps, Core, WorkerEnds
<1>5. InsideCommand(t)'
  BY <1>1 DEF Core, InsideCommand, Goto, Of, Slot, engine, StartSteps, StopSteps, TypeOK
<1>6. Core' /\ cmd' \in [Threads -> Command]
  BY <1>1, <1>4, <1>5, GotoStep DEF StopSteps
<1> QED
  BY <1>1, <1>2, <1>6 DEF TypeOK, engine, flutter

LEMMA EmitSavedStep ==
  ASSUME TypeOK, Core, NEW t \in Threads, EmitSaved(t)
  PROVE  Core' /\ TypeOK' /\ UNCHANGED asyncs
<1> DEFINE r == cmd[t].rec
<1>1. /\ cmd[t].op = "saved" /\ Of(t) \in Calls
      /\ r \in DOMAIN recs /\ recs[r].call = Of(t)
      /\ ~recs[r].open \/ Of(t) \in raced
  BY DEF EmitSaved, At, Core, InsideCommand, StopSteps
<1>2. events' \in Seq(Event) /\ UNCHANGED <<calls, onSlot, flag, raced, dart, asyncs>>
  BY <1>1 DEF TypeOK, EmitSaved, Push, PushWith, Event, flutter
<1>3. recs[r] \in Recorder
  BY <1>1, RecorderTyped DEF TypeOK
<1>4. recs' = [recs EXCEPT ![r] = [recs[r] EXCEPT !.saved = TRUE]]
  BY DEF EmitSaved
<1>5. [recs[r] EXCEPT !.saved = TRUE] \in Recorder
  BY <1>3 DEF Recorder
<1>6. recs' \in Seq(Recorder) /\ DOMAIN recs' = DOMAIN recs
  BY <1>1, <1>4, <1>5, ExceptSeq DEF TypeOK
<1>7. /\ \A q \in DOMAIN recs : recs'[q].call = recs[q].call /\ (recs'[q].open <=> recs[q].open)
      /\ \A q \in DOMAIN recs : q # r => recs'[q].saved = recs[q].saved
  BY <1>1, <1>3, <1>4, <1>6 DEF Recorder
<1>8. SavedIsClosed'
  BY <1>1, <1>2, <1>6, <1>7 DEF Core, SavedIsClosed
<1>9. SameTable
  BY <1>2, <1>6, <1>7, <1>8 DEF SameTable
<1>10. NoneOpen(t)
  BY <1>1 DEF NoneOpen, Core, Closing, WorkerEnds
<1>11. Return(t, "ok")
  BY DEF EmitSaved
<1>12. Core' /\ cmd' \in [Threads -> Command]
  BY <1>1, <1>9, <1>10, <1>11, ReturnStep DEF Returns, StopSteps
<1> QED
  BY <1>2, <1>6, <1>12 DEF TypeOK

\* A thread that does nothing begins a command.
LEMMA BeginStep ==
  ASSUME TypeOK, Core, NEW t \in Threads, t # Worker, cmd[t] = Idle,
         NEW op \in {"start", "stop"}, NEW c \in Calls, Doing(t, op, c), UNCHANGED engine
  PROVE  Core' /\ cmd' \in [Threads -> Command]
<1> DEFINE x == [op |-> op, call |-> c, rec |-> NoRec]
<1>1. cmd' = [cmd EXCEPT ![t] = x] /\ cmd'[t] = x
  BY DEF Doing, TypeOK
<1>2. x \in Command
  BY DEF Command, StartSteps, StopSteps
<1>3. MayGoTo(t, x)
  BY <1>2 DEF MayGoTo, Idle, StartSteps
<1>4. InsideCommand(t)'
  BY <1>1 DEF InsideCommand, Of, StartSteps, StopSteps
<1>5. cmd' \in [Threads -> Command]
  BY <1>1, <1>2 DEF TypeOK
<1> QED
  BY <1>1, <1>3, <1>4, <1>5, ControlStep, SameEngine

LEMMA ClientCommandStep ==
  ASSUME TypeOK, Core, NEW t \in Clients, NEW c \in Calls, NEW op \in {"start", "stop"},
         ClientCommand(t, c, op)
  PROVE  Core' /\ TypeOK' /\ UNCHANGED asyncs
<1>1. t \in Threads /\ t # Worker
  BY DEF Threads
<1>2. Core' /\ cmd' \in [Threads -> Command]
  BY <1>1, BeginStep DEF ClientCommand
<1> QED
  BY <1>2 DEF ClientCommand, TypeOK, engine, flutter

-----------------------------------------------------------------------------
(* The call *)

LEMMA CallConnectsStep ==
  ASSUME TypeOK, Core, NEW c \in Calls, NEW p \in Slots, CallConnects(c, p)
  PROVE  Core' /\ TypeOK' /\ UNCHANGED asyncs
<1>1. /\ calls[c] \in Call /\ calls[c].state = "None" /\ onSlot[p] = NoCall
      /\ calls' = [calls EXCEPT ![c].state = "InCall", ![c].slot = p]
      /\ onSlot' = [onSlot EXCEPT ![p] = c]
      /\ UNCHANGED <<flag, recs, cmd, raced, dart, asyncs>>
  BY DEF CallConnects, TypeOK, flutter
<1>2. /\ calls' \in [Calls -> Call]
      /\ calls'[c].state = "InCall" /\ calls'[c].slot = p /\ calls'[c].path = calls[c].path
      /\ \A d \in Calls : d # c => calls'[d] = calls[d]
      /\ \A d \in Calls : calls'[d].path = calls[d].path
      /\ onSlot'[p] = c /\ \A q \in Slots : q # p => onSlot'[q] = onSlot[q]
  BY <1>1 DEF TypeOK, Call, CallState
<1>3. events' \in Seq(Event)
  BY DEF TypeOK, CallConnects, Push, PushWith, Event
<1>4. TypeOK'
  BY <1>1, <1>2, <1>3 DEF TypeOK
<1>5. \A q \in DOMAIN recs : recs[q].call \in Calls
  BY RecorderTyped DEF TypeOK
<1>6. HasSlot' /\ OnItsSlot' /\ PathIsOwn'
  <2>1. Of(Worker) # c
    BY <1>1 DEF Core, WorkerEnds, InsideCommand, Of, Idle, Threads
  <2>2. \A d \in Calls : d # c /\ onSlot[calls[d].slot] = d => calls[d].slot # p
    BY <1>1
  <2>3. OnItsSlot'
    BY <1>1, <1>2, <2>1, <2>2 DEF Core, OnItsSlot, HasSlot, WorkerEnds, Of, CallState, Idle, InsideCommand, Threads
  <2> QED
    BY <1>1, <1>2, <2>3 DEF Core, HasSlot, PathIsOwn
<1>7. FlagIsOwn'
  BY <1>1, <1>2, <1>5 DEF Core, FlagIsOwn
<1>8. \A u \in Threads : InsideCommand(u)'
  <2>1. ASSUME NEW u \in Threads
        PROVE  InsideCommand(u)'
    <3>1. InsideCommand(u)
      BY DEF Core
    <3> QED
      BY <1>1, <1>2, <3>1 DEF InsideCommand, Of, Slot, StartSteps, StopSteps
  <2> QED BY <2>1
<1>9. WorkerEnds' /\ StartsRaced' /\ SavedIsClosed'
  BY <1>1, <1>2 DEF Core, WorkerEnds, StartsRaced, Starting, SavedIsClosed, Of, InsideCommand, Threads
<1>10. Tabled'
  BY <1>1, <1>2, <1>5 DEF Core, Tabled, At, Of
<1>11. Closing'
  BY <1>1, <1>2, <1>5 DEF Core, Closing, Of
<1> QED
  BY <1>1, <1>4, <1>6, <1>7, <1>8, <1>9, <1>10, <1>11 DEF Core

LEMMA CallReportsStep ==
  ASSUME TypeOK, Core, NEW c \in Calls, NEW state \in {"InCall", "OnHold"},
         CallReports(c, state)
  PROVE  Core' /\ TypeOK' /\ UNCHANGED asyncs
<1>1. /\ calls[c] \in Call /\ calls[c].state \in {"InCall", "OnHold"}
      /\ calls' = [calls EXCEPT ![c].state = state]
      /\ UNCHANGED <<onSlot, flag, recs, cmd, raced, dart, asyncs>>
  BY DEF CallReports, TypeOK, flutter
<1>2. /\ calls' \in [Calls -> Call]
      /\ calls'[c].state = state
      /\ \A d \in Calls : d # c => calls'[d] = calls[d]
      /\ \A d \in Calls : calls'[d].path = calls[d].path /\ calls'[d].slot = calls[d].slot
  BY <1>1 DEF TypeOK, Call, CallState
<1>3. events' \in Seq(Event)
  BY DEF TypeOK, CallReports, Push, PushWith, Event
<1>4. TypeOK'
  BY <1>1, <1>2, <1>3 DEF TypeOK
<1>5. \A q \in DOMAIN recs : recs[q].call \in Calls
  BY RecorderTyped DEF TypeOK
<1>6. HasSlot' /\ OnItsSlot' /\ PathIsOwn'
  BY <1>1, <1>2 DEF Core, HasSlot, OnItsSlot, PathIsOwn, Of
<1>7. FlagIsOwn'
  BY <1>1, <1>2, <1>5 DEF Core, FlagIsOwn
<1>8. \A u \in Threads : InsideCommand(u)'
  <2>1. ASSUME NEW u \in Threads
        PROVE  InsideCommand(u)'
    <3>1. InsideCommand(u)
      BY DEF Core
    <3> QED
      BY <1>1, <1>2, <3>1 DEF InsideCommand, Of, Slot, StartSteps, StopSteps
  <2> QED BY <2>1
<1>9. WorkerEnds' /\ StartsRaced' /\ SavedIsClosed'
  BY <1>1, <1>2 DEF Core, WorkerEnds, StartsRaced, Starting, SavedIsClosed, Of, InsideCommand, Threads
<1>10. Tabled'
  BY <1>1, <1>2, <1>5 DEF Core, Tabled, At, Of
<1>11. Closing'
  BY <1>1, <1>2, <1>5 DEF Core, Closing, Of
<1> QED
  BY <1>1, <1>4, <1>6, <1>7, <1>8, <1>9, <1>10, <1>11 DEF Core

LEMMA CallEndsStep ==
  ASSUME TypeOK, Core, NEW c \in Calls, CallEnds(c)
  PROVE  Core' /\ TypeOK' /\ UNCHANGED asyncs
<1> DEFINE x == [op |-> "cleanup", call |-> c, rec |-> NoRec]
<1>1. /\ calls[c] \in Call /\ calls[c].state \in {"InCall", "OnHold"}
      /\ cmd[Worker] = Idle
      /\ calls' = [calls EXCEPT ![c].state = "Ended"]
      /\ cmd' = [cmd EXCEPT ![Worker] = x]
      /\ UNCHANGED <<onSlot, flag, recs, dart, asyncs>>
      /\ Worker \in Threads
  BY DEF CallEnds, Doing, TypeOK, flutter, Threads
<1>2. /\ calls' \in [Calls -> Call]
      /\ calls'[c].state = "Ended"
      /\ \A d \in Calls : d # c => calls'[d] = calls[d]
      /\ \A d \in Calls : calls'[d].path = calls[d].path /\ calls'[d].slot = calls[d].slot
  BY <1>1 DEF TypeOK, Call, CallState
<1>3. /\ raced \subseteq raced' /\ raced' \subseteq Calls
      /\ (\E t \in Threads : Starting(t, c)) => c \in raced'
  BY DEF CallEnds, TypeOK
<1>4. /\ x \in Command /\ cmd'[Worker] = x
      /\ \A u \in Threads : u # Worker => cmd'[u] = cmd[u]
      /\ cmd' \in [Threads -> Command]
  BY <1>1 DEF TypeOK, Command
<1>5. events' \in Seq(Event)
  BY DEF TypeOK, CallEnds, PushWith, Event
<1>6. TypeOK'
  BY <1>1, <1>2, <1>3, <1>4, <1>5 DEF TypeOK
<1>7. \A q \in DOMAIN recs : recs[q].call \in Calls
  BY RecorderTyped DEF TypeOK
<1>8. HasSlot' /\ OnItsSlot' /\ PathIsOwn'
  BY <1>1, <1>2, <1>4 DEF Core, HasSlot, OnItsSlot, PathIsOwn, Of
<1>9. FlagIsOwn'
  BY <1>1, <1>2, <1>7 DEF Core, FlagIsOwn
<1>10. \A u \in Threads : InsideCommand(u)'
  <2>1. InsideCommand(Worker)'
    BY <1>4 DEF InsideCommand, Of, StartSteps, StopSteps
  <2>2. ASSUME NEW u \in Threads, u # Worker
        PROVE  InsideCommand(u)'
    <3>1. InsideCommand(u) /\ cmd'[u] = cmd[u]
      BY <1>4, <2>2 DEF Core
    <3> QED
      BY <1>1, <1>2, <1>3, <3>1 DEF InsideCommand, Of, Slot, StartSteps, StopSteps
  <2> QED BY <2>1, <2>2
<1>11. WorkerEnds'
  BY <1>2, <1>4 DEF WorkerEnds, Of
<1>12. StartsRaced'
  <2>1. ASSUME NEW u \in Threads, NEW d \in Calls, calls'[d].state = "Ended", Starting(u, d)'
        PROVE  d \in raced'
    <3>1. u # Worker
      BY <1>4, <2>1 DEF Starting, StartSteps
    <3>2. Starting(u, d)
      BY <1>4, <2>1, <3>1 DEF Starting, Of
    <3> QED
      BY <1>2, <1>3, <2>1, <3>2 DEF Core, StartsRaced
  <2> QED BY <2>1 DEF StartsRaced, Starting
<1>13. Tabled'
  <2>1. \A u \in Threads : \A d : At(u, "path") /\ Of(u) = d => (At(u, "path") /\ Of(u) = d)'
    BY <1>1, <1>4 DEF At, Of, Idle
  <2> QED
    BY <1>1, <1>2, <1>3, <1>7, <2>1 DEF Core, Tabled
<1>14. Closing'
  BY <1>1, <1>2, <1>3, <1>4, <1>7 DEF Core, Closing, Of, Idle
<1>15. SavedIsClosed'
  BY <1>1, <1>3 DEF Core, SavedIsClosed
<1> QED
  BY <1>1, <1>6, <1>8, <1>9, <1>10, <1>11, <1>12, <1>13, <1>14, <1>15 DEF Core

LEMMA EndCleanupStep ==
  ASSUME TypeOK, Core, EndCleanup
  PROVE  Core' /\ TypeOK' /\ UNCHANGED asyncs
<1> DEFINE op == IF calls[Of(Worker)].path # NoRec THEN "stop" ELSE "release"
           x == [cmd[Worker] EXCEPT !.op = op]
<1>1. /\ Worker \in Threads /\ cmd[Worker] \in Command /\ cmd[Worker].op = "cleanup"
      /\ Of(Worker) \in Calls /\ calls[Of(Worker)].state = "Ended"
      /\ cmd' = [cmd EXCEPT ![Worker] = x]
      /\ UNCHANGED <<engine, events, dart, asyncs>>
  BY DEF EndCleanup, Goto, At, Core, WorkerEnds, InsideCommand, Threads, TypeOK, flutter
<1>2. x \in Command /\ x.op = op /\ x.call = Of(Worker) /\ cmd'[Worker] = x
  BY <1>1 DEF Command, StopSteps, Of, TypeOK
<1>3. op = "release" => \A r \in DOMAIN recs :
        recs[r].open /\ recs[r].call = Of(Worker) => Of(Worker) \in raced
  BY <1>1, WorkerFinds
<1>4. MayGoTo(Worker, x)
  BY <1>1, <1>2, <1>3 DEF MayGoTo, StartSteps, StopSteps
<1>5. InsideCommand(Worker)'
  BY <1>1, <1>2 DEF InsideCommand, StartSteps, StopSteps, Of
<1>6. Core'
  BY <1>1, <1>4, <1>5, ControlStep, SameEngine
<1> QED
  BY <1>1, <1>2, <1>6 DEF TypeOK, engine

LEMMA ReleaseSlotStep ==
  ASSUME TypeOK, Core, ReleaseSlot
  PROVE  Core' /\ TypeOK' /\ UNCHANGED asyncs
<1> DEFINE c == Of(Worker)
           p == Slot(Worker)
<1>1. /\ Worker \in Threads /\ cmd[Worker].op = "release"
      /\ c \in Calls /\ calls[c].state = "Ended" /\ onSlot[p] = c
      /\ onSlot' = [onSlot EXCEPT ![p] = NoCall]
      /\ cmd' = [cmd EXCEPT ![Worker] = Idle]
      /\ UNCHANGED <<calls, flag, recs, events, raced, dart, asyncs>>
  BY DEF ReleaseSlot, At, Core, WorkerEnds, OnItsSlot, InsideCommand, Threads, Slot, flutter
<1>2. /\ Idle \in Command /\ cmd'[Worker] = Idle /\ Idle.op = "idle" /\ Idle.call = NoCall
      /\ \A u \in Threads : u # Worker => cmd'[u] = cmd[u]
      /\ \A q \in Slots : q # p => onSlot'[q] = onSlot[q]
  BY <1>1 DEF TypeOK, Idle, Command
<1>3. TypeOK'
  BY <1>1, <1>2 DEF TypeOK
<1>4. HasSlot' /\ PathIsOwn' /\ FlagIsOwn' /\ SavedIsClosed'
  BY <1>1 DEF Core, HasSlot, PathIsOwn, FlagIsOwn, SavedIsClosed
<1>5. OnItsSlot'
  <2>1. ASSUME NEW d \in Calls, calls[d].state \in {"InCall", "OnHold"}
        PROVE  onSlot'[calls[d].slot] = d
    <3>1. calls[d].slot \in Slots /\ onSlot[calls[d].slot] = d /\ d # c
      BY <1>1, <2>1 DEF Core, HasSlot, OnItsSlot
    <3> QED BY <1>1, <1>2, <3>1
  <2> QED BY <1>1, <1>2, <2>1 DEF OnItsSlot, Of
<1>6. \A u \in Threads : InsideCommand(u)'
  <2>1. InsideCommand(Worker)'
    BY <1>2 DEF InsideCommand, Of, StartSteps, StopSteps
  <2>2. ASSUME NEW u \in Threads, u # Worker
        PROVE  InsideCommand(u)'
    <3>1. InsideCommand(u) /\ cmd'[u] = cmd[u]
      BY <1>2, <2>2 DEF Core
    <3> QED
      BY <1>1, <3>1 DEF InsideCommand, Of, Slot, StartSteps, StopSteps
  <2> QED BY <2>1, <2>2
<1>7. WorkerEnds' /\ StartsRaced'
  BY <1>1, <1>2 DEF Core, WorkerEnds, StartsRaced, Starting, Of
<1>8. Tabled'
  <2>1. \A u \in Threads : \A d : At(u, "path") /\ Of(u) = d => (At(u, "path") /\ Of(u) = d)'
    BY <1>1, <1>2 DEF At, Of
  <2> QED
    BY <1>1, <2>1 DEF Core, Tabled
<1>9. Closing'
  BY <1>1, <1>2 DEF Core, Closing, Of
<1> QED
  BY <1>1, <1>3, <1>4, <1>5, <1>6, <1>7, <1>8, <1>9 DEF Core

-----------------------------------------------------------------------------
(* RecordingService and EngineChannel *)

DartTyped == dart' \in [Calls -> Session] /\ asyncs' \in [Asyncs -> Async] /\ AsyncsName'

LEMMA SameCore ==
  ASSUME TypeOK, Core, UNCHANGED <<engine, cmd>>
  PROVE  Core'
<1>1. UNCHANGED <<calls, onSlot, flag, recs, raced, cmd>>
  BY DEF engine
<1>2. HasSlot' /\ OnItsSlot' /\ PathIsOwn' /\ FlagIsOwn' /\ SavedIsClosed'
  BY <1>1 DEF Core, HasSlot, OnItsSlot, PathIsOwn, FlagIsOwn, SavedIsClosed, Of
<1>3. \A t \in Threads : InsideCommand(t)'
  BY <1>1 DEF Core, InsideCommand, Of, Slot
<1>4. WorkerEnds' /\ StartsRaced' /\ Tabled' /\ Closing'
  BY <1>1 DEF Core, WorkerEnds, StartsRaced, Tabled, Closing, Starting, At, Of
<1> QED
  BY <1>1, <1>2, <1>3, <1>4 DEF Core

\* Dart takes what a command of its own returned.
LEMMA TakeStep ==
  ASSUME TypeOK, Core, cmd[Flutter].op \in Returns, UNCHANGED engine,
         cmd' = [cmd EXCEPT ![Flutter] = Idle]
  PROVE  Core' /\ cmd' \in [Threads -> Command]
<1>1. /\ Flutter \in Threads /\ Flutter # Worker
      /\ Idle \in Command /\ Idle.op = "idle" /\ Idle.call = NoCall
  BY DEF Threads, Idle, Command
<1>2. cmd'[Flutter] = Idle /\ cmd' \in [Threads -> Command]
  BY <1>1 DEF TypeOK
<1>3. MayGoTo(Flutter, Idle)
  BY <1>1 DEF MayGoTo, Returns, StartSteps
<1>4. InsideCommand(Flutter)'
  BY <1>1, <1>2 DEF InsideCommand, Of, StartSteps, StopSteps
<1> QED
  BY <1>1, <1>2, <1>3, <1>4, ControlStep, SameEngine

LEMMA BeginStartTyped ==
  ASSUME TypeOK, NEW c \in Calls, NEW auto \in BOOLEAN, NEW tries \in 0 .. MaxRetry,
         NEW others \in [Asyncs -> Async],
         \A k \in Asyncs : others[k].at # "idle" => others[k].call \in Calls,
         BeginStart(c, auto, tries, others)
  PROVE  DartTyped
<1>1. CASE Active(dart[c].phase)
  <2>1. asyncs' = others /\ dart' = [dart EXCEPT ![c].pending = @ /\ ~auto]
    BY <1>1 DEF BeginStart
  <2>2. dart[c] \in Session
    BY DEF TypeOK
  <2>3. [dart[c] EXCEPT !.pending = @ /\ ~auto] \in Session
    BY <2>2 DEF Session
  <2>4. dart' \in [Calls -> Session]
    BY <2>1, <2>3 DEF TypeOK
  <2> QED
    BY <2>1, <2>4 DEF DartTyped, AsyncsName
<1>2. CASE ~Active(dart[c].phase)
  <2> DEFINE a == [at |-> "path", call |-> c, auto |-> auto, tries |-> tries]
  <2>1. PICK k \in Asyncs : asyncs' = [others EXCEPT ![k] = a]
    BY <1>2 DEF BeginStart
  <2>2. a \in Async /\ a.call \in Calls
    BY DEF Async
  <2>3. asyncs' \in [Asyncs -> Async]
    BY <2>1, <2>2
  <2>4. \A j \in Asyncs : asyncs'[j].at # "idle" => asyncs'[j].call \in Calls
    BY <2>1, <2>2
  <2>5. UNCHANGED dart
    BY <1>2 DEF BeginStart
  <2> QED
    BY <2>3, <2>4, <2>5 DEF DartTyped, AsyncsName, TypeOK
<1> QED
  BY <1>1, <1>2

\* Steps that end a start or leave the phase of a call at another one.
LEMMA EndStartTyped ==
  ASSUME TypeOK, AsyncsName, NEW k \in Asyncs, EndStart(k)
  PROVE  asyncs' \in [Asyncs -> Async] /\ AsyncsName'
<1>1. NoAsync \in Async /\ NoAsync.at = "idle"
  BY DEF NoAsync, Async
<1> QED
  BY <1>1 DEF EndStart, TypeOK, AsyncsName

LEMMA NoPendingTyped ==
  ASSUME TypeOK, NEW k \in Asyncs
  PROVE  NoPending(k) \in [Calls -> Session]
BY DEF NoPending, TypeOK, Session

LEMMA PhaseTyped ==
  ASSUME NEW seen \in [Calls -> Session], NEW c, NEW phase \in Phase
  PROVE  [seen EXCEPT ![c].phase = phase] \in [Calls -> Session]
BY DEF Session

LEMMA ToggleStep ==
  ASSUME TypeOK, Core, AsyncsName, NEW c \in Calls, ToggleStop(c) \/ ToggleStart(c)
  PROVE  Core' /\ TypeOK' /\ AsyncsName'
<1>1. CASE ToggleStop(c)
  <2>1. Core' /\ cmd' \in [Threads -> Command]
    BY <1>1, BeginStep DEF ToggleStop, DartFree, Threads
  <2>2. dart' \in [Calls -> Session]
    BY <1>1, PhaseTyped DEF ToggleStop, TypeOK, Phase
  <2> QED
    BY <1>1, <2>1, <2>2 DEF ToggleStop, TypeOK, AsyncsName, engine
<1>2. CASE ToggleStart(c)
  <2>1. BeginStart(c, FALSE, 0, asyncs)
    BY <1>2 DEF ToggleStart
  <2>2. FALSE \in BOOLEAN /\ 0 \in 0 .. MaxRetry /\ asyncs \in [Asyncs -> Async]
    BY DEF TypeOK
  <2>3. DartTyped
    BY <2>1, <2>2, BeginStartTyped, Zenon DEF AsyncsName
  <2>4. Core'
    BY <1>2, SameCore DEF ToggleStart
  <2> QED
    BY <1>2, <2>3, <2>4 DEF ToggleStart, DartTyped, TypeOK, engine
<1> QED
  BY <1>1, <1>2

LEMMA PathStep ==
  ASSUME TypeOK, Core, AsyncsName, NEW k \in Asyncs, PathFails(k) \/ PathReady(k)
  PROVE  Core' /\ TypeOK' /\ AsyncsName'
<1>1. CASE PathFails(k)
  <2>1. Core'
    BY <1>1, SameCore DEF PathFails
  <2> QED
    BY <1>1, <2>1, EndStartTyped, NoPendingTyped DEF PathFails, TypeOK, engine
<1>2. CASE PathReady(k)
  <2>1. asyncs[k] \in Async /\ asyncs[k].call \in Calls
    BY <1>2 DEF PathReady, TypeOK, AsyncsName
  <2>2. Core' /\ cmd' \in [Threads -> Command]
    BY <1>2, <2>1, BeginStep DEF PathReady, DartFree, Threads
  <2>3. dart' \in [Calls -> Session]
    BY <1>2, PhaseTyped DEF PathReady, TypeOK, Phase
  <2>4. asyncs' \in [Asyncs -> Async] /\ AsyncsName'
    BY <1>2, <2>1 DEF PathReady, TypeOK, Async, AsyncsName
  <2> QED
    BY <1>2, <2>2, <2>3, <2>4 DEF PathReady, TypeOK, engine
<1> QED
  BY <1>1, <1>2

LEMMA StartReturnedStep ==
  ASSUME TypeOK, Core, AsyncsName, NEW k \in Asyncs, StartReturned(k)
  PROVE  Core' /\ TypeOK' /\ AsyncsName'
<1> DEFINE a == asyncs[k]
<1>1. /\ a \in Async /\ a.at = "engine" /\ a.call \in Calls
      /\ cmd' = [cmd EXCEPT ![Flutter] = Idle]
      /\ UNCHANGED <<engine, events>>
  BY DEF StartReturned, TypeOK, AsyncsName
<1>2. Core' /\ cmd' \in [Threads -> Command]
  BY <1>1, TakeStep DEF StartReturned, At, Returns
<1>3. dart' \in [Calls -> Session] /\ asyncs' \in [Asyncs -> Async] /\ AsyncsName'
  <2>1. CASE At(Flutter, "ok") /\ EndStart(k) /\ dart' = NoPending(k)
    BY <2>1, EndStartTyped, NoPendingTyped
  <2>2. CASE /\ MayRetry(a) /\ UNCHANGED dart
             /\ asyncs' = [asyncs EXCEPT ![k].at = "delay", ![k].tries = @ + 1]
    <3>1. a.tries + 1 \in 0 .. MaxRetry
      BY <1>1, <2>2 DEF MayRetry, Async
    <3>2. [a EXCEPT !.at = "delay", !.tries = a.tries + 1] \in Async
      BY <1>1, <3>1 DEF Async
    <3>3. asyncs' \in [Asyncs -> Async]
      BY <2>2, <3>2 DEF TypeOK
    <3>4. \A j \in Asyncs : asyncs'[j].call = asyncs[j].call /\ (j # k => asyncs'[j] = asyncs[j])
      BY <1>1, <2>2 DEF TypeOK, Async
    <3> QED
      BY <1>1, <2>2, <3>3, <3>4 DEF TypeOK, AsyncsName
  <2>3. CASE EndStart(k) /\ dart' = [NoPending(k) EXCEPT ![a.call].phase = "failed"]
    BY <2>3, EndStartTyped, NoPendingTyped, PhaseTyped DEF Phase
  <2> QED
    BY <2>1, <2>2, <2>3 DEF StartReturned
<1> QED
  BY <1>1, <1>2, <1>3 DEF TypeOK, engine

LEMMA RetryStep ==
  ASSUME TypeOK, Core, AsyncsName, NEW k \in Asyncs, Retry(k)
  PROVE  Core' /\ TypeOK' /\ AsyncsName'
<1> DEFINE a == asyncs[k]
           others == [asyncs EXCEPT ![k] = NoAsync]
<1>1. /\ a \in Async /\ a.call \in Calls
      /\ NoAsync \in Async /\ NoAsync.at = "idle"
  BY DEF Retry, TypeOK, AsyncsName, NoAsync, Async
<1>2. /\ others \in [Asyncs -> Async]
      /\ \A j \in Asyncs : others[j].at # "idle" => others[j].call \in Calls
  BY <1>1 DEF TypeOK, AsyncsName
<1>3. BeginStart(a.call, a.auto, a.tries, others)
  BY DEF Retry
<1>4. a.auto \in BOOLEAN /\ a.tries \in 0 .. MaxRetry
  BY <1>1 DEF Async
<1> HIDE DEF a, others
<1>5. DartTyped
  BY <1>1, <1>2, <1>3, <1>4, BeginStartTyped
<1>6. Core'
  BY SameCore DEF Retry
<1> QED
  BY <1>5, <1>6 DEF Retry, DartTyped, TypeOK, engine

LEMMA StopReturnedStep ==
  ASSUME TypeOK, Core, AsyncsName, StopReturned
  PROVE  Core' /\ TypeOK' /\ AsyncsName'
<1>1. Core' /\ cmd' \in [Threads -> Command]
  BY TakeStep DEF StopReturned
<1>2. dart' \in [Calls -> Session]
  BY PhaseTyped DEF StopReturned, TypeOK, Phase
<1> QED
  BY <1>1, <1>2 DEF StopReturned, TypeOK, AsyncsName, engine

\* A handler of an event changes the record of the call and may begin a start.
LEMMA HandleStep ==
  ASSUME TypeOK, Core, AsyncsName, NEW type, Handle(type), DartTyped
  PROVE  Core' /\ TypeOK' /\ AsyncsName'
<1>1. Core' /\ UNCHANGED <<calls, onSlot, flag, recs, raced, cmd>>
  BY SameCore DEF Handle, engine
<1>2. events' \in Seq(Event)
  BY DEF Handle, TypeOK
<1> QED
  BY <1>1, <1>2 DEF TypeOK, DartTyped

LEMMA HandlersStep ==
  ASSUME TypeOK, Core, AsyncsName, NEW c \in Calls,
         \/ HandleInCall(c) \/ HandleOnHold(c) \/ HandleEnded(c)
         \/ \E type \in {"Started", "Stopped", "Saved", "Error"} : HandleRecording(c, type)
  PROVE  Core' /\ TypeOK' /\ AsyncsName'
<1>1. CASE HandleInCall(c)
  <2> DEFINE seen == [dart EXCEPT ![c].call = "InCall"]
  <2>1. seen \in [Calls -> Session] /\ [seen EXCEPT ![c].pending = TRUE] \in [Calls -> Session]
    <3>1. [dart[c] EXCEPT !.call = "InCall"] \in Session
      BY DEF TypeOK, Session, CallState
    <3>2. seen \in [Calls -> Session]
      BY <3>1 DEF TypeOK
    <3> HIDE DEF seen
    <3>3. [seen[c] EXCEPT !.pending = TRUE] \in Session
      BY <3>2 DEF Session
    <3> QED
      BY <3>2, <3>3
  <2>2. CASE dart' = seen /\ UNCHANGED asyncs
    BY <1>1, <2>1, <2>2, HandleStep DEF HandleInCall, DartTyped, TypeOK, AsyncsName
  <2>3. ASSUME NEW k \in Asyncs, dart' = [seen EXCEPT ![c].pending = TRUE],
               asyncs' = [asyncs EXCEPT ![k] =
                 [at |-> "path", call |-> c, auto |-> TRUE, tries |-> 0]]
        PROVE  Core' /\ TypeOK' /\ AsyncsName'
    <3>1. [at |-> "path", call |-> c, auto |-> TRUE, tries |-> 0] \in Async
      BY DEF Async
    <3>2. asyncs' \in [Asyncs -> Async] /\ AsyncsName'
      BY <2>3, <3>1 DEF TypeOK, AsyncsName
    <3>3. DartTyped
      BY <2>1, <2>3, <3>2 DEF DartTyped
    <3> QED
      BY <1>1, <3>3, HandleStep DEF HandleInCall
  <2> QED
    BY <1>1, <2>2, <2>3 DEF HandleInCall
<1>2. CASE HandleOnHold(c)
  <2> DEFINE held == [dart[c] EXCEPT !.call = "OnHold"]
  <2>1. held \in Session
    BY DEF TypeOK, Session, CallState
  <2>2. dart' = [dart EXCEPT ![c] = held] /\ UNCHANGED asyncs
    BY <1>2 DEF HandleOnHold
  <2>3. DartTyped
    BY <2>1, <2>2 DEF DartTyped, TypeOK, AsyncsName
  <2> QED
    BY <1>2, <2>3, HandleStep DEF HandleOnHold
<1>3. CASE HandleEnded(c)
  <2> DEFINE new == [call |-> "Ended", pending |-> FALSE,
                     phase |-> PhaseAtEnd(dart[c].phase, Head(events).path)]
  <2>1. dart[c].phase \in Phase
    BY DEF TypeOK, Session
  <2>2. PhaseAtEnd(dart[c].phase, Head(events).path) \in Phase
    BY <2>1 DEF PhaseAtEnd, Phase
  <2>3. new \in Session
    BY <2>2 DEF Session, CallState
  <2>4. dart' = [dart EXCEPT ![c] = new] /\ UNCHANGED asyncs
    BY <1>3 DEF HandleEnded
  <2>5. DartTyped
    BY <2>3, <2>4 DEF DartTyped, TypeOK, AsyncsName
  <2> QED
    BY <1>3, <2>5, HandleStep DEF HandleEnded
<1>4. ASSUME NEW type \in {"Started", "Stopped", "Saved", "Error"}, HandleRecording(c, type)
      PROVE  Core' /\ TypeOK' /\ AsyncsName'
  <2>1. PhaseAfter(type) \in Phase
    BY DEF PhaseAfter, Phase
  <2>2. DartTyped
    BY <1>4, <2>1, PhaseTyped DEF HandleRecording, DartTyped, TypeOK, AsyncsName
  <2> QED
    BY <1>4, <2>2, HandleStep DEF HandleRecording
<1> QED
  BY <1>1, <1>2, <1>3, <1>4

-----------------------------------------------------------------------------
(* The invariant holds *)

LEMMA InitStep == Init => IInv
<1> SUFFICES ASSUME Init PROVE IInv
  OBVIOUS
<1>1. /\ Idle \in Command /\ Idle.op = "idle" /\ Idle.call = NoCall
      /\ NoAsync \in Async /\ NoAsync.at = "idle"
  BY DEF Idle, Command, NoAsync, Async
<1>2. recs = <<>> /\ events = <<>> /\ <<>> \in Seq(Recorder) /\ <<>> \in Seq(Event)
      /\ DOMAIN recs = {}
  BY DEF Init
<1>3. calls \in [Calls -> Call] /\ dart \in [Calls -> Session]
  BY DEF Init, Call, CallState, Session, Phase
<1>4. TypeOK
  BY <1>1, <1>2, <1>3 DEF Init, TypeOK
<1>5. \A t \in Threads : cmd[t] = Idle /\ InsideCommand(t)
  BY <1>1 DEF Init, InsideCommand, StartSteps, StopSteps
<1>6. HasSlot /\ OnItsSlot /\ PathIsOwn /\ FlagIsOwn
  BY <1>1, <1>5 DEF Init, HasSlot, OnItsSlot, PathIsOwn, FlagIsOwn, Of, Threads
<1>7. WorkerEnds /\ StartsRaced
  BY <1>1, <1>5 DEF Init, WorkerEnds, StartsRaced, Threads
<1>8. Tabled /\ Closing /\ SavedIsClosed
  BY <1>2 DEF Tabled, Closing, SavedIsClosed
<1>9. AsyncsName
  BY <1>1 DEF Init, AsyncsName
<1> QED
  BY <1>4, <1>5, <1>6, <1>7, <1>8, <1>9 DEF IInv, Core

LEMMA CallStepInductive ==
  ASSUME TypeOK, Core, CallStep
  PROVE  Core' /\ TypeOK' /\ UNCHANGED asyncs
BY CallConnectsStep, CallReportsStep, CallEndsStep, EndCleanupStep, ReleaseSlotStep
   DEF CallStep

LEMMA StartStepInductive ==
  ASSUME TypeOK, Core, NEW t \in Threads, StartStep(t)
  PROVE  Core' /\ TypeOK' /\ UNCHANGED asyncs
<1>1. CASE PjCreateFails(t)
  <2>1. cmd[t].op = "create" /\ t # Worker /\ CommandFails(t)
    BY <1>1 DEF PjCreateFails, At, Core, WorkerEnds, StopSteps
  <2> QED
    BY <2>1, FailStep DEF NoneOpen, StartSteps
<1> QED
  BY <1>1, StartReadStep, StartCheckStep, PjCreateStep, SetPathStep, EmitStartedStep
     DEF StartStep

LEMMA StopStepInductive ==
  ASSUME TypeOK, Core, NEW t \in Threads, StopStep(t)
  PROVE  Core' /\ TypeOK' /\ UNCHANGED asyncs
BY StopReadStep, WasRecordingStep, PjDestroyStep, EmitStoppedStep, EmitSavedStep
   DEF StopStep

LEMMA DartStepInductive ==
  ASSUME TypeOK, Core, AsyncsName, DartStep
  PROVE  Core' /\ TypeOK' /\ AsyncsName'
BY ToggleStep, PathStep, StartReturnedStep, RetryStep, StopReturnedStep, HandlersStep
   DEF DartStep

LEMMA Inductive == IInv /\ [Next]_vars => IInv'
<1> SUFFICES ASSUME IInv, [Next]_vars PROVE IInv'
  OBVIOUS
<1>1. TypeOK /\ Core /\ AsyncsName
  BY DEF IInv
<1>2. ASSUME Core' /\ TypeOK' /\ UNCHANGED asyncs
      PROVE  IInv'
  BY <1>1, <1>2 DEF IInv, AsyncsName
<1>3. CASE CallStep
  BY <1>1, <1>2, <1>3, CallStepInductive
<1>4. ASSUME NEW t \in Threads, StartStep(t) \/ StopStep(t)
      PROVE  IInv'
  BY <1>1, <1>2, <1>4, StartStepInductive, StopStepInductive
<1>5. ASSUME NEW t \in Clients, NEW c \in Calls, NEW op \in {"start", "stop"},
             ClientCommand(t, c, op)
      PROVE  IInv'
  BY <1>1, <1>2, <1>5, ClientCommandStep
<1>6. CASE DartStep
  BY <1>1, <1>6, DartStepInductive DEF IInv
<1>7. CASE UNCHANGED vars
  <2>1. UNCHANGED <<engine, cmd>> /\ UNCHANGED <<events, dart, asyncs>>
    BY <1>7 DEF vars, engine
  <2>2. Core'
    BY <1>1, <2>1, SameCore
  <2> QED
    BY <1>1, <2>1, <2>2 DEF IInv, TypeOK, AsyncsName, engine
<1> QED
  BY <1>3, <1>4, <1>5, <1>6, <1>7 DEF Next

LEMMA Always == Spec => []IInv
BY InitStep, Inductive, PTL DEF Spec

-----------------------------------------------------------------------------
(* What holds for every instance *)

\* Every variable keeps its type: whatever happens to the recording of a call,
\* a start is tried again MaxRetry times at most (recording_service.dart:184).
THEOREM TypeCorrect == Spec => []TypeOK
<1>1. IInv => TypeOK
  BY DEF IInv
<1> QED
  BY <1>1, Always, PTL

\* When the end of a call has been dealt with (lib.rs:591-606) its recorder is
\* closed, whichever threads asked for the recording, unless the call ended
\* during a start or two threads started at once.
THEOREM RecordersClosed == Spec => []NoRecorderLeft
<1>1. IInv => NoRecorderLeft
  <2> SUFFICES ASSUME IInv, NEW r \in DOMAIN recs, recs[r].open, Over(recs[r].call),
                      recs[r].call \notin raced
               PROVE  FALSE
    BY DEF NoRecorderLeft
  <2>1. Of(Worker) = recs[r].call
    BY DEF IInv, Core, Closing, Over
  <2> QED
    BY <2>1 DEF Over, Threads
<1> QED
  BY <1>1, Always, PTL

\* The recorder that the shim keeps for a slot (pjsip_shim.c:104-108) is open and
\* records the call on the slot: it never blocks the recording of the next call
\* there, with the same exception.
THEOREM SlotCorrect == Spec => []SlotRecordsItsCall
<1>1. IInv => SlotRecordsItsCall
  <2> SUFFICES ASSUME IInv, NEW p \in Slots, flag[p] # NoRec
               PROVE  /\ recs[flag[p]].open
                      /\ onSlot[p] = recs[flag[p]].call \/ recs[flag[p]].call \in raced
    BY DEF SlotRecordsItsCall
  <2> DEFINE r == flag[p]
             c == recs[r].call
  <2>1. /\ r \in DOMAIN recs /\ recs[r].open
        /\ calls[c].slot = p /\ calls[c].state # "None"
    BY DEF IInv, Core, FlagIsOwn
  <2>2. c \in Calls /\ calls[c] \in Call
    BY <2>1, RecorderTyped DEF IInv, TypeOK
  <2>3. calls[c].state \in {"InCall", "OnHold", "Ended"}
    BY <2>1, <2>2 DEF Call, CallState
  <2>4. CASE calls[c].state = "Ended" /\ c \notin raced
    <3>1. Of(Worker) = c
      BY <2>1, <2>4 DEF IInv, Core, Closing
    <3> QED
      BY <2>1, <2>2, <3>1 DEF IInv, Core, OnItsSlot
  <2> QED
    BY <2>1, <2>2, <2>3, <2>4 DEF IInv, Core, OnItsSlot
<1> QED
  BY <1>1, Always, PTL

\* A file is closed when RecordingSaved is pushed for it (lib.rs:1171-1196),
\* unless two threads started the recording at once.
THEOREM SavedCorrect == Spec => []SavedIsClosed
<1>1. IInv => SavedIsClosed
  BY DEF IInv, Core
<1> QED
  BY <1>1, Always, PTL
-----------------------------------------------------------------------------
(* What the dialer sees of the end of a call *)

Says(e, type, c) == e.type = type /\ e.call = c

\* Dart sees a call end, or is about to, only once the engine has ended it.
EndedTold ==
  \A c \in Calls :
    (dart[c].call = "Ended" \/ \E i \in DOMAIN events : Says(events[i], "Ended", c))
      => calls[c].state = "Ended"

\* The events of a call that did not end during a start: RecordingStarted is
\* never behind the end of the call, neither in the queue nor after it.
NoLateStart ==
  \A c \in Calls \ raced :
    /\ \A i, j \in DOMAIN events :
         Says(events[i], "Ended", c) /\ Says(events[j], "Started", c) => j < i
    /\ dart[c].call = "Ended" =>
         /\ dart[c].phase # "recording"
         /\ \A j \in DOMAIN events : ~Says(events[j], "Started", c)

\* An end of a call is never taken back.
EndsStay ==
  /\ raced \subseteq raced'
  /\ \A c \in Calls : calls[c].state = "Ended" => calls'[c].state = "Ended"

\* The engine pushes an event, or none.
PushStep ==
  /\ UNCHANGED dart
  /\ \/ UNCHANGED events
     \/ \E e \in Event :
          /\ events' = Append(events, e)
          /\ e.type = "Ended" => calls'[e.call].state = "Ended"
          /\ e.type = "Started" /\ calls[e.call].state = "Ended" => e.call \in raced

\* Dart acts, without an event.
DartActs ==
  /\ UNCHANGED events
  /\ \A c \in Calls : /\ dart'[c].call = dart[c].call
                      /\ dart'[c].phase = "recording" => dart[c].phase = "recording"

\* Dart handles the event at the head of the queue.
DartHandles ==
  /\ events # <<>> /\ events' = Tail(events)
  /\ \A c \in Calls :
       /\ dart'[c].call = "Ended" =>
            dart[c].call = "Ended" \/ Says(Head(events), "Ended", c)
       /\ dart'[c].phase = "recording" =>
            \/ Says(Head(events), "Started", c)
            \/ dart[c].phase = "recording" /\ ~Says(Head(events), "Ended", c)

EventStep == EndsStay /\ (PushStep \/ DartActs \/ DartHandles)

LEMMA PushStepKeeps ==
  ASSUME IInv, EndedTold, NoLateStart, EndsStay, PushStep
  PROVE  EndedTold' /\ NoLateStart'
<1>1. CASE UNCHANGED events
  BY <1>1 DEF PushStep, EndsStay, EndedTold, NoLateStart
<1>2. ASSUME NEW e \in Event, events' = Append(events, e), UNCHANGED dart,
             e.type = "Ended" => calls'[e.call].state = "Ended",
             e.type = "Started" /\ calls[e.call].state = "Ended" => e.call \in raced
      PROVE  EndedTold' /\ NoLateStart'
  <2> DEFINE n == Len(events)
  <2>1. /\ events \in Seq(Event) /\ n \in Nat
        /\ DOMAIN events = 1 .. n /\ DOMAIN events' = 1 .. n + 1
        /\ events'[n + 1] = e
        /\ \A i \in 1 .. n : events'[i] = events[i]
    BY <1>2 DEF IInv, TypeOK
  <2> HIDE DEF n
  <2>2. \A i \in DOMAIN events' : (i \in DOMAIN events /\ events'[i] = events[i]) \/ i = n + 1
    BY <2>1
  <2>3. EndedTold'
    BY <1>2, <2>1, <2>2 DEF EndedTold, EndsStay, Says
  <2>4. ASSUME NEW c \in Calls \ raced'
        PROVE  /\ \A i, j \in DOMAIN events' :
                    Says(events'[i], "Ended", c) /\ Says(events'[j], "Started", c) => j < i
               /\ dart'[c].call = "Ended" =>
                    /\ dart'[c].phase # "recording"
                    /\ \A j \in DOMAIN events' : ~Says(events'[j], "Started", c)
    <3>1. c \in Calls /\ c \notin raced
      BY <2>4 DEF EndsStay
    <3>2. Says(e, "Started", c) =>
            /\ dart[c].call # "Ended"
            /\ \A i \in DOMAIN events : ~Says(events[i], "Ended", c)
      BY <1>2, <3>1 DEF EndedTold, Says
    <3>3. Says(e, "Started", c) => ~Says(e, "Ended", c)
      BY DEF Says
    <3>4. /\ \A i, j \in DOMAIN events :
               Says(events[i], "Ended", c) /\ Says(events[j], "Started", c) => j < i
          /\ dart[c].call = "Ended" =>
               /\ dart[c].phase # "recording"
               /\ \A j \in DOMAIN events : ~Says(events[j], "Started", c)
      BY <3>1 DEF NoLateStart
    <3>5. ASSUME NEW i \in DOMAIN events', NEW j \in DOMAIN events',
                 Says(events'[i], "Ended", c), Says(events'[j], "Started", c)
          PROVE  j < i
      <4>1. j \in DOMAIN events /\ events'[j] = events[j]
        BY <2>1, <2>2, <3>2, <3>3, <3>5
      <4>2. CASE i = n + 1
        BY <2>1, <4>1, <4>2
      <4>3. CASE i \in DOMAIN events /\ events'[i] = events[i]
        BY <3>4, <3>5, <4>1, <4>3
      <4> QED
        BY <2>2, <4>2, <4>3
    <3>6. ASSUME dart'[c].call = "Ended"
          PROVE  /\ dart'[c].phase # "recording"
                 /\ \A j \in DOMAIN events' : ~Says(events'[j], "Started", c)
      BY <1>2, <2>1, <2>2, <3>2, <3>4, <3>6
    <3> QED
      BY <3>5, <3>6
  <2>5. NoLateStart'
    BY <2>4 DEF NoLateStart
  <2> QED
    BY <2>3, <2>5
<1> QED
  BY <1>1, <1>2 DEF PushStep

LEMMA DartActsKeeps ==
  ASSUME IInv, EndedTold, NoLateStart, EndsStay, DartActs
  PROVE  EndedTold' /\ NoLateStart'
  BY DEF DartActs, EndsStay, EndedTold, NoLateStart

LEMMA DartHandlesKeeps ==
  ASSUME IInv, EndedTold, NoLateStart, EndsStay, DartHandles
  PROVE  EndedTold' /\ NoLateStart'
<1> DEFINE n == Len(events)
           h == Head(events)
<1>1. /\ events \in Seq(Event) /\ n \in Nat /\ n > 0
      /\ DOMAIN events = 1 .. n /\ DOMAIN events' = 1 .. n - 1
      /\ h = events[1]
      /\ \A i \in 1 .. n - 1 : events'[i] = events[i + 1]
  BY DEF IInv, TypeOK, DartHandles
<1>2. \A c \in Calls :
        /\ dart'[c].call = "Ended" => dart[c].call = "Ended" \/ Says(h, "Ended", c)
        /\ dart'[c].phase = "recording" =>
             Says(h, "Started", c) \/ (dart[c].phase = "recording" /\ ~Says(h, "Ended", c))
  BY DEF DartHandles
<1> HIDE DEF n, h
<1>3. \A i \in DOMAIN events' : i \in Nat /\ i + 1 \in DOMAIN events /\ events'[i] = events[i + 1]
  BY <1>1
<1>4. 1 \in DOMAIN events
  BY <1>1
<1>5. EndedTold'
  BY <1>1, <1>2, <1>3, <1>4 DEF EndedTold, EndsStay
<1>6. ASSUME NEW c \in Calls \ raced'
      PROVE  /\ \A i, j \in DOMAIN events' :
                  Says(events'[i], "Ended", c) /\ Says(events'[j], "Started", c) => j < i
             /\ dart'[c].call = "Ended" =>
                  /\ dart'[c].phase # "recording"
                  /\ \A j \in DOMAIN events' : ~Says(events'[j], "Started", c)
  <2>1. c \in Calls \ raced
    BY <1>6 DEF EndsStay
  <2>2. /\ \A i, j \in DOMAIN events :
             Says(events[i], "Ended", c) /\ Says(events[j], "Started", c) => j < i
        /\ dart[c].call = "Ended" =>
             /\ dart[c].phase # "recording"
             /\ \A j \in DOMAIN events : ~Says(events[j], "Started", c)
    BY <2>1 DEF NoLateStart
  <2>3. \A i, j \in DOMAIN events' :
          Says(events'[i], "Ended", c) /\ Says(events'[j], "Started", c) => j < i
    <3>1. ASSUME NEW i \in DOMAIN events', NEW j \in DOMAIN events',
                 Says(events'[i], "Ended", c), Says(events'[j], "Started", c)
          PROVE  j < i
      <4>1. j + 1 < i + 1
        BY <1>3, <2>2, <3>1
      <4> QED
        BY <1>3, <4>1
    <3> QED
      BY <3>1
  <2>4. CASE dart[c].call = "Ended"
    BY <1>1, <1>2, <1>3, <1>4, <2>1, <2>2, <2>4
  <2>5. CASE Says(h, "Ended", c)
    <3>1. ~Says(h, "Started", c)
      BY <2>5 DEF Says
    <3>2. ASSUME NEW j \in DOMAIN events', Says(events'[j], "Started", c) PROVE FALSE
      <4>1. j + 1 < 1
        BY <1>1, <1>3, <1>4, <2>2, <2>5, <3>2
      <4> QED
        BY <1>3, <4>1
    <3> QED
      BY <1>2, <2>1, <2>3, <2>5, <3>1, <3>2
  <2> QED
    BY <1>2, <2>1, <2>3, <2>4, <2>5
<1>7. NoLateStart'
  BY <1>6 DEF NoLateStart
<1> QED
  BY <1>5, <1>7

LEMMA EngineEvents ==
  ASSUME IInv, NEW t \in Threads, StartStep(t) \/ StopStep(t)
  PROVE  EventStep
<1>1. TypeOK /\ Core
  BY DEF IInv
<1>2. UNCHANGED dart
  BY DEF StartStep, StopStep, StartRead, StartCheck, PjStart, PjCreateFails, CommandFails,
         PjCreate, SetPath, EmitStarted, StopRead, WasRecording, PjStop, PjDestroy,
         EmitStopped, EmitSaved, flutter
<1>3. raced \subseteq raced' /\ \A c \in Calls : calls'[c].state = calls[c].state
  <2>1. CASE SetPath(t)
    <3>1. Of(t) \in Calls /\ calls \in [Calls -> Call]
      BY <1>1, <2>1 DEF SetPath, At, Core, InsideCommand, TypeOK
    <3> QED
      BY <2>1, <3>1 DEF SetPath, Call
  <2>2. CASE ~SetPath(t)
    BY <2>2 DEF StartStep, StopStep, StartRead, StartCheck, PjStart, PjCreateFails,
           CommandFails, PjCreate, EmitStarted, StopRead, WasRecording, PjStop,
           PjDestroy, EmitStopped, EmitSaved, engine
  <2> QED
    BY <2>1, <2>2
<1>4. CASE UNCHANGED events
  BY <1>2, <1>3, <1>4 DEF EventStep, EndsStay, PushStep
<1>5. ASSUME ~UNCHANGED events
      PROVE  \/ cmd[t].op # "idle" /\ \E type \in {"Stopped", "Saved", "Error"} : Push(type, Of(t))
             \/ EmitStarted(t)
  BY <1>5 DEF StartStep, StopStep, StartRead, StartCheck, PjStart, PjCreateFails,
         CommandFails, PjCreate, SetPath, StopRead, WasRecording, PjStop, PjDestroy,
         EmitStopped, EmitSaved, engine, At
<1>6. cmd[t].op # "idle" => Of(t) \in Calls
  BY <1>1 DEF Core, InsideCommand
<1>7. ASSUME NEW type \in {"Stopped", "Saved", "Error"}, Push(type, Of(t)), Of(t) \in Calls
      PROVE  EventStep
  <2> DEFINE e == [type |-> type, call |-> Of(t), path |-> FALSE]
  <2>1. events' = Append(events, e) /\ e \in Event /\ e.type \notin {"Ended", "Started"}
    BY <1>7 DEF Push, PushWith, Event
  <2> HIDE DEF e
  <2> QED
    BY <1>2, <1>3, <2>1 DEF EventStep, EndsStay, PushStep
<1>8. CASE EmitStarted(t)
  <2> DEFINE e == [type |-> "Started", call |-> Of(t), path |-> FALSE]
  <2>1. Of(t) \in Calls /\ Starting(t, Of(t))
    BY <1>6, <1>8 DEF EmitStarted, At, Starting, StartSteps
  <2>2. calls[Of(t)].state = "Ended" => Of(t) \in raced
    BY <1>1, <2>1 DEF Core, StartsRaced
  <2>3. /\ events' = Append(events, e) /\ e \in Event
        /\ e.type = "Started" /\ e.call = Of(t)
    BY <1>8, <2>1 DEF EmitStarted, Push, PushWith, Event
  <2> HIDE DEF e
  <2>4. e.type # "Ended" /\ (calls[e.call].state = "Ended" => e.call \in raced)
    BY <2>2, <2>3
  <2> QED
    BY <1>2, <1>3, <2>3, <2>4 DEF EventStep, EndsStay, PushStep
<1> QED
  BY <1>4, <1>5, <1>6, <1>7, <1>8

LEMMA CallEvents ==
  ASSUME IInv, CallStep
  PROVE  EventStep
<1>1. calls \in [Calls -> Call]
  BY DEF IInv, TypeOK
<1>2. ASSUME NEW c \in Calls, NEW e \in Event, events' = Append(events, e), UNCHANGED dart,
             e.call = c, e.type \in {"InCall", "OnHold"} \/
               (e.type = "Ended" /\ calls'[c].state = "Ended"),
             EndsStay
      PROVE  EventStep
  BY <1>2 DEF EventStep, PushStep
<1>3. ASSUME NEW c \in Calls, NEW p \in Slots, CallConnects(c, p) PROVE EventStep
  <2> DEFINE e == [type |-> "InCall", call |-> c, path |-> FALSE]
  <2>1. /\ events' = Append(events, e) /\ e \in Event /\ e.call = c /\ e.type = "InCall"
        /\ UNCHANGED dart
    BY <1>3 DEF CallConnects, Push, PushWith, Event, flutter
  <2>2. EndsStay
    BY <1>1, <1>3 DEF CallConnects, EndsStay, Call
  <2> HIDE DEF e
  <2> QED
    BY <1>2, <2>1, <2>2
<1>4. ASSUME NEW c \in Calls, NEW state \in {"InCall", "OnHold"}, CallReports(c, state)
      PROVE  EventStep
  <2> DEFINE e == [type |-> state, call |-> c, path |-> FALSE]
  <2>1. /\ events' = Append(events, e) /\ e \in Event /\ e.call = c /\ e.type = state
        /\ UNCHANGED dart
    BY <1>4 DEF CallReports, Push, PushWith, Event, flutter
  <2>2. EndsStay
    BY <1>1, <1>4 DEF CallReports, EndsStay, Call
  <2> HIDE DEF e
  <2> QED
    BY <1>2, <2>1, <2>2
<1>5. ASSUME NEW c \in Calls, CallEnds(c) PROVE EventStep
  <2> DEFINE e == [type |-> "Ended", call |-> c, path |-> (calls[c].path # NoRec)]
  <2>1. /\ events' = Append(events, e) /\ e \in Event /\ e.call = c /\ e.type = "Ended"
        /\ UNCHANGED dart
    BY <1>5 DEF CallEnds, PushWith, Event, flutter
  <2>2. EndsStay /\ calls'[c].state = "Ended"
    BY <1>1, <1>5 DEF CallEnds, EndsStay, Call
  <2> HIDE DEF e
  <2> QED
    BY <1>2, <2>1, <2>2
<1>6. CASE EndCleanup \/ ReleaseSlot
  BY <1>6 DEF EndCleanup, ReleaseSlot, engine, flutter, EventStep, EndsStay, PushStep
<1> QED
  BY <1>3, <1>4, <1>5, <1>6 DEF CallStep

LEMMA DartEvents ==
  ASSUME IInv, DartStep
  PROVE  EventStep
<1>1. /\ dart \in [Calls -> Session] /\ events \in Seq(Event)
      /\ \A k \in Asyncs : asyncs[k].at # "idle" => asyncs[k].call \in Calls
  BY DEF IInv, TypeOK, AsyncsName
\* Dart acts without an event.
<1>2. ASSUME UNCHANGED <<engine, events>>,
             \A c \in Calls : /\ dart'[c].call = dart[c].call
                              /\ dart'[c].phase = "recording" => dart[c].phase = "recording"
      PROVE  EventStep
  BY <1>2 DEF EventStep, EndsStay, DartActs, engine
<1>3. ASSUME NEW c \in Calls, NEW phase, phase # "recording",
             UNCHANGED <<engine, events>>, dart' = [dart EXCEPT ![c].phase = phase]
      PROVE  EventStep
  BY <1>1, <1>2, <1>3 DEF Session
<1>4. ASSUME NEW c, NEW auto, NEW tries, NEW others, BeginStart(c, auto, tries, others),
             UNCHANGED <<engine, events>>
      PROVE  EventStep
  BY <1>1, <1>2, <1>4 DEF BeginStart, Session
<1>5. ASSUME NEW k, NEW d \in [Calls -> Session], d = NoPending(k)
      PROVE  \A c \in Calls : d[c].call = dart[c].call /\ d[c].phase = dart[c].phase
  BY <1>1, <1>5 DEF NoPending, Session
<1>6. ASSUME NEW c \in Calls, ToggleStop(c) \/ ToggleStart(c) PROVE EventStep
  BY <1>3, <1>4, <1>6 DEF ToggleStop, ToggleStart
<1>7. ASSUME NEW k \in Asyncs, PathFails(k) PROVE EventStep
  <2>1. NoPending(k) \in [Calls -> Session]
    BY NoPendingTyped DEF IInv
  <2> QED
    BY <1>2, <1>5, <1>7, <2>1 DEF PathFails
<1>8. ASSUME NEW k \in Asyncs, PathReady(k) PROVE EventStep
  BY <1>1, <1>3, <1>8 DEF PathReady
<1>9. ASSUME NEW k \in Asyncs, StartReturned(k) PROVE EventStep
  <2> DEFINE d == NoPending(k)
  <2>1. d \in [Calls -> Session]
    BY NoPendingTyped DEF IInv
  <2>2. \A c \in Calls : d[c].call = dart[c].call /\ d[c].phase = dart[c].phase
    BY <1>5, <2>1
  <2>3. /\ asyncs[k].call \in Calls
        /\ UNCHANGED <<engine, events>>
        /\ \/ dart' = d \/ UNCHANGED dart
           \/ dart' = [d EXCEPT ![asyncs[k].call].phase = "failed"]
    BY <1>1, <1>9 DEF StartReturned
  <2> HIDE DEF d
  <2>4. \A c \in Calls : /\ dart'[c].call = dart[c].call
                         /\ dart'[c].phase = "recording" => dart[c].phase = "recording"
    BY <2>1, <2>2, <2>3 DEF Session
  <2> QED
    BY <1>2, <2>3, <2>4
<1>10. ASSUME NEW k \in Asyncs, Retry(k) PROVE EventStep
  BY <1>4, <1>10 DEF Retry
<1>11. CASE StopReturned
  <2>1. UNCHANGED <<engine, events>>
        /\ (UNCHANGED dart \/ dart' = [dart EXCEPT ![Of(Flutter)].phase = "failed"])
    BY <1>11 DEF StopReturned
  <2> QED
    BY <1>1, <1>2, <2>1 DEF Session
\* Dart handles an event.
<1>12. ASSUME NEW c \in Calls, NEW type, Handle(type), Head(events).call = c,
              \A d \in Calls \ {c} : dart'[d] = dart[d],
              dart'[c].call = "Ended" => dart[c].call = "Ended" \/ type = "Ended",
              dart'[c].phase = "recording" =>
                type = "Started" \/ (dart[c].phase = "recording" /\ type # "Ended")
       PROVE  EventStep
  BY <1>12 DEF Handle, EventStep, EndsStay, DartHandles, Says, engine
<1>13. ASSUME NEW c \in Calls, HandleInCall(c) PROVE EventStep
  <2>1. /\ Handle("InCall") /\ Head(events).call = c
        /\ \A d \in Calls \ {c} : dart'[d] = dart[d]
        /\ dart'[c].call = "InCall" /\ dart'[c].phase = dart[c].phase
    BY <1>1, <1>13 DEF HandleInCall, Session
  <2> QED
    BY <1>12, <2>1
<1>14. ASSUME NEW c \in Calls, HandleOnHold(c) PROVE EventStep
  <2>1. /\ Handle("OnHold") /\ Head(events).call = c
        /\ \A d \in Calls \ {c} : dart'[d] = dart[d]
        /\ dart'[c].call = "OnHold" /\ dart'[c].phase = dart[c].phase
    BY <1>1, <1>14 DEF HandleOnHold, Session
  <2> QED
    BY <1>12, <2>1
<1>15. ASSUME NEW c \in Calls, HandleEnded(c) PROVE EventStep
  <2>1. PhaseAtEnd(dart[c].phase, Head(events).path) # "recording"
    BY DEF PhaseAtEnd
  <2>2. /\ Handle("Ended") /\ Head(events).call = c
        /\ \A d \in Calls \ {c} : dart'[d] = dart[d]
        /\ dart'[c].phase # "recording"
    BY <1>1, <1>15, <2>1 DEF HandleEnded
  <2> QED
    BY <1>12, <2>2
<1>16. ASSUME NEW c \in Calls, NEW type \in {"Started", "Stopped", "Saved", "Error"},
              HandleRecording(c, type)
       PROVE  EventStep
  <2>1. PhaseAfter(type) = "recording" => type = "Started"
    BY DEF PhaseAfter
  <2>2. /\ Handle(type) /\ Head(events).call = c
        /\ \A d \in Calls \ {c} : dart'[d] = dart[d]
        /\ dart'[c].call = dart[c].call /\ dart'[c].phase = PhaseAfter(type)
    BY <1>1, <1>16 DEF HandleRecording, Session
  <2> QED
    BY <1>12, <2>1, <2>2
<1> QED
  BY <1>6, <1>7, <1>8, <1>9, <1>10, <1>11, <1>13, <1>14, <1>15, <1>16 DEF DartStep

LEMMA EveryEventStep ==
  ASSUME IInv, [Next]_vars
  PROVE  EventStep
<1>1. CASE UNCHANGED vars
  BY <1>1 DEF vars, EventStep, EndsStay, PushStep
<1>2. ASSUME NEW t \in Clients, NEW c \in Calls, NEW op, ClientCommand(t, c, op)
      PROVE  EventStep
  BY <1>2 DEF ClientCommand, engine, flutter, EventStep, EndsStay, PushStep
<1> QED
  BY <1>1, <1>2, EngineEvents, CallEvents, DartEvents DEF Next

\* The dialer does not show a recording as running once it has seen the call
\* end (handleCallEnded, handleRecordingStarted), unless the call ended during
\* the start: the events of a call come in the order in which the engine
\* pushed them.
THEOREM EndedIsNotRecorded == Spec => []NoRecordingAfterEnd
<1>1. Init => EndedTold /\ NoLateStart
  BY DEF Init, EndedTold, NoLateStart
<1>2. IInv /\ EndedTold /\ NoLateStart /\ [Next]_vars => EndedTold' /\ NoLateStart'
  BY EveryEventStep, PushStepKeeps, DartActsKeeps, DartHandlesKeeps DEF EventStep
<1>3. NoLateStart => NoRecordingAfterEnd
  BY DEF NoLateStart, NoRecordingAfterEnd
<1> QED
  BY <1>1, <1>2, <1>3, Always, PTL DEF Spec
=============================================================================
