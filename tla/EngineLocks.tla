------------------------------ MODULE EngineLocks ------------------------------
(***************************************************************************)
(* The locks of the engine and of pjsua under the calls that cross them:   *)
(* the two mutexes of core_rust/src/lib.rs that are held across calls,     *)
(* CALLS and ACCOUNTS, the global PJSUA_LOCK and the lock of each dialog.  *)
(* The other mutexes of lib.rs are leaves: nothing is called under them.   *)
(*                                                                         *)
(*   owner   who holds a lock; a slot stands for the lock of its dialog    *)
(*   code    what an agent still has to do, innermost call first           *)
(*   job     the command, or the event of the worker thread, it is in      *)
(*   sess    the pjsua calls: "closing" is hanging_up                      *)
(*   known   the slots that some entry of CALLS names                      *)
(*   routed  the slots in PJSIP_CALL_MAP                                   *)
(*   left    how many commands and events may still come (a bound)         *)
(*                                                                         *)
(* An instruction <<"touch", l>> stands for a section under l that waits   *)
(* for nothing else.  What the tables hold decides here only which locks   *)
(* are taken: whether a call is muted, on hold or recorded, and what       *)
(* pjsua answers, is left open.                                            *)
(***************************************************************************)
EXTENDS Naturals, Sequences

CONSTANTS
  Slots,    \* the pjsua call slots
  Threads,  \* the threads that send commands
  Worker,   \* the worker thread of pjsua
  MaxCommands, MaxEvents,  \* bounds on the commands and events of a behaviour
  Nobody

\* The locks of the dialogs are not those with a name.
ASSUME LocksAssumption ==
  /\ MaxCommands \in Nat
  /\ MaxEvents \in Nat
  /\ Worker \notin Threads
  /\ Nobody \notin Threads \cup {Worker}
  /\ Slots \cap {"CALLS", "ACCOUNTS", "PJSUA"} = {}

VARIABLES owner, code, job, sess, known, routed, left

vars == <<owner, code, job, sess, known, routed, left>>

-----------------------------------------------------------------------------
Agents == Threads \cup {Worker}

\* The mutexes of Rust deadlock when their holder locks them again; those of
\* pjsua may be taken again by their holder.
Mutexes == {"CALLS", "ACCOUNTS"}
Locks == Mutexes \cup {"PJSUA"} \cup Slots

Commands == {"start", "answer", "hangup", "hold", "mute", "dtmf", "register"}
Events == {"invite", "media", "state", "bye", "result"}

Kinds == {"lock", "unlock", "touch", "push", "request", "answer", "hangup",
          "close", "start", "insert", "route", "invite", "state", "media",
          "ended", "free"}

Do(a, kind) == code[a] # <<>> /\ code[a][1][1] = kind
On(a) == code[a][1][2]

\* The instruction under way is replaced by what it calls.
Then(a, steps) ==
  /\ code' = [code EXCEPT ![a] = steps \o Tail(@)]
  /\ job' = [job EXCEPT ![a] = IF code'[a] = <<>> THEN "idle" ELSE @]

Available(a, l) == owner[l] = Nobody \/ (owner[l] = a /\ l \notin Mutexes)

\* A critical section of CALLS that ends with push_call_state, which reads
\* the name of the account.
Pushing(steps) == <<<<"lock", "CALLS">>>> \o steps \o <<<<"push", "ACCOUNTS">>>>

Lock(a) ==
  /\ Do(a, "lock")
  /\ owner[On(a)] = Nobody
  /\ owner' = [owner EXCEPT ![On(a)] = a]
  /\ Then(a, <<>>)
  /\ UNCHANGED <<sess, known, routed, left>>

Unlock(a) ==
  /\ Do(a, "unlock")
  /\ owner' = [owner EXCEPT ![On(a)] = Nobody]
  /\ Then(a, <<>>)
  /\ UNCHANGED <<sess, known, routed, left>>

Touch(a) ==
  /\ Do(a, "touch")
  /\ Available(a, On(a))
  /\ Then(a, <<>>)
  /\ UNCHANGED <<owner, sess, known, routed, left>>

Push(a) ==
  /\ Do(a, "push")
  /\ Available(a, "ACCOUNTS")
  /\ owner' = [owner EXCEPT !["CALLS"] = Nobody]
  /\ Then(a, <<>>)
  /\ UNCHANGED <<sess, known, routed, left>>

-----------------------------------------------------------------------------
(* Calls into pjsua *)

Bug_AcquireWaits(a, p, body) ==
  /\ Available(a, "PJSUA")
  /\ IF sess[p] = "free"
     THEN Then(a, <<>>) /\ UNCHANGED owner
     ELSE /\ Available(a, p)
          /\ owner' = [owner EXCEPT ![p] = a]
          /\ Then(a, body \o IF owner[p] = a THEN <<>> ELSE <<<<"unlock", p>>>>)

Bug_AcquireUnlocksTwice(a, p, body) ==
  /\ Available(a, "PJSUA")
  /\ IF sess[p] = "free" \/ ~Available(a, p)
     THEN Then(a, <<>>) /\ UNCHANGED owner
     ELSE /\ owner' = [owner EXCEPT ![p] = a]
          /\ Then(a, body \o <<<<"unlock", p>>>>)

\* acquire_call tries PJSUA_LOCK, under it the lock of the dialog, and keeps
\* only the latter; a call that has no dialog any more is refused, and after
\* PJSUA_ACQUIRE_CALL_TIMEOUT it gives up.
Acquire(a, p, body) ==
  \/ /\ Available(a, "PJSUA")
     /\ sess[p] = "free"
     /\ Then(a, <<>>)
     /\ UNCHANGED owner
  \/ /\ Available(a, "PJSUA") /\ Available(a, p)
     /\ sess[p] # "free"
     /\ owner' = [owner EXCEPT ![p] = a]
     /\ Then(a, body \o IF owner[p] = a THEN <<>> ELSE <<<<"unlock", p>>>>)
  \/ /\ ~Available(a, "PJSUA") \/ (sess[p] # "free" /\ ~Available(a, p))
     /\ Then(a, <<>>)
     /\ UNCHANGED owner

\* pjsua_call_set_hold, pjsua_call_reinvite, pjsua_call_dial_dtmf: they only
\* need the call.
Request(a) ==
  /\ Do(a, "request")
  /\ Acquire(a, On(a), <<>>)
  /\ UNCHANGED <<sess, known, routed, left>>

\* pjsip_on_call_state for DISCONNECTED: the slot leaves the map, the entry it
\* was routed to is changed, and a recording that has a path is stopped.
EndReported(a, p) ==
  /\ routed' = routed \ {p}
  /\ \E recorded \in BOOLEAN :
       Then(a, IF p \notin routed THEN <<>>
               ELSE Pushing(<<>>) \o <<<<"touch", "CALLS">>>>
                      \o IF recorded THEN <<<<"touch", "PJSUA">>>> ELSE <<>>)

\* pjsua_call_hangup: the media is closed under PJSUA_LOCK, hanging_up is set,
\* and on_call_state is called at once, whoever holds PJSUA_LOCK.
Hangup(a) ==
  LET p == On(a) IN
  /\ Do(a, "hangup")
  /\ Acquire(a, p, IF sess[p] = "closing" THEN <<>> ELSE <<<<"close", p>>>>)
  /\ UNCHANGED <<sess, known, routed, left>>

Close(a) ==
  LET p == On(a) IN
  /\ Do(a, "close")
  /\ Available(a, "PJSUA")
  /\ sess' = [sess EXCEPT ![p] = "closing"]
  /\ EndReported(a, p)
  /\ UNCHANGED <<owner, known, left>>

\* pjsua_call_answer: the media first, then CONNECTING, with no lock but that
\* of the dialog.
Answer(a) ==
  LET p == On(a) IN
  /\ Do(a, "answer")
  /\ Acquire(a, p, IF sess[p] # "incoming" THEN <<>>
                   ELSE <<<<"media", p>>, <<"state", p>>>>)
  /\ sess' = IF owner'[p] = a /\ sess[p] = "incoming"
             THEN [sess EXCEPT ![p] = "up"] ELSE sess
  /\ UNCHANGED <<known, routed, left>>

\* pjsua_call_make_call, with PJSUA_LOCK: it fails, or it makes a dialog and
\* sends the INVITE, which reports CALLING: pjsua_call_on_state_changed lets
\* go of PJSUA_LOCK for the callback, "to avoid deadlock".  cmd_call_start
\* then pushes the state and makes its entries.
Start(a) ==
  /\ Do(a, "start")
  /\ \/ /\ owner' = [owner EXCEPT !["PJSUA"] = Nobody]
        /\ Then(a, <<>>)
        /\ UNCHANGED sess
     \/ \E p \in Slots :
          /\ sess[p] = "free"
          /\ owner[p] = Nobody
          /\ owner' = [owner EXCEPT ![p] = a, !["PJSUA"] = Nobody]
          /\ sess' = [sess EXCEPT ![p] = "up"]
          /\ Then(a, <<<<"state", p>>, <<"lock", "PJSUA">>, <<"unlock", p>>,
                       <<"unlock", "PJSUA">>, <<"touch", "ACCOUNTS">>,
                       <<"insert", p>>, <<"route", p>>>>)
  /\ UNCHANGED <<known, routed, left>>

\* CALLS.lock().insert and PJSIP_CALL_MAP.lock().insert.
Insert(a) ==
  /\ Do(a, "insert")
  /\ Available(a, "CALLS")
  /\ known' = known \cup {On(a)}
  /\ Then(a, <<>>)
  /\ UNCHANGED <<owner, sess, routed, left>>

Route(a) ==
  /\ Do(a, "route")
  /\ routed' = routed \cup {On(a)}
  /\ Then(a, <<>>)
  /\ UNCHANGED <<owner, sess, known, left>>

-----------------------------------------------------------------------------
(* Callbacks of pjsua *)

\* on_call_state asks pjsua for the call, then pjsip_on_call_state changes
\* the entry the slot is routed to; nothing is reported of a call that is
\* being hung up here.
State(a) ==
  LET p == On(a) IN
  /\ Do(a, "state")
  /\ Available(a, "PJSUA")
  /\ Then(a, IF p \in routed /\ sess[p] # "closing" THEN Pushing(<<>>) ELSE <<>>)
  /\ UNCHANGED <<owner, sess, known, routed, left>>

\* The session is over: DISCONNECTED, and then the slot is freed.
Ended ==
  LET p == On(Worker) IN
  /\ Do(Worker, "ended")
  /\ Available(Worker, "PJSUA")
  /\ IF sess[p] = "closing" THEN Then(Worker, <<>>) /\ UNCHANGED routed
                            ELSE EndReported(Worker, p)
  /\ UNCHANGED <<owner, sess, known, left>>

FreeSlot ==
  /\ Do(Worker, "free")
  /\ Available(Worker, "PJSUA")
  /\ sess' = [sess EXCEPT ![On(Worker)] = "free"]
  /\ Then(Worker, <<>>)
  /\ UNCHANGED <<owner, known, routed, left>>

\* pjsua_call_on_media_update and on_call_media_state: the media, the bridge
\* and the statistics need PJSUA_LOCK; pjsip_on_call_media mutes and holds
\* again with CALLS locked.
Media(a) ==
  LET p == On(a) IN
  /\ Do(a, "media")
  /\ Available(a, "PJSUA")
  /\ \E muted, held \in BOOLEAN :
       Then(a, IF sess[p] = "closing" THEN <<>>
               ELSE (IF p \notin routed THEN <<>>
                     ELSE Pushing((IF muted THEN <<<<"touch", "PJSUA">>>> ELSE <<>>)
                                  \o IF held THEN <<<<"request", p>>>> ELSE <<>>))
                    \o <<<<"touch", "PJSUA">>>>)
  /\ UNCHANGED <<owner, sess, known, routed, left>>

\* pjsua_call_on_incoming, with PJSUA_LOCK from its first line to its last:
\* 486 under DND or when busy, nothing for an unknown account, an entry.
Invite ==
  /\ Do(Worker, "invite")
  /\ \/ /\ Then(Worker, <<<<"unlock", "PJSUA">>>>)
        /\ UNCHANGED <<owner, sess>>
     \/ \E p \in Slots :
          /\ sess[p] = "free"
          /\ owner[p] = Nobody
          /\ owner' = [owner EXCEPT ![p] = Worker]
          /\ sess' = [sess EXCEPT ![p] = "incoming"]
          /\ \E answer \in {<<<<"hangup", p>>>>, <<>>,
                            <<<<"touch", "ACCOUNTS">>, <<"insert", p>>, <<"route", p>>>>} :
               /\ (\E q \in Slots : sess[q] \in {"incoming", "up"})
                    => answer = <<<<"hangup", p>>>>
               /\ Then(Worker, answer \o <<<<"unlock", p>>, <<"unlock", "PJSUA">>>>)
  /\ UNCHANGED <<known, routed, left>>

-----------------------------------------------------------------------------
(* What the agents begin *)

Bug_MutesLocked(cmd, p) ==
  CASE cmd = "answer" -> <<<<"touch", "CALLS">>, <<"answer", p>>>>
    [] cmd = "hangup" -> <<<<"touch", "CALLS">>, <<"hangup", p>>>>
    [] cmd = "hold"   -> Pushing(<<>>) \o <<<<"request", p>>>>
    [] cmd = "mute"   -> Pushing(<<<<"touch", "PJSUA">>>>)
    [] cmd = "dtmf"   -> <<<<"lock", "CALLS">>, <<"touch", "PJSUA">>,
                           <<"request", p>>, <<"unlock", "CALLS">>>>

\* The functions behind a command that names the call on slot p.
CommandOn(cmd, p) ==
  CASE cmd = "answer" -> <<<<"touch", "CALLS">>, <<"answer", p>>>>
    [] cmd = "hangup" -> <<<<"touch", "CALLS">>, <<"hangup", p>>>>
    [] cmd = "hold"   -> Pushing(<<>>) \o <<<<"request", p>>>>
    [] cmd = "mute"   -> Pushing(<<>>) \o <<<<"touch", "PJSUA">>>>
    [] cmd = "dtmf"   -> <<<<"lock", "CALLS">>, <<"touch", "PJSUA">>,
                           <<"request", p>>, <<"unlock", "CALLS">>>>

\* cmd_account_register: the account is read and, when pjsua has refused it,
\* changed under a guard that is still alive when push_reg_state locks again.
Register(refused) ==
  <<<<"touch", "ACCOUNTS">>, <<"touch", "PJSUA">>>>
    \o IF refused
       THEN <<<<"lock", "ACCOUNTS">>, <<"touch", "ACCOUNTS">>, <<"unlock", "ACCOUNTS">>>>
       ELSE <<<<"touch", "ACCOUNTS">>>>

Begin(a, kind, steps) ==
  /\ code[a] = <<>>
  /\ LET who == IF a = Worker THEN "events" ELSE "commands" IN
     left[who] > 0 /\ left' = [left EXCEPT ![who] = @ - 1]
  /\ job' = [job EXCEPT ![a] = kind]
  /\ code' = [code EXCEPT ![a] = steps]
  /\ UNCHANGED <<owner, sess, known, routed>>

NewCommand(t) ==
  \/ Begin(t, "start",
           <<<<"touch", "ACCOUNTS">>, <<"lock", "PJSUA">>, <<"start", "PJSUA">>>>)
  \/ \E refused \in BOOLEAN : Begin(t, "register", Register(refused))
  \/ \E p \in known, cmd \in Commands \ {"start", "register"} :
       Begin(t, cmd, CommandOn(cmd, p))

\* The worker takes the lock of a dialog before it looks at the session;
\* regc_cb holds PJSUA_LOCK throughout.
NewEvent ==
  \/ Begin(Worker, "invite", <<<<"lock", "PJSUA">>, <<"invite", "PJSUA">>>>)
  \/ Begin(Worker, "result",
           <<<<"lock", "PJSUA">>, <<"touch", "ACCOUNTS">>, <<"unlock", "PJSUA">>>>)
  \/ \E p \in Slots :
       \/ sess[p] = "up" /\ Begin(Worker, "media",
                              <<<<"lock", p>>, <<"media", p>>, <<"unlock", p>>>>)
       \/ sess[p] = "up" /\ Begin(Worker, "state",
                              <<<<"lock", p>>, <<"state", p>>, <<"unlock", p>>>>)
       \/ sess[p] # "free" /\ Begin(Worker, "bye",
                                <<<<"lock", p>>, <<"ended", p>>, <<"free", p>>,
                                  <<"unlock", p>>>>)

Step(a) ==
  \/ Lock(a) \/ Unlock(a) \/ Touch(a) \/ Push(a)
  \/ Request(a) \/ Hangup(a) \/ Close(a) \/ Answer(a)
  \/ Start(a) \/ Insert(a) \/ Route(a)
  \/ State(a) \/ Media(a)

WorkerStep == Step(Worker) \/ Invite \/ Ended \/ FreeSlot

Init ==
  /\ owner = [l \in Locks |-> Nobody]
  /\ code = [a \in Agents |-> <<>>]
  /\ job = [a \in Agents |-> "idle"]
  /\ sess = [p \in Slots |-> "free"]
  /\ known = {}
  /\ routed = {}
  /\ left = [commands |-> MaxCommands, events |-> MaxEvents]

Next ==
  \/ \E t \in Threads : Step(t) \/ NewCommand(t)
  \/ WorkerStep
  \/ NewEvent

Spec == Init /\ [][Next]_vars

\* Every thread runs: a lock that stays free is taken by who waits for it.
Fairness == WF_vars(WorkerStep) /\ \A t \in Threads : WF_vars(Step(t))

FairSpec == Spec /\ Fairness

-----------------------------------------------------------------------------
(* Properties *)

\* Every variable has its type: the tables and the slots under the locks.
TypeOK ==
  /\ owner \in [Locks -> Agents \cup {Nobody}]
  /\ \A a \in Agents : code[a] \in Seq(Kinds \X Locks)
  /\ job \in [Agents -> Commands \cup Events \cup {"idle"}]
  /\ sess \in [Slots -> {"free", "incoming", "up", "closing"}]
  /\ known \subseteq Slots
  /\ routed \subseteq Slots
  /\ left \in [commands : 0 .. MaxCommands, events : 0 .. MaxEvents]

\* The lock that the instruction under way, or the code put in its place, lets
\* go of.
Releases(a) ==
  IF Do(a, "unlock") THEN {On(a)}
  ELSE IF Do(a, "push") THEN {"CALLS"}
  ELSE IF Do(a, "start") \/ Do(a, "invite") THEN {"PJSUA"} ELSE {}

\* Locks are taken and let go in pairs, however the calls into pjsua and its
\* callbacks are nested: who holds one has still to let it go, so that no call
\* returns with a lock, and nobody lets go of a lock it does not hold, which is
\* "pj_assert(mutex->owner == pj_thread_this())" in pj_mutex_unlock
\* (os_core_unix.c:1492).
LocksBalanced ==
  /\ \A l \in Locks : owner[l] # Nobody => code[owner[l]] # <<>>
  /\ \A a \in Agents : \A l \in Releases(a) : owner[l] = a

\* The lock an agent cannot go on without.  acquire_call is not in it: it
\* gives up in the end.
Needs(a) ==
  IF code[a] = <<>> THEN {}
  ELSE IF code[a][1][1] \in {"lock", "touch", "push"} THEN {On(a)}
  ELSE IF code[a][1][1] \in {"close", "state", "media", "ended", "free"}
       THEN {"PJSUA"}
  ELSE IF code[a][1][1] = "insert" THEN {"CALLS"} ELSE {}

WaitsFor(a) == {owner[l] : l \in {l \in Needs(a) : ~Available(a, l)}} \ {Nobody}

CircularWait(S) == S # {} /\ \A a \in S : WaitsFor(a) \cap S # {}

Deadlocked == \E S \in SUBSET Agents : CircularWait(S)

\* "Now call PJSIP WITHOUT holding the lock to avoid deadlock" (lib.rs:1866) is
\* the rule of the engine.  The only circular waits are: the failure branch of
\* cmd_account_register, alone with ACCOUNTS; and the worker with PJSUA_LOCK
\* inside an INVITE, waiting for CALLS, whose holder waits for PJSUA_LOCK in
\* cmd_call_send_dtmf or in the muting of pjsip_on_call_media during an answer.
OnlyKnownDeadlocks ==
  \A S \in SUBSET Agents :
    CircularWait(S) =>
      \/ \E a \in S : job[a] = "register" /\ owner["ACCOUNTS"] = a
      \/ /\ Worker \in S /\ job[Worker] = "invite"
         /\ owner["PJSUA"] = Worker /\ Needs(Worker) = {"CALLS"}
         /\ owner["CALLS"] # Nobody /\ job[owner["CALLS"]] \in {"dtmf", "answer"}

\* Every command returns unless there is one of those deadlocks: two agents
\* that hold CALLS and a dialog crosswise are parted by the timeout of
\* acquire_call.
CommandsReturn ==
  \A t \in Threads : (code[t] # <<>>) ~> (code[t] = <<>> \/ Deadlocked)
=============================================================================
