---------------------------- MODULE Registration ----------------------------
(***************************************************************************)
(* The accounts of the Rust engine (core_rust/src/lib.rs): the commands    *)
(* that add, register, unregister and delete them, sent by the Flutter     *)
(* thread and by the clients of the named pipe, against the registration   *)
(* results that pjsua reports on its worker thread.                        *)
(*                                                                         *)
(*   accounts  ACCOUNTS: is the account known, and its pjsip_acc_id; its   *)
(*             reg_state is written beside every event and read nowhere    *)
(*   accMap    PJSIP_ACC_MAP: pjsua account -> our account                 *)
(*   shown     the last RegistrationStateChanged event of each account     *)
(*   pjacc     the pjsua accounts (external): for whom each was added      *)
(*   cmd       where each command thread is between two critical sections  *)
(*   report    the result pjsip_on_reg_state is delivering, if any         *)
(*   stuck     the thread that holds ACCOUNTS and waits for it, if any     *)
(*   missed    history: the accounts that had a result dropped             *)
(*   overlapped  history: has a command begun while another was under way  *)
(*                                                                         *)
(* pjsua holds PJSUA_LOCK while it reports a result and takes it to add or *)
(* delete an account.                                                      *)
(*                                                                         *)
(* A definition named Bug_... is never used by the specification: it is a  *)
(* mistaken form of the definition after it, kept to show that a property  *)
(* fails when the code has that mistake.                                   *)
(***************************************************************************)
EXTENDS Integers

CONSTANTS
  Accounts,   \* our account ids (uuid)
  PjIds,      \* the pjsua account slots, 0 .. PJSUA_MAX_ACC - 1
  Threads,    \* the threads that send commands
  AddFails,   \* may pjsua_acc_add refuse an account?
  NoAccount, NoPj, NoThread

ASSUME RegistrationAssumption ==
  /\ PjIds \subseteq Nat
  /\ NoPj \notin PjIds
  /\ NoAccount \notin Accounts
  /\ NoThread \notin Threads
  /\ AddFails \in BOOLEAN

VARIABLES accounts, accMap, shown, pjacc, cmd, report, stuck, missed, overlapped

vars == <<accounts, accMap, shown, pjacc, cmd, report, stuck, missed, overlapped>>

-----------------------------------------------------------------------------
(* Values *)

RegistrationState == {"Unregistered", "Registering", "Registered", "Failed"}

Account == [known : BOOLEAN, pj : PjIds \cup {NoPj}]
Unknown == [known |-> FALSE, pj |-> NoPj]

\* expires and status_code as on_reg_state of the shim reports them: a
\* success, a refusal, a success that grants nothing and a redirection
\* (pjsua has destroyed the registration and reports no expiry in the last
\* three).
Results == {<<60, 200>>, <<-1, 403>>, <<-1, 200>>, <<-1, 302>>}

RegState(expires, code) ==
  IF expires > 0 /\ code \in {0, 200} THEN "Registered"
  ELSE IF code >= 400 \/ (expires = 0 /\ code # 0) THEN "Failed"
  ELSE "Unregistered"

\* "remove" and "unmap" are on the way to a new registration if renew.
Steps == {"idle", "take", "remove", "unmap", "registering", "add", "store",
          "insert", "unregistered", "failed"}
Command == [op : Steps, acct : Accounts \cup {NoAccount},
            pj : PjIds \cup {NoPj}, renew : BOOLEAN]

Doing(op, a, p, renew) == [op |-> op, acct |-> a, pj |-> p, renew |-> renew]
Idle == Doing("idle", NoAccount, NoPj, FALSE)
At(t, op) == cmd[t].op = op
Goto(t, op) == cmd' = [cmd EXCEPT ![t].op = op]
Finish(t) == cmd' = [cmd EXCEPT ![t] = Idle]

\* The result being delivered and the account the map named for it.
NoReport == [acct |-> NoAccount, state |-> "Unregistered"]
Report == [acct : Accounts \cup {NoAccount}, state : RegistrationState]

AccountsFree == stuck = NoThread
PjsuaFree == report = NoReport

\* pjsua_acc_add takes the first slot that is not in use.
FirstFree(p) ==
  /\ pjacc[p] = NoAccount
  /\ \A q \in PjIds : q < p => pjacc[q] # NoAccount

-----------------------------------------------------------------------------
(* Commands *)

\* An account that is already known only gets a new configuration; a new one
\* is entered and shown once the lock is released.
AccountUpsert(t, a) ==
  /\ At(t, "idle") /\ AccountsFree
  /\ ~accounts[a].known
  /\ accounts' = [accounts EXCEPT ![a] = [known |-> TRUE, pj |-> NoPj]]
  /\ cmd' = [cmd EXCEPT ![t] = Doing("unregistered", a, NoPj, FALSE)]
  /\ UNCHANGED <<accMap, shown, pjacc, report, stuck, missed>>

\* AccountRegister: the configuration is copied, then in a second critical
\* section the old pjsua account is taken from the account, if it still is
\* there.
AccountRegister(t, a) ==
  /\ At(t, "idle") /\ AccountsFree
  /\ accounts[a].known
  /\ cmd' = [cmd EXCEPT ![t] = Doing("take", a, NoPj, TRUE)]
  /\ UNCHANGED <<accounts, accMap, shown, pjacc, report, stuck, missed>>

Bug_Takes(t, a, renew) ==
  LET old == accounts[a].pj IN
  /\ UNCHANGED accounts
  /\ cmd' = [cmd EXCEPT ![t] =
               Doing(IF old # NoPj THEN "remove"
                     ELSE IF renew THEN "registering" ELSE "unregistered",
                     a, old, renew)]

Bug_ForgetsOld(t, a, renew) ==
  LET old == accounts[a].pj IN
  /\ accounts' = [accounts EXCEPT ![a].pj = NoPj]
  /\ cmd' = [cmd EXCEPT ![t] =
               Doing(IF renew THEN "registering"
                     ELSE IF old # NoPj THEN "remove" ELSE "unregistered",
                     a, old, renew)]

Bug_SkipsRemove(t, a, renew) ==
  LET old == accounts[a].pj IN
  /\ accounts' = [accounts EXCEPT ![a].pj = NoPj]
  /\ cmd' = [cmd EXCEPT ![t] =
               Doing(IF old # NoPj THEN "unmap"
                     ELSE IF renew THEN "registering" ELSE "unregistered",
                     a, old, renew)]

\* pjsip_acc_id.take(): nobody else will find the old pjsua account.
TakePjAccount(t, a, renew) ==
  LET old == accounts[a].pj IN
  /\ accounts' = [accounts EXCEPT ![a].pj = NoPj]
  /\ cmd' = [cmd EXCEPT ![t] =
               Doing(IF old # NoPj THEN "remove"
                     ELSE IF renew THEN "registering" ELSE "unregistered",
                     a, old, renew)]

TakeForRegister(t) ==
  /\ At(t, "take") /\ AccountsFree
  /\ TakePjAccount(t, cmd[t].acct, TRUE)
  /\ UNCHANGED <<accMap, shown, pjacc, report, stuck, missed>>

AccountUnregister(t, a) ==
  /\ At(t, "idle") /\ AccountsFree
  /\ accounts[a].known
  /\ TakePjAccount(t, a, FALSE)
  /\ UNCHANGED <<accMap, shown, pjacc, report, stuck, missed>>

\* AccountDeleteProfile removes the entry and goes on like Unregister.
AccountDeleteProfile(t, a) ==
  LET old == accounts[a].pj IN
  /\ At(t, "idle") /\ AccountsFree
  /\ accounts[a].known
  /\ accounts' = [accounts EXCEPT ![a] = Unknown]
  /\ cmd' = [cmd EXCEPT ![t] =
               Doing(IF old # NoPj THEN "remove" ELSE "unregistered",
                     a, old, FALSE)]
  /\ UNCHANGED <<accMap, shown, pjacc, report, stuck, missed>>

\* pd_acc_remove: pjsua forgets the account; no result of it comes any more.
AccRemove(t) ==
  /\ At(t, "remove") /\ PjsuaFree
  /\ pjacc' = [pjacc EXCEPT ![cmd[t].pj] = NoAccount]
  /\ Goto(t, "unmap")
  /\ UNCHANGED <<accounts, accMap, shown, report, stuck, missed>>

Bug_KeepsMapping(t) ==
  /\ At(t, "unmap")
  /\ accMap' = accMap
  /\ Goto(t, IF cmd[t].renew THEN "registering" ELSE "unregistered")
  /\ UNCHANGED <<accounts, shown, pjacc, report, stuck, missed>>

Bug_Silent(t) ==
  /\ At(t, "unmap")
  /\ accMap' = [accMap EXCEPT ![cmd[t].pj] = NoAccount]
  /\ IF cmd[t].renew THEN Goto(t, "registering") ELSE Finish(t)
  /\ UNCHANGED <<accounts, shown, pjacc, report, stuck, missed>>

MapRemove(t) ==
  /\ At(t, "unmap")
  /\ accMap' = [accMap EXCEPT ![cmd[t].pj] = NoAccount]
  /\ Goto(t, IF cmd[t].renew THEN "registering" ELSE "unregistered")
  /\ UNCHANGED <<accounts, shown, pjacc, report, stuck, missed>>

\* push_reg_state reads the account's names for the event under ACCOUNTS.
ShowUnregistered(t) ==
  /\ At(t, "unregistered") /\ AccountsFree
  /\ shown' = [shown EXCEPT ![cmd[t].acct] = "Unregistered"]
  /\ Finish(t)
  /\ UNCHANGED <<accounts, accMap, pjacc, report, stuck, missed>>

ShowRegistering(t) ==
  /\ At(t, "registering")
  /\ shown' = [shown EXCEPT ![cmd[t].acct] = "Registering"]
  /\ Goto(t, "add")
  /\ UNCHANGED <<accounts, accMap, pjacc, report, stuck, missed>>

\* A configuration with a NUL byte ends the command here.
ConfigRejected(t) ==
  /\ At(t, "add")
  /\ Finish(t)
  /\ UNCHANGED <<accounts, accMap, shown, pjacc, report, stuck, missed>>

Bug_AddUnchecked(t) ==
  /\ At(t, "add") /\ PjsuaFree
  /\ \E p \in PjIds \cup {-1} :
       /\ p # -1 => FirstFree(p)
       /\ pjacc' = IF p = -1 THEN pjacc ELSE [pjacc EXCEPT ![p] = cmd[t].acct]
       /\ cmd' = [cmd EXCEPT ![t].op = "store", ![t].pj = p]
  /\ UNCHANGED <<accounts, accMap, shown, report, stuck, missed>>

\* pd_acc_add: from here on pjsua may report a result.
AccAdd(t) ==
  /\ At(t, "add") /\ PjsuaFree
  /\ \E p \in PjIds :
       /\ FirstFree(p)
       /\ pjacc' = [pjacc EXCEPT ![p] = cmd[t].acct]
       /\ cmd' = [cmd EXCEPT ![t].op = "store", ![t].pj = p]
  /\ UNCHANGED <<accounts, accMap, shown, report, stuck, missed>>

\* An invalid URI, or no slot left.  The branch locks ACCOUNTS to set the
\* state and calls push_reg_state, which locks it again, before the guard is
\* dropped.
AccAddFailed(t) ==
  /\ At(t, "add") /\ PjsuaFree /\ AccountsFree
  /\ AddFails
  /\ stuck' = t
  /\ Goto(t, "failed")
  /\ UNCHANGED <<accounts, accMap, shown, pjacc, report, missed>>

StorePjId(t) ==
  LET a == cmd[t].acct IN
  /\ At(t, "store") /\ AccountsFree
  /\ accounts' = IF accounts[a].known
                 THEN [accounts EXCEPT ![a].pj = cmd[t].pj] ELSE accounts
  /\ Goto(t, "insert")
  /\ UNCHANGED <<accMap, shown, pjacc, report, stuck, missed>>

MapInsert(t) ==
  /\ At(t, "insert")
  /\ accMap' = [accMap EXCEPT ![cmd[t].pj] = cmd[t].acct]
  /\ Finish(t)
  /\ UNCHANGED <<accounts, shown, pjacc, report, stuck, missed>>

-----------------------------------------------------------------------------
(* The worker thread *)

\* regc_cb: the answer to a REGISTER, a refresh or a retry of pjsua account
\* p; pjsip_on_reg_state asks the map whose it is, and drops it if nobody's.
RegistrationResult(p) ==
  /\ PjsuaFree
  /\ pjacc[p] # NoAccount
  /\ IF accMap[p] = NoAccount
     THEN /\ missed' = missed \cup {pjacc[p]}
          /\ UNCHANGED report
     ELSE /\ \E r \in Results :
               report' = [acct |-> accMap[p], state |-> RegState(r[1], r[2])]
          /\ UNCHANGED missed
  /\ UNCHANGED <<accounts, accMap, shown, pjacc, cmd, stuck, overlapped>>

\* The rest of pjsip_on_reg_state: ACCOUNTS, then the event.
ResultShown ==
  /\ report # NoReport /\ AccountsFree
  /\ shown' = [shown EXCEPT ![report.acct] = report.state]
  /\ report' = NoReport
  /\ UNCHANGED <<accounts, accMap, pjacc, cmd, stuck, missed, overlapped>>

-----------------------------------------------------------------------------
Init ==
  /\ accounts = [a \in Accounts |-> Unknown]
  /\ accMap = [p \in PjIds |-> NoAccount]
  /\ shown = [a \in Accounts |-> "Unregistered"]
  /\ pjacc = [p \in PjIds |-> NoAccount]
  /\ cmd = [t \in Threads |-> Idle]
  /\ report = NoReport
  /\ stuck = NoThread
  /\ missed = {}
  /\ overlapped = FALSE

NewCommand(t) ==
  /\ \E a \in Accounts :
       \/ AccountUpsert(t, a)
       \/ AccountRegister(t, a)
       \/ AccountUnregister(t, a)
       \/ AccountDeleteProfile(t, a)
  /\ overlapped' = (overlapped \/ \E u \in Threads : ~At(u, "idle"))

ThreadStep(t) ==
  /\ \/ TakeForRegister(t)
     \/ AccRemove(t)
     \/ MapRemove(t)
     \/ ShowUnregistered(t)
     \/ ShowRegistering(t)
     \/ ConfigRejected(t)
     \/ AccAdd(t)
     \/ AccAddFailed(t)
     \/ StorePjId(t)
     \/ MapInsert(t)
  /\ UNCHANGED overlapped

Next ==
  \/ \E t \in Threads : NewCommand(t) \/ ThreadStep(t)
  \/ \E p \in PjIds : RegistrationResult(p)
  \/ ResultShown

Spec == Init /\ [][Next]_vars

\* A thread finishes its command and the worker thread its callback, as far
\* as locks let them.
FairSpec ==
  /\ Spec
  /\ \A t \in Threads : WF_vars(ThreadStep(t))
  /\ WF_vars(ResultShown)

-----------------------------------------------------------------------------
(* Properties *)

\* Every variable has its type: a failed pd_acc_add stores no id.
TypeOK ==
  /\ accounts \in [Accounts -> Account]
  /\ accMap \in [PjIds -> Accounts \cup {NoAccount}]
  /\ shown \in [Accounts -> RegistrationState]
  /\ pjacc \in [PjIds -> Accounts \cup {NoAccount}]
  /\ cmd \in [Threads -> Command]
  /\ report \in Report
  /\ stuck \in Threads \cup {NoThread}
  /\ missed \subseteq Accounts
  /\ overlapped \in BOOLEAN

\* However registers, unregisters and deletes of several threads interleave,
\* and although pjsua gives a slot to the next account at once, an account
\* only ever refers to, and a thread only ever deletes, the pjsua account
\* that was added for it (pjsip_acc_id is moved out under the lock).
RemovesOnlyItsOwn ==
  /\ \A a \in Accounts : accounts[a].pj # NoPj => pjacc[accounts[a].pj] = a
  /\ \A t \in Threads : At(t, "remove") => pjacc[cmd[t].pj] = cmd[t].acct

\* "Maps pjsua_acc_id to our account id, populated when an account is
\* registered via pd_acc_add" (lib.rs:58): as long as commands have come one
\* after another, as the Flutter thread sends them, a result is never shown at
\* an account that it is not about.  An entry may outlive its pjsua account only
\* until the thread that deleted it has removed the entry too.
MapNamesOwner ==
  ~overlapped =>
    \A p \in PjIds :
      accMap[p] # NoAccount =>
        pjacc[p] = accMap[p] \/ \E t \in Threads : At(t, "unmap") /\ cmd[t].pj = p

\* "remove any existing PJSIP account" (lib.rs:1349): while commands come one
\* after another, registering again never leaves two pjsua accounts registered
\* for one account, of which the engine could unregister only one.
OnePjAccount ==
  ~overlapped =>
    \A p, q \in PjIds : pjacc[p] # NoAccount /\ pjacc[p] = pjacc[q] => p = q

\* An account that is shown as registered has a pjsua account, except while
\* a command is about to show otherwise: the result that races with an
\* unregister or a delete is not the last that is shown, because the result
\* is delivered under PJSUA_LOCK and the account is deleted before the event.
\* (Commands come one after another, results at any time.)
RegisteredIsReal ==
  ~overlapped =>
    \A a \in Accounts :
      shown[a] = "Registered" =>
        \/ \E p \in PjIds : pjacc[p] = a
        \/ \E t \in Threads : cmd[t].acct = a
             /\ cmd[t].op \in {"unmap", "registering", "unregistered"}

\* As long as commands have come one after another, the only results that are
\* dropped are those that arrive before cmd_account_register has entered the
\* new pjsua account in PJSIP_ACC_MAP.
OnlyTheWindowMisses ==
  [][~overlapped =>
       \A a \in missed' \ missed :
         \E t \in Threads : cmd[t].acct = a /\ cmd[t].op \in {"store", "insert"}
    ]_vars

\* "Rust emits registration state changes" (developer-guide.md:115): a
\* registration that pjsua refuses is shown as failed.
FailureIsShown ==
  \A a \in Accounts :
    (\E t \in Threads : At(t, "failed") /\ cmd[t].acct = a) ~> (shown[a] = "Failed")
=============================================================================
