------------------------- MODULE RegistrationProofs -------------------------
(***************************************************************************)
(* Theorems about the accounts of the engine and the settings kept by      *)
(* slot, for any sets of accounts, pjsua slots, threads and setters: first *)
(* what holds however commands overlap, then what holds as long as they    *)
(* come one after another, then the settings.                              *)
(***************************************************************************)
EXTENDS AccountSettings, TLAPS

\* The steps at which a thread alone holds a pjsua account: taken from our
\* account and not yet deleted, or added and not yet stored.
Holding == {"remove", "store"}

\* A thread inside a command has an account, and from pd_acc_add or the
\* take() on a pjsua account.
Wired ==
  \A t \in Threads :
    /\ cmd[t].op # "idle" => cmd[t].acct \in Accounts
    /\ cmd[t].op \in {"remove", "unmap", "store", "insert"} => cmd[t].pj \in PjIds

\* A pjsua account that a thread holds was added for the thread's account;
\* our account does not refer to it and no other thread holds it.
HeldAlone ==
  \A t \in Threads :
    cmd[t].op \in Holding =>
      /\ pjacc[cmd[t].pj] = cmd[t].acct
      /\ accounts[cmd[t].acct].pj # cmd[t].pj
      /\ \A u \in Threads : cmd[u].op \in Holding /\ cmd[u].pj = cmd[t].pj => t = u

RefersToItsOwn ==
  \A a \in Accounts : accounts[a].pj # NoPj => pjacc[accounts[a].pj] = a

IInv ==
  /\ TypeOK
  /\ Wired
  /\ HeldAlone
  /\ RefersToItsOwn

-----------------------------------------------------------------------------
LEMMA RegStateType ==
  \A r \in Results : RegState(r[1], r[2]) \in RegistrationState
  BY DEF Results, RegState, RegistrationState

LEMMA InitIInv == Init => IInv
<1> SUFFICES ASSUME Init PROVE IInv
  OBVIOUS
<1>1. TypeOK
  BY DEF Init, TypeOK, Account, Unknown, RegistrationState, Command, Idle,
         Doing, Steps, Report, NoReport
<1>2. Wired /\ HeldAlone
  BY DEF Init, Wired, HeldAlone, Holding, Idle, Doing
<1>3. RefersToItsOwn
  BY DEF Init, RefersToItsOwn, Unknown
<1> QED
  BY <1>1, <1>2, <1>3 DEF IInv

\* The step with which a command takes the pjsua account of account a, which
\* becomes unknown or not.
LEMMA TakeKeepsIInv ==
  ASSUME IInv, NEW t \in Threads, NEW a \in Accounts, NEW renew \in BOOLEAN,
         NEW new \in Account, new.pj = NoPj, NEW next \in Steps,
         cmd[t].op \in {"idle", "take"},
         accounts' = [accounts EXCEPT ![a] = new],
         cmd' = [cmd EXCEPT ![t] = Doing(next, a, accounts[a].pj, renew)],
         next \in {"remove", "registering", "unregistered"},
         next = "remove" => accounts[a].pj # NoPj,
         overlapped' \in BOOLEAN,
         UNCHANGED <<accMap, shown, pjacc, report, stuck, missed>>
  PROVE  IInv'
<1> USE DEF IInv
<1>1. accounts[a].pj \in PjIds \cup {NoPj}
  BY DEF TypeOK, Account
<1>2. TypeOK'
  BY <1>1 DEF TypeOK, Command, Doing
<1>3. /\ cmd'[t] = [op |-> next, acct |-> a, pj |-> accounts[a].pj, renew |-> renew]
      /\ \A u \in Threads \ {t} : cmd'[u] = cmd[u]
      /\ accounts'[a] = new
      /\ \A b \in Accounts \ {a} : accounts'[b] = accounts[b]
  BY DEF TypeOK, Doing
<1>4. Wired'
  BY <1>1, <1>3 DEF Wired
<1>5. RefersToItsOwn'
  BY <1>3 DEF RefersToItsOwn
<1>6. next = "remove" =>
        /\ pjacc[accounts[a].pj] = a
        /\ \A u \in Threads : cmd[u].op \in Holding => cmd[u].pj # accounts[a].pj
  BY DEF RefersToItsOwn, HeldAlone
<1>7. HeldAlone'
  <2> SUFFICES ASSUME NEW u \in Threads, cmd'[u].op \in Holding
               PROVE  /\ pjacc'[cmd'[u].pj] = cmd'[u].acct
                      /\ accounts'[cmd'[u].acct].pj # cmd'[u].pj
                      /\ \A v \in Threads : cmd'[v].op \in Holding
                                            /\ cmd'[v].pj = cmd'[u].pj => u = v
    BY DEF HeldAlone
  <2>1. CASE u = t
    BY <2>1, <1>1, <1>3, <1>6, RegistrationAssumption DEF Holding
  <2>2. CASE u # t
    BY <2>2, <1>1, <1>3, <1>6, RegistrationAssumption DEF Holding, HeldAlone, Wired, TypeOK
  <2> QED
    BY <2>1, <2>2
<1> QED
  BY <1>2, <1>4, <1>5, <1>7

\* A step of a thread that begins and ends without holding a pjsua account and
\* leaves ACCOUNTS and the pjsua accounts alone.
LEMMA QuietKeepsIInv ==
  ASSUME IInv, NEW t \in Threads, NEW c \in Command,
         cmd' = [cmd EXCEPT ![t] = c],
         c.op \notin Holding,
         c.op # "idle" => c.acct \in Accounts,
         c.op \in {"unmap", "insert"} => c.pj \in PjIds,
         UNCHANGED <<accounts, pjacc>>,
         TypeOK'
  PROVE  IInv'
<1> USE DEF IInv
<1>1. cmd'[t] = c /\ \A u \in Threads \ {t} : cmd'[u] = cmd[u]
  BY DEF TypeOK
<1>2. Wired'
  BY <1>1 DEF Wired, Holding
<1>3. HeldAlone'
  BY <1>1 DEF HeldAlone, Holding
<1>4. RefersToItsOwn'
  BY DEF RefersToItsOwn
<1> QED
  BY <1>2, <1>3, <1>4

LEMMA NewCommandKeepsIInv ==
  ASSUME IInv, NEW t \in Threads, NewCommand(t)
  PROVE  IInv'
<1> USE DEF IInv
<1> PICK a \in Accounts : \/ AccountUpsert(t, a)
                          \/ AccountRegister(t, a)
                          \/ AccountUnregister(t, a)
                          \/ AccountDeleteProfile(t, a)
  BY DEF NewCommand
<1>0. overlapped' \in BOOLEAN
  BY DEF NewCommand, TypeOK
<1>1. CASE AccountUpsert(t, a)
  <2>1. /\ accounts' = [accounts EXCEPT ![a] = [known |-> TRUE, pj |-> NoPj]]
        /\ cmd' = [cmd EXCEPT ![t] = Doing("unregistered", a, NoPj, FALSE)]
    BY <1>1 DEF AccountUpsert
  <2>2. TypeOK'
    BY <1>0, <1>1, <2>1 DEF AccountUpsert, TypeOK, Account, Command, Doing, Steps
  <2>3. /\ cmd'[t] = [op |-> "unregistered", acct |-> a, pj |-> NoPj, renew |-> FALSE]
        /\ \A u \in Threads \ {t} : cmd'[u] = cmd[u]
        /\ accounts'[a].pj = NoPj
        /\ \A b \in Accounts \ {a} : accounts'[b] = accounts[b]
        /\ UNCHANGED pjacc
    BY <1>1, <2>1 DEF AccountUpsert, TypeOK, Doing
  <2>4. Wired' /\ RefersToItsOwn'
    BY <2>3 DEF Wired, RefersToItsOwn
  <2>5. HeldAlone'
    BY <2>3, RegistrationAssumption DEF HeldAlone, Holding, Wired
  <2> QED
    BY <2>2, <2>4, <2>5
<1>2. CASE AccountRegister(t, a)
  <2>1. Doing("take", a, NoPj, TRUE) \in Command
    BY DEF Command, Doing, Steps
  <2>2. TypeOK'
    BY <1>0, <1>2, <2>1 DEF AccountRegister, TypeOK
  <2> QED
    BY <1>2, <2>1, <2>2, QuietKeepsIInv DEF AccountRegister, Doing, Holding
<1>3. CASE AccountUnregister(t, a)
  <2> DEFINE new == [known |-> accounts[a].known, pj |-> NoPj]
             next == IF accounts[a].pj # NoPj THEN "remove" ELSE "unregistered"
  <2>1. new \in Account /\ [accounts[a] EXCEPT !.pj = NoPj] = new
    BY DEF TypeOK, Account
  <2>2. /\ accounts' = [accounts EXCEPT ![a] = new]
        /\ cmd' = [cmd EXCEPT ![t] = Doing(next, a, accounts[a].pj, FALSE)]
    BY <1>3, <2>1 DEF AccountUnregister, TakePjAccount
  <2> QED
    BY <1>0, <1>3, <2>1, <2>2, TakeKeepsIInv DEF AccountUnregister, At, Steps
<1>4. CASE AccountDeleteProfile(t, a)
  <2> DEFINE next == IF accounts[a].pj # NoPj THEN "remove" ELSE "unregistered"
  <2>1. Unknown \in Account /\ Unknown.pj = NoPj
    BY DEF Account, Unknown
  <2>2. /\ accounts' = [accounts EXCEPT ![a] = Unknown]
        /\ cmd' = [cmd EXCEPT ![t] = Doing(next, a, accounts[a].pj, FALSE)]
    BY <1>4 DEF AccountDeleteProfile
  <2>3. /\ cmd[t].op \in {"idle", "take"} /\ next \in {"remove", "unregistered"}
        /\ next = "remove" => accounts[a].pj # NoPj
        /\ UNCHANGED <<accMap, shown, pjacc, report, stuck, missed>>
    BY <1>4 DEF AccountDeleteProfile, At
  <2>4. next \in Steps
    BY <2>3 DEF Steps
  <2> HIDE DEF next
  <2> QED
    BY <1>0, <2>1, <2>2, <2>3, <2>4, TakeKeepsIInv
<1> QED
  BY <1>1, <1>2, <1>3, <1>4

LEMMA ThreadStepKeepsIInv ==
  ASSUME IInv, NEW t \in Threads, ThreadStep(t)
  PROVE  IInv'
<1> USE DEF IInv
<1> DEFINE a == cmd[t].acct
<1>0. /\ cmd[t] \in Command
      /\ cmd[t].op # "idle" => a \in Accounts
      /\ cmd[t].op \in {"remove", "unmap", "store", "insert"} => cmd[t].pj \in PjIds
      /\ UNCHANGED overlapped /\ overlapped' \in BOOLEAN
  BY DEF TypeOK, Wired, ThreadStep
<1>1. CASE TakeForRegister(t)
  <2> DEFINE new == [known |-> accounts[a].known, pj |-> NoPj]
             next == IF accounts[a].pj # NoPj THEN "remove" ELSE "registering"
  <2>1. a \in Accounts
    BY <1>0, <1>1 DEF TakeForRegister, At
  <2>2. new \in Account /\ [accounts[a] EXCEPT !.pj = NoPj] = new
    BY <2>1 DEF TypeOK, Account
  <2>3. /\ accounts' = [accounts EXCEPT ![a] = new]
        /\ cmd' = [cmd EXCEPT ![t] = Doing(next, a, accounts[a].pj, TRUE)]
    BY <1>1, <2>2 DEF TakeForRegister, TakePjAccount
  <2> QED
    BY <1>0, <1>1, <2>1, <2>2, <2>3, TakeKeepsIInv DEF TakeForRegister, At, Steps
<1>2. CASE AccRemove(t)
  <2> DEFINE p == cmd[t].pj
  <2>1. /\ cmd[t].op = "remove" /\ p \in PjIds /\ a \in Accounts
        /\ pjacc' = [pjacc EXCEPT ![p] = NoAccount]
        /\ cmd' = [cmd EXCEPT ![t].op = "unmap"]
        /\ UNCHANGED <<accounts, accMap, shown, report, stuck, missed>>
    BY <1>0, <1>2 DEF AccRemove, At, Goto
  <2>2. TypeOK'
    BY <1>0, <2>1 DEF TypeOK, Command, Steps
  <2>3. /\ cmd'[t].op = "unmap" /\ cmd'[t].pj = p /\ cmd'[t].acct = a
        /\ \A u \in Threads \ {t} : cmd'[u] = cmd[u]
        /\ \A q \in PjIds \ {p} : pjacc'[q] = pjacc[q]
    BY <2>1 DEF TypeOK, Command
  <2>4. Wired'
    BY <2>1, <2>3 DEF Wired
  <2>5. \A b \in Accounts : accounts[b].pj # p
    BY <2>1, RegistrationAssumption DEF HeldAlone, Holding, RefersToItsOwn
  <2>6. RefersToItsOwn'
    BY <2>1, <2>3, <2>5 DEF RefersToItsOwn, TypeOK, Account
  <2>7. \A u \in Threads \ {t} : cmd[u].op \in Holding => cmd[u].pj # p
    BY <2>1 DEF HeldAlone, Holding
  <2>8. HeldAlone'
    BY <2>1, <2>3, <2>7 DEF HeldAlone, Holding, Wired
  <2> QED
    BY <2>2, <2>4, <2>6, <2>8
<1>3. CASE MapRemove(t)
  <2> DEFINE next == IF cmd[t].renew THEN "registering" ELSE "unregistered"
  <2>1. /\ cmd' = [cmd EXCEPT ![t] = [cmd[t] EXCEPT !.op = next]]
        /\ [cmd[t] EXCEPT !.op = next] \in Command
        /\ [cmd[t] EXCEPT !.op = next].acct = a
        /\ [cmd[t] EXCEPT !.op = next].op = next
    BY <1>0, <1>3 DEF MapRemove, Goto, Command, Steps
  <2>2. TypeOK'
    BY <1>0, <1>3, <2>1 DEF MapRemove, TypeOK, At
  <2> QED
    <3> DEFINE c == [cmd[t] EXCEPT !.op = next]
    <3>1. c \in Command /\ cmd' = [cmd EXCEPT ![t] = c]
      BY <2>1
    <3>2. c.op \notin Holding /\ c.op \notin {"unmap", "insert"}
      BY <2>1 DEF Holding
    <3>3. c.acct \in Accounts
      BY <1>0, <1>3, <2>1 DEF MapRemove, At
    <3>4. UNCHANGED <<accounts, pjacc>>
      BY <1>3 DEF MapRemove
    <3> QED
      BY <2>2, <3>1, <3>2, <3>3, <3>4, QuietKeepsIInv
<1>4. CASE ShowUnregistered(t)
  <2>1. Idle \in Command
    BY DEF Command, Idle, Doing, Steps
  <2>2. TypeOK'
    BY <1>0, <1>4, <2>1 DEF ShowUnregistered, Finish, TypeOK, At, RegistrationState
  <2> QED
    BY <1>4, <2>1, <2>2, QuietKeepsIInv DEF ShowUnregistered, Finish, Idle, Doing, Holding
<1>5. CASE ShowRegistering(t)
  <2>1. /\ cmd' = [cmd EXCEPT ![t] = [cmd[t] EXCEPT !.op = "add"]]
        /\ [cmd[t] EXCEPT !.op = "add"] \in Command
        /\ [cmd[t] EXCEPT !.op = "add"].acct = a
        /\ [cmd[t] EXCEPT !.op = "add"].op = "add"
    BY <1>0, <1>5 DEF ShowRegistering, Goto, Command, Steps
  <2>2. TypeOK'
    BY <1>0, <1>5, <2>1 DEF ShowRegistering, TypeOK, At, RegistrationState
  <2> QED
    BY <1>0, <1>5, <2>1, <2>2, QuietKeepsIInv DEF ShowRegistering, Holding, At
<1>6. CASE ConfigRejected(t)
  <2>1. Idle \in Command
    BY DEF Command, Idle, Doing, Steps
  <2>2. TypeOK'
    BY <1>0, <1>6, <2>1 DEF ConfigRejected, Finish, TypeOK
  <2> QED
    BY <1>6, <2>1, <2>2, QuietKeepsIInv DEF ConfigRejected, Finish, Idle, Doing, Holding
<1>7. CASE AccAdd(t)
  <2> PICK p \in PjIds : /\ FirstFree(p)
                         /\ pjacc' = [pjacc EXCEPT ![p] = a]
                         /\ cmd' = [cmd EXCEPT ![t].op = "store", ![t].pj = p]
    BY <1>7 DEF AccAdd
  <2>1. /\ cmd[t].op = "add" /\ a \in Accounts /\ pjacc[p] = NoAccount
        /\ UNCHANGED <<accounts, accMap, shown, report, stuck, missed>>
    BY <1>0, <1>7 DEF AccAdd, At, FirstFree
  <2>2. TypeOK'
    <3>1. [[cmd[t] EXCEPT !.op = "store"] EXCEPT !.pj = p] \in Command
      BY <1>0 DEF Command, Steps
    <3>2. cmd' = [cmd EXCEPT ![t] = [[cmd[t] EXCEPT !.op = "store"] EXCEPT !.pj = p]]
      BY DEF TypeOK
    <3>3. cmd' \in [Threads -> Command]
      BY <3>1, <3>2 DEF TypeOK
    <3> QED
      BY <1>0, <2>1, <3>3 DEF TypeOK
  <2>3. /\ cmd'[t].op = "store" /\ cmd'[t].pj = p /\ cmd'[t].acct = a
        /\ \A u \in Threads \ {t} : cmd'[u] = cmd[u]
        /\ pjacc'[p] = a
        /\ \A q \in PjIds \ {p} : pjacc'[q] = pjacc[q]
    BY <2>1 DEF TypeOK, Command
  <2>4. Wired'
    BY <2>1, <2>3 DEF Wired
  <2>5. \A b \in Accounts : accounts[b].pj # p
    BY <2>1, RegistrationAssumption DEF RefersToItsOwn
  <2>6. RefersToItsOwn'
    BY <2>1, <2>3, <2>5 DEF RefersToItsOwn, TypeOK, Account
  <2>7. \A u \in Threads : cmd[u].op \in Holding => cmd[u].pj # p
    BY <2>1, RegistrationAssumption DEF HeldAlone, Holding, Wired
  <2>8. HeldAlone'
    <3> SUFFICES ASSUME NEW u \in Threads, cmd'[u].op \in Holding
                 PROVE  /\ pjacc'[cmd'[u].pj] = cmd'[u].acct
                        /\ accounts'[cmd'[u].acct].pj # cmd'[u].pj
                        /\ \A v \in Threads : cmd'[v].op \in Holding
                                              /\ cmd'[v].pj = cmd'[u].pj => u = v
      BY DEF HeldAlone
    <3>1. CASE u = t
      <4>1. pjacc'[p] = a /\ accounts'[a].pj # p
        BY <2>1, <2>3, <2>5
      <4>2. \A v \in Threads \ {t} : cmd'[v].op \in Holding => cmd'[v].pj # p
        BY <2>3, <2>7
      <4> QED
        BY <2>3, <3>1, <4>1, <4>2
    <3>2. CASE u # t
      <4>1. cmd'[u] = cmd[u] /\ cmd[u].op \in Holding /\ cmd[u].pj \in PjIds \ {p}
        BY <2>3, <2>7, <3>2 DEF Holding, Wired
      <4>2. /\ pjacc[cmd[u].pj] = cmd[u].acct
            /\ accounts[cmd[u].acct].pj # cmd[u].pj
            /\ \A v \in Threads : cmd[v].op \in Holding
                                  /\ cmd[v].pj = cmd[u].pj => u = v
        BY <4>1 DEF HeldAlone
      <4>3. pjacc'[cmd[u].pj] = cmd[u].acct
        BY <2>3, <4>1, <4>2
      <4>4. \A v \in Threads : cmd'[v].op \in Holding
                               /\ cmd'[v].pj = cmd'[u].pj => u = v
        BY <2>3, <4>1, <4>2
      <4> QED
        BY <2>1, <4>1, <4>2, <4>3, <4>4
    <3> QED
      BY <3>1, <3>2
  <2> QED
    BY <2>2, <2>4, <2>6, <2>8
<1>8. CASE AccAddFailed(t)
  <2>1. /\ cmd' = [cmd EXCEPT ![t] = [cmd[t] EXCEPT !.op = "failed"]]
        /\ [cmd[t] EXCEPT !.op = "failed"] \in Command
        /\ [cmd[t] EXCEPT !.op = "failed"].acct = a
        /\ [cmd[t] EXCEPT !.op = "failed"].op = "failed"
    BY <1>0, <1>8 DEF AccAddFailed, Goto, Command, Steps
  <2>2. TypeOK'
    BY <1>0, <1>8, <2>1 DEF AccAddFailed, TypeOK
  <2> QED
    BY <1>0, <1>8, <2>1, <2>2, QuietKeepsIInv DEF AccAddFailed, Holding, At
<1>9. CASE StorePjId(t)
  <2> DEFINE p == cmd[t].pj
             new == IF accounts[a].known
                    THEN [known |-> accounts[a].known, pj |-> p] ELSE accounts[a]
  <2>1. /\ cmd[t].op = "store" /\ p \in PjIds /\ a \in Accounts
        /\ UNCHANGED <<accMap, shown, pjacc, report, stuck, missed>>
        /\ cmd' = [cmd EXCEPT ![t].op = "insert"]
        /\ accounts' = IF accounts[a].known
                       THEN [accounts EXCEPT ![a].pj = p] ELSE accounts
    BY <1>0, <1>9 DEF StorePjId, At, Goto
  <2>2. accounts[a] \in Account /\ new \in Account
    BY <2>1 DEF TypeOK, Account
  <2>3. accounts' = [accounts EXCEPT ![a] = new]
    <3>1. CASE accounts[a].known
      <4>1. [accounts[a] EXCEPT !.pj = p] = new
        <5>1. [accounts[a] EXCEPT !.pj = p] = [known |-> accounts[a].known, pj |-> p]
          BY <2>2 DEF Account
        <5> QED
          BY <3>1, <5>1
      <4>2. accounts' = [accounts EXCEPT ![a].pj = p]
        BY <2>1, <3>1
      <4> QED
        BY <4>1, <4>2 DEF TypeOK
    <3>2. CASE ~accounts[a].known
      BY <2>1, <3>2 DEF TypeOK
    <3> QED
      BY <3>1, <3>2
  <2>4. TypeOK'
    BY <1>0, <2>1, <2>2, <2>3 DEF TypeOK, Command, Steps
  <2>5. /\ cmd'[t].op = "insert" /\ cmd'[t].pj = p /\ cmd'[t].acct = a
        /\ \A u \in Threads \ {t} : cmd'[u] = cmd[u]
        /\ accounts'[a].pj \in {p, accounts[a].pj}
        /\ \A b \in Accounts \ {a} : accounts'[b] = accounts[b]
    BY <2>1, <2>2, <2>3 DEF TypeOK, Command
  <2>6. Wired'
    BY <2>1, <2>5 DEF Wired
  <2>7. /\ pjacc[p] = a
        /\ \A u \in Threads \ {t} : cmd[u].op \in Holding => cmd[u].pj # p
    BY <2>1 DEF HeldAlone, Holding
  <2>8. RefersToItsOwn'
    BY <2>1, <2>5, <2>7 DEF RefersToItsOwn
  <2>9. HeldAlone'
    BY <2>1, <2>5, <2>7 DEF HeldAlone, Holding, Wired
  <2> QED
    BY <2>4, <2>6, <2>8, <2>9
<1>10. CASE MapInsert(t)
  <2>1. Idle \in Command
    BY DEF Command, Idle, Doing, Steps
  <2>2. TypeOK'
    BY <1>0, <1>10, <2>1 DEF MapInsert, Finish, TypeOK, At
  <2> QED
    BY <1>10, <2>1, <2>2, QuietKeepsIInv DEF MapInsert, Finish, Idle, Doing, Holding
<1> QED
  BY <1>1, <1>2, <1>3, <1>4, <1>5, <1>6, <1>7, <1>8, <1>9, <1>10 DEF ThreadStep

LEMMA WorkerKeepsIInv ==
  ASSUME IInv, (\E p \in PjIds : RegistrationResult(p)) \/ ResultShown
  PROVE  IInv'
<1> USE DEF IInv
<1>1. TypeOK'
  <2>1. ASSUME NEW p \in PjIds, RegistrationResult(p)
        PROVE  TypeOK'
    <3>1. CASE accMap[p] = NoAccount
      BY <2>1, <3>1 DEF RegistrationResult, TypeOK
    <3>2. CASE accMap[p] # NoAccount
      <4> PICK r \in Results :
             report' = [acct |-> accMap[p], state |-> RegState(r[1], r[2])]
        BY <2>1, <3>2 DEF RegistrationResult
      <4>1. report' \in Report
        BY RegStateType DEF Report, TypeOK
      <4> QED
        BY <2>1, <3>2, <4>1 DEF RegistrationResult, TypeOK
    <3> QED
      BY <3>1, <3>2
  <2>2. CASE ResultShown
    <3>1. NoReport \in Report
      BY DEF NoReport, Report, RegistrationState
    <3> QED
      BY <2>2, <3>1 DEF ResultShown, TypeOK, Report
  <2> QED
    BY <2>1, <2>2
<1>2. UNCHANGED <<accounts, pjacc, cmd>>
  BY DEF RegistrationResult, ResultShown
<1>3. Wired' /\ HeldAlone' /\ RefersToItsOwn'
  BY <1>2 DEF Wired, HeldAlone, RefersToItsOwn
<1> QED
  BY <1>1, <1>3

-----------------------------------------------------------------------------
\* The inductive invariant: every pjsua account is referred to by its own
\* account, or held by one thread that is about to delete or to store it, or
\* by nobody (the accounts two concurrent registers lose).
THEOREM Inductive == Spec => []IInv
<1>1. IInv /\ [Next]_vars => IInv'
  <2> SUFFICES ASSUME IInv, [Next]_vars PROVE IInv'
    OBVIOUS
  <2>1. CASE UNCHANGED vars
    BY <2>1 DEF vars, IInv, TypeOK, Wired, HeldAlone, RefersToItsOwn
  <2>2. ASSUME NEW t \in Threads, NewCommand(t) \/ ThreadStep(t)
        PROVE  IInv'
    BY <2>2, NewCommandKeepsIInv, ThreadStepKeepsIInv
  <2>3. CASE (\E p \in PjIds : RegistrationResult(p)) \/ ResultShown
    BY <2>3, WorkerKeepsIInv
  <2> QED
    BY <2>1, <2>2, <2>3 DEF Next
<1> QED
  BY <1>1, InitIInv, PTL DEF Spec

\* Type correctness of the accounts, the map and the commands.
THEOREM TypeCorrect == Spec => []TypeOK
<1>1. IInv => TypeOK
  BY DEF IInv
<1> QED
  BY <1>1, Inductive, PTL

\* Whatever several threads register, unregister and delete at once, an
\* account refers to, and a command deletes, only the pjsua account that was
\* added for it.
THEOREM RemovalCorrect == Spec => []RemovesOnlyItsOwn
<1>1. IInv => RemovesOnlyItsOwn
  BY DEF IInv, RemovesOnlyItsOwn, RefersToItsOwn, HeldAlone, Holding, At
<1> QED
  BY <1>1, Inductive, PTL

-----------------------------------------------------------------------------
(* Commands that come one after another, as when only the Flutter thread     *)
(* sends them: two threads that register one account at once may leave an    *)
(* account behind in pjsua and an entry behind in the map.                   *)

OneAtWork == \A t, u \in Threads : ~At(t, "idle") /\ ~At(u, "idle") => t = u

\* No thread but t is inside a command.
Alone(t) == \A u \in Threads \ {t} : cmd[u].op = "idle"

\* What MapNamesOwner and RegisteredIsReal say of commands that do not overlap.
NamesOwner ==
  \A p \in PjIds :
    accMap[p] # NoAccount =>
      pjacc[p] = accMap[p] \/ \E t \in Threads : At(t, "unmap") /\ cmd[t].pj = p

ShownIsReal ==
  \A a \in Accounts :
    shown[a] = "Registered" =>
      \/ \E p \in PjIds : pjacc[p] = a
      \/ \E t \in Threads : cmd[t].acct = a
           /\ cmd[t].op \in {"unmap", "registering", "unregistered"}

\* pjsua has forgotten the account whose entry is about to be removed.
Unmapping ==
  \A t \in Threads : At(t, "unmap") => pjacc[cmd[t].pj] = NoAccount

\* A command on the way to a new pjsua account.
Renewing(t) ==
  \/ cmd[t].op \in {"take", "registering", "add", "store"}
  \/ cmd[t].op \in {"remove", "unmap"} /\ cmd[t].renew

\* Between the take() and the store the account refers to nothing, and it is
\* still there to store the new pjsua account in.
Cleared ==
  \A t \in Threads :
    /\ Renewing(t) => accounts[cmd[t].acct].known
    /\ cmd[t].op \in {"remove", "unmap", "registering", "add", "store"} =>
         accounts[cmd[t].acct].pj = NoPj
    /\ At(t, "insert") => accounts[cmd[t].acct].pj = cmd[t].pj

UnknownHasNone ==
  \A a \in Accounts : ~accounts[a].known => accounts[a].pj = NoPj

\* The thread that is at one of these steps with pjsua account p.
OnTheWay(ops, p) ==
  \E t \in Threads :
    cmd[t].op \in ops /\ cmd[t].pj = p /\ cmd[t].acct = pjacc[p]

\* No pjsua account is lost: its owner refers to it, or the thread holds it.
Owned ==
  \A p \in PjIds :
    pjacc[p] # NoAccount => accounts[pjacc[p]].pj = p \/ OnTheWay(Holding, p)

\* Every pjsua account is in the map, or about to be.
Mapped ==
  \A p \in PjIds :
    pjacc[p] # NoAccount =>
      accMap[p] = pjacc[p] \/ OnTheWay({"store", "insert"}, p)

\* PJSUA_LOCK keeps the account whose result is being delivered.
ReportIsReal ==
  report # NoReport => \E p \in PjIds : pjacc[p] = report.acct

OneInv ==
  /\ NamesOwner
  /\ Unmapping
  /\ Cleared
  /\ UnknownHasNone
  /\ Owned
  /\ Mapped
  /\ ReportIsReal
  /\ ShownIsReal

LEMMA InitOneInv == Init => OneInv
  BY DEF Init, OneInv, NamesOwner, Unmapping, Cleared, Renewing, UnknownHasNone,
         Owned, Mapped, ReportIsReal, ShownIsReal, Idle, Doing, Unknown, At

\* A step of the thread that leaves pjsua, the map and the result alone, and
\* is not at a pjsua account that our account does not refer to.
LEMMA TakeKeepsOneInv ==
  ASSUME IInv, OneInv, NEW t \in Threads, Alone(t), NEW a \in Accounts,
         NEW renew \in BOOLEAN, NEW new \in Account, new.pj = NoPj,
         NEW next \in {"remove", "registering", "unregistered"},
         cmd[t].op \in {"idle", "take"},
         accounts' = [accounts EXCEPT ![a] = new],
         cmd' = [cmd EXCEPT ![t] = Doing(next, a, accounts[a].pj, renew)],
         accounts[a].pj # NoPj => next = "remove",
         renew => new.known,
         next = "registering" => new.known,
         UNCHANGED <<accMap, shown, pjacc, report>>
  PROVE  OneInv'
<1> USE DEF OneInv
<1>1. /\ cmd'[t] = [op |-> next, acct |-> a, pj |-> accounts[a].pj, renew |-> renew]
      /\ accounts'[a] = new
      /\ \A b \in Accounts \ {a} : accounts'[b] = accounts[b]
      /\ \A u \in Threads \ {t} : cmd[u].op = "idle" /\ cmd'[u] = cmd[u]
      /\ cmd[t].op \in {"idle", "take"}
  BY DEF IInv, TypeOK, Doing, Alone
<1>2. NamesOwner' /\ ReportIsReal' /\ ShownIsReal'
  BY <1>1 DEF NamesOwner, ReportIsReal, ShownIsReal, At
<1>3. Unmapping' /\ UnknownHasNone'
  BY <1>1 DEF Unmapping, UnknownHasNone, At
<1>4. Cleared'
  BY <1>1 DEF Cleared, Renewing, At
<1>5. Mapped'
  BY <1>1 DEF Mapped, OnTheWay
<1>6. Owned'
  <2> SUFFICES ASSUME NEW p \in PjIds, pjacc[p] # NoAccount
               PROVE  accounts'[pjacc[p]].pj = p \/ OnTheWay(Holding, p)'
    BY DEF Owned
  <2>1. accounts[pjacc[p]].pj = p /\ pjacc[p] \in Accounts
    BY <1>1 DEF Owned, OnTheWay, Holding, IInv, TypeOK
  <2>2. CASE pjacc[p] = a
    BY <1>1, <2>1, <2>2, RegistrationAssumption DEF OnTheWay, Holding
  <2> QED
    BY <1>1, <2>1, <2>2
<1> QED
  BY <1>2, <1>3, <1>4, <1>5, <1>6

LEMMA NewCommandKeepsOneInv ==
  ASSUME IInv, OneInv, NEW t \in Threads, Alone(t), NewCommand(t)
  PROVE  OneInv'
<1> PICK a \in Accounts : \/ AccountUpsert(t, a)
                          \/ AccountRegister(t, a)
                          \/ AccountUnregister(t, a)
                          \/ AccountDeleteProfile(t, a)
  BY DEF NewCommand
<1>0. accounts[a] \in Account /\ cmd[t] \in Command
  BY DEF IInv, TypeOK
<1>1. CASE AccountUpsert(t, a)
  <2> DEFINE new == [known |-> TRUE, pj |-> NoPj]
  <2>1. new \in Account /\ accounts[a].pj = NoPj
    BY <1>1 DEF Account, AccountUpsert, OneInv, UnknownHasNone
  <2> QED
    BY <1>1, <2>1, TakeKeepsOneInv DEF AccountUpsert, At
<1>2. CASE AccountRegister(t, a)
  <2>1. /\ cmd'[t].op = "take" /\ cmd'[t].acct = a
        /\ accounts[a].known
        /\ cmd[t].op = "idle"
        /\ \A u \in Threads \ {t} : cmd[u].op = "idle" /\ cmd'[u] = cmd[u]
        /\ UNCHANGED <<accounts, accMap, shown, pjacc, report>>
    BY <1>2 DEF AccountRegister, IInv, TypeOK, Doing, Alone, At
  <2> QED
    BY <2>1 DEF OneInv, NamesOwner, Unmapping, Cleared, Renewing, UnknownHasNone,
                Owned, Mapped, OnTheWay, Holding, ReportIsReal, ShownIsReal, At
<1>3. CASE AccountUnregister(t, a)
  <2> DEFINE new == [known |-> accounts[a].known, pj |-> NoPj]
             next == IF accounts[a].pj # NoPj THEN "remove" ELSE "unregistered"
  <2>1. new \in Account /\ [accounts[a] EXCEPT !.pj = NoPj] = new
    BY <1>0 DEF Account
  <2>2. /\ accounts' = [accounts EXCEPT ![a] = new]
        /\ cmd' = [cmd EXCEPT ![t] = Doing(next, a, accounts[a].pj, FALSE)]
    BY <1>3, <2>1 DEF AccountUnregister, TakePjAccount
  <2> QED
    BY <1>3, <2>1, <2>2, TakeKeepsOneInv DEF AccountUnregister, At
<1>4. CASE AccountDeleteProfile(t, a)
  <2> DEFINE next == IF accounts[a].pj # NoPj THEN "remove" ELSE "unregistered"
  <2>1. Unknown \in Account /\ Unknown.pj = NoPj
    BY DEF Account, Unknown
  <2> QED
    BY <1>4, <2>1, TakeKeepsOneInv DEF AccountDeleteProfile, At
<1> QED
  BY <1>1, <1>2, <1>3, <1>4

\* A step of one thread leaves the others where they are.
LEMMA OthersWait ==
  ASSUME IInv, NEW t \in Threads, NewCommand(t) \/ ThreadStep(t)
  PROVE  \A u \in Threads \ {t} : cmd'[u] = cmd[u]
  BY DEF IInv, TypeOK, NewCommand, ThreadStep, AccountUpsert, AccountRegister,
         AccountUnregister, AccountDeleteProfile, TakePjAccount, TakeForRegister,
         AccRemove, MapRemove, ShowUnregistered, ShowRegistering, ConfigRejected,
         AccAdd, AccAddFailed, StorePjId, MapInsert, Goto, Finish

\* The steps of a command after the take(): what each changes, pointwise.
LEMMA ThreadStepKeepsOneInv ==
  ASSUME IInv, OneInv, NEW t \in Threads, Alone(t), ThreadStep(t)
  PROVE  OneInv'
<1> DEFINE a == cmd[t].acct
           p == cmd[t].pj
<1>0. /\ cmd[t] \in Command
      /\ cmd[t].op # "idle" => a \in Accounts
      /\ cmd[t].op \in {"remove", "unmap", "store", "insert"} => p \in PjIds
      /\ \A u \in Threads \ {t} : cmd[u].op = "idle" /\ cmd'[u] = cmd[u]
  BY OthersWait DEF IInv, TypeOK, Wired, Alone
<1>1. CASE TakeForRegister(t)
  <2> DEFINE new == [known |-> accounts[a].known, pj |-> NoPj]
             next == IF accounts[a].pj # NoPj THEN "remove" ELSE "registering"
  <2>1. a \in Accounts /\ accounts[a].known
    BY <1>0, <1>1 DEF TakeForRegister, At, OneInv, Cleared, Renewing
  <2>2. new \in Account /\ [accounts[a] EXCEPT !.pj = NoPj] = new
    <3>1. accounts[a] \in Account
      BY <2>1 DEF IInv, TypeOK
    <3> QED
      BY <3>1 DEF Account
  <2>3. /\ accounts' = [accounts EXCEPT ![a] = new]
        /\ cmd' = [cmd EXCEPT ![t] = Doing(next, a, accounts[a].pj, TRUE)]
    BY <1>1, <2>2 DEF TakeForRegister, TakePjAccount
  <2> QED
    BY <1>1, <2>1, <2>2, <2>3, TakeKeepsOneInv DEF TakeForRegister, At
<1>2. CASE AccRemove(t)
  <2>1. /\ cmd[t].op = "remove" /\ p \in PjIds /\ a \in Accounts
        /\ cmd'[t].op = "unmap" /\ cmd'[t].pj = p /\ cmd'[t].acct = a
        /\ cmd'[t].renew = cmd[t].renew
        /\ pjacc[p] = a /\ pjacc'[p] = NoAccount
        /\ \A q \in PjIds \ {p} : pjacc'[q] = pjacc[q]
        /\ report = NoReport
        /\ UNCHANGED <<accounts, accMap, shown, report>>
    BY <1>0, <1>2 DEF AccRemove, At, Goto, IInv, TypeOK, Command, HeldAlone, Holding,
                      PjsuaFree
  <2>2. NamesOwner'
    BY <1>0, <2>1 DEF OneInv, NamesOwner, At
  <2>3. Unmapping' /\ Cleared' /\ UnknownHasNone' /\ ReportIsReal'
    BY <1>0, <2>1 DEF OneInv, Unmapping, Cleared, Renewing, UnknownHasNone,
                      ReportIsReal, At
  <2>4. Owned' /\ Mapped'
    BY <1>0, <2>1 DEF OneInv, Owned, Mapped, OnTheWay, Holding
  <2>5. ShownIsReal'
    BY <1>0, <2>1 DEF OneInv, ShownIsReal
  <2> QED
    BY <2>2, <2>3, <2>4, <2>5 DEF OneInv
<1>3. CASE MapRemove(t)
  <2>1. /\ cmd[t].op = "unmap" /\ p \in PjIds /\ a \in Accounts
        /\ cmd'[t].op = IF cmd[t].renew THEN "registering" ELSE "unregistered"
        /\ cmd'[t].pj = p /\ cmd'[t].acct = a
        /\ pjacc[p] = NoAccount /\ accMap'[p] = NoAccount
        /\ \A q \in PjIds \ {p} : accMap'[q] = accMap[q]
        /\ UNCHANGED <<accounts, pjacc, shown, report>>
    BY <1>0, <1>3 DEF MapRemove, At, Goto, IInv, TypeOK, Command, OneInv, Unmapping
  <2>2. NamesOwner'
    BY <1>0, <2>1 DEF OneInv, NamesOwner, At
  <2>3. Unmapping' /\ Cleared' /\ UnknownHasNone' /\ ReportIsReal'
    BY <1>0, <2>1 DEF OneInv, Unmapping, Cleared, Renewing, UnknownHasNone,
                      ReportIsReal, At
  <2>4. Owned' /\ Mapped'
    BY <1>0, <2>1 DEF OneInv, Owned, Mapped, OnTheWay, Holding
  <2>5. ShownIsReal'
    BY <1>0, <2>1 DEF OneInv, ShownIsReal
  <2> QED
    BY <2>2, <2>3, <2>4, <2>5 DEF OneInv
<1>4. CASE ShowUnregistered(t)
  <2>1. /\ cmd[t].op = "unregistered" /\ a \in Accounts
        /\ cmd'[t].op = "idle" /\ shown'[a] = "Unregistered"
        /\ \A b \in Accounts \ {a} : shown'[b] = shown[b]
        /\ UNCHANGED <<accounts, accMap, pjacc, report>>
    BY <1>0, <1>4 DEF ShowUnregistered, At, Finish, Idle, Doing, IInv, TypeOK
  <2> QED
    BY <1>0, <2>1 DEF OneInv, NamesOwner, Unmapping, Cleared, Renewing,
       UnknownHasNone, Owned, Mapped, OnTheWay, Holding, ReportIsReal, ShownIsReal, At
<1>5. CASE ShowRegistering(t)
  <2>1. /\ cmd[t].op = "registering" /\ a \in Accounts
        /\ cmd'[t].op = "add" /\ cmd'[t].acct = a /\ shown'[a] = "Registering"
        /\ \A b \in Accounts \ {a} : shown'[b] = shown[b]
        /\ UNCHANGED <<accounts, accMap, pjacc, report>>
    BY <1>0, <1>5 DEF ShowRegistering, At, Goto, Command, IInv, TypeOK
  <2> QED
    BY <1>0, <2>1 DEF OneInv, NamesOwner, Unmapping, Cleared, Renewing,
       UnknownHasNone, Owned, Mapped, OnTheWay, Holding, ReportIsReal, ShownIsReal, At
<1>6. CASE ConfigRejected(t) \/ AccAddFailed(t)
  <2>1. /\ cmd[t].op = "add"
        /\ cmd'[t].op \in {"idle", "failed"}
        /\ UNCHANGED <<accounts, accMap, shown, pjacc, report>>
    BY <1>0, <1>6 DEF ConfigRejected, AccAddFailed, At, Finish, Goto, Idle, Doing,
                      IInv, TypeOK, Command
  <2> QED
    BY <1>0, <2>1 DEF OneInv, NamesOwner, Unmapping, Cleared, Renewing,
       UnknownHasNone, Owned, Mapped, OnTheWay, Holding, ReportIsReal, ShownIsReal, At
<1>7. CASE AccAdd(t)
  <2> PICK q \in PjIds : /\ FirstFree(q)
                         /\ pjacc' = [pjacc EXCEPT ![q] = a]
                         /\ cmd' = [cmd EXCEPT ![t].op = "store", ![t].pj = q]
    BY <1>7 DEF AccAdd
  <2>1. /\ cmd[t].op = "add" /\ a \in Accounts
        /\ cmd'[t].op = "store" /\ cmd'[t].pj = q /\ cmd'[t].acct = a
        /\ pjacc[q] = NoAccount /\ pjacc'[q] = a
        /\ \A r \in PjIds \ {q} : pjacc'[r] = pjacc[r]
        /\ UNCHANGED <<accounts, accMap, shown, report>>
    BY <1>0, <1>7 DEF AccAdd, At, FirstFree, IInv, TypeOK, Command
  <2>2. NamesOwner'
    BY <1>0, <2>1 DEF OneInv, NamesOwner, At
  <2>3. Unmapping' /\ UnknownHasNone'
    BY <1>0, <2>1 DEF OneInv, Unmapping, UnknownHasNone, At
  <2>4. Cleared'
    <3>1. accounts[a].known /\ accounts[a].pj = NoPj
      BY <2>1 DEF OneInv, Cleared, Renewing
    <3> QED
      BY <1>0, <2>1, <3>1 DEF Cleared, Renewing, At
  <2>5. Owned' /\ Mapped'
    <3>1. \A r \in PjIds : pjacc[r] # NoAccount =>
            accounts[pjacc[r]].pj = r /\ accMap[r] = pjacc[r]
      BY <1>0, <2>1 DEF OneInv, Owned, Mapped, OnTheWay, Holding
    <3>2. \A r \in PjIds \ {q} : pjacc'[r] # NoAccount =>
            accounts'[pjacc'[r]].pj = r /\ accMap'[r] = pjacc'[r]
      BY <2>1, <3>1
    <3>3. OnTheWay(Holding, q)' /\ OnTheWay({"store", "insert"}, q)'
      BY <2>1 DEF OnTheWay, Holding
    <3> QED
      BY <3>2, <3>3 DEF Owned, Mapped
  <2>6. ShownIsReal'
    BY <1>0, <2>1, RegistrationAssumption DEF OneInv, ShownIsReal
  <2>7. ReportIsReal'
    BY <1>7, <2>1 DEF AccAdd, PjsuaFree, ReportIsReal
  <2> QED
    BY <2>2, <2>3, <2>4, <2>5, <2>6, <2>7 DEF OneInv
<1>8. CASE StorePjId(t)
  <2>1. /\ cmd[t].op = "store" /\ p \in PjIds /\ a \in Accounts
        /\ accounts[a].known /\ accounts[a].pj = NoPj
        /\ cmd'[t].op = "insert" /\ cmd'[t].pj = p /\ cmd'[t].acct = a
        /\ UNCHANGED <<accMap, shown, pjacc, report>>
    BY <1>0, <1>8 DEF StorePjId, At, Goto, Command, IInv, TypeOK, OneInv, Cleared, Renewing
  <2>2. accounts' = [accounts EXCEPT ![a].pj = p] /\ accounts[a] \in Account
    BY <1>8, <2>1 DEF StorePjId, IInv, TypeOK
  <2>3. /\ accounts'[a].pj = p /\ accounts'[a].known = accounts[a].known
        /\ \A b \in Accounts \ {a} : accounts'[b] = accounts[b]
    BY <2>1, <2>2 DEF IInv, TypeOK, Account
  <2>4. NamesOwner' /\ ShownIsReal' /\ ReportIsReal'
    BY <1>0, <2>1 DEF OneInv, NamesOwner, ShownIsReal, ReportIsReal, At
  <2>5. Unmapping' /\ Cleared' /\ UnknownHasNone'
    <3>1. Unmapping'
      BY <1>0, <2>1 DEF OneInv, Unmapping, At
    <3>2. Cleared'
      BY <1>0, <2>1, <2>3 DEF OneInv, Cleared, Renewing, At
    <3>3. UnknownHasNone'
      <4> SUFFICES ASSUME NEW b \in Accounts, ~accounts'[b].known
                   PROVE  accounts'[b].pj = NoPj
        BY DEF UnknownHasNone
      <4>1. b # a /\ accounts'[b] = accounts[b]
        BY <2>1, <2>3
      <4> QED
        BY <4>1 DEF OneInv, UnknownHasNone
    <3> QED
      BY <3>1, <3>2, <3>3
  <2>6. Mapped'
    BY <1>0, <2>1 DEF OneInv, Mapped, OnTheWay
  <2>7. Owned'
    <3> SUFFICES ASSUME NEW q \in PjIds, pjacc[q] # NoAccount
                 PROVE  accounts'[pjacc[q]].pj = q \/ OnTheWay(Holding, q)'
      BY <2>1 DEF Owned
    <3>1. pjacc[q] \in Accounts
      BY DEF IInv, TypeOK
    <3>2. accounts[pjacc[q]].pj = q \/ (p = q /\ a = pjacc[q])
      BY <1>0 DEF OneInv, Owned, OnTheWay, Holding
    <3> QED
      BY <2>1, <2>3, <3>1, <3>2, RegistrationAssumption
  <2> QED
    BY <2>4, <2>5, <2>6, <2>7 DEF OneInv
<1>9. CASE MapInsert(t)
  <2>1. /\ cmd[t].op = "insert" /\ p \in PjIds /\ a \in Accounts
        /\ accounts[a].pj = p /\ pjacc[p] = a
        /\ cmd'[t].op = "idle"
        /\ accMap'[p] = a
        /\ \A q \in PjIds \ {p} : accMap'[q] = accMap[q]
        /\ UNCHANGED <<accounts, shown, pjacc, report>>
    BY <1>0, <1>9, RegistrationAssumption
    DEF MapInsert, At, Finish, Idle, Doing, IInv, TypeOK, RefersToItsOwn, OneInv, Cleared
  <2>2. NamesOwner'
    BY <1>0, <2>1 DEF OneInv, NamesOwner, At
  <2>3. Unmapping' /\ Cleared' /\ UnknownHasNone' /\ ReportIsReal'
    BY <1>0, <2>1 DEF OneInv, Unmapping, Cleared, Renewing, UnknownHasNone,
                      ReportIsReal, At
  <2>4. Owned' /\ Mapped'
    BY <1>0, <2>1 DEF OneInv, Owned, Mapped, OnTheWay, Holding
  <2>5. ShownIsReal'
    BY <1>0, <2>1 DEF OneInv, ShownIsReal
  <2> QED
    BY <2>2, <2>3, <2>4, <2>5 DEF OneInv
<1> QED
  BY <1>1, <1>2, <1>3, <1>4, <1>5, <1>6, <1>7, <1>8, <1>9 DEF ThreadStep

LEMMA WorkerKeepsOneInv ==
  ASSUME IInv, OneInv, (\E p \in PjIds : RegistrationResult(p)) \/ ResultShown
  PROVE  OneInv'
<1>1. UNCHANGED <<accounts, accMap, pjacc, cmd>>
  BY DEF RegistrationResult, ResultShown
<1>2. /\ NamesOwner' /\ Unmapping' /\ Cleared' /\ UnknownHasNone'
      /\ Owned' /\ Mapped'
  BY <1>1 DEF OneInv, NamesOwner, Unmapping, Cleared, Renewing, UnknownHasNone,
              Owned, Mapped, OnTheWay, At
<1>3. ReportIsReal' /\ ShownIsReal'
  <2>1. ASSUME NEW p \in PjIds, RegistrationResult(p)
        PROVE  ReportIsReal' /\ ShownIsReal'
    <3>1. ShownIsReal'
      BY <1>1, <2>1 DEF RegistrationResult, OneInv, ShownIsReal
    <3>2. accMap[p] # NoAccount => pjacc[p] = accMap[p]
      BY <2>1 DEF RegistrationResult, OneInv, NamesOwner, Unmapping
    <3>3. accMap[p] # NoAccount => report'.acct = accMap[p]
      BY <2>1 DEF RegistrationResult
    <3>4. accMap[p] = NoAccount => UNCHANGED report
      BY <2>1 DEF RegistrationResult
    <3>5. ReportIsReal'
      BY <1>1, <3>2, <3>3, <3>4 DEF OneInv, ReportIsReal
    <3> QED
      BY <3>1, <3>5
  <2>2. CASE ResultShown
    <3>1. PICK p \in PjIds : pjacc[p] = report.acct
      BY <2>2 DEF ResultShown, OneInv, ReportIsReal
    <3>2. /\ report' = NoReport
          /\ \A a \in Accounts \ {report.acct} : shown'[a] = shown[a]
      BY <2>2 DEF ResultShown, IInv, TypeOK
    <3> QED
      BY <1>1, <3>1, <3>2 DEF OneInv, ReportIsReal, ShownIsReal
  <2> QED
    BY <2>1, <2>2
<1> QED
  BY <1>2, <1>3 DEF OneInv

\* What holds as long as no two commands have overlapped.
ApartInv == ~overlapped => OneAtWork /\ OneInv

\* A thread that begins a command without overlap finds the others idle, and
\* one inside a command is the only one.
LEMMA ApartInvIsInductive == IInv /\ ApartInv /\ [Next]_vars => ApartInv'
<1> SUFFICES ASSUME IInv, ApartInv, [Next]_vars, ~overlapped'
             PROVE  OneAtWork' /\ OneInv'
  BY DEF ApartInv
<1>1. CASE UNCHANGED vars
  BY <1>1 DEF vars, ApartInv, OneAtWork, OneInv, NamesOwner, Unmapping, Cleared,
     Renewing, UnknownHasNone, Owned, Mapped, OnTheWay, ReportIsReal, ShownIsReal, At
<1>2. ASSUME NEW t \in Threads, NewCommand(t) \/ ThreadStep(t)
      PROVE  OneAtWork' /\ OneInv'
  <2>1. ~overlapped
    BY <1>2 DEF NewCommand, ThreadStep
  <2>2. Alone(t)
    <3>1. CASE NewCommand(t)
      BY <3>1 DEF NewCommand, Alone, At
    <3>2. CASE ThreadStep(t)
      <4>1. cmd[t].op # "idle"
        BY <3>2 DEF ThreadStep, TakeForRegister, AccRemove, MapRemove,
           ShowUnregistered, ShowRegistering, ConfigRejected, AccAdd, AccAddFailed,
           StorePjId, MapInsert, At
      <4> QED
        BY <2>1, <4>1 DEF ApartInv, OneAtWork, Alone, At
    <3> QED
      BY <1>2, <3>1, <3>2
  <2>3. OneAtWork'
    BY <1>2, <2>2, OthersWait DEF OneAtWork, Alone, At
  <2>4. OneInv'
    BY <1>2, <2>1, <2>2, NewCommandKeepsOneInv, ThreadStepKeepsOneInv DEF ApartInv
  <2> QED
    BY <2>3, <2>4
<1>3. CASE (\E p \in PjIds : RegistrationResult(p)) \/ ResultShown
  <2>1. ~overlapped /\ UNCHANGED cmd
    BY <1>3 DEF RegistrationResult, ResultShown
  <2>2. OneAtWork'
    BY <2>1 DEF ApartInv, OneAtWork, At
  <2> QED
    BY <1>3, <2>1, <2>2, WorkerKeepsOneInv DEF ApartInv
<1> QED
  BY <1>1, <1>2, <1>3 DEF Next

\* As long as commands come one after another, each pjsua account is followed
\* from pd_acc_add to pd_acc_remove.
THEOREM ApartInductive == Spec => []ApartInv
<1>1. Init => ApartInv
  BY InitOneInv DEF ApartInv, OneAtWork, Init, Idle, Doing, At
<1> QED
  BY <1>1, Inductive, ApartInvIsInductive, PTL DEF Spec

\* As long as commands come one after another PJSIP_ACC_MAP never names another
\* account than the one its pjsua account was added for.
THEOREM MapCorrect == Spec => []MapNamesOwner
<1>1. ApartInv => MapNamesOwner
  BY DEF ApartInv, OneInv, NamesOwner, MapNamesOwner
<1> QED
  BY <1>1, ApartInductive, PTL

\* As long as commands come one after another no account ever has two pjsua
\* accounts, however often it is registered again, deleted and added anew.
THEOREM OneAtATime == Spec => []OnePjAccount
<1>1. IInv /\ ApartInv => OnePjAccount
  <2> SUFFICES ASSUME IInv, OneAtWork, OneInv, NEW p \in PjIds, NEW q \in PjIds,
                      pjacc[p] # NoAccount, pjacc[p] = pjacc[q]
               PROVE  p = q
    BY DEF OnePjAccount, ApartInv
  <2>1. CASE \E t \in Threads : cmd[t].op \in Holding /\ cmd[t].acct = pjacc[p]
    <3>1. accounts[pjacc[p]].pj = NoPj
      BY <2>1 DEF OneInv, Cleared, Holding
    <3>2. OnTheWay(Holding, p) /\ OnTheWay(Holding, q)
      BY <3>1, RegistrationAssumption DEF OneInv, Owned
    <3> QED
      BY <3>2 DEF OnTheWay, Holding, OneAtWork, At
  <2>2. CASE ~\E t \in Threads : cmd[t].op \in Holding /\ cmd[t].acct = pjacc[p]
    BY <2>2 DEF OneInv, Owned, OnTheWay
  <2> QED
    BY <2>1, <2>2
<1> QED
  BY <1>1, Inductive, ApartInductive, PTL

\* As long as commands come one after another an account that is shown as
\* registered has a pjsua account, or the command that ends the registration
\* is about to show so.
THEOREM ShownRegistrationIsReal == Spec => []RegisteredIsReal
<1>1. ApartInv => RegisteredIsReal
  BY DEF ApartInv, OneInv, ShownIsReal, RegisteredIsReal
<1> QED
  BY <1>1, ApartInductive, PTL

\* As long as commands come one after another the only results that
\* pjsip_on_reg_state drops are those that come before the new pjsua account is
\* in PJSIP_ACC_MAP.
THEOREM OnlyTheWindowDrops == Spec => OnlyTheWindowMisses
<1> DEFINE Missing ==
      ~overlapped =>
        \A a \in missed' \ missed :
          \E t \in Threads : cmd[t].acct = a /\ cmd[t].op \in {"store", "insert"}
<1>1. ApartInv /\ [Next]_vars => [Missing]_vars
  <2> SUFFICES ASSUME ApartInv, Next, ~overlapped, NEW a \in missed' \ missed
               PROVE  \E t \in Threads :
                        cmd[t].acct = a /\ cmd[t].op \in {"store", "insert"}
    BY DEF Missing
  <2>1. PICK p \in PjIds : RegistrationResult(p)
    BY DEF Next, NewCommand, ThreadStep, AccountUpsert, AccountRegister,
           AccountUnregister, AccountDeleteProfile, TakeForRegister, AccRemove,
           MapRemove, ShowUnregistered, ShowRegistering, ConfigRejected, AccAdd,
           AccAddFailed, StorePjId, MapInsert, ResultShown
  <2>2. accMap[p] = NoAccount /\ pjacc[p] = a /\ pjacc[p] # NoAccount
    BY <2>1 DEF RegistrationResult
  <2> QED
    BY <2>2 DEF ApartInv, OneInv, Mapped, OnTheWay
<1> QED
  BY <1>1, ApartInductive, PTL DEF Spec, OnlyTheWindowMisses

-----------------------------------------------------------------------------
(* The settings kept by slot.                                                *)

SettingsTypeOK ==
  /\ setting \in [PjIds -> Value]
  /\ pending \in [Setters -> [value : Value, slots : SUBSET PjIds]]
  /\ held \in [PjIds -> SUBSET Accounts]

\* The account on a slot is one of those that have had it.
HolderIsHeld ==
  \A p \in PjIds : pjacc[p] # NoAccount => pjacc[p] \in held[p]

\* The slots of a write have been given away, and those of a write for one
\* account to that account, whoever has them now.
WritesAreHeld ==
  \A s \in Setters : \A p \in pending[s].slots :
    /\ pending[s].value # NoAccount
    /\ held[p] # {}
    /\ pending[s].value \in held[p] \cup {Global}

SInv ==
  /\ SettingsTypeOK
  /\ HolderIsHeld
  /\ WritesAreHeld
  /\ SettingsComeFromHolders

-----------------------------------------------------------------------------
\* The accounts do what they do without settings.
THEOREM RunsRegistration == SettingsSpec => Spec
<1>1. SettingsInit => Init
  BY DEF SettingsInit
<1>2. [SettingsNext]_settingsVars => [Next]_vars
  BY DEF SettingsNext, settingsVars, vars, AccountSet, SetGlobalDtmf, Store
<1> QED
  BY <1>1, <1>2, PTL DEF SettingsSpec, Spec

LEMMA InitSInv == SettingsInit => SInv
  BY DEF SettingsInit, Init, SInv, SettingsTypeOK, HolderIsHeld, WritesAreHeld,
         SettingsComeFromHolders, Value, NoWrite

\* A step of the accounts changes who has a slot, and Remember enters it.
LEMMA AccountsKeepSInv ==
  ASSUME SInv, TypeOK', Remember, UNCHANGED <<setting, pending>>
  PROVE  SInv'
<1> USE DEF SInv
<1>1. held' \in [PjIds -> SUBSET Accounts]
  BY DEF Remember, SettingsTypeOK, TypeOK
<1>2. \A p \in PjIds : held[p] \subseteq held'[p]
  BY DEF Remember
<1>3. SettingsTypeOK'
  BY <1>1 DEF SettingsTypeOK
<1>4. HolderIsHeld'
  BY DEF HolderIsHeld, Remember
<1>5. WritesAreHeld'
  BY <1>2 DEF WritesAreHeld, SettingsTypeOK
<1>6. SettingsComeFromHolders'
  BY <1>2 DEF SettingsComeFromHolders
<1> QED
  BY <1>3, <1>4, <1>5, <1>6

\* What a setter is about to write is for the holders of the slots.
LEMMA NewWriteKeepsSInv ==
  ASSUME SInv, NEW s \in Setters, NEW v \in Value, NEW slots \in SUBSET PjIds,
         v # NoAccount,
         \A p \in slots : held[p] # {} /\ v \in held[p] \cup {Global},
         pending' = [pending EXCEPT ![s] = Write(v, slots)],
         UNCHANGED <<vars, setting, held>>
  PROVE  SInv'
<1> USE DEF SInv, Write
<1>1. SettingsTypeOK' /\ HolderIsHeld' /\ SettingsComeFromHolders'
  BY DEF SettingsTypeOK, HolderIsHeld, SettingsComeFromHolders, vars
<1>2. \A r \in Setters :
        pending'[r] = IF r = s THEN [value |-> v, slots |-> slots]
                      ELSE pending[r]
  BY DEF SettingsTypeOK
<1>3. WritesAreHeld'
  BY <1>2 DEF WritesAreHeld
<1> QED
  BY <1>1, <1>3

LEMMA SettersKeepSInv ==
  ASSUME SInv, IInv, NEW s \in Setters,
         \/ \E a \in Accounts : AccountSet(s, a)
         \/ SetGlobalDtmf(s)
         \/ \E p \in PjIds : Store(s, p)
  PROVE  SInv'
<1>1. ASSUME NEW a \in Accounts, AccountSet(s, a)
      PROVE  SInv'
  <2> DEFINE p == accounts[a].pj
  <2>1. p \in PjIds /\ SlotOf(a) = {p}
    BY <1>1 DEF AccountSet, SlotOf, IInv, TypeOK, Account
  <2>2. a \in held[p]
    BY <2>1, RegistrationAssumption
    DEF SInv, HolderIsHeld, IInv, RefersToItsOwn
  <2>3. a \in Value /\ a # NoAccount
    BY RegistrationAssumption DEF Value
  <2>4. /\ SlotOf(a) \in SUBSET PjIds
        /\ \A q \in SlotOf(a) : held[q] # {} /\ a \in held[q] \cup {Global}
    BY <2>1, <2>2
  <2>5. /\ pending' = [pending EXCEPT ![s] = Write(a, SlotOf(a))]
        /\ UNCHANGED <<vars, setting, held>>
    BY <1>1 DEF AccountSet
  <2> QED
    BY <2>3, <2>4, <2>5, NewWriteKeepsSInv
<1>2. CASE SetGlobalDtmf(s)
  <2> DEFINE used == {p \in PjIds : pjacc[p] # NoAccount}
  <2>1. \A p \in used : held[p] # {} /\ Global \in held[p] \cup {Global}
    BY DEF SInv, HolderIsHeld
  <2>2. Global \in Value /\ Global # NoAccount
    BY SettingsAssumption DEF Value
  <2> QED
    BY <1>2, <2>1, <2>2, NewWriteKeepsSInv DEF SetGlobalDtmf
<1>3. ASSUME NEW p \in PjIds, Store(s, p)
      PROVE  SInv'
  <2> USE DEF SInv
  <2>1. /\ setting' = [setting EXCEPT ![p] = pending[s].value]
        /\ UNCHANGED <<pjacc, held>>
        /\ pending[s].value # NoAccount /\ held[p] # {}
        /\ pending[s].value \in held[p] \cup {Global}
    BY <1>3 DEF Store, vars, WritesAreHeld
  <2>2. PICK new \in {NoWrite,
                      Write(pending[s].value, pending[s].slots \ {p})} :
          pending' = [pending EXCEPT ![s] = new]
    BY <1>3 DEF Store
  <2>3. new.value \in Value /\ new.slots \subseteq pending[s].slots
        /\ (new.slots # {} => new.value = pending[s].value)
        /\ new \in [value : Value, slots : SUBSET PjIds]
    BY <2>2 DEF NoWrite, Write, SettingsTypeOK, Value
  <2>4. SettingsTypeOK' /\ HolderIsHeld'
    BY <2>1, <2>2, <2>3 DEF SettingsTypeOK, HolderIsHeld
  <2>5. WritesAreHeld'
    BY <2>1, <2>2, <2>3 DEF WritesAreHeld, SettingsTypeOK
  <2>6. SettingsComeFromHolders'
    BY <2>1 DEF SettingsComeFromHolders, SettingsTypeOK
  <2> QED
    BY <2>4, <2>5, <2>6
<1> QED
  BY <1>1, <1>2, <1>3

-----------------------------------------------------------------------------
\* However many threads register and set at once, what a slot's setting holds
\* was set for an account that has had the slot, or for all of those in use.
THEOREM SettingsCorrect == SettingsSpec => []SettingsComeFromHolders
<1>1. IInv /\ IInv' /\ SInv /\ [SettingsNext]_settingsVars => SInv'
  <2> SUFFICES ASSUME IInv, IInv', SInv, [SettingsNext]_settingsVars
               PROVE  SInv'
    OBVIOUS
  <2>1. CASE Remember /\ UNCHANGED <<setting, pending>>
    BY <2>1, AccountsKeepSInv DEF IInv
  <2>2. CASE UNCHANGED settingsVars
    BY <2>2 DEF settingsVars, SInv, SettingsTypeOK, HolderIsHeld, WritesAreHeld,
                SettingsComeFromHolders
  <2>3. ASSUME NEW s \in Setters,
               \/ \E a \in Accounts : AccountSet(s, a)
               \/ SetGlobalDtmf(s)
               \/ \E p \in PjIds : Store(s, p)
        PROVE  SInv'
    BY <2>3, SettersKeepSInv
  <2> QED
    BY <2>1, <2>2, <2>3 DEF SettingsNext
<1>2. SettingsSpec => []IInv
  BY RunsRegistration, Inductive, PTL
<1>3. SInv => SettingsComeFromHolders
  BY DEF SInv
<1> QED
  BY <1>1, <1>2, <1>3, InitSInv, PTL DEF SettingsSpec
=============================================================================
