--------------------------- MODULE AccountSettings ---------------------------
(***************************************************************************)
(* The settings the shim keeps by pjsua account slot (core_rust/src/shim/  *)
(* pjsip_shim.c: g_acc_forward, g_acc_config with the lookup URL,          *)
(* g_acc_auto_answer, g_acc_dtmf_method), composed with the accounts of    *)
(* Registration, whose slots pjsua gives to one account after another.     *)
(*                                                                         *)
(*   setting  what the arrays hold at each slot                            *)
(*   pending  the write each setter is about to make, and where            *)
(*   held     history: the accounts that have had each slot                *)
(*                                                                         *)
(* The arrays behave alike, so one stands for all; a value is identified   *)
(* with the account it was set for, or with the global DTMF method, which  *)
(* pd_set_global_dtmf_method copies to every slot in use.  Nothing clears  *)
(* them.                                                                   *)
(***************************************************************************)
EXTENDS Registration

CONSTANTS
  Setters,   \* the threads that change settings while Threads register
  Global     \* the value of the global DTMF method

ASSUME SettingsAssumption ==
  /\ Setters \cap Threads = {}
  /\ Global \notin Accounts \cup {NoAccount}

VARIABLES setting, pending, held

settingsVars == <<accounts, accMap, shown, pjacc, cmd, report, stuck, missed,
                  overlapped, setting, pending, held>>

Value == Accounts \cup {NoAccount, Global}

NoWrite == [value |-> NoAccount, slots |-> {}]
Write(v, slots) == [value |-> v, slots |-> slots]

-----------------------------------------------------------------------------
Bug_FirstSlot(a) == {IF accounts[a].pj = NoPj THEN 0 ELSE accounts[a].pj}

\* The slot of an account, read under ACCOUNTS.
SlotOf(a) == {accounts[a].pj} \ {NoPj}

\* cmd_account_set_forwarding, _lookup_url, _auto_answer and _dtmf_method leave
\* ACCOUNTS before they call the shim.  An account without a slot is answered
\* with Ok and its "Updated" event all the same: nothing is stored for it.
AccountSet(s, a) ==
  /\ pending[s] = NoWrite /\ AccountsFree
  /\ SlotOf(a) # {}
  /\ pending' = [pending EXCEPT ![s] = Write(a, SlotOf(a))]
  /\ UNCHANGED <<vars, setting, held>>

\* pd_set_global_dtmf_method: pjsua_enum_accs, then one write after another.
SetGlobalDtmf(s) ==
  LET used == {p \in PjIds : pjacc[p] # NoAccount} IN
  /\ pending[s] = NoWrite /\ PjsuaFree
  /\ used # {}
  /\ pending' = [pending EXCEPT ![s] = Write(Global, used)]
  /\ UNCHANGED <<vars, setting, held>>

\* The write to slot p of an array no lock guards.
Store(s, p) ==
  /\ p \in pending[s].slots
  /\ setting' = [setting EXCEPT ![p] = pending[s].value]
  /\ LET rest == pending[s].slots \ {p} IN
     pending' = [pending EXCEPT
       ![s] = IF rest = {} THEN NoWrite ELSE Write(pending[s].value, rest)]
  /\ UNCHANGED <<vars, held>>

\* The slots that pd_acc_add has given away.
Remember ==
  held' = [p \in PjIds |-> held[p] \cup ({pjacc'[p]} \ {NoAccount})]

-----------------------------------------------------------------------------
SettingsInit ==
  /\ Init
  /\ setting = [p \in PjIds |-> NoAccount]
  /\ pending = [s \in Setters |-> NoWrite]
  /\ held = [p \in PjIds |-> {}]

SettingsNext ==
  \/ Next /\ Remember /\ UNCHANGED <<setting, pending>>
  \/ \E s \in Setters :
       \/ \E a \in Accounts : AccountSet(s, a)
       \/ SetGlobalDtmf(s)
       \/ \E p \in PjIds : Store(s, p)

SettingsSpec == SettingsInit /\ [][SettingsNext]_settingsVars

-----------------------------------------------------------------------------
(* Properties *)

\* "Per-account storage" (pjsip_shim.c:64) is storage by slot: an account
\* finds there what the accounts before it on the slot have left, and a write
\* may come when the slot has changed hands.  But it is never further off than
\* that: what a slot holds was set for an account that has had the slot, or for
\* all, since it has been given away, however late a write comes and
\* wherever its account is registered by then.
SettingsComeFromHolders ==
  \A p \in PjIds :
    setting[p] # NoAccount =>
      /\ held[p] # {}
      /\ setting[p] \in held[p] \cup {Global}

=============================================================================
