---------------------------- MODULE AccountSetup ----------------------------
(***************************************************************************)
(* The saved accounts of the Flutter application (account_service.dart),   *)
(* the switches and the form that change them (accounts_screen.dart,       *)
(* account_setup_provider.dart) and the trial registration both run before *)
(* they register an account, against the accounts of the engine, its       *)
(* registration results and the file accounts.json.                        *)
(*                                                                         *)
(*   accounts, selected, enabled   _accounts, isSelected and isEnabled     *)
(*   file      accounts.json                                               *)
(*   saves     the calls of _saveAccounts under way                        *)
(*   engine    the engine's accounts, trials included: unknown, known,     *)
(*             added to pjsua, answered (Registration has the details)     *)
(*   events    RegistrationStateChanged events on their way to Dart        *)
(*   shown     EngineChannel.accounts                                      *)
(*   cards     the account of each card of the Accounts tab, if it is open *)
(*   flow      the switches being toggled and the form being saved         *)
(*   busy      accountRegisteringProvider                                  *)
(*   unused, nextTrial   the ids that Uuid().v4 has not given yet          *)
(*   edits     counts what the user does                                   *)
(*   existing  the account object that a form was opened with: the one in  *)
(*             the list, or one that has left it and still says that it is *)
(*             (or is not) selected                                        *)
(*   stuck     Dart's thread waits for ever in an AccountRegister          *)
(*   torn, granted, raced, reverted   history: the last write of the file  *)
(*             met another; the trials a server has registered; the        *)
(*             accounts deleted under a flow that goes on with them; a     *)
(*             form has brought back what a former object said             *)
(*                                                                         *)
(* Dart runs one piece of code between two awaits without interruption:    *)
(* that is an action.  A card is a State without a key, so it belongs to a *)
(* position of the list: when the list is built again after a deletion the *)
(* cards behind it go on with the account that has moved there and the     *)
(* last one is unmounted.                                                  *)
(*                                                                         *)
(* A definition named Bug_... is never used by the specification: it is a  *)
(* mistaken form of the definition after it, kept to show that a property  *)
(* fails when the code has that mistake.                                   *)
(***************************************************************************)
EXTENDS Naturals, Sequences, FiniteSets, Functions

CONSTANTS
  Accounts,    \* the uuids of saved accounts
  Edits,       \* what the user does: toggle, submit, delete, select
  MaxEdits,    \* bound on what the user toggles, submits, deletes, selects
               \* (and one more selection, see Edit)
  MaxTrials,   \* bound on the trial registrations of a behaviour
  MaxFlows,    \* bound on the toggles and the form under way
  MaxSaves,    \* bound on the calls of _saveAccounts under way
  MaxQueue,    \* bound on the events waiting when a result arrives
  NoAccount

Trials == 1 .. MaxTrials
Flows == 1 .. MaxFlows
Slots == 1 .. MaxSaves
NoTrial == 0
NoFlow == 0
NoCard == 0

ASSUME SetupAssumption ==
  /\ IsFiniteSet(Accounts)
  /\ {MaxEdits, MaxTrials, MaxFlows, MaxSaves, MaxQueue} \subseteq Nat
  /\ NoAccount \notin Accounts
  /\ Accounts \cap Trials = {}

VARIABLES accounts, selected, enabled, existing, reverted, file, saves, torn,
          engine, events, stuck, granted, shown, cards, flow, busy, unused,
          nextTrial, raced, edits

choice == <<selected, existing, reverted>>
list == <<accounts, choice, enabled>>
disk == <<file, saves, torn>>
sip == <<engine, events, stuck>>
screen == <<cards, flow, busy>>
ids == <<unused, nextTrial>>
vars == <<list, disk, sip, granted, shown, screen, ids, raced, edits>>

-----------------------------------------------------------------------------
(* Values *)

Ids == Accounts \cup Trials
RegistrationState == {"Unregistered", "Registering", "Registered", "Failed"}
Event(id, state) == [id |-> id, state |-> state]
InPjsua(id) == engine[id] \in {"added", "answered"}
Listed(a) == a \in Range(accounts)

\* What toJson writes, and what a file in the middle of a write holds.
Data == [accounts |-> accounts, selected |-> selected,
         enabled |-> enabled \cap Range(accounts)]
Truncated == [accounts |-> <<>>, selected |-> {NoAccount}, enabled |-> {}]
Garbage == [accounts |-> <<>>, selected |-> {NoAccount}, enabled |-> {NoAccount}]

\* A call of _saveAccounts for flow "by": "asked" waits for the path of the
\* file, "write" is writeAsString; alone: it has met no other.
NoSave == [at |-> "none", by |-> NoFlow, alone |-> TRUE, data |-> Truncated]

\* A switch belongs to a card, the form to none; acct is widget.account or
\* the account of the form (NoAccount: a new one), began the account the
\* flow was started for, on the value the switch was given.
Idle == [at |-> "idle", kind |-> "switch", card |-> NoCard, mounted |-> FALSE,
         acct |-> NoAccount, began |-> NoAccount, on |-> FALSE,
         trial |-> NoTrial, verdict |-> "none"]
At(f, step) == flow[f].at = step
Switch(f) == flow[f].kind = "switch"
Free(f) == At(f, "idle") /\ \A g \in 1 .. f - 1 : ~At(g, "idle")
Goto(f, step) == flow' = [flow EXCEPT ![f].at = step]

\* Dart's thread is free for the next step of flow f.
Ready(f, step) == ~stuck /\ At(f, step)

\* A form's trial has succeeded and its account is listed, but as another
\* object than the one that the form was opened with.
FormBehind ==
  \E f \in Flows :
    existing[f] # "listed" /\ flow[f].verdict = "success" /\ Listed(flow[f].acct)

\* What the user does; the bound leaves one more selection before such a form.
Edit(what) ==
  /\ ~stuck /\ what \in Edits
  /\ edits < MaxEdits \/ (edits = MaxEdits /\ what = "select" /\ FormBehind)
  /\ edits' = edits + 1

\* The page of the form and a dialog cover the tab.
UserFree ==
  \A f \in Flows : ~At(f, "dialog") /\ ~(~At(f, "idle") /\ ~Switch(f) /\ flow[f].mounted)

-----------------------------------------------------------------------------
(* accounts.json *)

\* A change of the list ends in _saveAccounts, for which flow f waits.
BeginSave(f) ==
  \E w \in Slots :
    /\ saves[w].at = "none"
    /\ \A v \in 1 .. w - 1 : saves[v].at # "none"
    /\ saves' = [saves EXCEPT ![w] = [NoSave EXCEPT !.at = "asked", !.by = f]]
    /\ UNCHANGED <<file, torn>>

\* The list is encoded once the path is known; the file is then opened,
\* which empties it, and written on threads of their own, beside any other.
Encode(w) ==
  LET others == {v \in Slots : saves[v].at = "write"} IN
  /\ ~stuck /\ saves[w].at = "asked"
  /\ saves' = [v \in Slots |->
       IF v = w THEN [saves[v] EXCEPT !.at = "write", !.data = Data, !.alone = others = {}]
       ELSE [saves[v] EXCEPT !.alone = @ /\ v \notin others]]
  /\ file' = Truncated
  /\ UNCHANGED <<list, torn, sip, granted, shown, screen, ids, raced, edits>>

\* Over what another has written in the meantime the longer tail remains.
\* The caller goes on: a flow with its next step, the others are done.
Write(w) ==
  LET f == saves[w].by IN
  /\ ~stuck /\ saves[w].at = "write"
  /\ file' \in {saves[w].data} \cup (IF file = Truncated THEN {} ELSE {Garbage})
  /\ torn' = ~saves[w].alone
  /\ saves' = [saves EXCEPT ![w] = NoSave]
  /\ IF f = NoFlow THEN UNCHANGED flow
     ELSE Goto(f, IF At(f, "saving") THEN "saved" ELSE "selected")
  /\ UNCHANGED <<list, sip, granted, shown, cards, busy, ids, raced, edits>>

-----------------------------------------------------------------------------
(* The engine's commands and results *)

\* AccountUpsert and AccountRegister; ok: pjsua takes the account.  If it
\* does not, the command locks ACCOUNTS, locks it again to report that, and
\* never returns: Dart's thread stops, and so does the engine, which needs
\* ACCOUNTS for every result.
Register(id, ok) ==
  /\ engine' = [engine EXCEPT ![id] = IF ok THEN "added" ELSE "known"]
  /\ stuck' = ~ok
  /\ events' = events
       \o (IF engine[id] = "unknown" THEN <<Event(id, "Unregistered")>> ELSE <<>>)
       \o <<Event(id, "Registering")>>

\* AccountUnregister, AccountDeleteProfile: one that is not there is an error
\* that changes nothing.
Leaves(id, level) ==
  IF engine[id] = "unknown" THEN UNCHANGED sip
  ELSE /\ engine' = [engine EXCEPT ![id] = level]
       /\ events' = Append(events, Event(id, "Unregistered"))
       /\ UNCHANGED stuck

\* The server answers a registration of pjsua, once: what a refresh reports
\* later is left out, and so is a success that grants nothing (to a trial it
\* is no answer).
RegistrationResult(id) ==
  /\ ~stuck /\ engine[id] = "added"
  /\ Len(events) < MaxQueue
  /\ engine' = [engine EXCEPT ![id] = "answered"]
  /\ \E state \in {"Registered", "Failed"} :
       /\ events' = Append(events, Event(id, state))
       /\ granted' = IF state = "Registered" THEN granted \cup ({id} \cap Trials) ELSE granted
  /\ UNCHANGED <<list, disk, stuck, shown, screen, ids, raced, edits>>

-----------------------------------------------------------------------------
(* Events *)

Bug_AnyTrial(f, e) == At(f, "trial")
IsFor(f, e) == At(f, "trial") /\ flow[f].trial = e.id

\* A result for the trial's own id completes it, the first one only.
Verdict(f, e) ==
  IF ~IsFor(f, e) \/ flow[f].verdict # "none" THEN flow[f].verdict
  ELSE IF e.state = "Registered" THEN "success"
  ELSE IF e.state = "Failed" THEN "failure" ELSE "none"

Judged(e) == [f \in Flows |-> [flow[f] EXCEPT !.verdict = Verdict(f, e)]]

\* Leaving the tab unmounts its cards; what they run goes on.
Unmounted(fs) ==
  [f \in Flows |-> IF Switch(f) /\ fs[f].mounted
                   THEN [fs[f] EXCEPT !.card = NoCard, !.mounted = FALSE] ELSE fs[f]]

\* The result is shown, also of an account that is not listed.  The first
\* failure of one that is listed changes to another tab.
HandleEvent ==
  LET e == Head(events) IN
  /\ ~stuck /\ events # <<>>
  /\ events' = Tail(events)
  /\ shown' = [shown EXCEPT ![e.id] = e.state]
  /\ \/ flow' = Judged(e) /\ UNCHANGED cards
     \/ /\ e.state = "Failed" /\ Listed(e.id) /\ cards # <<>>
        /\ flow' = Unmounted(Judged(e))
        /\ cards' = <<>>
  /\ UNCHANGED <<list, disk, engine, stuck, granted, busy, ids, raced, edits>>

-----------------------------------------------------------------------------
(* tryRegister *)

Bug_ForgetsId(f, started, ok) ==
  /\ nextTrial \in Trials
  /\ Register(nextTrial, ok)
  /\ flow' = [flow EXCEPT ![f] = [started EXCEPT !.at = "trial"]]
  /\ nextTrial' = nextTrial + 1

\* Flow f starts a trial.
StartTrial(f, started, ok) ==
  /\ nextTrial \in Trials
  /\ Register(nextTrial, ok)
  /\ flow' = [flow EXCEPT ![f] = [started EXCEPT !.at = "trial", !.trial = nextTrial,
                                    !.verdict = "none"]]
  /\ nextTrial' = nextTrial + 1

Bug_NoTimer(f) == FALSE

TrialTimeout(f) ==
  /\ Ready(f, "trial") /\ flow[f].verdict = "none"
  /\ flow' = [flow EXCEPT ![f].verdict = "failure"]
  /\ UNCHANGED <<list, disk, sip, granted, shown, cards, busy, ids, raced, edits>>

Bug_LeavesTrial(f) == UNCHANGED sip
Purge(f) == Leaves(flow[f].trial, "unknown")

\* The trial is purged and the account registered in one go.
PurgeAndRegister(f, id, ok) ==
  LET t == flow[f].trial IN
  /\ stuck' = ~ok
  /\ engine' = [engine EXCEPT ![t] = "unknown", ![id] = IF ok THEN "added" ELSE "known"]
  /\ events' = events \o <<Event(t, "Unregistered")>>
       \o (IF engine[id] = "unknown" THEN <<Event(id, "Unregistered")>> ELSE <<>>)
       \o <<Event(id, "Registering")>>

-----------------------------------------------------------------------------
(* The selected account *)

\* setSelectedAccount sets the flag of every listed account.
SelectOnly(a) ==
  /\ selected' = {a} \cap Range(accounts)
  /\ reverted' = (reverted /\ ~Listed(a))
  /\ UNCHANGED existing

\* The object of account a leaves the list: the flag that it has then is what
\* the forms opened with it go on with.
Former(a) ==
  [f \in Flows |->
     IF At(f, "trial") /\ ~Switch(f) /\ flow[f].acct = a /\ existing[f] = "listed"
     THEN IF a \in selected THEN "selected" ELSE "unselected"
     ELSE existing[f]]

\* saveAccount: the object of the form takes the place of the listed one,
\* with the flag of the object that the form was opened with, or is added,
\* selected if it is the first.
SelectedByForm(f, a) ==
  /\ selected' = IF ~Listed(a) THEN IF accounts = <<>> THEN {a} ELSE selected
                 ELSE IF existing[f] = "listed" THEN selected
                 ELSE IF existing[f] = "selected" THEN selected \cup {a} ELSE selected \ {a}
  /\ existing' = [Former(a) EXCEPT ![f] = "listed"]
  /\ reverted' = (reverted \/ (Listed(a) /\ selected' # selected))

-----------------------------------------------------------------------------
(* The switch of a card *)

\* The busy mark is taken back only while the card is mounted, from the
\* account that the card has by then.
Finish(f) ==
  /\ flow' = [flow EXCEPT ![f] = Idle]
  /\ busy' = IF flow[f].mounted THEN busy \ {flow[f].acct} ELSE busy

\* The new value is stored and saved before anything is sent.
Toggle(f, k) ==
  LET a == cards[k]
      started == [Idle EXCEPT !.at = "saving", !.card = k, !.mounted = TRUE,
                              !.acct = a, !.began = a, !.on = a \notin enabled] IN
  /\ Free(f) /\ Edit("toggle") /\ UserFree
  /\ a \notin busy /\ shown[a] # "Registering"
  /\ busy' = busy \cup {a}
  /\ IF Listed(a)
     THEN /\ enabled' = (enabled \ {a}) \cup (IF started.on THEN {a} ELSE {})
          /\ BeginSave(f)
          /\ flow' = [flow EXCEPT ![f] = started]
          /\ UNCHANGED raced
     ELSE /\ flow' = [flow EXCEPT ![f] = [started EXCEPT !.at = "saved"]]
          /\ raced' = IF started.on THEN raced \cup {a} ELSE raced
          /\ UNCHANGED <<enabled, disk>>
  /\ UNCHANGED <<accounts, choice, sip, granted, shown, cards, ids>>

SwitchOn(f, ok) ==
  /\ Ready(f, "saved") /\ Switch(f) /\ flow[f].on
  /\ StartTrial(f, flow[f], ok)
  /\ UNCHANGED <<list, disk, granted, shown, cards, busy, unused, raced, edits>>

Bug_SilentOff(f) ==
  /\ Ready(f, "saved") /\ Switch(f) /\ ~flow[f].on
  /\ engine' = [engine EXCEPT ![flow[f].acct] = IF @ = "unknown" THEN @ ELSE "known"]
  /\ Finish(f)
  /\ UNCHANGED <<list, disk, events, stuck, granted, shown, cards, ids, raced, edits>>

SwitchOff(f) ==
  /\ Ready(f, "saved") /\ Switch(f) /\ ~flow[f].on
  /\ Leaves(flow[f].acct, "known")
  /\ Finish(f)
  /\ UNCHANGED <<list, disk, granted, shown, cards, ids, raced, edits>>

\* A dialog if there is still a card to show it.
Explain(f) ==
  IF flow[f].mounted THEN Goto(f, "dialog") /\ UNCHANGED busy ELSE Finish(f)

SwitchRefused(f) ==
  /\ Ready(f, "trial") /\ Switch(f) /\ flow[f].verdict = "failure"
  /\ Purge(f)
  /\ Explain(f)
  /\ UNCHANGED <<list, disk, granted, shown, cards, ids, raced, edits>>

\* The account is registered; without a selected account it becomes that.
\* If pjsua refuses it, register does not return.
SwitchVerified(f, ok) ==
  LET a == flow[f].acct IN
  /\ Ready(f, "trial") /\ Switch(f) /\ flow[f].verdict = "success"
  /\ PurgeAndRegister(f, a, ok)
  /\ IF ~ok THEN UNCHANGED <<choice, disk, flow, busy>>
     ELSE IF selected \cap Range(accounts) # {} THEN Finish(f) /\ UNCHANGED <<choice, disk>>
     ELSE /\ SelectOnly(a)
          /\ BeginSave(f)
          /\ Goto(f, "selecting")
          /\ UNCHANGED busy
  /\ UNCHANGED <<accounts, enabled, granted, shown, cards, ids, raced, edits>>

SelectionSaved(f) ==
  /\ Ready(f, "selected")
  /\ Finish(f)
  /\ UNCHANGED <<list, disk, sip, granted, shown, cards, ids, raced, edits>>

DialogClosed(f) ==
  /\ Ready(f, "dialog")
  /\ Finish(f)
  /\ UNCHANGED <<list, disk, sip, granted, shown, cards, ids, raced, edits>>

-----------------------------------------------------------------------------
(* The form *)

\* The forms that will each take an id that is unused.
NewForms == {g \in Flows : At(g, "trial") /\ flow[g].acct = NoAccount}

\* The form for a new account or for one of a card is opened, filled in and
\* saved: first a trial.  Another form that was left may be at its trial
\* still.  (That the account is replaced while the form is being filled in
\* makes no difference: the form reads what it was opened with after the
\* trial only.)  A card that has not been built again since its account was
\* deleted opens it with the object that has left the list.
FormSubmit(f, a, ok) ==
  /\ Free(f) /\ Edit("submit") /\ UserFree
  /\ a = NoAccount => Cardinality(NewForms) < Cardinality(unused)
  /\ StartTrial(f, [Idle EXCEPT !.kind = "form", !.mounted = TRUE,
                                !.acct = a, !.began = a], ok)
  /\ \E object \in IF a = NoAccount \/ Listed(a) THEN {"listed"} ELSE {"selected", "unselected"} :
       existing' = [existing EXCEPT ![f] = object]
  /\ UNCHANGED <<accounts, selected, reverted, enabled>>
  /\ UNCHANGED <<disk, granted, shown, cards, busy, unused, raced>>

\* The back button is not disabled while the form registers.
FormLeft(f) ==
  /\ ~stuck /\ ~Switch(f) /\ flow[f].mounted
  /\ flow' = [flow EXCEPT ![f].mounted = FALSE]
  /\ UNCHANGED <<list, disk, sip, granted, shown, cards, busy, ids, raced, edits>>

FormRefused(f) ==
  /\ Ready(f, "trial") /\ ~Switch(f) /\ flow[f].verdict = "failure"
  /\ Purge(f)
  /\ flow' = [flow EXCEPT ![f] = Idle]
  /\ UNCHANGED <<list, disk, granted, shown, cards, busy, ids, raced, edits>>

\* The provider of a form that was left is disposed of: reading it then may
\* raise an error, and nothing is saved.
FormDropped(f) ==
  /\ Ready(f, "trial") /\ ~Switch(f) /\ flow[f].verdict = "success"
  /\ ~flow[f].mounted
  /\ Purge(f)
  /\ flow' = [flow EXCEPT ![f] = Idle]
  /\ UNCHANGED <<list, disk, granted, shown, cards, busy, ids, raced, edits>>

\* saveAccount: a listed account is replaced in its place, any other added.
FormVerified(f, a) ==
  /\ Ready(f, "trial") /\ ~Switch(f) /\ flow[f].verdict = "success"
  /\ IF flow[f].acct = NoAccount THEN a \in unused ELSE a = flow[f].acct
  /\ Purge(f)
  /\ accounts' = IF Listed(a) THEN accounts ELSE Append(accounts, a)
  /\ SelectedByForm(f, a)
  /\ enabled' = enabled \cup {a}
  /\ unused' = unused \ {a}
  /\ BeginSave(f)
  /\ flow' = [flow EXCEPT ![f].at = "saving", ![f].acct = a]
  /\ UNCHANGED <<granted, shown, cards, busy, nextTrial, raced, edits>>

FormSaved(f, ok) ==
  /\ Ready(f, "saved") /\ ~Switch(f)
  /\ Register(flow[f].acct, ok)
  /\ flow' = IF ok THEN [flow EXCEPT ![f] = Idle] ELSE flow
  /\ UNCHANGED <<list, disk, granted, shown, cards, busy, ids, raced, edits>>

-----------------------------------------------------------------------------
(* The list *)

\* indexWhere and removeAt.
Without(s, a) ==
  LET k == CHOOSE i \in DOMAIN s : s[i] = a IN
  SubSeq(s, 1, k - 1) \o SubSeq(s, k + 1, Len(s))

\* The flows that are about to register account a.
Registering(a) ==
  {f \in Flows : ~At(f, "idle") /\ flow[f].acct = a /\ (Switch(f) => flow[f].on)}

Bug_NoneSelected(a) == selected \ {a}
SelectedAfter(a) ==
  IF a \in selected /\ Len(accounts) > 1
  THEN (selected \ {a}) \cup {Head(Without(accounts, a))} ELSE selected \ {a}

Bug_StaysInEngine(a) == Leaves(a, "known")
Remove(a) == Leaves(a, "unknown")

\* Unregistered and deleted from the engine (the event that each of the two
\* sends is the same), then from the list.
DeleteAccount(k) ==
  LET a == cards[k] IN
  /\ Edit("delete") /\ UserFree
  /\ Remove(a)
  /\ IF ~Listed(a) THEN UNCHANGED <<accounts, selected, existing, disk>>
     ELSE /\ accounts' = Without(accounts, a)
          /\ selected' = SelectedAfter(a)
          /\ existing' = Former(a)
          /\ BeginSave(NoFlow)
  /\ raced' = IF Registering(a) # {} THEN raced \cup {a} ELSE raced
  /\ UNCHANGED <<reverted, enabled, granted, shown, screen, ids>>

Bug_SelectUnsaved(a) ==
  /\ cards = <<>> /\ Listed(a) /\ Edit("select") /\ UserFree
  /\ SelectOnly(a)
  /\ UNCHANGED <<accounts, enabled, disk, sip, granted, shown, screen, ids, raced>>

\* From the dialer, on another tab.
SelectAccount(a) ==
  /\ cards = <<>> /\ Listed(a) /\ Edit("select") /\ UserFree
  /\ SelectOnly(a)
  /\ BeginSave(NoFlow)
  /\ UNCHANGED <<accounts, enabled, sip, granted, shown, screen, ids, raced>>

\* The list is built again (notifyListeners) or its tab is opened.
Rebuild ==
  /\ ~stuck /\ cards # accounts
  /\ cards' = accounts
  /\ flow' = [f \in Flows |->
       IF ~(Switch(f) /\ flow[f].mounted) THEN flow[f]
       ELSE IF flow[f].card \in DOMAIN accounts
            THEN [flow[f] EXCEPT !.acct = accounts[flow[f].card]]
            ELSE [flow[f] EXCEPT !.card = NoCard, !.mounted = FALSE]]
  /\ UNCHANGED <<list, disk, sip, granted, shown, busy, ids, raced, edits>>

LeaveTab ==
  /\ ~stuck /\ cards # <<>> /\ UserFree
  /\ cards' = <<>>
  /\ flow' = Unmounted(flow)
  /\ UNCHANGED <<list, disk, sip, granted, shown, busy, ids, raced, edits>>

-----------------------------------------------------------------------------
\* After the start: the list, in any order, has been read and autoRegisterAll has given the
\* enabled accounts to pjsua.
Init ==
  /\ \E n \in 0 .. Cardinality(Accounts) :
     LET saved == CHOOSE S \in SUBSET Accounts : Cardinality(S) = n IN
       /\ accounts = CHOOSE s \in [1 .. n -> saved] : Range(s) = saved
       /\ enabled \in {saved, {}}
       /\ unused = Accounts \ saved
  /\ selected = IF accounts = <<>> THEN {} ELSE {Head(accounts)}
  /\ existing = [f \in Flows |-> "listed"]
  /\ reverted = FALSE
  /\ file = Data
  /\ saves = [w \in Slots |-> NoSave]
  /\ torn = FALSE
  /\ engine = [id \in Ids |-> IF id \in enabled THEN "added" ELSE "unknown"]
  /\ events = <<>>
  /\ stuck = FALSE
  /\ granted = {}
  /\ shown = [id \in Ids |-> IF id \in enabled THEN "Registering" ELSE "Unregistered"]
  /\ cards = <<>>
  /\ flow = [f \in Flows |-> Idle]
  /\ busy = {}
  /\ nextTrial = 1
  /\ raced = {}
  /\ edits = 0

User ==
  \/ \E f \in Flows, k \in DOMAIN cards : Toggle(f, k)
  \/ \E f \in Flows, a \in Range(cards) \cup {NoAccount}, ok \in BOOLEAN : FormSubmit(f, a, ok)
  \/ \E f \in Flows : FormLeft(f) \/ DialogClosed(f)
  \/ \E k \in DOMAIN cards : DeleteAccount(k)
  \/ \E a \in Accounts : SelectAccount(a)
  \/ LeaveTab

FlowStep(f) ==
  \/ \E ok \in BOOLEAN : SwitchOn(f, ok) \/ SwitchVerified(f, ok) \/ FormSaved(f, ok)
  \/ SwitchOff(f)
  \/ SwitchRefused(f)
  \/ SelectionSaved(f)
  \/ FormRefused(f)
  \/ FormDropped(f)
  \/ \E a \in Accounts : FormVerified(f, a)

SaveStep(w) == Encode(w) \/ Write(w)

Next ==
  \/ User
  \/ HandleEvent
  \/ Rebuild
  \/ \E id \in Ids : RegistrationResult(id)
  \/ \E f \in Flows : FlowStep(f) \/ TrialTimeout(f)
  \/ \E w \in Slots : SaveStep(w)

Spec == Init /\ [][Next]_vars

\* Dart runs the continuations that are due and lets timers fire; writes of
\* files end.
FairSpec ==
  /\ Spec
  /\ \A f \in Flows : WF_vars(FlowStep(f) \/ TrialTimeout(f))
  /\ WF_vars(\E w \in Slots : SaveStep(w))

-----------------------------------------------------------------------------
(* Properties *)

\* Every variable has its type; the cards show accounts, and a trial that is
\* under way has an id.
TypeOK ==
  /\ accounts \in Seq(Accounts) /\ cards \in Seq(Accounts)
  /\ selected \subseteq Accounts /\ enabled \subseteq Accounts
  /\ torn \in BOOLEAN /\ stuck \in BOOLEAN /\ reverted \in BOOLEAN
  /\ existing \in [Flows -> {"listed", "selected", "unselected"}]
  /\ engine \in [Ids -> {"unknown", "known", "added", "answered"}]
  /\ events \in Seq([id : Ids, state : RegistrationState])
  /\ shown \in [Ids -> RegistrationState]
  /\ granted \subseteq Trials
  /\ busy \subseteq Accounts /\ unused \subseteq Accounts /\ raced \subseteq Accounts
  /\ \A f \in Flows : At(f, "trial") => flow[f].trial \in Trials

\* Whatever is added, replaced and deleted while switches and forms are under
\* way, one account is selected as long as there is one: the account that the
\* dialer calls with.  Only a form that is saved after another has replaced
\* its account may leave two or none, until the user selects one again.
OneSelected ==
  /\ selected \subseteq Range(accounts)
  /\ accounts # <<>> /\ ~reverted => Cardinality(selected) = 1

\* Between saves accounts.json holds the list, whatever changed while it was
\* written, unless the last two writes met each other.
FileIsCurrent ==
  (\A w \in Slots : saves[w].at = "none") /\ ~torn => file = Data

\* Trial accounts do not stay registered: the engine has those of the trials
\* under way and no other, also after a timeout that a late answer follows.
TrialIsPurged ==
  \A t \in Trials :
    engine[t] # "unknown" => \E f \in Flows : At(f, "trial") /\ flow[f].trial = t

\* A trial succeeds only if a server has registered its own account, however
\* the events of other accounts and of other trials fall in between.
TrialIsEarned ==
  \A f \in Flows : At(f, "trial") /\ flow[f].verdict = "success" => flow[f].trial \in granted

\* "Accounts are stored in Flutter and mirrored into Rust"
\* (developer-guide.md:114): the engine has an account that is not stored
\* only if it was deleted while a switch or the form went on with it.
GhostsAreRaces ==
  \A a \in Accounts : engine[a] # "unknown" => Listed(a) \/ a \in raced

\* What is shown as registered once all events have been handled is
\* registered.
ShownFollowsEngine ==
  \A id \in Ids : shown[id] = "Registered" /\ events = <<>> => InPjsua(id)

\* A trial comes to an end, whether or not the server answers, unless pjsua
\* refuses an account: then nothing ends any more.  (At a trial leads to not at
\* one, written so that it is quicker to check.)
TrialEnds == \A f \in Flows : []<>(~At(f, "trial") \/ stuck)

\* "Reset switch to off state happens in finally" (accounts_screen.dart:179):
\* a switch that is disabled because it is being toggled is being toggled.
SwitchComesBack ==
  \A a \in busy : \E f \in Flows : ~At(f, "idle") /\ flow[f].began = a
=============================================================================
