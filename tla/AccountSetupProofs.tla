-------------------------- MODULE AccountSetupProofs --------------------------
(***************************************************************************)
(* Proofs about AccountSetup, for any accounts and bounds: types, that one *)
(* account is selected, that the file follows the list, that trials are    *)
(* earned and purged, that the engine has no account that is not listed or *)
(* was not deleted under a flow, and that what is shown as registered is.  *)
(***************************************************************************)
EXTENDS AccountSetup, SequenceTheorems, FiniteSetTheorems, TLAPS

USE SetupAssumption DEF NoFlow, NoTrial, NoCard, choice, Ready

-----------------------------------------------------------------------------
(* Types *)

Steps == {"idle", "saving", "saved", "selecting", "selected", "trial", "dialog"}

FlowRecords ==
  [at : Steps, kind : {"switch", "form"}, card : Nat, mounted : BOOLEAN,
   acct : Accounts \cup {NoAccount}, began : Accounts \cup {NoAccount}, on : BOOLEAN,
   trial : {NoTrial} \cup Trials, verdict : {"none", "success", "failure"}]

Lists ==
  [accounts : Seq(Accounts), selected : SUBSET (Accounts \cup {NoAccount}),
   enabled : SUBSET (Accounts \cup {NoAccount})]

SaveRecords ==
  [at : {"none", "asked", "write"}, by : {NoFlow} \cup Flows, alone : BOOLEAN, data : Lists]

EventRecords == [id : Ids, state : RegistrationState]

ListType ==
  /\ accounts \in Seq(Accounts) /\ cards \in Seq(Accounts)
  /\ selected \subseteq Accounts /\ enabled \subseteq Accounts
  /\ busy \subseteq Accounts /\ unused \subseteq Accounts /\ raced \subseteq Accounts
  /\ existing \in [Flows -> {"listed", "selected", "unselected"}] /\ reverted \in BOOLEAN

SipType ==
  /\ engine \in [Ids -> {"unknown", "known", "added", "answered"}]
  /\ events \in Seq(EventRecords)
  /\ shown \in [Ids -> RegistrationState]
  /\ granted \subseteq Trials /\ stuck \in BOOLEAN

FlowType ==
  /\ flow \in [Flows -> FlowRecords]
  /\ \A f \in Flows : At(f, "trial") => flow[f].trial \in Trials
  /\ nextTrial \in Nat \ {0}

DiskType == saves \in [Slots -> SaveRecords] /\ torn \in BOOLEAN

\* A switch, and a form that has been saved, is about an account.
ActsOnAccount ==
  \A f \in Flows :
    ~At(f, "idle") /\ (Switch(f) \/ ~At(f, "trial")) => flow[f].acct \in Accounts

Waits(f) == flow[f].at \in {"saving", "selecting"}

\* A flow waits for one save, and for it alone.
SavesAwaited ==
  /\ \A w \in Slots : saves[w].by # NoFlow => saves[w].at # "none" /\ Waits(saves[w].by)
  /\ \A v, w \in Slots : saves[v].by = saves[w].by /\ saves[v].by # NoFlow => v = w

Types == ListType /\ SipType /\ FlowType /\ DiskType /\ ActsOnAccount /\ SavesAwaited

LEMMA TypesSuffice == Types => TypeOK
BY DEF Types, TypeOK, ListType, SipType, FlowType, DiskType, EventRecords

-----------------------------------------------------------------------------
(* The engine and its events *)

LEMMA EventTyped ==
  ASSUME NEW id \in Ids, NEW state \in RegistrationState
  PROVE  Event(id, state) \in EventRecords
BY DEF Event, EventRecords

LEMMA IdsAre == /\ Accounts \subseteq Ids /\ Trials \subseteq Ids
                /\ \A id \in Ids : id \in Accounts \/ id \in Trials
BY DEF Ids

\* What Register, Leaves and PurgeAndRegister do: some accounts change, each
\* is reported, and nothing is reported as registered.
Commands(ids0) ==
  \E q \in Seq(EventRecords) :
    /\ events' = events \o q /\ stuck' \in BOOLEAN
    /\ engine' \in [Ids -> {"unknown", "known", "added", "answered"}]
    /\ \A k \in DOMAIN q : q[k].state # "Registered"
    /\ \A id \in Ids : \/ engine'[id] = engine[id]
                       \/ id \in ids0 /\ \E k \in DOMAIN q : q[k].id = id

LEMMA Joined ==
  ASSUME NEW s \in Seq(EventRecords), NEW t \in Seq(EventRecords), NEW u \in Seq(EventRecords)
  PROVE  (s \o t) \o u = s \o (t \o u)
<1>1. s \o t \in Seq(EventRecords) /\ t \o u \in Seq(EventRecords)
  BY ConcatProperties
<1>2. (s \o t) \o u \in Seq(EventRecords) /\ s \o (t \o u) \in Seq(EventRecords)
  BY <1>1, ConcatProperties
<1>3. Len((s \o t) \o u) = Len(s \o (t \o u))
  BY <1>1, <1>2, ConcatProperties, LenProperties
<1>4. \A i \in 1 .. Len((s \o t) \o u) : ((s \o t) \o u)[i] = (s \o (t \o u))[i]
  BY <1>1, <1>2, ConcatProperties, LenProperties
<1> QED
  BY <1>2, <1>3, <1>4, SeqEqual

LEMMA RegisterCommands ==
  ASSUME SipType, NEW id \in Ids, NEW ok \in BOOLEAN, Register(id, ok)
  PROVE  Commands({id}) /\ engine'[id] # "unknown"
<1> DEFINE p == IF engine[id] = "unknown" THEN <<Event(id, "Unregistered")>> ELSE <<>>
           r == <<Event(id, "Registering")>>
           q == p \o r
<1>1. p \in Seq(EventRecords) /\ r \in Seq(EventRecords)
  BY EventTyped DEF RegistrationState
<1>2. q \in Seq(EventRecords) /\ events' = events \o q
  <2>1. events' = (events \o p) \o r
    BY DEF Register
  <2> HIDE DEF p, r
  <2> QED
    BY <1>1, <2>1, ConcatProperties, Joined DEF SipType
<1>3. \A k \in DOMAIN q : q[k].state # "Registered"
  BY <1>1 DEF Event
<1>4. \E k \in DOMAIN q : q[k].id = id
  BY <1>1 DEF Event
<1>5. engine' = [engine EXCEPT ![id] = IF ok THEN "added" ELSE "known"] /\ stuck' \in BOOLEAN
  BY DEF Register
<1> HIDE DEF q
<1> QED
  BY <1>2, <1>3, <1>4, <1>5 DEF Commands, SipType

LEMMA LeavesCommands ==
  ASSUME SipType, NEW id \in Ids, NEW level \in {"unknown", "known"}, Leaves(id, level)
  PROVE  /\ Commands({id})
         /\ engine'[id] \in {"unknown", level}
<1>1. CASE engine[id] = "unknown"
  <2>1. events' = events \o <<>> /\ engine' = engine /\ stuck' \in BOOLEAN
    BY <1>1 DEF Leaves, sip, SipType
  <2>2. <<>> \in Seq(EventRecords) /\ DOMAIN <<>> = {}
    OBVIOUS
  <2> QED
    BY <1>1, <2>1, <2>2 DEF Commands, SipType
<1>2. CASE engine[id] # "unknown"
  <2> DEFINE q == <<Event(id, "Unregistered")>>
  <2>1. q \in Seq(EventRecords)
    BY EventTyped DEF RegistrationState
  <2>4. q[1].id = id /\ 1 \in DOMAIN q
    BY DEF Event
  <2>2. \A k \in DOMAIN q : q[k].state # "Registered"
    BY DEF Event
  <2>3. /\ engine' = [engine EXCEPT ![id] = level] /\ stuck' \in BOOLEAN
        /\ events' = Append(events, Event(id, "Unregistered"))
    BY <1>2 DEF Leaves, SipType
  <2>5. events' = events \o q
    BY <2>3, EventTyped, AppendIsConcat, Zenon DEF SipType, RegistrationState
  <2> HIDE DEF q
  <2> QED
    BY <2>1, <2>2, <2>3, <2>4, <2>5 DEF Commands, SipType
<1> QED
  BY <1>1, <1>2

LEMMA PurgeCommands ==
  ASSUME SipType, NEW f \in Flows, flow[f].trial \in Trials,
         NEW id \in Accounts, NEW ok \in BOOLEAN, PurgeAndRegister(f, id, ok)
  PROVE  /\ Commands({flow[f].trial, id})
         /\ engine'[flow[f].trial] = "unknown" /\ engine'[id] # "unknown"
<1> DEFINE t == flow[f].trial
           o == <<Event(t, "Unregistered")>>
           p == IF engine[id] = "unknown" THEN <<Event(id, "Unregistered")>> ELSE <<>>
           r == <<Event(id, "Registering")>>
           q == o \o (p \o r)
<1>0. t \in Ids /\ id \in Ids /\ t # id
  BY SetupAssumption DEF Ids
<1>1. o \in Seq(EventRecords) /\ p \in Seq(EventRecords) /\ r \in Seq(EventRecords)
  <2>1. /\ Event(t, "Unregistered") \in EventRecords
        /\ Event(id, "Unregistered") \in EventRecords
        /\ Event(id, "Registering") \in EventRecords
    BY <1>0, EventTyped DEF RegistrationState
  <2> QED
    BY <2>1
<1>2. q \in Seq(EventRecords) /\ events' = events \o q
  <2>1. events' = ((events \o o) \o p) \o r
    BY DEF PurgeAndRegister
  <2>2. events \in Seq(EventRecords) /\ p \o r \in Seq(EventRecords) /\ events \o o \in Seq(EventRecords)
    BY <1>1, ConcatProperties DEF SipType
  <2> HIDE DEF o, p, r
  <2>3. ((events \o o) \o p) \o r = (events \o o) \o (p \o r)
    <3>1. p \in Seq(EventRecords) /\ r \in Seq(EventRecords)
      BY <1>1
    <3>2. events \o o \in Seq(EventRecords)
      BY <2>2
    <3> QED
      BY <3>1, <3>2, Joined
  <2>4. \A s \in Seq(EventRecords) : (events \o o) \o s = events \o (o \o s)
    BY <1>1, <2>2, Joined
  <2> QED
    BY <1>1, <2>1, <2>2, <2>3, <2>4, ConcatProperties
<1>3. \A k \in DOMAIN q : q[k].state # "Registered"
  BY <1>1 DEF Event
<1>4. (\E k \in DOMAIN q : q[k].id = id) /\ (\E k \in DOMAIN q : q[k].id = t)
  <2>1. CASE engine[id] = "unknown"
    <3>1. 1 \in DOMAIN q /\ q[1].id = t /\ 3 \in DOMAIN q /\ q[3].id = id
      BY <2>1 DEF Event
    <3> QED BY <3>1
  <2>2. CASE engine[id] # "unknown"
    <3>1. 1 \in DOMAIN q /\ q[1].id = t /\ 2 \in DOMAIN q /\ q[2].id = id
      BY <2>2 DEF Event
    <3> QED BY <3>1
  <2> QED BY <2>1, <2>2
<1>5. /\ engine' = [engine EXCEPT ![t] = "unknown", ![id] = IF ok THEN "added" ELSE "known"]
      /\ stuck' \in BOOLEAN
  BY DEF PurgeAndRegister
<1> HIDE DEF q
<1> QED
  BY <1>0, <1>2, <1>3, <1>4, <1>5 DEF Commands, SipType

LEMMA CommandsTyped ==
  ASSUME SipType, NEW ids0, Commands(ids0), UNCHANGED <<granted, shown>>
  PROVE  SipType'
BY ConcatProperties DEF SipType, Commands
-----------------------------------------------------------------------------
(* Flows and the saves they wait for *)

LEMMA IdleTyped == Idle \in FlowRecords
BY DEF Idle, FlowRecords, Steps

LEMMA DataTyped ==
  ASSUME ListType
  PROVE  Data \in Lists /\ Truncated \in Lists /\ Garbage \in Lists
<1>1. <<>> \in Seq(Accounts)
  OBVIOUS
<1> QED
  BY <1>1 DEF ListType, Data, Truncated, Garbage, Lists

\* Flow f goes on as r, the others do not move.
FlowTo(f, r) ==
  /\ r \in FlowRecords
  /\ flow' = [flow EXCEPT ![f] = r]
  /\ r.at = "trial" => r.trial \in Trials
  /\ r.at # "idle" /\ (r.kind = "switch" \/ r.at # "trial") => r.acct \in Accounts

LEMMA FlowToTyped ==
  ASSUME FlowType, ActsOnAccount, NEW f \in Flows, NEW r, FlowTo(f, r),
         nextTrial' \in Nat \ {0}
  PROVE  FlowType' /\ ActsOnAccount' /\ flow'[f] = r /\ \A g \in Flows \ {f} : flow'[g] = flow[g]
BY DEF FlowType, ActsOnAccount, FlowTo, At, Switch

\* No flow starts or stops waiting for a save.
LEMMA WaitingKept ==
  ASSUME DiskType, SavesAwaited, UNCHANGED saves, torn' \in BOOLEAN,
         \A g \in Flows : Waits(g) => flow'[g].at = flow[g].at
  PROVE  DiskType' /\ SavesAwaited'
<1>1. \A w \in Slots : saves[w].by \in {NoFlow} \cup Flows
  BY DEF DiskType, SaveRecords
<1> QED
  BY <1>1 DEF DiskType, SavesAwaited, Waits

LEMMA SaveBegun ==
  ASSUME DiskType, SavesAwaited, NEW f \in {NoFlow} \cup Flows, BeginSave(f),
         f # NoFlow => ~Waits(f) /\ Waits(f)',
         \A g \in Flows \ {f} : Waits(g) => flow'[g].at = flow[g].at
  PROVE  DiskType' /\ SavesAwaited'
<1>1. PICK w \in Slots : /\ saves[w].at = "none" /\ UNCHANGED <<file, torn>>
                         /\ saves' = [saves EXCEPT ![w] = [NoSave EXCEPT !.at = "asked", !.by = f]]
  BY DEF BeginSave
<1> DEFINE s == [NoSave EXCEPT !.at = "asked", !.by = f]
<1>2. s \in SaveRecords /\ s.at = "asked" /\ s.by = f
  <2>1. Truncated \in Lists
    <3>1. <<>> \in Seq(Accounts)
      OBVIOUS
    <3> QED BY <3>1 DEF Truncated, Lists
  <2> QED
    BY <2>1 DEF NoSave, SaveRecords
<1> HIDE DEF s
<1>3. saves' = [saves EXCEPT ![w] = s]
  BY <1>1 DEF s
<1>4. DiskType'
  BY <1>1, <1>2, <1>3 DEF DiskType
<1>5. saves'[w] = s /\ \A v \in Slots \ {w} : saves'[v] = saves[v]
  BY <1>3 DEF DiskType
<1>6. \A v \in Slots : saves[v].by \in {NoFlow} \cup Flows
  BY DEF DiskType, SaveRecords
<1>7. \A v \in Slots \ {w} : saves[v].by = NoFlow \/ (saves[v].by # f /\ Waits(saves[v].by))
  BY <1>6 DEF SavesAwaited
<1>8. \A v \in Slots : saves'[v].by # NoFlow => saves'[v].at # "none" /\ flow'[saves'[v].by].at \in {"saving", "selecting"}
  BY <1>2, <1>5, <1>6, <1>7 DEF SavesAwaited, Waits
<1>9. \A u, v \in Slots : saves'[u].by = saves'[v].by /\ saves'[u].by # NoFlow => u = v
  BY <1>2, <1>5, <1>6, <1>7 DEF SavesAwaited
<1> QED
  BY <1>4, <1>8, <1>9 DEF SavesAwaited, Waits

LEMMA EncodeTyped ==
  ASSUME Types, NEW w \in Slots, Encode(w)
  PROVE  DiskType' /\ SavesAwaited'
<1> USE DEF Types
<1> DEFINE others == {v \in Slots : saves[v].at = "write"}
           S(v) == IF v = w THEN [saves[v] EXCEPT !.at = "write", !.data = Data, !.alone = others = {}]
                   ELSE [saves[v] EXCEPT !.alone = @ /\ v \notin others]
<1>1. saves' = [v \in Slots |-> S(v)] /\ UNCHANGED <<flow, torn>> /\ saves[w].at = "asked"
  BY DEF Encode, screen
<1>2. \A v \in Slots : /\ S(v) \in SaveRecords
                       /\ S(v).by = saves[v].by
                       /\ S(v).at = IF v = w THEN "write" ELSE saves[v].at
  BY DataTyped DEF DiskType, SaveRecords
<1> HIDE DEF S
<1>3. DiskType'
  BY <1>1, <1>2 DEF DiskType
<1>4. SavesAwaited'
  BY <1>1, <1>2 DEF SavesAwaited, Waits
<1> QED
  BY <1>3, <1>4

LEMMA WriteTyped ==
  ASSUME Types, NEW w \in Slots, Write(w)
  PROVE  FlowType' /\ ActsOnAccount' /\ DiskType' /\ SavesAwaited'
<1> USE DEF Types
<1> DEFINE f == saves[w].by
           r == [flow[f] EXCEPT !.at = IF At(f, "saving") THEN "saved" ELSE "selected"]
<1>1. /\ f \in {NoFlow} \cup Flows
      /\ saves[w].alone \in BOOLEAN
  BY DEF DiskType, SaveRecords
<1>2. /\ saves' = [saves EXCEPT ![w] = NoSave]
      /\ torn' \in BOOLEAN
      /\ nextTrial' = nextTrial
      /\ f = NoFlow => UNCHANGED flow
      /\ f # NoFlow => Goto(f, IF At(f, "saving") THEN "saved" ELSE "selected")
  BY <1>1 DEF Write, ids
<1>3. f # NoFlow => FlowTo(f, r)
  <2> SUFFICES ASSUME f # NoFlow PROVE FlowTo(f, r)
    OBVIOUS
  <2>1. f \in Flows /\ flow[f] \in FlowRecords /\ Waits(f)
    BY <1>1 DEF FlowType, SavesAwaited
  <2>2. flow' = [flow EXCEPT ![f] = r]
    BY <1>2, <2>1 DEF Goto, FlowType
  <2>3. r \in FlowRecords /\ r.at \in {"saved", "selected"} /\ r.acct = flow[f].acct
    BY <2>1 DEF FlowRecords, Steps
  <2>4. flow[f].acct \in Accounts
    BY <2>1 DEF ActsOnAccount, Waits, At
  <2> QED
    BY <2>2, <2>3, <2>4 DEF FlowTo
<1>4. FlowType' /\ ActsOnAccount' /\ \A g \in Flows : g # f => flow'[g] = flow[g]
  <2>1. CASE f = NoFlow
    BY <1>2, <2>1 DEF FlowType, ActsOnAccount, At, Switch
  <2>2. CASE f # NoFlow
    <3>1. f \in Flows /\ FlowTo(f, r) /\ nextTrial' \in Nat \ {0}
      BY <1>1, <1>2, <1>3, <2>2 DEF FlowType
    <3> HIDE DEF r, f
    <3> QED
      BY <3>1, FlowToTyped
  <2> QED
    BY <2>1, <2>2
<1>5. NoSave \in SaveRecords /\ NoSave.by = NoFlow
  <2>1. Truncated \in Lists
    BY DataTyped
  <2> QED
    BY <2>1 DEF NoSave, SaveRecords
<1>6. DiskType'
  BY <1>2, <1>5 DEF DiskType
<1>7. saves'[w].by = NoFlow /\ \A v \in Slots \ {w} : saves'[v] = saves[v]
  BY <1>2, <1>5 DEF DiskType
<1>8. \A v \in Slots \ {w} : saves[v].by \in {NoFlow} \cup Flows /\ (saves[v].by # NoFlow => saves[v].by # f)
  BY DEF DiskType, SaveRecords, SavesAwaited
<1>9. SavesAwaited'
  BY <1>4, <1>7, <1>8 DEF SavesAwaited, Waits
<1> QED
  BY <1>4, <1>6, <1>9
-----------------------------------------------------------------------------
(* The list *)

\* removeAt takes the account that indexWhere found out of the list.
LEMMA WithoutProperties ==
  ASSUME NEW s \in Seq(Accounts), NEW a \in Range(s)
  PROVE  /\ Without(s, a) \in Seq(Accounts)
         /\ Len(Without(s, a)) = Len(s) - 1
         /\ \A b \in Range(s) : b # a => b \in Range(Without(s, a))
         /\ Range(Without(s, a)) \subseteq Range(s)
<1> DEFINE k == CHOOSE i \in DOMAIN s : s[i] = a
           p == SubSeq(s, 1, k - 1)
           q == SubSeq(s, k + 1, Len(s))
           r == p \o q
<1>1. k \in 1 .. Len(s) /\ s[k] = a
  BY DEF Range
<1>2. Without(s, a) = r
  BY DEF Without
<1> HIDE DEF k
<1>3. /\ p \in Seq(Accounts) /\ Len(p) = k - 1
      /\ \A i \in 1 .. k - 1 : p[i] = s[i]
  <2>1. \A i \in 1 .. k - 1 : s[i] \in Accounts
    BY <1>1
  <2> QED
    BY <1>1, <2>1, SubSeqProperties
<1>4. /\ q \in Seq(Accounts) /\ Len(q) = Len(s) - k
      /\ \A i \in 1 .. Len(s) - k : q[i] = s[k + i]
  <2>1. \A i \in k + 1 .. Len(s) : s[i] \in Accounts
    BY <1>1
  <2> QED
    BY <1>1, <2>1, SubSeqProperties
<1> HIDE DEF p, q
<1>5. /\ r \in Seq(Accounts) /\ Len(r) = Len(s) - 1
      /\ \A i \in 1 .. Len(s) - 1 : r[i] = IF i < k THEN s[i] ELSE s[i + 1]
  <2>1. /\ r \in Seq(Accounts) /\ Len(r) = Len(p) + Len(q)
        /\ \A i \in 1 .. Len(p) + Len(q) : r[i] = IF i <= Len(p) THEN p[i] ELSE q[i - Len(p)]
    BY <1>3, <1>4, ConcatProperties
  <2> HIDE DEF r
  <2>2. r \in Seq(Accounts) /\ Len(r) = Len(s) - 1
    BY <1>1, <1>3, <1>4, <2>1
  <2>3. ASSUME NEW i \in 1 .. Len(s) - 1, i < k PROVE r[i] = s[i]
    <3>1. i \in 1 .. Len(p) + Len(q) /\ i <= Len(p) /\ i \in 1 .. k - 1
      BY <1>1, <1>3, <1>4, <2>3
    <3> QED
      BY <1>3, <2>1, <3>1
  <2>4. ASSUME NEW i \in 1 .. Len(s) - 1, ~(i < k) PROVE r[i] = s[i + 1]
    <3>1. /\ i \in 1 .. Len(p) + Len(q) /\ ~(i <= Len(p))
          /\ i - Len(p) \in 1 .. Len(s) - k /\ k + (i - Len(p)) = i + 1
      BY <1>1, <1>3, <1>4, <2>4
    <3>2. r[i] = q[i - Len(p)]
      BY <2>1, <3>1
    <3> QED
      BY <1>4, <3>1, <3>2
  <2> QED
    BY <2>2, <2>3, <2>4
<1> HIDE DEF r
<1>6. Range(r) \subseteq Range(s)
  BY <1>1, <1>5 DEF Range
<1>7. ASSUME NEW b \in Range(s), b # a PROVE b \in Range(r)
  <2>1. PICK i \in 1 .. Len(s) : s[i] = b
    BY DEF Range
  <2>2. CASE i < k
    <3>1. i \in DOMAIN r /\ r[i] = s[i]
      BY <1>1, <1>5, <2>1, <2>2
    <3> QED
      BY <2>1, <3>1 DEF Range
  <2>3. CASE i > k
    <3>1. i - 1 \in DOMAIN r /\ r[i - 1] = s[i]
      BY <1>1, <1>5, <2>1, <2>3
    <3> QED
      BY <2>1, <3>1 DEF Range
  <2> QED
    BY <1>1, <1>7, <2>1, <2>2, <2>3
<1> QED
  BY <1>2, <1>5, <1>6, <1>7

LEMMA AppendRange ==
  ASSUME NEW s \in Seq(Accounts), NEW a \in Accounts
  PROVE  Append(s, a) \in Seq(Accounts) /\ Range(Append(s, a)) = Range(s) \cup {a}
<1>1. /\ Append(s, a) \in Seq(Accounts) /\ Len(Append(s, a)) = Len(s) + 1
      /\ \A i \in 1 .. Len(s) : Append(s, a)[i] = s[i]
      /\ Append(s, a)[Len(s) + 1] = a
  BY AppendProperties
<1>2. DOMAIN Append(s, a) = 1 .. Len(s) + 1 /\ DOMAIN s = 1 .. Len(s) /\ Len(s) \in Nat
  BY <1>1
<1> QED
  BY <1>1, <1>2 DEF Range

LEMMA HeadListed ==
  ASSUME NEW s \in Seq(Accounts), s # <<>>
  PROVE  Head(s) \in Range(s) /\ Head(s) \in Accounts
BY DEF Range

LEMMA RangeTyped ==
  ASSUME NEW s \in Seq(Accounts)
  PROVE  Range(s) \subseteq Accounts /\ \A k \in DOMAIN s : s[k] \in Accounts /\ s[k] \in Range(s)
BY DEF Range
-----------------------------------------------------------------------------
(* How each step moves the flows *)

LEMMA RecordOf ==
  ASSUME FlowType, NEW f \in Flows
  PROVE  flow[f] \in FlowRecords /\ flow[f].at \in Steps
BY DEF FlowType, FlowRecords

LEMMA ToggleMoves ==
  ASSUME Types, NEW f \in Flows, NEW k \in DOMAIN cards, Toggle(f, k)
  PROVE  /\ At(f, "idle") /\ cards[k] \in Accounts
         /\ \E r : /\ FlowTo(f, r)
                   /\ r.kind = "switch" /\ r.acct = cards[k]
                   /\ r.on = (cards[k] \notin enabled)
                   /\ r.at = IF Listed(cards[k]) THEN "saving" ELSE "saved"
<1> DEFINE a == cards[k]
           started == [Idle EXCEPT !.at = "saving", !.card = k, !.mounted = TRUE,
                                   !.acct = a, !.began = a, !.on = a \notin enabled]
           r == IF Listed(a) THEN started ELSE [started EXCEPT !.at = "saved"]
<1>1. a \in Accounts /\ k \in Nat
  BY RangeTyped DEF Types, ListType
<1>2. At(f, "idle") /\ flow' = [flow EXCEPT ![f] = r]
  BY DEF Toggle, Free
<1> HIDE DEF a
<1>3. started \in FlowRecords /\ [started EXCEPT !.at = "saved"] \in FlowRecords
  BY <1>1, IdleTyped DEF FlowRecords, Steps, Idle
<1>4. /\ r.kind = "switch" /\ r.acct = a /\ r.on = (a \notin enabled)
      /\ r.at = IF Listed(a) THEN "saving" ELSE "saved"
  BY DEF Idle
<1>5. r \in FlowRecords
  BY <1>3
<1> HIDE DEF started, r
<1>6. FlowTo(f, r)
  BY <1>1, <1>2, <1>4, <1>5 DEF FlowTo
<1> QED
  BY <1>1, <1>2, <1>4, <1>6 DEF a

LEMMA TrialMoves ==
  ASSUME Types, NEW f \in Flows, NEW s \in FlowRecords, NEW ok \in BOOLEAN,
         StartTrial(f, s, ok), s.kind = "switch" => s.acct \in Accounts
  PROVE  /\ nextTrial \in Trials /\ nextTrial' \in Nat \ {0}
         /\ Register(nextTrial, ok)
         /\ \E r : /\ FlowTo(f, r)
                   /\ r.at = "trial" /\ r.trial = nextTrial /\ r.verdict = "none"
                   /\ r.kind = s.kind /\ r.acct = s.acct /\ r.on = s.on
<1> DEFINE r == [s EXCEPT !.at = "trial", !.trial = nextTrial, !.verdict = "none"]
<1>1. /\ nextTrial \in Trials /\ nextTrial' = nextTrial + 1 /\ Register(nextTrial, ok)
      /\ flow' = [flow EXCEPT ![f] = r]
  BY DEF StartTrial
<1>2. r \in FlowRecords
  BY <1>1 DEF FlowRecords, Steps
<1>3. /\ r.at = "trial" /\ r.trial = nextTrial /\ r.verdict = "none"
      /\ r.kind = s.kind /\ r.acct = s.acct /\ r.on = s.on
  BY DEF FlowRecords
<1> HIDE DEF r
<1>4. FlowTo(f, r)
  BY <1>1, <1>2, <1>3 DEF FlowTo
<1>5. nextTrial' \in Nat \ {0}
  BY <1>1 DEF Types, FlowType
<1> QED
  BY <1>1, <1>3, <1>4, <1>5

LEMMA FinishMoves ==
  ASSUME Types, NEW f \in Flows, flow' = [flow EXCEPT ![f] = Idle]
  PROVE  FlowTo(f, Idle)
BY IdleTyped DEF FlowTo, Idle

\* Goto to a step that is not a trial, for a flow that is about an account.
LEMMA GotoMoves ==
  ASSUME Types, NEW f \in Flows, NEW step \in Steps \ {"trial"}, Goto(f, step),
         flow[f].acct \in Accounts
  PROVE  \E r : /\ FlowTo(f, r)
                /\ r.at = step /\ r.kind = flow[f].kind /\ r.acct = flow[f].acct
                /\ r.on = flow[f].on
<1> DEFINE r == [flow[f] EXCEPT !.at = step]
<1>1. flow' = [flow EXCEPT ![f] = r]
  BY DEF Goto, Types, FlowType
<1>2. /\ r \in FlowRecords /\ r.at = step /\ r.kind = flow[f].kind /\ r.acct = flow[f].acct
      /\ r.on = flow[f].on
  BY RecordOf DEF FlowRecords, Types
<1> HIDE DEF r
<1>3. FlowTo(f, r)
  BY <1>1, <1>2 DEF FlowTo
<1> QED
  BY <1>2, <1>3

\* The step that is left is not one a save leads out of, and its flow acts on
\* an account.
LEMMA FlowToTypes ==
  ASSUME Types, NEW f \in Flows, NEW r, FlowTo(f, r), nextTrial' \in Nat \ {0},
         ~Waits(f), UNCHANGED <<saves, torn>>
  PROVE  FlowType' /\ ActsOnAccount' /\ DiskType' /\ SavesAwaited'
<1>1. FlowType' /\ ActsOnAccount' /\ \A g \in Flows \ {f} : flow'[g] = flow[g]
  BY FlowToTyped DEF Types
<1>2. \A g \in Flows : Waits(g) => flow'[g].at = flow[g].at
  BY <1>1
<1>3. torn' \in BOOLEAN
  BY DEF Types, DiskType
<1> QED
  BY <1>1, <1>2, <1>3, WaitingKept DEF Types

\* The flow begins to wait for a save.
LEMMA FlowToSaves ==
  ASSUME Types, NEW f \in Flows, NEW r, FlowTo(f, r), nextTrial' \in Nat \ {0},
         ~Waits(f), r.at \in {"saving", "selecting"}, BeginSave(f)
  PROVE  FlowType' /\ ActsOnAccount' /\ DiskType' /\ SavesAwaited'
<1>1. FlowType' /\ ActsOnAccount' /\ flow'[f] = r /\ \A g \in Flows \ {f} : flow'[g] = flow[g]
  BY FlowToTyped DEF Types
<1>2. \A g \in Flows \ {f} : Waits(g) => flow'[g].at = flow[g].at
  BY <1>1
<1>3. Waits(f)'
  BY <1>1 DEF Waits
<1> QED
  BY <1>1, <1>2, <1>3, SaveBegun DEF Types

\* No flow moves.
LEMMA FlowsStay ==
  ASSUME Types, UNCHANGED <<flow, nextTrial>>, BeginSave(NoFlow) \/ UNCHANGED <<saves, torn>>
  PROVE  FlowType' /\ ActsOnAccount' /\ DiskType' /\ SavesAwaited'
<1>1. FlowType' /\ ActsOnAccount'
  BY DEF Types, FlowType, ActsOnAccount, At, Switch
<1>2. CASE UNCHANGED <<saves, torn>>
  BY <1>1, <1>2, WaitingKept DEF Types, DiskType
<1>3. CASE BeginSave(NoFlow)
  BY <1>1, <1>3, SaveBegun DEF Types
<1> QED
  BY <1>1, <1>2, <1>3
-----------------------------------------------------------------------------
(* Every step keeps the types *)

SameList ==
  UNCHANGED <<accounts, cards, selected, existing, reverted, enabled, busy, unused, raced>>
SameSip == UNCHANGED <<engine, events, stuck, granted, shown>>

LEMMA Same ==
  ASSUME Types
  PROVE  (SameList => ListType') /\ (SameSip => SipType')
BY DEF Types, ListType, SipType, SameList, SameSip

LEMMA ToggleTypes ==
  ASSUME Types, NEW f \in Flows, NEW k \in DOMAIN cards, Toggle(f, k)
  PROVE  Types'
<1>1. PICK r : /\ FlowTo(f, r) /\ r.at = IF Listed(cards[k]) THEN "saving" ELSE "saved"
  BY ToggleMoves
<1>2. At(f, "idle") /\ cards[k] \in Accounts /\ ~Waits(f)
  BY ToggleMoves DEF At, Waits
<1>3. SameSip /\ nextTrial' \in Nat \ {0}
  BY DEF Toggle, SameSip, sip, ids, Types, FlowType
<1>4. SipType'
  BY <1>3, Same
<1>5. ListType'
  BY <1>2 DEF Toggle, Types, ListType, ids, disk
<1>6. FlowType' /\ ActsOnAccount' /\ DiskType' /\ SavesAwaited'
  <2>1. CASE Listed(cards[k])
    <3>1. BeginSave(f)
      BY <2>1 DEF Toggle
    <3> QED
      BY <1>1, <1>2, <1>3, <2>1, <3>1, FlowToSaves
  <2>2. CASE ~Listed(cards[k])
    <3>1. UNCHANGED <<saves, torn>>
      BY <2>2 DEF Toggle, disk
    <3> QED
      BY <1>1, <1>2, <1>3, <3>1, FlowToTypes
  <2> QED
    BY <2>1, <2>2
<1> QED
  BY <1>4, <1>5, <1>6 DEF Types

\* Flow f moves, and commands go to the engine.
LEMMA MoveTypes ==
  ASSUME Types, NEW f \in Flows, ~Waits(f), UNCHANGED <<saves, torn>>, ListType',
         nextTrial' \in Nat \ {0},
         SipType', \E r : FlowTo(f, r)
  PROVE  Types'
<1>1. PICK r : FlowTo(f, r)
  OBVIOUS
<1> QED
  BY <1>1, FlowToTypes DEF Types

LEMMA SwitchOnTypes ==
  ASSUME Types, NEW f \in Flows, NEW ok \in BOOLEAN, SwitchOn(f, ok)
  PROVE  Types'
<1>1. StartTrial(f, flow[f], ok) /\ flow[f] \in FlowRecords /\ ~Waits(f) /\ flow[f].acct \in Accounts
  BY RecordOf DEF SwitchOn, At, Waits, Types, ActsOnAccount
<1>2. SameList /\ UNCHANGED <<saves, torn, granted, shown>>
  BY DEF SwitchOn, SameList, list, disk
<1>3. /\ nextTrial \in Ids /\ nextTrial' \in Nat \ {0} /\ Register(nextTrial, ok)
      /\ \E r : FlowTo(f, r)
  BY <1>1, TrialMoves, IdsAre
<1>4. SipType'
  BY <1>2, <1>3, RegisterCommands, CommandsTyped DEF Types
<1> QED
  BY <1>1, <1>2, <1>3, <1>4, MoveTypes, Same

LEMMA FormSubmitTypes ==
  ASSUME Types, NEW f \in Flows, NEW a \in Accounts \cup {NoAccount}, NEW ok \in BOOLEAN,
         FormSubmit(f, a, ok)
  PROVE  Types'
<1> DEFINE s == [Idle EXCEPT !.kind = "form", !.mounted = TRUE, !.acct = a, !.began = a]
<1>1. StartTrial(f, s, ok) /\ s \in FlowRecords /\ ~Waits(f) /\ s.kind = "form"
  BY IdleTyped DEF FormSubmit, Free, At, Waits, FlowRecords, Idle
<1> HIDE DEF s
<1>2. ListType' /\ UNCHANGED <<saves, torn, granted, shown>>
  BY DEF FormSubmit, disk, ids, Types, ListType
<1>3. /\ nextTrial \in Ids /\ nextTrial' \in Nat \ {0} /\ Register(nextTrial, ok)
      /\ \E r : FlowTo(f, r)
  BY <1>1, TrialMoves, IdsAre
<1>4. SipType'
  BY <1>2, <1>3, RegisterCommands, CommandsTyped DEF Types
<1> QED
  BY <1>1, <1>2, <1>3, <1>4, MoveTypes, Same

\* What Finish does, with or without a command.
LEMMA FinishTypes ==
  ASSUME Types, NEW f \in Flows, ~Waits(f), flow' = [flow EXCEPT ![f] = Idle],
         UNCHANGED <<accounts, cards, choice, enabled, unused, raced, nextTrial, saves, torn>>,
         busy' \subseteq busy, SipType'
  PROVE  Types'
<1>1. FlowTo(f, Idle)
  BY FinishMoves
<1>2. ListType' /\ nextTrial' \in Nat \ {0}
  BY DEF Types, ListType, FlowType
<1> QED
  BY <1>1, <1>2, MoveTypes

LEMMA SwitchOffTypes ==
  ASSUME Types, NEW f \in Flows, SwitchOff(f)
  PROVE  Types' /\ flow[f].acct \in Accounts
<1>1. flow[f].acct \in Accounts /\ ~Waits(f) /\ flow[f].acct \in Ids
  BY IdsAre DEF SwitchOff, At, Waits, Types, ActsOnAccount
<1>2. SipType'
  BY <1>1, LeavesCommands, CommandsTyped DEF SwitchOff, Types
<1> QED
  BY <1>1, <1>2, FinishTypes DEF SwitchOff, Finish, list, disk, ids

LEMMA EndTypes ==
  ASSUME Types, NEW f \in Flows, SelectionSaved(f) \/ DialogClosed(f)
  PROVE  Types'
<1>1. SameSip /\ ~Waits(f)
  BY DEF SelectionSaved, DialogClosed, SameSip, sip, At, Waits
<1> QED
  BY <1>1, Same, FinishTypes DEF SelectionSaved, DialogClosed, Finish, list, disk, ids

LEMMA PurgeTypes ==
  ASSUME Types, NEW f \in Flows, At(f, "trial"), Purge(f)
  PROVE  /\ flow[f].trial \in Trials /\ Commands({flow[f].trial})
         /\ engine'[flow[f].trial] = "unknown"
         /\ UNCHANGED <<granted, shown>> => SipType'
<1>1. flow[f].trial \in Trials /\ flow[f].trial \in Ids
  BY IdsAre DEF Types, FlowType
<1> QED
  BY <1>1, LeavesCommands, CommandsTyped DEF Purge, Types

LEMMA SwitchRefusedTypes ==
  ASSUME Types, NEW f \in Flows, SwitchRefused(f)
  PROVE  Types'
<1>1. flow[f].acct \in Accounts /\ ~Waits(f) /\ At(f, "trial")
  BY DEF SwitchRefused, At, Waits, Types, ActsOnAccount
<1>2. SipType'
  BY <1>1, PurgeTypes DEF SwitchRefused
<1>3. CASE flow[f].mounted
  <2>1. Goto(f, "dialog") /\ SameList /\ UNCHANGED <<saves, torn>> /\ nextTrial' \in Nat \ {0}
    BY <1>3 DEF SwitchRefused, Explain, SameList, list, disk, ids, Types, FlowType
  <2>2. \E r : FlowTo(f, r)
    BY <1>1, <2>1, GotoMoves DEF Steps
  <2> QED
    BY <1>1, <1>2, <2>1, <2>2, MoveTypes, Same
<1>4. CASE ~flow[f].mounted
  <2>1. Finish(f)
    BY <1>4 DEF SwitchRefused, Explain
  <2> QED
    BY <1>1, <1>2, <2>1, FinishTypes DEF SwitchRefused, Finish, list, disk, ids
<1> QED
  BY <1>3, <1>4

LEMMA SwitchVerifiedTypes ==
  ASSUME Types, NEW f \in Flows, NEW ok \in BOOLEAN, SwitchVerified(f, ok)
  PROVE  /\ Types'
         /\ flow[f].trial \in Trials /\ flow[f].acct \in Accounts
         /\ Commands({flow[f].trial, flow[f].acct})
         /\ engine'[flow[f].trial] = "unknown"
<1> DEFINE a == flow[f].acct
<1>1. a \in Accounts /\ ~Waits(f) /\ At(f, "trial") /\ flow[f].trial \in Trials
  BY DEF SwitchVerified, At, Waits, Types, ActsOnAccount, FlowType
<1>2. PurgeAndRegister(f, a, ok) /\ UNCHANGED <<accounts, enabled, granted, shown, cards, unused, nextTrial, raced>>
  BY DEF SwitchVerified, ids
<1>3. Commands({flow[f].trial, a}) /\ engine'[flow[f].trial] = "unknown"
  BY <1>1, <1>2, PurgeCommands DEF Types
<1>4. SipType' /\ nextTrial' \in Nat \ {0}
  BY <1>2, <1>3, CommandsTyped DEF Types, FlowType
<1>5. CASE ~ok
  <2>1. SameList /\ UNCHANGED <<flow, saves, torn>>
    BY <1>5, <1>2 DEF SwitchVerified, SameList, disk
  <2> QED
    BY <1>1, <1>2, <1>3, <1>4, <2>1, FlowsStay, Same DEF Types
<1>6. CASE ok /\ selected \cap Range(accounts) # {}
  <2>1. Finish(f) /\ UNCHANGED <<choice, saves, torn>>
    BY <1>6 DEF SwitchVerified, disk
  <2> QED
    BY <1>1, <1>2, <1>3, <1>4, <2>1, FinishTypes DEF Finish
<1>7. CASE ok /\ selected \cap Range(accounts) = {}
  <2>1. Goto(f, "selecting") /\ BeginSave(f) /\ SelectOnly(a) /\ UNCHANGED busy
    BY <1>7 DEF SwitchVerified
  <2>2. PICK r : FlowTo(f, r) /\ r.at = "selecting"
    BY <1>1, <2>1, GotoMoves DEF Steps
  <2>3. ListType'
    BY <1>1, <1>2, <2>1 DEF SelectOnly, Types, ListType
  <2>4. FlowType' /\ ActsOnAccount' /\ DiskType' /\ SavesAwaited'
    BY <1>1, <1>4, <2>1, <2>2, FlowToSaves
  <2> QED
    BY <1>1, <1>3, <1>4, <2>3, <2>4 DEF Types
<1> QED
  BY <1>5, <1>6, <1>7
LEMMA FormEndsTypes ==
  ASSUME Types, NEW f \in Flows, FormRefused(f) \/ FormDropped(f)
  PROVE  Types'
<1>1. At(f, "trial") /\ Purge(f) /\ ~Waits(f) /\ flow' = [flow EXCEPT ![f] = Idle]
  BY DEF FormRefused, FormDropped, At, Waits
<1>2. /\ UNCHANGED <<accounts, cards, choice, enabled, unused, raced, nextTrial, saves, torn>>
      /\ UNCHANGED <<busy, granted, shown>>
  BY DEF FormRefused, FormDropped, list, disk, ids
<1>3. SipType'
  BY <1>1, <1>2, PurgeTypes
<1> QED
  BY <1>1, <1>2, <1>3, FinishTypes

LEMMA FormerTyped ==
  ASSUME ListType, NEW a \in Accounts
  PROVE  Former(a) \in [Flows -> {"listed", "selected", "unselected"}]
BY DEF Former, ListType

LEMMA FormVerifiedTypes ==
  ASSUME Types, NEW f \in Flows, NEW a \in Accounts, FormVerified(f, a)
  PROVE  /\ Types'
         /\ \E r : FlowTo(f, r) /\ r.at = "saving" /\ r.acct = a /\ r.kind = "form"
<1> DEFINE r == [flow[f] EXCEPT !.at = "saving", !.acct = a]
<1>1. At(f, "trial") /\ Purge(f) /\ ~Waits(f) /\ BeginSave(f) /\ ~Switch(f)
  BY DEF FormVerified, At, Waits
<1>2. r \in FlowRecords /\ r.at = "saving" /\ r.acct = a /\ r.kind = "form"
  BY <1>1, RecordOf DEF FlowRecords, Steps, Types, Switch
<1>3. flow' = [flow EXCEPT ![f] = r]
  BY DEF FormVerified, Types, FlowType
<1> HIDE DEF r
<1>4. FlowTo(f, r)
  BY <1>2, <1>3 DEF FlowTo
<1>5. /\ UNCHANGED <<granted, shown, cards, busy, nextTrial, raced>>
      /\ accounts' \in Seq(Accounts) /\ selected' \subseteq Accounts
      /\ enabled' \subseteq Accounts /\ unused' \subseteq Accounts
      /\ existing' \in [Flows -> {"listed", "selected", "unselected"}] /\ reverted' \in BOOLEAN
  <2>1. Append(accounts, a) \in Seq(Accounts)
    BY AppendRange DEF Types, ListType
  <2>2. SelectedByForm(f, a)
    BY DEF FormVerified
  <2>3. selected' \subseteq Accounts /\ reverted' \in BOOLEAN
    BY <2>2 DEF SelectedByForm, Types, ListType
  <2>4. existing' \in [Flows -> {"listed", "selected", "unselected"}]
    BY <2>2, FormerTyped DEF SelectedByForm, Types
  <2> QED
    BY <2>1, <2>3, <2>4 DEF FormVerified, Types, ListType
<1>6. ListType' /\ SipType' /\ nextTrial' \in Nat \ {0}
  BY <1>1, <1>5, PurgeTypes DEF Types, ListType, FlowType
<1>7. FlowType' /\ ActsOnAccount' /\ DiskType' /\ SavesAwaited'
  BY <1>1, <1>2, <1>4, <1>6, FlowToSaves
<1> QED
  BY <1>2, <1>4, <1>6, <1>7 DEF Types

LEMMA FormSavedTypes ==
  ASSUME Types, NEW f \in Flows, NEW ok \in BOOLEAN, FormSaved(f, ok)
  PROVE  Types' /\ flow[f].acct \in Accounts /\ Commands({flow[f].acct})
<1>1. flow[f].acct \in Accounts /\ flow[f].acct \in Ids /\ ~Waits(f)
  BY IdsAre DEF FormSaved, At, Waits, Types, ActsOnAccount
<1>2. Commands({flow[f].acct})
  BY <1>1, RegisterCommands DEF FormSaved, Types
<1>3. SipType'
  BY <1>2, CommandsTyped DEF FormSaved, Types
<1>4. CASE ok
  BY <1>1, <1>2, <1>3, <1>4, FinishTypes DEF FormSaved, list, disk, ids
<1>5. CASE ~ok
  <2>1. SameList /\ UNCHANGED <<flow, nextTrial, saves, torn>>
    BY <1>5 DEF FormSaved, SameList, list, disk, ids
  <2> QED
    BY <1>1, <1>2, <1>3, <2>1, FlowsStay, Same DEF Types
<1> QED
  BY <1>4, <1>5

\* A flow stays where it is, and about the same account.
Stays(f) ==
  /\ flow'[f] \in FlowRecords
  /\ flow'[f].at = flow[f].at /\ flow'[f].kind = flow[f].kind /\ flow'[f].trial = flow[f].trial

LEMMA StayTypes ==
  ASSUME Types, UNCHANGED <<saves, torn, nextTrial>>,
         flow' \in [Flows -> FlowRecords],
         \A f \in Flows : Stays(f) /\ (flow'[f].acct = flow[f].acct \/ flow'[f].acct \in Accounts)
  PROVE  FlowType' /\ ActsOnAccount' /\ DiskType' /\ SavesAwaited'
<1>1. FlowType'
  BY DEF Types, FlowType, At, Stays
<1>2. ActsOnAccount'
  BY DEF Types, ActsOnAccount, At, Switch, Stays
<1>3. torn' \in BOOLEAN /\ UNCHANGED saves /\ \A g \in Flows : Waits(g) => flow'[g].at = flow[g].at
  BY DEF Types, DiskType, Stays
<1> QED
  BY <1>1, <1>2, <1>3, WaitingKept DEF Types

LEMMA FormLeftMoves ==
  ASSUME Types, NEW f \in Flows, FormLeft(f) \/ TrialTimeout(f)
  PROVE  /\ flow' \in [Flows -> FlowRecords]
         /\ \A g \in Flows : Stays(g) /\ flow'[g].acct = flow[g].acct /\ flow'[g].on = flow[g].on
         /\ \A g \in Flows : flow'[g].verdict \in {flow[g].verdict, "failure"}
<1>1. flow \in [Flows -> FlowRecords] /\ flow[f] \in FlowRecords
  BY DEF Types, FlowType
<1>2. CASE FormLeft(f)
  <2> DEFINE r == [flow[f] EXCEPT !.mounted = FALSE]
  <2>1. flow' = [flow EXCEPT ![f] = r]
    BY <1>1, <1>2 DEF FormLeft
  <2>2. /\ r \in FlowRecords /\ r.at = flow[f].at /\ r.kind = flow[f].kind
        /\ r.trial = flow[f].trial /\ r.acct = flow[f].acct /\ r.on = flow[f].on
        /\ r.verdict = flow[f].verdict
    BY <1>1 DEF FlowRecords
  <2> HIDE DEF r
  <2> QED
    BY <1>1, <2>1, <2>2 DEF Stays
<1>3. CASE TrialTimeout(f)
  <2> DEFINE r == [flow[f] EXCEPT !.verdict = "failure"]
  <2>1. flow' = [flow EXCEPT ![f] = r]
    BY <1>1, <1>3 DEF TrialTimeout
  <2>2. /\ r \in FlowRecords /\ r.at = flow[f].at /\ r.kind = flow[f].kind
        /\ r.trial = flow[f].trial /\ r.acct = flow[f].acct /\ r.on = flow[f].on
        /\ r.verdict = "failure"
    BY <1>1 DEF FlowRecords
  <2> HIDE DEF r
  <2> QED
    BY <1>1, <2>1, <2>2 DEF Stays
<1> QED
  BY <1>2, <1>3

LEMMA FormLeftTypes ==
  ASSUME Types, NEW f \in Flows, FormLeft(f) \/ TrialTimeout(f)
  PROVE  Types'
<1>1. SameList /\ SameSip /\ UNCHANGED <<saves, torn, nextTrial>>
  BY DEF FormLeft, TrialTimeout, SameList, SameSip, list, disk, sip, ids
<1> QED
  BY <1>1, FormLeftMoves, StayTypes, Same DEF Types

\* Leaving the tab changes nothing that counts here.
LEMMA UnmountedMoves ==
  ASSUME NEW fs \in [Flows -> FlowRecords]
  PROVE  /\ Unmounted(fs) \in [Flows -> FlowRecords]
         /\ \A g \in Flows :
              LET u == Unmounted(fs)[g] IN
              /\ u.at = fs[g].at /\ u.kind = fs[g].kind /\ u.trial = fs[g].trial
              /\ u.acct = fs[g].acct /\ u.on = fs[g].on /\ u.verdict = fs[g].verdict
<1>1. ASSUME NEW g \in Flows, NEW u, u = Unmounted(fs)[g]
      PROVE  /\ u \in FlowRecords
             /\ u.at = fs[g].at /\ u.kind = fs[g].kind /\ u.trial = fs[g].trial
             /\ u.acct = fs[g].acct /\ u.on = fs[g].on /\ u.verdict = fs[g].verdict
  <2> DEFINE v == [[fs[g] EXCEPT !.card = NoCard] EXCEPT !.mounted = FALSE]
  <2>1. fs[g] \in FlowRecords
    OBVIOUS
  <2>2. u = fs[g] \/ u = v
    BY <1>1 DEF Unmounted
  <2>3. v \in FlowRecords
    <3>1. NoCard \in Nat
      BY DEF NoCard
    <3>2. [fs[g] EXCEPT !.card = NoCard] \in FlowRecords
      BY <2>1, <3>1 DEF FlowRecords
    <3> QED
      BY <3>2 DEF FlowRecords
  <2>4. /\ v.at = fs[g].at /\ v.kind = fs[g].kind /\ v.trial = fs[g].trial
        /\ v.acct = fs[g].acct /\ v.on = fs[g].on /\ v.verdict = fs[g].verdict
    BY <2>1 DEF FlowRecords
  <2> HIDE DEF v
  <2> QED
    BY <2>1, <2>2, <2>3, <2>4
<1>2. Unmounted(fs) = [g \in Flows |-> Unmounted(fs)[g]]
  BY DEF Unmounted
<1> QED
  BY <1>1, <1>2

LEMMA JudgedMoves ==
  ASSUME Types, NEW e \in EventRecords
  PROVE  /\ Judged(e) \in [Flows -> FlowRecords]
         /\ \A g \in Flows :
              LET j == Judged(e)[g] IN
              /\ j.at = flow[g].at /\ j.kind = flow[g].kind /\ j.trial = flow[g].trial
              /\ j.acct = flow[g].acct /\ j.on = flow[g].on /\ j.verdict = Verdict(g, e)
<1>1. flow \in [Flows -> FlowRecords]
  BY DEF Types, FlowType
<1>2. \A g \in Flows : Verdict(g, e) \in {"none", "success", "failure"}
  BY <1>1 DEF Verdict, FlowRecords
<1> QED
  BY <1>1, <1>2 DEF Judged, FlowRecords
LEMMA HandleEventMoves ==
  ASSUME Types, HandleEvent
  PROVE  /\ events # <<>> /\ Head(events) \in EventRecords
         /\ events' = Tail(events) /\ events' \in Seq(EventRecords)
         /\ shown' = [shown EXCEPT ![Head(events).id] = Head(events).state]
         /\ flow' \in [Flows -> FlowRecords]
         /\ \A g \in Flows : /\ Stays(g) /\ flow'[g].acct = flow[g].acct /\ flow'[g].on = flow[g].on
                             /\ flow'[g].verdict = Verdict(g, Head(events))
         /\ UNCHANGED <<list, disk, engine, stuck, granted, busy, ids, raced>>
         /\ cards' \in Seq(Accounts)
<1> DEFINE e == Head(events)
<1>1. events # <<>> /\ e \in EventRecords /\ Tail(events) \in Seq(EventRecords)
  BY HeadTailProperties DEF HandleEvent, Types, SipType
<1>2. flow' = Judged(e) \/ flow' = Unmounted(Judged(e))
  BY DEF HandleEvent
<1>3. cards' \in Seq(Accounts)
  <2>1. <<>> \in Seq(Accounts)
    OBVIOUS
  <2> QED
    BY <2>1 DEF HandleEvent, Types, ListType
<1>4. events' = Tail(events) /\ shown' = [shown EXCEPT ![e.id] = e.state]
      /\ UNCHANGED <<list, disk, engine, stuck, granted, busy, ids, raced>>
  BY DEF HandleEvent
<1> HIDE DEF e
<1>5. Judged(e) \in [Flows -> FlowRecords]
  BY <1>1, JudgedMoves
<1>6. /\ flow' \in [Flows -> FlowRecords]
      /\ \A g \in Flows :
           /\ flow'[g].at = Judged(e)[g].at /\ flow'[g].kind = Judged(e)[g].kind
           /\ flow'[g].trial = Judged(e)[g].trial /\ flow'[g].acct = Judged(e)[g].acct
           /\ flow'[g].on = Judged(e)[g].on /\ flow'[g].verdict = Judged(e)[g].verdict
  BY <1>2, <1>5, UnmountedMoves
<1>7. \A g \in Flows : /\ Stays(g) /\ flow'[g].acct = flow[g].acct /\ flow'[g].on = flow[g].on
                       /\ flow'[g].verdict = Verdict(g, e)
  BY <1>1, <1>6, JudgedMoves DEF Stays
<1> QED
  BY <1>1, <1>3, <1>4, <1>6, <1>7 DEF e

LEMMA HandleEventTypes ==
  ASSUME Types, HandleEvent
  PROVE  Types'
<1>1. ListType'
  BY HandleEventMoves DEF Types, ListType, list, ids
<1>2. SipType'
  BY HandleEventMoves DEF Types, SipType, EventRecords
<1>3. UNCHANGED <<saves, torn, nextTrial>>
  BY HandleEventMoves DEF disk, ids
<1>4. FlowType' /\ ActsOnAccount' /\ DiskType' /\ SavesAwaited'
  BY <1>3, HandleEventMoves, StayTypes
<1> QED
  BY <1>1, <1>2, <1>4 DEF Types

LEMMA ResultTypes ==
  ASSUME Types, NEW id \in Ids, RegistrationResult(id)
  PROVE  Types'
<1>1. SameList /\ UNCHANGED <<flow, nextTrial, saves, torn>>
  BY DEF RegistrationResult, SameList, list, disk, screen, ids
<1>2. SipType'
  <2>1. PICK state \in {"Registered", "Failed"} :
          /\ events' = Append(events, Event(id, state))
          /\ granted' = IF state = "Registered" THEN granted \cup ({id} \cap Trials) ELSE granted
    BY DEF RegistrationResult
  <2>2. Event(id, state) \in EventRecords
    BY EventTyped DEF RegistrationState
  <2>3. events' \in Seq(EventRecords)
    BY <2>1, <2>2, AppendProperties DEF Types, SipType
  <2> QED
    BY <2>1, <2>3 DEF RegistrationResult, Types, SipType
<1> QED
  BY <1>1, <1>2, FlowsStay, Same DEF Types

LEMMA DeleteMoves ==
  ASSUME Types, NEW k \in DOMAIN cards, DeleteAccount(k)
  PROVE  /\ cards[k] \in Accounts /\ Commands({cards[k]}) /\ engine'[cards[k]] = "unknown"
         /\ UNCHANGED <<reverted, enabled, granted, shown, screen, ids>>
         /\ existing' \in {existing, Former(cards[k])}
         /\ ~Listed(cards[k]) => UNCHANGED <<accounts, selected, disk>>
         /\ Listed(cards[k]) => /\ accounts' = Without(accounts, cards[k])
                                /\ selected' = SelectedAfter(cards[k])
                                /\ BeginSave(NoFlow)
         /\ raced' \subseteq raced \cup {cards[k]} /\ raced \subseteq raced'
<1>1. cards[k] \in Accounts /\ cards[k] \in Ids
  BY RangeTyped, IdsAre DEF Types, ListType
<1>2. Leaves(cards[k], "unknown")
  BY DEF DeleteAccount, Remove
<1>3. Commands({cards[k]}) /\ engine'[cards[k]] = "unknown"
  BY <1>1, <1>2, LeavesCommands DEF Types
<1> QED
  BY <1>1, <1>3 DEF DeleteAccount

\* The list and the selection after an account has been taken out.
LEMMA SelectedAfterTyped ==
  ASSUME ListType, NEW a \in Range(accounts)
  PROVE  /\ Without(accounts, a) \in Seq(Accounts)
         /\ SelectedAfter(a) \subseteq Accounts
<1>1. Without(accounts, a) \in Seq(Accounts) /\ Len(Without(accounts, a)) = Len(accounts) - 1
  BY WithoutProperties DEF ListType
<1>2. CASE a \in selected /\ Len(accounts) > 1
  <2>1. Without(accounts, a) # <<>>
    BY <1>1, <1>2 DEF ListType
  <2>2. Head(Without(accounts, a)) \in Accounts /\ selected \subseteq Accounts
    BY <1>1, <2>1 DEF ListType
  <2> QED
    BY <1>1, <1>2, <2>2 DEF SelectedAfter
<1>3. CASE ~(a \in selected /\ Len(accounts) > 1)
  BY <1>1, <1>3 DEF SelectedAfter, ListType
<1> QED
  BY <1>2, <1>3

LEMMA DeleteTypes ==
  ASSUME Types, NEW k \in DOMAIN cards, DeleteAccount(k)
  PROVE  Types'
<1>1. SipType'
  BY DeleteMoves, CommandsTyped DEF Types
<1>2. /\ UNCHANGED <<enabled, cards, busy, unused, flow, nextTrial>>
      /\ raced' \subseteq Accounts /\ reverted' \in BOOLEAN
      /\ existing' \in [Flows -> {"listed", "selected", "unselected"}]
  <2>1. Former(cards[k]) \in [Flows -> {"listed", "selected", "unselected"}]
    BY DeleteMoves, FormerTyped DEF Types
  <2> QED
    BY <2>1, DeleteMoves DEF screen, ids, Types, ListType
<1>3. CASE Listed(cards[k])
  <2>1. accounts' \in Seq(Accounts) /\ selected' \subseteq Accounts /\ BeginSave(NoFlow)
    BY <1>3, DeleteMoves, SelectedAfterTyped DEF Types, Listed
  <2>2. ListType'
    BY <1>2, <2>1 DEF Types, ListType
  <2> QED
    BY <1>1, <1>2, <2>1, <2>2, FlowsStay DEF Types
<1>4. CASE ~Listed(cards[k])
  <2>1. UNCHANGED <<accounts, selected, saves, torn>>
    BY <1>4, DeleteMoves DEF disk
  <2>2. ListType'
    BY <1>2, <2>1 DEF Types, ListType
  <2> QED
    BY <1>1, <1>2, <2>1, <2>2, FlowsStay DEF Types
<1> QED
  BY <1>3, <1>4

LEMMA SelectTypes ==
  ASSUME Types, NEW a \in Accounts, SelectAccount(a)
  PROVE  Types'
<1>1. SameSip /\ UNCHANGED <<flow, nextTrial>> /\ BeginSave(NoFlow)
  BY DEF SelectAccount, SameSip, sip, screen, ids
<1>2. ListType'
  BY DEF SelectAccount, SelectOnly, screen, ids, Types, ListType
<1> QED
  BY <1>1, <1>2, FlowsStay, Same DEF Types

LEMMA RebuildMoves ==
  ASSUME Types, Rebuild \/ LeaveTab
  PROVE  /\ flow' \in [Flows -> FlowRecords]
         /\ \A g \in Flows :
              /\ Stays(g) /\ flow'[g].on = flow[g].on /\ flow'[g].verdict = flow[g].verdict
              /\ flow'[g].acct = flow[g].acct \/ flow'[g].acct \in Range(accounts)
              /\ ~Switch(g) => flow'[g].acct = flow[g].acct
         /\ UNCHANGED <<list, disk, sip, granted, shown, busy, ids, raced>>
         /\ cards' \in Seq(Accounts)
<1>1. flow \in [Flows -> FlowRecords] /\ accounts \in Seq(Accounts) /\ <<>> \in Seq(Accounts)
  BY DEF Types, FlowType, ListType
<1>2. CASE LeaveTab
  <2>1. flow' = Unmounted(flow)
    BY <1>2 DEF LeaveTab
  <2>2. UNCHANGED <<list, disk, sip, granted, shown, busy, ids, raced>> /\ cards' \in Seq(Accounts)
    BY <1>1, <1>2 DEF LeaveTab
  <2> QED
    BY <1>1, <2>1, <2>2, UnmountedMoves DEF Stays
<1>3. CASE Rebuild
  <2> DEFINE R(f) == IF ~(Switch(f) /\ flow[f].mounted) THEN flow[f]
                     ELSE IF flow[f].card \in DOMAIN accounts
                          THEN [flow[f] EXCEPT !.acct = accounts[flow[f].card]]
                          ELSE [flow[f] EXCEPT !.card = NoCard, !.mounted = FALSE]
  <2>1. flow' = [f \in Flows |-> R(f)]
    BY <1>3 DEF Rebuild
  <2>2. ASSUME NEW g \in Flows
        PROVE  /\ R(g) \in FlowRecords
               /\ R(g).at = flow[g].at /\ R(g).kind = flow[g].kind /\ R(g).trial = flow[g].trial
               /\ R(g).on = flow[g].on /\ R(g).verdict = flow[g].verdict
               /\ R(g).acct = flow[g].acct \/ R(g).acct \in Range(accounts)
               /\ ~Switch(g) => R(g).acct = flow[g].acct
    <3>1. flow[g] \in FlowRecords
      BY <1>1
    <3>2. CASE ~(Switch(g) /\ flow[g].mounted)
      BY <3>1, <3>2
    <3>3. CASE Switch(g) /\ flow[g].mounted /\ flow[g].card \in DOMAIN accounts
      <4>1. accounts[flow[g].card] \in Accounts /\ accounts[flow[g].card] \in Range(accounts)
        BY <1>1, <3>3, RangeTyped
      <4> QED
        BY <3>1, <3>3, <4>1 DEF FlowRecords
    <3>4. CASE Switch(g) /\ flow[g].mounted /\ flow[g].card \notin DOMAIN accounts
      BY <3>1, <3>4 DEF FlowRecords
    <3> QED
      BY <3>2, <3>3, <3>4
  <2> HIDE DEF R
  <2>3. UNCHANGED <<list, disk, sip, granted, shown, busy, ids, raced>> /\ cards' \in Seq(Accounts)
    BY <1>1, <1>3 DEF Rebuild
  <2>4. flow' \in [Flows -> FlowRecords]
    BY <2>1, <2>2
  <2> QED
    BY <2>1, <2>2, <2>3, <2>4 DEF Stays
<1> QED
  BY <1>2, <1>3

LEMMA RebuildTypes ==
  ASSUME Types, Rebuild \/ LeaveTab
  PROVE  Types'
<1>1. ListType'
  BY RebuildMoves DEF list, ids, Types, ListType
<1>2. SameSip /\ UNCHANGED <<saves, torn, nextTrial>>
  BY RebuildMoves DEF sip, disk, ids, SameSip
<1>3. Range(accounts) \subseteq Accounts
  BY RangeTyped DEF Types, ListType
<1>4. \A f \in Flows : Stays(f) /\ (flow'[f].acct = flow[f].acct \/ flow'[f].acct \in Accounts)
  BY <1>3, RebuildMoves
<1>5. FlowType' /\ ActsOnAccount' /\ DiskType' /\ SavesAwaited'
  BY <1>2, <1>4, RebuildMoves, StayTypes
<1> QED
  BY <1>1, <1>2, <1>5, Same DEF Types

LEMMA SaveTypes ==
  ASSUME Types, NEW w \in Slots, SaveStep(w)
  PROVE  Types'
<1>1. CASE Encode(w)
  <2>1. SameList /\ SameSip /\ UNCHANGED <<flow, nextTrial>>
    BY <1>1 DEF Encode, SameList, SameSip, list, sip, screen, ids
  <2>2. FlowType' /\ ActsOnAccount'
    BY <2>1 DEF Types, FlowType, ActsOnAccount, At, Switch
  <2> QED
    BY <1>1, <2>1, <2>2, EncodeTyped, Same DEF Types
<1>2. CASE Write(w)
  <2>1. SameList /\ SameSip
    BY <1>2 DEF Write, SameList, SameSip, list, sip, ids
  <2> QED
    BY <1>2, <2>1, WriteTyped, Same DEF Types
<1> QED
  BY <1>1, <1>2 DEF SaveStep
-----------------------------------------------------------------------------
(* The start *)

\* There are n saved accounts, for every n that Init allows, and an order of
\* them.
LEMMA SavedExist ==
  ASSUME NEW n \in 0 .. Cardinality(Accounts)
  PROVE  \E S \in SUBSET Accounts : Cardinality(S) = n
<1>1. Cardinality(Accounts) \in Nat /\ ExistsBijection(1 .. Cardinality(Accounts), Accounts)
  BY FS_CardinalityType
<1>2. PICK b : b \in Bijection(1 .. Cardinality(Accounts), Accounts)
  BY <1>1 DEF ExistsBijection
<1> DEFINE S == {b[i] : i \in 1 .. n}
           c == [i \in 1 .. n |-> b[i]]
<1>3. n \in Nat /\ 1 .. n \subseteq 1 .. Cardinality(Accounts)
  BY <1>1
<1>4. S \subseteq Accounts
  BY <1>2, <1>3 DEF Bijection, Injection
<1>5. c \in Bijection(1 .. n, S)
  BY <1>2, <1>3 DEF Bijection, Injection, Surjection, IsInjective
<1>6. Cardinality(S) = n
  BY <1>3, <1>5, FS_CountingElements DEF ExistsBijection
<1> QED
  BY <1>4, <1>6

LEMMA OrderExists ==
  ASSUME NEW S \in SUBSET Accounts, NEW n \in Nat, Cardinality(S) = n
  PROVE  \E s \in [1 .. n -> S] : Range(s) = S
<1>1. IsFiniteSet(S)
  BY FS_Subset
<1>2. PICK b : b \in Bijection(1 .. n, S)
  BY <1>1, FS_CardinalityType DEF ExistsBijection
<1>3. b \in [1 .. n -> S] /\ Range(b) = S
  BY <1>2 DEF Bijection, Surjection, Injection, Range
<1> QED
  BY <1>3

LEMMA InitList ==
  ASSUME Init
  PROVE  /\ accounts \in Seq(Accounts) /\ unused = Accounts \ Range(accounts)
         /\ enabled \in {Range(accounts), {}}
<1>1. PICK n \in 0 .. Cardinality(Accounts) :
        LET saved == CHOOSE S \in SUBSET Accounts : Cardinality(S) = n IN
          /\ accounts = CHOOSE s \in [1 .. n -> saved] : Range(s) = saved
          /\ enabled \in {saved, {}}
          /\ unused = Accounts \ saved
  BY DEF Init
<1> DEFINE saved == CHOOSE S \in SUBSET Accounts : Cardinality(S) = n
<1>2. n \in Nat
  BY FS_CardinalityType
<1>3. saved \in SUBSET Accounts /\ Cardinality(saved) = n
  BY SavedExist
<1>4. /\ accounts = CHOOSE s \in [1 .. n -> saved] : Range(s) = saved
      /\ enabled \in {saved, {}}
      /\ unused = Accounts \ saved
  BY <1>1
<1> HIDE DEF saved
<1>5. accounts \in [1 .. n -> saved] /\ Range(accounts) = saved
  BY <1>2, <1>3, <1>4, OrderExists
<1>6. accounts \in Seq(saved)
  BY <1>2, <1>5
<1>7. accounts \in Seq(Accounts)
  BY <1>3, <1>6, SeqMonotonic
<1> QED
  BY <1>4, <1>5, <1>7

LEMMA InitTypes == Init => Types
<1> SUFFICES ASSUME Init PROVE Types
  OBVIOUS
<1>1. ListType
  <2>1. Range(accounts) \subseteq Accounts
    BY InitList, RangeTyped
  <2>2. selected \subseteq Accounts
    BY InitList, HeadListed DEF Init
  <2>3. <<>> \in Seq(Accounts)
    OBVIOUS
  <2> QED
    BY <2>1, <2>2, <2>3, InitList DEF Init, ListType
<1>2. SipType
  <2>1. <<>> \in Seq(EventRecords)
    OBVIOUS
  <2> QED
    BY <2>1 DEF Init, SipType, RegistrationState
<1>3. FlowType /\ ActsOnAccount
  BY IdleTyped DEF Init, FlowType, ActsOnAccount, At, Idle
<1>4. DiskType /\ SavesAwaited
  <2>1. NoSave \in SaveRecords /\ NoSave.by = NoFlow
    BY DataTyped, <1>1 DEF NoSave, SaveRecords
  <2> QED
    BY <2>1 DEF Init, DiskType, SavesAwaited
<1> QED
  BY <1>1, <1>2, <1>3, <1>4 DEF Types

LEMMA StepTypes == Types /\ [Next]_vars => Types'
<1> SUFFICES ASSUME Types, [Next]_vars PROVE Types'
  OBVIOUS
<1>1. CASE UNCHANGED vars
  <2>1. SameList /\ SameSip /\ UNCHANGED <<flow, nextTrial, saves, torn>>
    BY <1>1 DEF vars, SameList, SameSip, list, disk, sip, screen, ids
  <2> QED
    BY <2>1, FlowsStay, Same DEF Types
<1>2. CASE User
  <2>1. \A a \in Range(cards) \cup {NoAccount} : a \in Accounts \cup {NoAccount}
    BY RangeTyped DEF Types, ListType
  <2> QED
    BY <1>2, <2>1, ToggleTypes, FormSubmitTypes, FormLeftTypes, EndTypes, DeleteTypes,
       SelectTypes, RebuildTypes DEF User
<1>3. ASSUME NEW f \in Flows, FlowStep(f) \/ TrialTimeout(f) PROVE Types'
  BY <1>3, SwitchOnTypes, SwitchVerifiedTypes, FormSavedTypes, SwitchOffTypes,
     SwitchRefusedTypes, EndTypes, FormEndsTypes, FormVerifiedTypes, FormLeftTypes
     DEF FlowStep
<1> QED
  BY <1>1, <1>2, <1>3, HandleEventTypes, RebuildTypes, ResultTypes, SaveTypes DEF Next

\* Records, references and ids of the flows and the saves are well formed,
\* and each flow waits for one save at most.
THEOREM Inductive == Spec => []Types
BY InitTypes, StepTypes, PTL DEF Spec

\* Type correctness, for any accounts and bounds.
THEOREM TypeCorrect == Spec => []TypeOK
BY Inductive, TypesSuffice, PTL
-----------------------------------------------------------------------------
(* The selected account *)

SelectedInv ==
  /\ selected \subseteq Range(accounts)
  /\ accounts # <<>> /\ ~reverted => \E a \in Accounts : selected = {a}

LEMMA SelectedSuffices == SelectedInv => OneSelected
BY FS_Singleton DEF SelectedInv, OneSelected

\* The steps that change the list or the selection.
LEMMA ListSteps ==
  ASSUME Types, [Next]_vars
  PROVE  \/ UNCHANGED <<accounts, selected, reverted>>
         \/ \E f \in Flows, ok \in BOOLEAN : SwitchVerified(f, ok)
         \/ \E f \in Flows, a \in Accounts : FormVerified(f, a)
         \/ \E k \in DOMAIN cards : DeleteAccount(k)
         \/ \E a \in Accounts : SelectAccount(a)
<1>1. CASE HandleEvent \/ Rebuild \/ \E id \in Ids : RegistrationResult(id)
  BY <1>1 DEF HandleEvent, Rebuild, RegistrationResult, list
<1>2. ASSUME NEW w \in Slots, SaveStep(w) PROVE UNCHANGED <<accounts, selected, reverted>>
  BY <1>2 DEF SaveStep, Encode, Write, list
<1>3. ASSUME NEW f \in Flows, NEW ok \in BOOLEAN,
             \/ TrialTimeout(f) \/ SwitchOn(f, ok) \/ SwitchOff(f) \/ SwitchRefused(f)
             \/ SelectionSaved(f) \/ FormRefused(f) \/ FormDropped(f) \/ FormSaved(f, ok)
      PROVE  UNCHANGED <<accounts, selected, reverted>>
  BY <1>3 DEF TrialTimeout, SwitchOn, SwitchOff, SwitchRefused, SelectionSaved, FormRefused,
              FormDropped, FormSaved, list
<1>4. ASSUME User
      PROVE  \/ UNCHANGED <<accounts, selected, reverted>>
             \/ \E k \in DOMAIN cards : DeleteAccount(k)
             \/ \E a \in Accounts : SelectAccount(a)
  BY <1>4 DEF User, Toggle, FormSubmit, FormLeft, DialogClosed, LeaveTab, list
<1> QED
  BY <1>1, <1>2, <1>3, <1>4 DEF Next, FlowStep, vars, list

LEMMA DeleteSelects ==
  ASSUME ListType, SelectedInv, NEW a \in Range(accounts),
         accounts' = Without(accounts, a), selected' = SelectedAfter(a), UNCHANGED reverted
  PROVE  SelectedInv'
<1> DEFINE rest == Without(accounts, a)
<1>1. /\ rest \in Seq(Accounts) /\ Len(rest) = Len(accounts) - 1
      /\ \A b \in Range(accounts) : b # a => b \in Range(rest)
  BY WithoutProperties DEF ListType
<1>2. accounts \in Seq(Accounts) /\ accounts # <<>> /\ Len(accounts) \in Nat /\ Len(accounts) >= 1
  BY DEF ListType, Range
<1>3. Len(accounts) > 1 => rest # <<>> /\ Head(rest) \in Range(rest) /\ Head(rest) \in Accounts
  <2>1. Len(accounts) > 1 => rest # <<>>
    BY <1>1, <1>2
  <2> QED
    BY <1>1, <2>1, HeadListed
<1>4. selected' \subseteq Range(rest)
  BY <1>1, <1>3 DEF SelectedInv, SelectedAfter
<1>5. ASSUME rest # <<>>, ~reverted PROVE \E b \in Accounts : selected' = {b}
  <2>1. PICK b \in Accounts : selected = {b}
    BY <1>2, <1>5 DEF SelectedInv
  <2>2. Len(accounts) > 1
    BY <1>1, <1>2, <1>5
  <2> QED
    BY <1>3, <2>1, <2>2 DEF SelectedAfter
<1> QED
  BY <1>4, <1>5 DEF SelectedInv

LEMMA SelectOnlySelects ==
  ASSUME ListType, SelectedInv, NEW a \in Accounts, SelectOnly(a), UNCHANGED accounts,
         Listed(a) \/ selected = {}
  PROVE  SelectedInv'
<1>1. CASE Listed(a)
  BY <1>1 DEF SelectOnly, SelectedInv, Listed
<1>2. CASE ~Listed(a)
  BY <1>2 DEF SelectOnly, SelectedInv, Listed
<1> QED
  BY <1>1, <1>2

LEMMA SelectedStep == Types /\ SelectedInv /\ [Next]_vars => SelectedInv'
<1> SUFFICES ASSUME Types, SelectedInv, [Next]_vars PROVE SelectedInv'
  OBVIOUS
<1>1. CASE UNCHANGED <<accounts, selected, reverted>>
  BY <1>1 DEF SelectedInv
<1>2. ASSUME NEW f \in Flows, NEW ok \in BOOLEAN, SwitchVerified(f, ok)
      PROVE  SelectedInv'
  <2>1. CASE UNCHANGED <<selected, reverted>>
    BY <1>1, <1>2, <2>1 DEF SwitchVerified
  <2>2. CASE ~UNCHANGED <<selected, reverted>>
    <3>1. /\ selected \cap Range(accounts) = {} /\ UNCHANGED accounts
          /\ SelectOnly(flow[f].acct) /\ flow[f].acct \in Accounts
      BY <1>2, <2>2, SwitchVerifiedTypes DEF SwitchVerified
    <3>2. selected = {}
      BY <3>1 DEF SelectedInv
    <3> QED
      BY <3>1, <3>2, SelectOnlySelects DEF Types
  <2> QED
    BY <2>1, <2>2
<1>3. ASSUME NEW f \in Flows, NEW a \in Accounts, FormVerified(f, a)
      PROVE  SelectedInv'
  <2>0. SelectedByForm(f, a)
    BY <1>3 DEF FormVerified
  <2>1. CASE Listed(a)
    <3>1. accounts # <<>> /\ UNCHANGED accounts /\ a \in Range(accounts)
      BY <1>3, <2>1 DEF Listed, Range, FormVerified
    <3>2. selected' \subseteq Range(accounts)
      BY <2>0, <2>1, <3>1 DEF SelectedByForm, SelectedInv
    <3>3. ~reverted' => ~reverted /\ UNCHANGED selected
      BY <2>0, <2>1 DEF SelectedByForm
    <3> QED
      BY <3>1, <3>2, <3>3 DEF SelectedInv
  <2>2. CASE ~Listed(a)
    <3>1. /\ accounts' = Append(accounts, a) /\ reverted' = reverted
          /\ selected' = IF accounts = <<>> THEN {a} ELSE selected
      BY <1>3, <2>0, <2>2 DEF FormVerified, SelectedByForm, Types, ListType
    <3>2. Range(accounts') = Range(accounts) \cup {a}
      BY <3>1, AppendRange DEF Types, ListType
    <3> QED
      BY <3>1, <3>2 DEF SelectedInv
  <2> QED
    BY <2>1, <2>2
<1>4. ASSUME NEW k \in DOMAIN cards, DeleteAccount(k)
      PROVE  SelectedInv'
  <2>1. CASE Listed(cards[k])
    BY <1>4, <2>1, DeleteMoves, DeleteSelects DEF Types, Listed
  <2>2. CASE ~Listed(cards[k])
    BY <1>4, <2>2, <1>1, DeleteMoves
  <2> QED
    BY <2>1, <2>2
<1>5. ASSUME NEW a \in Accounts, SelectAccount(a)
      PROVE  SelectedInv'
  BY <1>5, SelectOnlySelects DEF SelectAccount, Types
<1> QED
  BY <1>1, <1>2, <1>3, <1>4, <1>5, ListSteps

\* One account is selected as long as there is one, whatever is added,
\* replaced, deleted and selected while switches and any number of forms are
\* under way (deleteAccount, saveAccount, setSelectedAccount of
\* account_service.dart), unless a form has brought back what an account
\* object that had left the list said, and until the user selects again.
THEOREM SelectionCorrect == Spec => []OneSelected
<1>1. Init => SelectedInv
  <2> SUFFICES ASSUME Init PROVE SelectedInv
    OBVIOUS
  <2>1. accounts \in Seq(Accounts) /\ selected = IF accounts = <<>> THEN {} ELSE {Head(accounts)}
    BY InitList DEF Init
  <2> QED
    BY <2>1, HeadListed DEF SelectedInv
<1>2. Spec => []SelectedInv
  BY <1>1, Inductive, SelectedStep, PTL DEF Spec
<1> QED
  BY <1>2, SelectedSuffices, PTL

-----------------------------------------------------------------------------
(* accounts.json *)

NoneAsked == \A w \in Slots : saves[w].at # "asked"
Writing(w) == saves[w].at = "write"

\* A write that has met no other is the only one, writes into an empty file,
\* and writes the list as it is unless it is to be written again.
FileInv ==
  /\ \A w \in Slots : Writing(w) /\ saves[w].alone =>
       /\ \A v \in Slots : Writing(v) => v = w
       /\ file = Truncated
       /\ NoneAsked => saves[w].data = Data
  /\ FileIsCurrent

\* The list changes only when it is about to be saved.
LEMMA FileSteps ==
  ASSUME Types, [Next]_vars
  PROVE  \/ UNCHANGED <<accounts, selected, enabled, disk>>
         \/ \E f \in {NoFlow} \cup Flows : BeginSave(f)
         \/ \E w \in Slots : SaveStep(w)
<1>1. CASE HandleEvent \/ Rebuild \/ \E id \in Ids : RegistrationResult(id)
  BY <1>1 DEF HandleEvent, Rebuild, RegistrationResult, list
<1>2. ASSUME NEW f \in Flows, NEW ok \in BOOLEAN,
             \/ TrialTimeout(f) \/ SwitchOn(f, ok) \/ SwitchOff(f) \/ SwitchRefused(f)
             \/ SelectionSaved(f) \/ FormRefused(f) \/ FormDropped(f) \/ FormSaved(f, ok)
      PROVE  UNCHANGED <<accounts, selected, enabled, disk>>
  BY <1>2 DEF TrialTimeout, SwitchOn, SwitchOff, SwitchRefused, SelectionSaved, FormRefused,
              FormDropped, FormSaved, list
<1>3. ASSUME NEW f \in Flows, NEW ok \in BOOLEAN, SwitchVerified(f, ok)
      PROVE  UNCHANGED <<accounts, selected, enabled, disk>> \/ BeginSave(f)
  BY <1>3 DEF SwitchVerified, list
<1>4. ASSUME NEW f \in Flows, NEW a \in Accounts, FormVerified(f, a)
      PROVE  BeginSave(f)
  BY <1>4 DEF FormVerified
<1>5. ASSUME User
      PROVE  UNCHANGED <<accounts, selected, enabled, disk>> \/ \E f \in {NoFlow} \cup Flows : BeginSave(f)
  <2>1. ASSUME NEW f \in Flows, NEW k \in DOMAIN cards, Toggle(f, k)
        PROVE  UNCHANGED <<accounts, selected, enabled, disk>> \/ BeginSave(f)
    BY <2>1 DEF Toggle, list
  <2>2. ASSUME NEW k \in DOMAIN cards, DeleteAccount(k)
        PROVE  UNCHANGED <<accounts, selected, enabled, disk>> \/ BeginSave(NoFlow)
    BY <2>2 DEF DeleteAccount, list
  <2>3. ASSUME NEW a \in Accounts, SelectAccount(a)
        PROVE  BeginSave(NoFlow)
    BY <2>3 DEF SelectAccount
  <2> QED
    BY <1>5, <2>1, <2>2, <2>3 DEF User, FormSubmit, FormLeft, DialogClosed, LeaveTab, list
<1> QED
  BY <1>1, <1>2, <1>3, <1>4, <1>5 DEF Next, FlowStep, vars, list

LEMMA FileStep == Types /\ FileInv /\ [Next]_vars => FileInv'
<1> SUFFICES ASSUME Types, FileInv, [Next]_vars PROVE FileInv'
  OBVIOUS
<1>0. saves \in [Slots -> SaveRecords]
  BY DEF Types, DiskType
<1>1. CASE UNCHANGED <<accounts, selected, enabled, disk>>
  <2>1. Data' = Data
    BY <1>1 DEF Data
  <2> QED
    BY <1>1, <2>1 DEF FileInv, FileIsCurrent, Writing, NoneAsked, disk
<1>2. ASSUME NEW f \in {NoFlow} \cup Flows, BeginSave(f)
      PROVE  FileInv'
  <2>1. PICK w \in Slots : /\ saves[w].at = "none" /\ UNCHANGED <<file, torn>>
                           /\ saves' = [saves EXCEPT ![w] = [NoSave EXCEPT !.at = "asked", !.by = f]]
    BY <1>2 DEF BeginSave
  <2>2. saves'[w].at = "asked" /\ \A v \in Slots \ {w} : saves'[v] = saves[v]
    BY <1>0, <2>1 DEF NoSave
  <2> QED
    BY <2>1, <2>2 DEF FileInv, FileIsCurrent, Writing, NoneAsked
<1>3. ASSUME NEW w \in Slots, Encode(w)
      PROVE  FileInv'
  <2> DEFINE others == {v \in Slots : saves[v].at = "write"}
             S(v) == IF v = w THEN [saves[v] EXCEPT !.at = "write", !.data = Data, !.alone = others = {}]
                     ELSE [saves[v] EXCEPT !.alone = @ /\ v \notin others]
  <2>1. /\ saves' = [v \in Slots |-> S(v)] /\ file' = Truncated
        /\ UNCHANGED <<list, torn>>
    BY <1>3 DEF Encode
  <2>2. /\ \A v \in Slots \ {w} : S(v).at = saves[v].at /\ (S(v).alone => v \notin others)
        /\ S(w).at = "write" /\ S(w).data = Data /\ (S(w).alone => others = {})
    BY <1>0 DEF SaveRecords
  <2>3. Data' = Data
    BY <2>1 DEF Data, list
  <2>4. \A v \in Slots : v \in others <=> saves[v].at = "write"
    OBVIOUS
  <2> HIDE DEF S, others
  <2>5. /\ \A v \in Slots \ {w} : saves'[v].at = saves[v].at
        /\ \A v \in Slots \ {w} : ~(Writing(v)' /\ saves'[v].alone)
        /\ Writing(w)' /\ saves'[w].data = Data
        /\ saves'[w].alone => \A v \in Slots : Writing(v)' => v = w
    BY <2>1, <2>2, <2>4 DEF Writing
  <2> QED
    BY <2>1, <2>3, <2>5 DEF FileInv, FileIsCurrent, Writing
<1>4. ASSUME NEW w \in Slots, Write(w)
      PROVE  FileInv'
  <2>1. /\ Writing(w) /\ UNCHANGED list
        /\ file' \in {saves[w].data} \cup (IF file = Truncated THEN {} ELSE {Garbage})
        /\ torn' = ~saves[w].alone
        /\ saves' = [saves EXCEPT ![w] = NoSave]
    BY <1>4 DEF Write, Writing
  <2>2. saves'[w].at = "none" /\ \A v \in Slots \ {w} : saves'[v] = saves[v]
    BY <1>0, <2>1 DEF NoSave
  <2>3. Data' = Data
    BY <2>1 DEF Data, list
  <2>4. \A v \in Slots : ~(Writing(v)' /\ saves'[v].alone)
    BY <2>1, <2>2 DEF FileInv, Writing
  <2>5. FileIsCurrent'
    <3> SUFFICES ASSUME \A v \in Slots : saves'[v].at = "none", ~torn'
                 PROVE  file' = Data'
      BY DEF FileIsCurrent
    <3>1. saves[w].alone /\ NoneAsked
      BY <1>0, <2>1, <2>2 DEF NoneAsked, SaveRecords, Writing
    <3>2. file = Truncated /\ saves[w].data = Data
      BY <2>1, <3>1 DEF FileInv
    <3> QED
      BY <2>1, <2>3, <3>2
  <2> QED
    BY <2>4, <2>5 DEF FileInv
<1> QED
  BY <1>1, <1>2, <1>3, <1>4, FileSteps DEF SaveStep

\* Once all saves are done accounts.json holds the list, however the list
\* changed while it was being written, unless the last write met another
\* (_saveAccounts of account_service.dart).
THEOREM FileFollowsList == Spec => []FileIsCurrent
<1>1. Init => FileInv
  BY DEF Init, FileInv, FileIsCurrent, Writing, NoSave
<1>2. FileInv => FileIsCurrent
  BY DEF FileInv
<1> QED
  BY <1>1, <1>2, Inductive, FileStep, PTL DEF Spec
-----------------------------------------------------------------------------
(* Trials *)

OnTrial(f, t) == At(f, "trial") /\ flow[f].trial = t
Won(f) == At(f, "trial") /\ flow[f].verdict = "success"

\* The engine knows no further trial than before, but for those in new.
KnowsOnly(new) ==
  \A t \in Trials : engine'[t] # "unknown" => engine[t] # "unknown" \/ t \in new

\* A flow begins a trial under an id of its own, leaves its trial and purges
\* it, or the trials go on.
TrialStarts(f) ==
  /\ At(f, "trial")' /\ ~Won(f)' /\ ~At(f, "trial") /\ KnowsOnly({flow'[f].trial})
  /\ \A g \in Flows \ {f} : flow'[g] = flow[g]
TrialLeft(f) ==
  /\ At(f, "trial") /\ ~At(f, "trial")' /\ KnowsOnly({}) /\ engine'[flow[f].trial] = "unknown"
  /\ \A g \in Flows \ {f} : flow'[g] = flow[g]
TrialsGoOn ==
  /\ KnowsOnly({})
  /\ \A g \in Flows : /\ At(g, "trial")' <=> At(g, "trial")
                      /\ At(g, "trial") => flow'[g].trial = flow[g].trial

\* No step but the handling of an event tells a flow that its trial has won.
NoneWins == \A g \in Flows : Won(g)' => Won(g) /\ flow'[g].trial = flow[g].trial

LEMMA CommandsKnow ==
  ASSUME NEW ids0, Commands(ids0)
  PROVE  /\ KnowsOnly({t \in Trials : t \in ids0})
         /\ \A id \in Ids : id \notin ids0 => engine'[id] = engine[id]
BY DEF Commands, KnowsOnly, Ids

LEMMA AccountsAreNoTrials == \A a \in Accounts : {t \in Trials : t \in {a}} = {}
BY SetupAssumption

LEMMA StartStarts ==
  ASSUME Types, NEW f \in Flows, NEW s \in FlowRecords, NEW ok \in BOOLEAN,
         StartTrial(f, s, ok), s.kind = "switch" => s.acct \in Accounts, ~At(f, "trial")
  PROVE  TrialStarts(f) /\ NoneWins
<1>1. PICK r : /\ FlowTo(f, r)
               /\ r.at = "trial" /\ r.trial = nextTrial /\ r.verdict = "none"
  BY TrialMoves
<1>2. nextTrial \in Trials /\ nextTrial \in Ids /\ nextTrial' \in Nat \ {0} /\ Register(nextTrial, ok)
  BY TrialMoves, IdsAre
<1>3. KnowsOnly({nextTrial})
  <2>1. Commands({nextTrial})
    BY <1>2, RegisterCommands DEF Types
  <2> QED
    BY <2>1, CommandsKnow DEF KnowsOnly
<1>4. flow'[f] = r /\ \A g \in Flows \ {f} : flow'[g] = flow[g]
  BY <1>1, <1>2, FlowToTyped DEF Types
<1>5. ~Won(f)'
  BY <1>1, <1>4 DEF Won
<1> QED
  BY <1>1, <1>3, <1>4, <1>5 DEF TrialStarts, NoneWins, At, Won

LEMMA LeaveLeaves ==
  ASSUME Types, NEW f \in Flows, At(f, "trial"), NEW r, FlowTo(f, r), r.at # "trial",
         nextTrial' \in Nat \ {0},
         NEW ids0, Commands(ids0), \A t \in Trials : t \in ids0 => t = flow[f].trial,
         engine'[flow[f].trial] = "unknown"
  PROVE  TrialLeft(f) /\ NoneWins
<1>1. flow'[f] = r /\ \A g \in Flows \ {f} : flow'[g] = flow[g]
  BY FlowToTyped DEF Types
<1>2. KnowsOnly({})
  BY CommandsKnow DEF KnowsOnly
<1> QED
  BY <1>1, <1>2 DEF TrialLeft, NoneWins, At, Won

\* A flow that is not at its trial moves on, and the engine gets commands
\* about accounts that are no trials.
LEMMA MoveGoesOn ==
  ASSUME Types, NEW f \in Flows, ~At(f, "trial"), NEW r, FlowTo(f, r), r.at # "trial",
         nextTrial' \in Nat \ {0}, KnowsOnly({})
  PROVE  TrialsGoOn /\ NoneWins
<1>1. flow'[f] = r /\ \A g \in Flows \ {f} : flow'[g] = flow[g]
  BY FlowToTyped DEF Types
<1> QED
  BY <1>1 DEF TrialsGoOn, NoneWins, At, Won

LEMMA IdleGoesOn ==
  ASSUME UNCHANGED flow, KnowsOnly({})
  PROVE  TrialsGoOn /\ NoneWins
BY DEF TrialsGoOn, NoneWins, At, Won

TrialStep == TrialsGoOn \/ \E f \in Flows : TrialStarts(f) \/ TrialLeft(f)

LEMMA SwitchTrials ==
  ASSUME Types, NEW f \in Flows, NEW ok \in BOOLEAN,
         \/ SwitchOn(f, ok) \/ SwitchOff(f) \/ SwitchRefused(f)
         \/ SwitchVerified(f, ok) \/ SelectionSaved(f) \/ DialogClosed(f)
  PROVE  TrialStep /\ NoneWins /\ UNCHANGED granted
<1>0. nextTrial \in Nat \ {0} /\ flow[f] \in FlowRecords
  BY RecordOf DEF Types, FlowType
<1>1. CASE SwitchOn(f, ok)
  <2>1. StartTrial(f, flow[f], ok) /\ ~At(f, "trial") /\ flow[f].acct \in Accounts
    BY <1>1 DEF SwitchOn, At, Types, ActsOnAccount
  <2> QED
    BY <1>0, <1>1, <2>1, StartStarts DEF TrialStep, SwitchOn
<1>2. CASE SwitchOff(f)
  <2>1. flow[f].acct \in Accounts /\ flow[f].acct \in Ids
    BY <1>2, SwitchOffTypes, IdsAre
  <2>2. KnowsOnly({})
    <3>1. Commands({flow[f].acct})
      BY <1>2, <2>1, LeavesCommands DEF SwitchOff, Types
    <3> QED
      BY <2>1, <3>1, CommandsKnow, AccountsAreNoTrials DEF KnowsOnly
  <2>3. /\ FlowTo(f, Idle) /\ ~At(f, "trial") /\ Idle.at # "trial" /\ nextTrial' \in Nat \ {0}
        /\ UNCHANGED granted
    BY <1>0, <1>2, FinishMoves DEF SwitchOff, Finish, ids, At, Idle
  <2> QED
    BY <2>2, <2>3, MoveGoesOn DEF TrialStep
<1>3. CASE SwitchRefused(f)
  <2>1. /\ At(f, "trial") /\ Purge(f) /\ flow[f].acct \in Accounts /\ UNCHANGED granted
        /\ nextTrial' \in Nat \ {0}
    BY <1>0, <1>3 DEF SwitchRefused, Types, ActsOnAccount, At, ids
  <2>2. PICK r : FlowTo(f, r) /\ r.at # "trial"
    <3>1. CASE flow[f].mounted
      BY <1>3, <2>1, <3>1, GotoMoves DEF SwitchRefused, Explain, Steps
    <3>2. CASE ~flow[f].mounted
      BY <1>3, <3>2, FinishMoves DEF SwitchRefused, Explain, Finish, Idle
    <3> QED
      BY <3>1, <3>2
  <2> QED
    BY <2>1, <2>2, PurgeTypes, LeaveLeaves DEF TrialStep
<1>4. CASE SwitchVerified(f, ok)
  <2>1. /\ At(f, "trial") /\ UNCHANGED granted /\ nextTrial' \in Nat \ {0}
        /\ flow[f].acct \in Accounts /\ flow[f].trial \in Trials
        /\ Commands({flow[f].trial, flow[f].acct}) /\ engine'[flow[f].trial] = "unknown"
    BY <1>0, <1>4, SwitchVerifiedTypes DEF SwitchVerified, ids
  <2>2. \A t \in Trials : t \in {flow[f].trial, flow[f].acct} => t = flow[f].trial
    BY <2>1, SetupAssumption
  <2>3. CASE UNCHANGED flow
    <3>1. KnowsOnly({})
      BY <2>1, <2>2, CommandsKnow DEF KnowsOnly
    <3> QED
      BY <2>1, <2>3, <3>1, IdleGoesOn DEF TrialStep
  <2>4. CASE Finish(f) \/ Goto(f, "selecting")
    <3>1. PICK r : FlowTo(f, r) /\ r.at # "trial"
      <4>1. CASE Finish(f)
        <5>1. FlowTo(f, Idle)
          BY <4>1, FinishMoves DEF Finish
        <5>2. Idle.at # "trial"
          BY DEF Idle
        <5> QED
          BY <5>1, <5>2
      <4>2. CASE Goto(f, "selecting")
        BY <2>1, <4>2, GotoMoves DEF Steps
      <4> QED
        BY <2>4, <4>1, <4>2
    <3> QED
      BY <2>1, <2>2, <3>1, LeaveLeaves DEF TrialStep
  <2> QED
    BY <1>4, <2>3, <2>4 DEF SwitchVerified
<1>5. CASE SelectionSaved(f) \/ DialogClosed(f)
  <2>1. /\ FlowTo(f, Idle) /\ ~At(f, "trial") /\ Idle.at # "trial" /\ nextTrial' \in Nat \ {0}
        /\ UNCHANGED <<engine, granted>>
    BY <1>0, <1>5, FinishMoves DEF SelectionSaved, DialogClosed, Finish, ids, sip, At, Idle
  <2>2. KnowsOnly({})
    BY <2>1 DEF KnowsOnly
  <2> QED
    BY <2>1, <2>2, MoveGoesOn DEF TrialStep
<1> QED
  BY <1>1, <1>2, <1>3, <1>4, <1>5

LEMMA FormTrials ==
  ASSUME Types, NEW f \in Flows, NEW ok \in BOOLEAN,
         \/ \E a \in Accounts \cup {NoAccount} : FormSubmit(f, a, ok)
         \/ FormRefused(f) \/ FormDropped(f) \/ FormSaved(f, ok)
         \/ \E a \in Accounts : FormVerified(f, a)
  PROVE  TrialStep /\ NoneWins /\ UNCHANGED granted
<1>0. nextTrial \in Nat \ {0} /\ flow[f] \in FlowRecords
  BY RecordOf DEF Types, FlowType
<1>1. ASSUME NEW a \in Accounts \cup {NoAccount}, FormSubmit(f, a, ok)
      PROVE  TrialStep /\ NoneWins /\ UNCHANGED granted
  <2> DEFINE s == [Idle EXCEPT !.kind = "form", !.mounted = TRUE, !.acct = a, !.began = a]
  <2>1. StartTrial(f, s, ok) /\ s \in FlowRecords /\ s.kind = "form" /\ ~At(f, "trial")
    BY <1>1, IdleTyped DEF FormSubmit, Free, At, FlowRecords, Idle
  <2> HIDE DEF s
  <2> QED
    BY <1>1, <2>1, StartStarts DEF TrialStep, FormSubmit
<1>2. CASE FormRefused(f) \/ FormDropped(f)
  <2>1. /\ At(f, "trial") /\ Purge(f) /\ FlowTo(f, Idle) /\ Idle.at # "trial"
        /\ UNCHANGED granted /\ nextTrial' \in Nat \ {0}
    BY <1>0, <1>2, FinishMoves DEF FormRefused, FormDropped, ids, Idle
  <2> QED
    BY <2>1, PurgeTypes, LeaveLeaves DEF TrialStep
<1>3. CASE FormSaved(f, ok)
  <2>1. flow[f].acct \in Accounts /\ Commands({flow[f].acct})
    BY <1>3, FormSavedTypes
  <2>2. KnowsOnly({})
    BY <2>1, CommandsKnow, AccountsAreNoTrials DEF KnowsOnly
  <2>3. /\ ~At(f, "trial") /\ Idle.at # "trial" /\ nextTrial' \in Nat \ {0}
        /\ UNCHANGED granted
        /\ FlowTo(f, Idle) \/ UNCHANGED flow
    BY <1>0, <1>3, FinishMoves DEF FormSaved, ids, At, Idle
  <2> QED
    BY <2>2, <2>3, MoveGoesOn, IdleGoesOn DEF TrialStep
<1>4. ASSUME NEW a \in Accounts, FormVerified(f, a)
      PROVE  TrialStep /\ NoneWins /\ UNCHANGED granted
  <2>1. PICK r : FlowTo(f, r) /\ r.at = "saving"
    BY <1>4, FormVerifiedTypes
  <2>2. At(f, "trial") /\ Purge(f) /\ UNCHANGED <<granted, nextTrial>>
    BY <1>4 DEF FormVerified
  <2> QED
    BY <1>0, <2>1, <2>2, PurgeTypes, LeaveLeaves DEF TrialStep
<1> QED
  BY <1>1, <1>2, <1>3, <1>4
LEMMA StayTrials ==
  ASSUME \A g \in Flows : Stays(g), UNCHANGED engine
  PROVE  TrialsGoOn
BY DEF TrialsGoOn, KnowsOnly, Stays, At

LEMMA OtherTrials ==
  ASSUME Types, [Next]_vars,
         ~HandleEvent, ~\E id \in Ids : RegistrationResult(id)
  PROVE  TrialStep /\ NoneWins /\ UNCHANGED granted
<1>1. CASE UNCHANGED <<flow, engine, granted>>
  BY <1>1 DEF TrialStep, TrialsGoOn, NoneWins, KnowsOnly, At, Won
<1>2. ASSUME NEW f \in Flows, FormLeft(f) \/ TrialTimeout(f)
      PROVE  TrialStep /\ NoneWins /\ UNCHANGED granted
  <2>1. UNCHANGED <<engine, granted>>
    BY <1>2 DEF FormLeft, TrialTimeout, sip
  <2>2. NoneWins
    BY <1>2, FormLeftMoves DEF NoneWins, Won, At, Stays
  <2> QED
    BY <1>2, <2>1, <2>2, FormLeftMoves, StayTrials DEF TrialStep
<1>3. ASSUME Rebuild \/ LeaveTab
      PROVE  TrialStep /\ NoneWins /\ UNCHANGED granted
  <2>1. UNCHANGED <<engine, granted>>
    BY <1>3, RebuildMoves DEF sip
  <2>2. NoneWins
    BY <1>3, RebuildMoves DEF NoneWins, Won, At, Stays
  <2> QED
    BY <1>3, <2>1, <2>2, RebuildMoves, StayTrials DEF TrialStep
<1>4. ASSUME NEW k \in DOMAIN cards, DeleteAccount(k)
      PROVE  TrialStep /\ NoneWins /\ UNCHANGED granted
  <2>1. cards[k] \in Accounts /\ Commands({cards[k]}) /\ UNCHANGED <<flow, granted>>
    BY <1>4, DeleteMoves DEF screen
  <2>2. KnowsOnly({})
    BY <2>1, CommandsKnow, AccountsAreNoTrials DEF KnowsOnly
  <2> QED
    BY <2>1, <2>2 DEF TrialStep, TrialsGoOn, NoneWins, At, Won
<1>5. ASSUME NEW f \in Flows, NEW k \in DOMAIN cards, Toggle(f, k)
      PROVE  TrialStep /\ NoneWins /\ UNCHANGED granted
  <2>1. PICK r : FlowTo(f, r) /\ r.at # "trial"
    BY <1>5, ToggleMoves
  <2>2. At(f, "idle") /\ UNCHANGED <<engine, granted, nextTrial>>
    BY <1>5, ToggleMoves DEF Toggle, sip, ids
  <2>3. ~At(f, "trial") /\ nextTrial' \in Nat \ {0} /\ KnowsOnly({})
    BY <2>2 DEF At, KnowsOnly, Types, FlowType
  <2> QED
    BY <2>1, <2>2, <2>3, MoveGoesOn DEF TrialStep
<1>6. ASSUME NEW w \in Slots, SaveStep(w)
      PROVE  TrialStep /\ NoneWins /\ UNCHANGED granted
  <2>1. CASE Encode(w)
    BY <1>1, <2>1 DEF Encode, screen, sip
  <2>2. CASE Write(w)
    <3> DEFINE f == saves[w].by
    <3>1. f \in {NoFlow} \cup Flows /\ UNCHANGED <<engine, granted>>
      BY <2>2 DEF Types, DiskType, SaveRecords, Write, sip
    <3>2. CASE f = NoFlow
      BY <1>1, <2>2, <3>1, <3>2 DEF Write
    <3>3. CASE f # NoFlow
      <4>1. f \in Flows /\ Waits(f)
        BY <3>1, <3>3 DEF Types, SavesAwaited
      <4>2. ~At(f, "trial")
        BY <4>1 DEF At, Waits
      <4>3. Goto(f, IF At(f, "saving") THEN "saved" ELSE "selected")
        BY <2>2, <3>3 DEF Write
      <4> HIDE DEF f
      <4>4. \A g \in Flows : (At(g, "trial")' <=> At(g, "trial")) /\ (At(g, "trial") => flow'[g] = flow[g])
        BY <4>1, <4>2, <4>3 DEF Goto, At, Types, FlowType, FlowRecords
      <4> QED
        BY <3>1, <4>4 DEF TrialStep, TrialsGoOn, NoneWins, KnowsOnly, Won
    <3> QED
      BY <3>2, <3>3
  <2> QED
    BY <1>6, <2>1, <2>2 DEF SaveStep
<1>7. CASE UNCHANGED vars \/ \E a \in Accounts : SelectAccount(a)
  BY <1>1, <1>7 DEF vars, screen, sip, SelectAccount
<1>8. Range(cards) \cup {NoAccount} \subseteq Accounts \cup {NoAccount}
  BY RangeTyped DEF Types, ListType
<1>9. CASE User
  <2>1. ASSUME NEW f \in Flows, NEW a \in Range(cards) \cup {NoAccount}, NEW ok \in BOOLEAN,
               FormSubmit(f, a, ok)
        PROVE  TrialStep /\ NoneWins /\ UNCHANGED granted
    BY <1>8, <2>1, FormTrials
  <2>2. ASSUME NEW f \in Flows, DialogClosed(f)
        PROVE  TrialStep /\ NoneWins /\ UNCHANGED granted
    <3>1. TRUE \in BOOLEAN
      OBVIOUS
    <3> QED
      BY <2>2, <3>1, SwitchTrials
  <2> QED
    BY <1>2, <1>3, <1>4, <1>5, <1>7, <1>9, <2>1, <2>2 DEF User
<1>10. ASSUME NEW f \in Flows, FlowStep(f)
       PROVE  TrialStep /\ NoneWins /\ UNCHANGED granted
  <2>1. PICK ok \in BOOLEAN :
          \/ SwitchOn(f, ok) \/ SwitchVerified(f, ok) \/ FormSaved(f, ok)
          \/ SwitchOff(f) \/ SwitchRefused(f) \/ SelectionSaved(f) \/ FormRefused(f)
          \/ FormDropped(f) \/ \E a \in Accounts : FormVerified(f, a)
    BY <1>10 DEF FlowStep
  <2> QED
    BY <2>1, SwitchTrials, FormTrials
<1> QED
  BY <1>2, <1>3, <1>6, <1>7, <1>9, <1>10 DEF Next

\* A trial is known to have been granted before its event can reach Dart.
GrantedFirst ==
  \A k \in DOMAIN events :
    events[k].id \in Trials /\ events[k].state = "Registered" => events[k].id \in granted

TrialInv == TrialIsPurged /\ TrialIsEarned /\ GrantedFirst

LEMMA PurgedStep ==
  ASSUME Types, TrialIsPurged, TrialStep
  PROVE  TrialIsPurged'
<1> SUFFICES ASSUME NEW t \in Trials, engine'[t] # "unknown"
             PROVE  \E f \in Flows : OnTrial(f, t)'
  BY DEF TrialIsPurged, OnTrial, At
<1>1. engine[t] # "unknown" => \E f \in Flows : OnTrial(f, t)
  BY DEF TrialIsPurged, OnTrial
<1>2. CASE TrialsGoOn
  BY <1>1, <1>2 DEF TrialsGoOn, KnowsOnly, OnTrial, At
<1>3. ASSUME NEW f \in Flows, TrialStarts(f) PROVE \E g \in Flows : OnTrial(g, t)'
  BY <1>1, <1>3 DEF TrialStarts, KnowsOnly, OnTrial, At
<1>4. ASSUME NEW f \in Flows, TrialLeft(f) PROVE \E g \in Flows : OnTrial(g, t)'
  BY <1>1, <1>4 DEF TrialLeft, KnowsOnly, OnTrial, At
<1> QED
  BY <1>2, <1>3, <1>4 DEF TrialStep

\* What is said about the queue by every step but a result and its handling.
LEMMA QueueSteps ==
  ASSUME Types, [Next]_vars
  PROVE  \/ HandleEvent
         \/ \E id \in Ids : RegistrationResult(id)
         \/ UNCHANGED shown /\ \E ids0 : Commands(ids0)
         \/ UNCHANGED <<engine, events, shown>>
<1>1. ASSUME NEW f \in Flows, NEW ok \in BOOLEAN, NEW s \in FlowRecords, StartTrial(f, s, ok),
             s.kind = "switch" => s.acct \in Accounts
      PROVE  \E ids0 : Commands(ids0)
  BY <1>1, TrialMoves, IdsAre, RegisterCommands DEF Types
<1>2. ASSUME NEW f \in Flows, NEW ok \in BOOLEAN,
             \/ SwitchOn(f, ok) \/ SwitchOff(f) \/ SwitchRefused(f)
             \/ SwitchVerified(f, ok) \/ SelectionSaved(f) \/ DialogClosed(f)
      PROVE  UNCHANGED shown /\ \E ids0 : Commands(ids0) \/ UNCHANGED <<engine, events>>
  <2>1. CASE SwitchOn(f, ok)
    <3>1. StartTrial(f, flow[f], ok) /\ flow[f] \in FlowRecords /\ flow[f].acct \in Accounts
      BY <2>1, RecordOf DEF SwitchOn, At, Types, ActsOnAccount
    <3> QED
      BY <1>1, <2>1, <3>1 DEF SwitchOn
  <2>2. CASE SwitchOff(f)
    <3>1. flow[f].acct \in Ids
      BY <2>2, SwitchOffTypes, IdsAre
    <3> QED
      BY <2>2, <3>1, LeavesCommands DEF SwitchOff, Types
  <2>3. CASE SwitchRefused(f)
    BY <2>3, PurgeTypes DEF SwitchRefused
  <2>4. CASE SwitchVerified(f, ok)
    BY <2>4, SwitchVerifiedTypes DEF SwitchVerified
  <2>5. CASE SelectionSaved(f) \/ DialogClosed(f)
    BY <2>5 DEF SelectionSaved, DialogClosed, sip
  <2> QED
    BY <1>2, <2>1, <2>2, <2>3, <2>4, <2>5
<1>3. ASSUME NEW f \in Flows, NEW ok \in BOOLEAN,
             \/ \E a \in Range(cards) \cup {NoAccount} : FormSubmit(f, a, ok)
             \/ FormRefused(f) \/ FormDropped(f) \/ FormSaved(f, ok)
             \/ \E a \in Accounts : FormVerified(f, a)
      PROVE  UNCHANGED shown /\ \E ids0 : Commands(ids0)
  <2>1. ASSUME NEW a \in Range(cards) \cup {NoAccount}, FormSubmit(f, a, ok)
        PROVE  UNCHANGED shown /\ \E ids0 : Commands(ids0)
    <3> DEFINE s == [Idle EXCEPT !.kind = "form", !.mounted = TRUE, !.acct = a, !.began = a]
    <3>1. a \in Accounts \cup {NoAccount}
      BY RangeTyped DEF Types, ListType
    <3>2. StartTrial(f, s, ok) /\ s \in FlowRecords /\ s.kind = "form"
      BY <2>1, <3>1, IdleTyped DEF FormSubmit, FlowRecords, Idle
    <3> HIDE DEF s
    <3> QED
      BY <1>1, <2>1, <3>2 DEF FormSubmit
  <2>2. CASE FormRefused(f) \/ FormDropped(f) \/ \E a \in Accounts : FormVerified(f, a)
    <3>1. At(f, "trial") /\ Purge(f) /\ UNCHANGED shown
      BY <2>2 DEF FormRefused, FormDropped, FormVerified
    <3> QED
      BY <3>1, PurgeTypes
  <2>3. CASE FormSaved(f, ok)
    BY <2>3, FormSavedTypes DEF FormSaved
  <2> QED
    BY <1>3, <2>1, <2>2, <2>3
<1>4. ASSUME NEW k \in DOMAIN cards, DeleteAccount(k)
      PROVE  UNCHANGED shown /\ \E ids0 : Commands(ids0)
  BY <1>4, DeleteMoves
<1>5. ASSUME NEW f \in Flows, TrialTimeout(f) \/ FormLeft(f)
      PROVE  UNCHANGED <<engine, events, shown>>
  BY <1>5 DEF TrialTimeout, FormLeft, sip
<1>6. ASSUME NEW f \in Flows, NEW k \in DOMAIN cards, Toggle(f, k)
      PROVE  UNCHANGED <<engine, events, shown>>
  BY <1>6 DEF Toggle, sip
<1>7. ASSUME LeaveTab \/ Rebuild \/ (\E a \in Accounts : SelectAccount(a)) \/ UNCHANGED vars
      PROVE  UNCHANGED <<engine, events, shown>>
  BY <1>7 DEF LeaveTab, Rebuild, SelectAccount, vars, sip
<1>8. ASSUME NEW w \in Slots, SaveStep(w)
      PROVE  UNCHANGED <<engine, events, shown>>
  BY <1>8 DEF SaveStep, Encode, Write, sip
<1>9. ASSUME NEW f \in Flows, FlowStep(f)
      PROVE  UNCHANGED shown /\ \E ids0 : Commands(ids0) \/ UNCHANGED <<engine, events>>
  <2>1. PICK ok \in BOOLEAN :
          \/ SwitchOn(f, ok) \/ SwitchVerified(f, ok) \/ FormSaved(f, ok)
          \/ SwitchOff(f) \/ SwitchRefused(f) \/ SelectionSaved(f) \/ FormRefused(f)
          \/ FormDropped(f) \/ \E a \in Accounts : FormVerified(f, a)
    BY <1>9 DEF FlowStep
  <2> QED
    BY <1>2, <1>3, <2>1
<1>10. CASE User
  <2>1. ASSUME NEW f \in Flows, DialogClosed(f)
        PROVE  UNCHANGED shown /\ \E ids0 : Commands(ids0) \/ UNCHANGED <<engine, events>>
    <3>1. TRUE \in BOOLEAN
      OBVIOUS
    <3> QED
      BY <1>2, <2>1, <3>1
  <2> QED
    BY <1>3, <1>4, <1>5, <1>6, <1>7, <1>10, <2>1 DEF User
<1> QED
  BY <1>5, <1>7, <1>8, <1>9, <1>10 DEF Next
LEMMA GrantedStep ==
  ASSUME Types, GrantedFirst, [Next]_vars
  PROVE  GrantedFirst' /\ granted \subseteq granted'
<1>0. events \in Seq(EventRecords)
  BY DEF Types, SipType
<1>1. CASE HandleEvent
  <2>1. events # <<>> /\ events' = Tail(events) /\ UNCHANGED granted
    BY <1>1, HandleEventMoves
  <2>2. \A k \in DOMAIN events' : k + 1 \in DOMAIN events /\ events'[k] = events[k + 1]
    BY <1>0, <2>1, HeadTailProperties, LenProperties
  <2> QED
    BY <2>1, <2>2 DEF GrantedFirst
<1>2. ASSUME NEW id \in Ids, RegistrationResult(id)
      PROVE  GrantedFirst' /\ granted \subseteq granted'
  <2>1. PICK state \in {"Registered", "Failed"} :
          /\ events' = Append(events, Event(id, state))
          /\ granted' = IF state = "Registered" THEN granted \cup ({id} \cap Trials) ELSE granted
    BY <1>2 DEF RegistrationResult
  <2>2. Event(id, state) \in EventRecords /\ Event(id, state).id = id /\ Event(id, state).state = state
    BY EventTyped DEF RegistrationState, Event
  <2>3. \A k \in DOMAIN events' : \/ k \in DOMAIN events /\ events'[k] = events[k]
                                  \/ events'[k] = Event(id, state)
    BY <1>0, <2>1, <2>2, AppendProperties, LenProperties
  <2> QED
    BY <2>1, <2>2, <2>3 DEF GrantedFirst
<1>3. ASSUME ~HandleEvent, ~\E id \in Ids : RegistrationResult(id)
      PROVE  GrantedFirst' /\ granted \subseteq granted'
  <2>1. UNCHANGED granted
    BY <1>3, OtherTrials
  <2>2. CASE UNCHANGED events
    BY <2>1, <2>2 DEF GrantedFirst
  <2>3. ASSUME NEW ids0, Commands(ids0)
        PROVE  GrantedFirst'
    <3>1. PICK q \in Seq(EventRecords) : events' = events \o q /\ \A k \in DOMAIN q : q[k].state # "Registered"
      BY <2>3 DEF Commands
    <3>2. \A k \in DOMAIN events' : \/ k \in DOMAIN events /\ events'[k] = events[k]
                                    \/ events'[k].state # "Registered"
      <4> SUFFICES ASSUME NEW k \in DOMAIN events'
                   PROVE  \/ k \in DOMAIN events /\ events'[k] = events[k]
                          \/ events'[k].state # "Registered"
        OBVIOUS
      <4>1. k \in 1 .. Len(events) + Len(q) /\ Len(events) \in Nat /\ Len(q) \in Nat
        BY <1>0, <3>1, ConcatProperties, LenProperties
      <4>2. CASE k <= Len(events)
        BY <1>0, <3>1, <4>1, <4>2, ConcatProperties, LenProperties
      <4>3. CASE ~(k <= Len(events))
        <5>1. events'[k] = q[k - Len(events)]
          BY <1>0, <3>1, <4>1, <4>3, ConcatProperties
        <5>2. k - Len(events) \in DOMAIN q
          BY <4>1, <4>3, LenProperties
        <5> QED
          BY <3>1, <5>1, <5>2
      <4> QED
        BY <4>2, <4>3
    <3> QED
      BY <2>1, <3>2 DEF GrantedFirst
  <2> QED
    BY <1>3, <2>1, <2>2, <2>3, QueueSteps
<1> QED
  BY <1>1, <1>2, <1>3

LEMMA TrialInvStep == Types /\ TrialInv /\ [Next]_vars => TrialInv'
<1> SUFFICES ASSUME Types, TrialInv, [Next]_vars PROVE TrialInv'
  OBVIOUS
<1>1. GrantedFirst' /\ granted \subseteq granted'
  BY GrantedStep DEF TrialInv
<1>2. CASE HandleEvent
  <2> DEFINE e == Head(events)
  <2>1. /\ e \in EventRecords /\ UNCHANGED <<engine, granted>>
        /\ \A g \in Flows : Stays(g) /\ flow'[g].verdict = Verdict(g, e)
    BY <1>2, HandleEventMoves
  <2>2. e.id \in Trials /\ e.state = "Registered" => e.id \in granted
    <3>1. events # <<>> /\ events \in Seq(EventRecords)
      BY <1>2, HandleEventMoves DEF Types, SipType
    <3>2. 1 \in DOMAIN events /\ e = events[1]
      BY <3>1
    <3> QED
      BY <3>2 DEF TrialInv, GrantedFirst
  <2> HIDE DEF e
  <2>3. TrialIsEarned'
    <3> SUFFICES ASSUME NEW g \in Flows, Won(g)' PROVE flow'[g].trial \in granted'
      BY DEF TrialIsEarned, Won, At
    <3>1. At(g, "trial") /\ flow'[g].trial = flow[g].trial /\ Verdict(g, e) = "success"
      BY <2>1 DEF Won, At, Stays
    <3>2. flow[g].trial \in Trials
      BY <3>1 DEF Types, FlowType
    <3>3. CASE flow[g].verdict = "success"
      BY <2>1, <3>1, <3>3 DEF TrialInv, TrialIsEarned
    <3>4. CASE flow[g].verdict # "success"
      <4>1. IsFor(g, e) /\ e.state = "Registered"
        BY <3>1, <3>4 DEF Verdict
      <4> QED
        BY <2>1, <2>2, <3>1, <3>2, <4>1 DEF IsFor
    <3> QED
      BY <3>3, <3>4
  <2>4. TrialStep
    BY <2>1, StayTrials DEF TrialStep
  <2> QED
    BY <1>1, <2>3, <2>4, PurgedStep DEF TrialInv
<1>3. ASSUME NEW id \in Ids, RegistrationResult(id) PROVE TrialInv'
  <2>1. UNCHANGED flow /\ engine[id] # "unknown" /\ engine' = [engine EXCEPT ![id] = "answered"]
    BY <1>3 DEF RegistrationResult, screen
  <2>2. \A t \in Trials : engine'[t] # "unknown" => engine[t] # "unknown"
    BY <2>1, IdsAre DEF Types, SipType
  <2> QED
    BY <1>1, <2>1, <2>2 DEF TrialInv, TrialIsPurged, TrialIsEarned, At
<1>4. ASSUME ~HandleEvent, ~\E id \in Ids : RegistrationResult(id) PROVE TrialInv'
  <2>1. TrialStep /\ NoneWins
    BY <1>4, OtherTrials
  <2>2. TrialIsEarned'
    BY <1>1, <2>1 DEF TrialInv, TrialIsEarned, NoneWins, Won, At
  <2> QED
    BY <1>1, <2>1, <2>2, PurgedStep DEF TrialInv
<1> QED
  BY <1>2, <1>3, <1>4

LEMMA TrialInvariant == Spec => []TrialInv
<1>1. Init => TrialInv
  <2> SUFFICES ASSUME Init PROVE TrialInv
    OBVIOUS
  <2>1. enabled \subseteq Accounts
    BY InitTypes DEF Types, ListType
  <2>2. \A t \in Trials : engine[t] = "unknown"
    BY <2>1, IdsAre, SetupAssumption DEF Init
  <2>3. events = <<>> /\ \A f \in Flows : ~At(f, "trial")
    BY DEF Init, At, Idle
  <2> QED
    BY <2>2, <2>3 DEF TrialInv, TrialIsPurged, TrialIsEarned, GrantedFirst
<1> QED
  BY <1>1, Inductive, TrialInvStep, PTL DEF Spec

\* The engine has the temporary accounts of the trials under way and no
\* other, also after a timeout that a late answer follows (tryRegister).
THEOREM TrialsArePurged == Spec => []TrialIsPurged
<1>1. TrialInv => TrialIsPurged
  BY DEF TrialInv
<1> QED
  BY <1>1, TrialInvariant, PTL

\* A trial succeeds only if a server has registered its own account, however
\* the events of others fall in between (tryRegister, its listener).
THEOREM TrialsAreEarned == Spec => []TrialIsEarned
<1>1. TrialInv => TrialIsEarned
  BY DEF TrialInv
<1> QED
  BY <1>1, TrialInvariant, PTL

-----------------------------------------------------------------------------
(* What is shown as registered *)

\* After what says that an account is registered, shown or on its way, comes
\* an event that says otherwise.
Retracted(id) ==
  /\ shown[id] = "Registered" =>
       \E j \in DOMAIN events : events[j].id = id /\ events[j].state # "Registered"
  /\ \A k \in DOMAIN events : events[k] = Event(id, "Registered") =>
       \E j \in DOMAIN events : j > k /\ events[j].id = id /\ events[j].state # "Registered"
ResultsRetracted == \A id \in Ids : ~InPjsua(id) => Retracted(id)

LEMMA ShownSuffices == ResultsRetracted => ShownFollowsEngine
BY DEF ResultsRetracted, Retracted, ShownFollowsEngine

LEMMA CommandsRetract ==
  ASSUME Types, ResultsRetracted, NEW ids0, Commands(ids0), UNCHANGED shown
  PROVE  ResultsRetracted'
<1> SUFFICES ASSUME NEW id \in Ids, ~InPjsua(id)' PROVE Retracted(id)'
  BY DEF ResultsRetracted
<1>1. PICK q \in Seq(EventRecords) :
        /\ events' = events \o q
        /\ \A k \in DOMAIN q : q[k].state # "Registered"
        /\ engine'[id] = engine[id] \/ \E k \in DOMAIN q : q[k].id = id
  BY DEF Commands
<1>2. events \in Seq(EventRecords)
  BY DEF Types, SipType
<1> DEFINE n == Len(events)
<1>3. n \in Nat /\ Len(q) \in Nat /\ DOMAIN events = 1 .. n /\ DOMAIN q = 1 .. Len(q)
      /\ DOMAIN events' = 1 .. n + Len(q)
  BY <1>1, <1>2, ConcatProperties, LenProperties
<1>4. \A k \in 1 .. n : k \in DOMAIN events' /\ events'[k] = events[k]
  BY <1>1, <1>2, <1>3, ConcatProperties
<1>5. \A k \in DOMAIN q : n + k \in DOMAIN events' /\ events'[n + k] = q[k]
  <2> SUFFICES ASSUME NEW k \in DOMAIN q PROVE n + k \in DOMAIN events' /\ events'[n + k] = q[k]
    OBVIOUS
  <2>1. n + k \in 1 .. n + Len(q) /\ ~(n + k <= n) /\ (n + k) - n = k
    BY <1>3
  <2> QED
    BY <1>1, <1>2, <1>3, <2>1, ConcatProperties
<1>6. \A k \in DOMAIN events' : k \in 1 .. n \/ (k - n \in DOMAIN q /\ events'[k] = q[k - n])
  <2> SUFFICES ASSUME NEW k \in DOMAIN events', k \notin 1 .. n
               PROVE  k - n \in DOMAIN q /\ events'[k] = q[k - n]
    OBVIOUS
  <2>1. k - n \in DOMAIN q /\ n + (k - n) = k
    BY <1>3
  <2> QED
    BY <1>5, <2>1
<1> HIDE DEF n
<1>7. \A k \in DOMAIN events' : events'[k] = Event(id, "Registered") =>
        k \in 1 .. n /\ events[k] = Event(id, "Registered")
  <2>1. Event(id, "Registered").state = "Registered"
    BY DEF Event
  <2> QED
    BY <1>1, <1>4, <1>6, <2>1
<1>8. CASE \E k \in DOMAIN q : q[k].id = id
  <2>1. PICK k \in DOMAIN q : q[k].id = id
    BY <1>8
  <2>2. n + k \in DOMAIN events' /\ events'[n + k].id = id /\ events'[n + k].state # "Registered"
    BY <1>1, <1>5, <2>1
  <2>3. \A i \in 1 .. n : n + k > i
    BY <1>3
  <2>4. Event(id, "Registered")' = Event(id, "Registered")
    BY DEF Event
  <2> QED
    BY <1>7, <2>2, <2>3, <2>4 DEF Retracted
<1>9. CASE engine'[id] = engine[id]
  <2>1. Retracted(id)
    BY <1>9 DEF ResultsRetracted, InPjsua
  <2>2. \A k \in DOMAIN events : k \in 1 .. n
    BY <1>3
  <2>3. Event(id, "Registered")' = Event(id, "Registered")
    BY DEF Event
  <2>4. shown'[id] = "Registered" =>
          \E j \in DOMAIN events' : events'[j].id = id /\ events'[j].state # "Registered"
    BY <1>4, <2>1, <2>2 DEF Retracted
  <2>5. ASSUME NEW k \in DOMAIN events', events'[k] = Event(id, "Registered")
        PROVE  \E j \in DOMAIN events' : j > k /\ events'[j].id = id /\ events'[j].state # "Registered"
    <3>1. k \in DOMAIN events /\ events[k] = Event(id, "Registered")
      BY <1>3, <1>7, <2>5
    <3>2. PICK j \in DOMAIN events : j > k /\ events[j].id = id /\ events[j].state # "Registered"
      BY <2>1, <3>1 DEF Retracted
    <3> QED
      BY <1>4, <2>2, <3>2
  <2> QED
    BY <2>3, <2>4, <2>5 DEF Retracted
<1> QED
  BY <1>1, <1>8, <1>9

LEMMA HandlingRetracts ==
  ASSUME Types, ResultsRetracted, HandleEvent
  PROVE  ResultsRetracted'
<1> SUFFICES ASSUME NEW id \in Ids, ~InPjsua(id)' PROVE Retracted(id)'
  BY DEF ResultsRetracted
<1>1. /\ events # <<>> /\ events' = Tail(events) /\ events \in Seq(EventRecords)
      /\ shown' = [shown EXCEPT ![Head(events).id] = Head(events).state]
      /\ Head(events) = events[1] /\ events[1] \in EventRecords /\ UNCHANGED engine
  BY HandleEventMoves DEF Types, SipType
<1>2. /\ \A k \in DOMAIN events' : k + 1 \in DOMAIN events /\ events'[k] = events[k + 1]
      /\ \A k \in DOMAIN events : k = 1 \/ (k - 1 \in DOMAIN events' /\ events'[k - 1] = events[k])
      /\ 1 \in DOMAIN events /\ DOMAIN events \subseteq Nat
  BY <1>1, HeadTailProperties, LenProperties
<1>3. Retracted(id)
  BY <1>1 DEF ResultsRetracted, InPjsua
<1>4. Event(id, "Registered")' = Event(id, "Registered")
  BY DEF Event
<1>5. \A k \in DOMAIN events' : events'[k] = Event(id, "Registered") =>
        \E j \in DOMAIN events' : j > k /\ events'[j].id = id /\ events'[j].state # "Registered"
  <2> SUFFICES ASSUME NEW k \in DOMAIN events', events'[k] = Event(id, "Registered")
               PROVE  \E j \in DOMAIN events' : j > k /\ events'[j].id = id /\ events'[j].state # "Registered"
    OBVIOUS
  <2>1. PICK j \in DOMAIN events : j > k + 1 /\ events[j].id = id /\ events[j].state # "Registered"
    BY <1>2, <1>3 DEF Retracted
  <2>2. k \in Nat /\ j \in Nat
    BY <1>2, <1>1
  <2>3. j - 1 \in DOMAIN events' /\ events'[j - 1] = events[j] /\ j - 1 > k
    BY <1>2, <2>1, <2>2
  <2> QED
    BY <2>1, <2>3
<1>6. shown'[id] = "Registered" =>
        \E j \in DOMAIN events' : events'[j].id = id /\ events'[j].state # "Registered"
  <2> SUFFICES ASSUME shown'[id] = "Registered"
               PROVE  \E j \in DOMAIN events' : events'[j].id = id /\ events'[j].state # "Registered"
    OBVIOUS
  <2>1. shown \in [Ids -> RegistrationState]
    BY DEF Types, SipType
  <2>2. PICK j \in DOMAIN events : j # 1 /\ events[j].id = id /\ events[j].state # "Registered"
    <3>1. CASE events[1].id = id
      <4>1. events[1] = Event(id, "Registered")
        BY <1>1, <2>1, <3>1 DEF Event, EventRecords
      <4>2. PICK j \in DOMAIN events : j > 1 /\ events[j].id = id /\ events[j].state # "Registered"
        BY <1>2, <1>3, <4>1 DEF Retracted
      <4> QED
        BY <1>2, <4>2
    <3>2. CASE events[1].id # id
      <4>1. shown[id] = "Registered"
        BY <1>1, <2>1, <3>2
      <4> QED
        BY <1>3, <3>2, <4>1 DEF Retracted
    <3> QED
      BY <3>1, <3>2
  <2> QED
    BY <1>2, <2>2
<1> QED
  BY <1>4, <1>5, <1>6 DEF Retracted

LEMMA ResultRetracts ==
  ASSUME Types, ResultsRetracted, NEW p \in Ids, RegistrationResult(p)
  PROVE  ResultsRetracted'
<1> SUFFICES ASSUME NEW id \in Ids, ~InPjsua(id)' PROVE Retracted(id)'
  BY DEF ResultsRetracted
<1>1. engine' = [engine EXCEPT ![p] = "answered"] /\ UNCHANGED shown
  BY DEF RegistrationResult
<1>2. id # p /\ ~InPjsua(id)
  BY <1>1 DEF InPjsua, Types, SipType
<1>3. PICK state \in {"Registered", "Failed"} : events' = Append(events, Event(p, state))
  BY DEF RegistrationResult
<1>4. events \in Seq(EventRecords) /\ Event(p, state) \in EventRecords
  BY EventTyped DEF Types, SipType, RegistrationState
<1>5. /\ \A k \in DOMAIN events : k \in DOMAIN events' /\ events'[k] = events[k]
      /\ \A k \in DOMAIN events' : k \in DOMAIN events \/ events'[k] = Event(p, state)
  BY <1>3, <1>4, AppendProperties, LenProperties
<1>6. Event(p, state) # Event(id, "Registered") /\ Event(id, "Registered")' = Event(id, "Registered")
  BY <1>2 DEF Event
<1>7. Retracted(id)
  BY <1>2 DEF ResultsRetracted
<1> QED
  BY <1>1, <1>5, <1>6, <1>7 DEF Retracted

LEMMA ShownStep == Types /\ ResultsRetracted /\ [Next]_vars => ResultsRetracted'
<1>1. ASSUME UNCHANGED <<engine, events, shown>>, ResultsRetracted PROVE ResultsRetracted'
  BY <1>1 DEF ResultsRetracted, Retracted, InPjsua, Event
<1> QED
  BY <1>1, QueueSteps, HandlingRetracts, ResultRetracts, CommandsRetract

\* Once all events have been handled, what is shown as registered is
\* registered with pjsua (EngineChannel, the handler of
\* RegistrationStateChanged).
THEOREM ShownIsRegistered == Spec => []ShownFollowsEngine
<1>1. Init => ResultsRetracted
  BY DEF Init, ResultsRetracted, Retracted
<1>2. Spec => []ResultsRetracted
  BY <1>1, Inductive, ShownStep, PTL DEF Spec
<1> QED
  BY <1>2, ShownSuffices, PTL
-----------------------------------------------------------------------------
(* Accounts of the engine that are not listed *)

Claimed(a) == Listed(a) \/ a \in raced

\* Flow f may still register its account, or has registered it: its switch is
\* turned on, or its form has been accepted.
GoesOn(f) == ~At(f, "idle") /\ IF Switch(f) THEN flow[f].on ELSE ~At(f, "trial")

GhostInv ==
  /\ \A f \in Flows : GoesOn(f) => Claimed(flow[f].acct)
  /\ \A f \in Flows : At(f, "trial") /\ Switch(f) => flow[f].on
  /\ GhostsAreRaces

ClaimsGrow == \A a \in Accounts : Claimed(a) => Claimed(a)'
EngineClaims ==
  \A a \in Accounts : engine'[a] # "unknown" => engine[a] # "unknown" \/ Claimed(a)'

\* What flow r claims.
Claims(r) ==
  /\ r.at # "idle" /\ (IF r.kind = "switch" THEN r.on ELSE r.at # "trial") => Claimed(r.acct)'
  /\ r.at = "trial" /\ r.kind = "switch" => r.on

LEMMA ClaimsGrowSteps ==
  ASSUME Types, [Next]_vars, ~\E k \in DOMAIN cards : DeleteAccount(k)
  PROVE  ClaimsGrow
<1>1. raced \subseteq raced'
  <2>1. CASE User
    BY <2>1 DEF User, Toggle, FormSubmit, FormLeft, DialogClosed, SelectAccount, LeaveTab
  <2>2. CASE \E f \in Flows : FlowStep(f) \/ TrialTimeout(f)
    BY <2>2 DEF FlowStep, SwitchOn, SwitchVerified, FormSaved, SwitchOff, SwitchRefused,
       SelectionSaved, FormRefused, FormDropped, FormVerified, TrialTimeout
  <2> QED
    BY <2>1, <2>2 DEF Next, HandleEvent, Rebuild, RegistrationResult, SaveStep, Encode, Write, vars
<1>2. Range(accounts) \subseteq Range(accounts')
  <2>1. ASSUME NEW f \in Flows, NEW a \in Accounts, FormVerified(f, a)
        PROVE  Range(accounts) \subseteq Range(accounts')
    BY <2>1, AppendRange DEF FormVerified, Types, ListType
  <2>2. CASE (\E f \in Flows, ok \in BOOLEAN : SwitchVerified(f, ok))
             \/ (\E a \in Accounts : SelectAccount(a))
    BY <2>2 DEF SwitchVerified, SelectAccount
  <2> QED
    BY <2>1, <2>2, ListSteps
<1> QED
  BY <1>1, <1>2 DEF ClaimsGrow, Claimed, Listed

LEMMA MoveClaims ==
  ASSUME Types, GhostInv, ClaimsGrow, EngineClaims, NEW f \in Flows, NEW r, FlowTo(f, r),
         nextTrial' \in Nat \ {0}, Claims(r)
  PROVE  GhostInv'
<1>1. flow'[f] = r /\ ActsOnAccount' /\ \A g \in Flows \ {f} : flow'[g] = flow[g]
  BY FlowToTyped DEF Types
<1>2. \A a \in Accounts : Claimed(a)' <=> (Listed(a)' \/ a \in raced')
  BY DEF Claimed
<1>3. GhostsAreRaces'
  BY <1>2 DEF GhostInv, GhostsAreRaces, EngineClaims, ClaimsGrow, Claimed
<1>4. ASSUME NEW g \in Flows, GoesOn(g)' PROVE Claimed(flow[g].acct)'
  <2>1. CASE g = f
    <3>1. Claimed(r.acct)'
      BY <1>1, <1>4, <2>1 DEF Claims, GoesOn, At, Switch
    <3> QED
      BY <1>1, <2>1, <3>1 DEF Claimed, Listed
  <2>2. CASE g # f
    <3>1. GoesOn(g) /\ flow'[g] = flow[g]
      BY <1>1, <1>4, <2>2 DEF GoesOn, At, Switch
    <3>2. flow[g].acct \in Accounts /\ Claimed(flow[g].acct)
      BY <3>1 DEF GhostInv, GoesOn, Types, ActsOnAccount
    <3>3. PICK a \in Accounts : a = flow[g].acct
      BY <3>2
    <3>4. Claimed(a)'
      BY <3>2, <3>3 DEF ClaimsGrow
    <3> QED
      BY <3>1, <3>3, <3>4 DEF Claimed, Listed
  <2> QED
    BY <2>1, <2>2
<1>5. \A g \in Flows : At(g, "trial")' /\ Switch(g)' => flow'[g].on
  BY <1>1 DEF Claims, GhostInv, At, Switch
<1> QED
  BY <1>3, <1>4, <1>5 DEF GhostInv

\* The flows stay where they are, perhaps with another account of the list.
LEMMA StayClaims ==
  ASSUME Types, GhostInv, ClaimsGrow, EngineClaims,
         \A g \in Flows :
           /\ Stays(g) /\ flow'[g].on = flow[g].on
           /\ flow'[g].acct = flow[g].acct \/ flow'[g].acct \in Range(accounts)
  PROVE  GhostInv'
<1>1. GhostsAreRaces'
  BY DEF GhostInv, GhostsAreRaces, EngineClaims, ClaimsGrow, Claimed
<1>2. ASSUME NEW g \in Flows, GoesOn(g)' PROVE Claimed(flow[g].acct)'
  <2>1. GoesOn(g)
    BY <1>2 DEF GoesOn, At, Switch, Stays
  <2>2. flow[g].acct \in Accounts /\ Claimed(flow[g].acct)
    BY <2>1 DEF GhostInv, GoesOn, Types, ActsOnAccount
  <2>3. PICK a \in Accounts : a = flow'[g].acct /\ Claimed(a)
    BY <2>2, RangeTyped DEF Claimed, Listed, Types, ListType
  <2>4. Claimed(a)'
    BY <2>3 DEF ClaimsGrow
  <2> QED
    BY <2>3, <2>4 DEF Claimed, Listed
<1>3. \A g \in Flows : At(g, "trial")' /\ Switch(g)' => flow'[g].on
  BY DEF GhostInv, At, Switch, Stays
<1> QED
  BY <1>1, <1>2, <1>3 DEF GhostInv

LEMMA IdleClaims ==
  ASSUME Types, GhostInv, ClaimsGrow, EngineClaims, UNCHANGED flow
  PROVE  GhostInv'
<1>1. \A g \in Flows : Stays(g) /\ flow'[g].on = flow[g].on /\ flow'[g].acct = flow[g].acct
  BY DEF Stays, Types, FlowType
<1> QED
  BY <1>1, StayClaims

\* Commands about ids0 leave the engine's accounts claimed.
LEMMA CommandsClaim ==
  ASSUME NEW ids0, Commands(ids0),
         \A a \in Accounts : a \in ids0 => engine[a] # "unknown" \/ engine'[a] = "unknown" \/ Claimed(a)'
  PROVE  EngineClaims
BY CommandsKnow, IdsAre DEF EngineClaims

LEMMA SwitchClaims ==
  ASSUME Types, GhostInv, ClaimsGrow, NEW f \in Flows, NEW ok \in BOOLEAN,
         \/ SwitchOn(f, ok) \/ SwitchOff(f) \/ SwitchRefused(f)
         \/ SwitchVerified(f, ok) \/ SelectionSaved(f) \/ DialogClosed(f)
  PROVE  GhostInv'
<1>0. nextTrial \in Nat \ {0} /\ flow[f] \in FlowRecords
  BY RecordOf DEF Types, FlowType
<1>1. Claims(Idle)
  BY DEF Claims, Idle
<1>2. CASE SwitchOn(f, ok)
  <2>1. /\ StartTrial(f, flow[f], ok) /\ flow[f].acct \in Accounts /\ Switch(f)
        /\ ~At(f, "idle") /\ flow[f].on
    BY <1>2 DEF SwitchOn, At, Types, ActsOnAccount
  <2>2. PICK r : /\ FlowTo(f, r) /\ r.kind = flow[f].kind /\ r.acct = flow[f].acct /\ r.on = flow[f].on
    <3> DEFINE s == flow[f]
    <3>1. s \in FlowRecords /\ StartTrial(f, s, ok) /\ s.acct \in Accounts
      BY <1>0, <2>1
    <3> HIDE DEF s
    <3>2. \E r : FlowTo(f, r) /\ r.kind = s.kind /\ r.acct = s.acct /\ r.on = s.on
      BY <3>1, TrialMoves
    <3> QED
      BY <3>2 DEF s
  <2>3. nextTrial \in Trials /\ nextTrial \in Ids /\ nextTrial' \in Nat \ {0} /\ Register(nextTrial, ok)
    BY <1>0, <2>1, TrialMoves, IdsAre
  <2>4. EngineClaims
    <3>1. Commands({nextTrial}) /\ \A a \in Accounts : a \notin {nextTrial}
      BY <2>3, RegisterCommands, SetupAssumption DEF Types
    <3> QED
      BY <3>1, CommandsClaim
  <2>5. PICK a \in Accounts : a = flow[f].acct
    BY <2>1
  <2>6. Claimed(a)'
    BY <2>1, <2>5 DEF GhostInv, GoesOn, ClaimsGrow
  <2>7. Claims(r)
    BY <2>1, <2>2, <2>5, <2>6 DEF Claims, Claimed, Listed
  <2> QED
    BY <2>2, <2>3, <2>4, <2>7, MoveClaims
<1>3. CASE SwitchOff(f)
  <2>1. flow[f].acct \in Accounts /\ flow[f].acct \in Ids
    BY <1>3, SwitchOffTypes, IdsAre
  <2>2. EngineClaims
    <3>1. Commands({flow[f].acct}) /\ (engine[flow[f].acct] = "unknown" => UNCHANGED engine)
      BY <1>3, <2>1, LeavesCommands DEF SwitchOff, Types, Leaves, sip
    <3> QED
      BY <3>1, CommandsClaim
  <2>3. FlowTo(f, Idle) /\ nextTrial' \in Nat \ {0}
    BY <1>0, <1>3, FinishMoves DEF SwitchOff, Finish, ids
  <2> QED
    BY <1>1, <2>2, <2>3, MoveClaims
<1>4. CASE SwitchRefused(f)
  <2>1. /\ At(f, "trial") /\ Purge(f) /\ flow[f].acct \in Accounts /\ Switch(f)
        /\ nextTrial' \in Nat \ {0}
    BY <1>0, <1>4 DEF SwitchRefused, Types, ActsOnAccount, At, ids
  <2>2. EngineClaims
    <3>1. Commands({flow[f].trial}) /\ \A a \in Accounts : a \notin {flow[f].trial}
      BY <2>1, PurgeTypes, SetupAssumption
    <3> QED
      BY <3>1, CommandsClaim
  <2>3. CASE flow[f].mounted
    <3>1. PICK r : /\ FlowTo(f, r) /\ r.at = "dialog" /\ r.kind = flow[f].kind
                   /\ r.acct = flow[f].acct /\ r.on = flow[f].on
      BY <1>4, <2>1, <2>3, GotoMoves DEF SwitchRefused, Explain, Steps
    <3>2. PICK a \in Accounts : a = flow[f].acct
      BY <2>1
    <3>3. flow[f].on /\ Claimed(a)'
      BY <2>1, <3>2 DEF GhostInv, GoesOn, ClaimsGrow, At
    <3>4. Claims(r)
      BY <3>1, <3>2, <3>3 DEF Claims, Claimed, Listed
    <3> QED
      BY <2>1, <2>2, <3>1, <3>4, MoveClaims
  <2>4. CASE ~flow[f].mounted
    <3>1. FlowTo(f, Idle)
      BY <1>4, <2>4, FinishMoves DEF SwitchRefused, Explain, Finish
    <3> QED
      BY <1>1, <2>1, <2>2, <3>1, MoveClaims
  <2> QED
    BY <2>3, <2>4
<1>5. CASE SwitchVerified(f, ok)
  <2>1. /\ At(f, "trial") /\ Switch(f) /\ nextTrial' \in Nat \ {0}
        /\ flow[f].acct \in Accounts /\ flow[f].trial \in Trials
        /\ Commands({flow[f].trial, flow[f].acct})
    BY <1>0, <1>5, SwitchVerifiedTypes DEF SwitchVerified, ids
  <2>2. PICK a \in Accounts : a = flow[f].acct
    BY <2>1
  <2>3. flow[f].on /\ Claimed(a)'
    BY <2>1, <2>2 DEF GhostInv, GoesOn, ClaimsGrow, At
  <2>4. EngineClaims
    <3>1. \A b \in Accounts : b \in {flow[f].trial, flow[f].acct} => b = a
      BY <2>1, <2>2, SetupAssumption
    <3> QED
      BY <2>1, <2>3, <3>1, CommandsClaim
  <2>5. CASE Finish(f)
    <3>1. FlowTo(f, Idle)
      BY <2>5, FinishMoves DEF Finish
    <3> QED
      BY <1>1, <2>1, <2>4, <3>1, MoveClaims
  <2>7. CASE UNCHANGED flow
    BY <2>4, <2>7, IdleClaims
  <2>6. CASE Goto(f, "selecting")
    <3>1. PICK r : /\ FlowTo(f, r) /\ r.at = "selecting" /\ r.kind = flow[f].kind
                   /\ r.acct = flow[f].acct /\ r.on = flow[f].on
      BY <2>1, <2>6, GotoMoves DEF Steps
    <3>2. Claims(r)
      BY <2>2, <2>3, <3>1 DEF Claims, Claimed, Listed
    <3> QED
      BY <2>1, <2>4, <3>1, <3>2, MoveClaims
  <2> QED
    BY <1>5, <2>5, <2>6, <2>7 DEF SwitchVerified
<1>6. CASE SelectionSaved(f) \/ DialogClosed(f)
  <2>1. FlowTo(f, Idle) /\ nextTrial' \in Nat \ {0} /\ UNCHANGED engine
    BY <1>0, <1>6, FinishMoves DEF SelectionSaved, DialogClosed, Finish, ids, sip
  <2>2. EngineClaims
    BY <2>1 DEF EngineClaims
  <2> QED
    BY <1>1, <2>1, <2>2, MoveClaims
<1> QED
  BY <1>2, <1>3, <1>4, <1>5, <1>6

LEMMA FormClaims ==
  ASSUME Types, GhostInv, ClaimsGrow, NEW f \in Flows, NEW ok \in BOOLEAN,
         \/ \E a \in Accounts \cup {NoAccount} : FormSubmit(f, a, ok)
         \/ FormRefused(f) \/ FormDropped(f) \/ FormSaved(f, ok)
         \/ \E a \in Accounts : FormVerified(f, a)
  PROVE  GhostInv'
<1>0. nextTrial \in Nat \ {0} /\ flow[f] \in FlowRecords
  BY RecordOf DEF Types, FlowType
<1>1. Claims(Idle)
  BY DEF Claims, Idle
<1>2. ASSUME NEW a \in Accounts \cup {NoAccount}, FormSubmit(f, a, ok)
      PROVE  GhostInv'
  <2> DEFINE s == [Idle EXCEPT !.kind = "form", !.mounted = TRUE, !.acct = a, !.began = a]
  <2>1. StartTrial(f, s, ok) /\ s \in FlowRecords /\ s.kind = "form"
    BY <1>2, IdleTyped DEF FormSubmit, FlowRecords, Idle
  <2> HIDE DEF s
  <2>2. PICK r : FlowTo(f, r) /\ r.kind = "form" /\ r.at = "trial"
    BY <2>1, TrialMoves
  <2>3. nextTrial \in Trials /\ nextTrial \in Ids /\ nextTrial' \in Nat \ {0} /\ Register(nextTrial, ok)
    BY <2>1, TrialMoves, IdsAre
  <2>4. EngineClaims
    <3>1. Commands({nextTrial}) /\ \A b \in Accounts : b \notin {nextTrial}
      BY <2>3, RegisterCommands, SetupAssumption DEF Types
    <3> QED
      BY <3>1, CommandsClaim
  <2>5. Claims(r)
    BY <2>2 DEF Claims
  <2> QED
    BY <2>2, <2>3, <2>4, <2>5, MoveClaims
<1>3. CASE FormRefused(f) \/ FormDropped(f)
  <2>1. At(f, "trial") /\ Purge(f) /\ FlowTo(f, Idle) /\ nextTrial' \in Nat \ {0}
    BY <1>0, <1>3, FinishMoves DEF FormRefused, FormDropped, ids
  <2>2. EngineClaims
    <3>1. Commands({flow[f].trial}) /\ \A a \in Accounts : a \notin {flow[f].trial}
      BY <2>1, PurgeTypes, SetupAssumption
    <3> QED
      BY <3>1, CommandsClaim
  <2> QED
    BY <1>1, <2>1, <2>2, MoveClaims
<1>4. CASE FormSaved(f, ok)
  <2>1. PICK a \in Accounts : a = flow[f].acct /\ Commands({a})
    BY <1>4, FormSavedTypes
  <2>2. Claimed(a)'
    BY <1>4, <2>1 DEF FormSaved, GhostInv, GoesOn, ClaimsGrow, At
  <2>3. EngineClaims
    <3>1. \A b \in Accounts : b \in {a} => b = a
      OBVIOUS
    <3> QED
      BY <2>1, <2>2, <3>1, CommandsClaim
  <2>4. nextTrial' \in Nat \ {0} /\ (FlowTo(f, Idle) \/ UNCHANGED flow)
    BY <1>0, <1>4, FinishMoves DEF FormSaved, ids
  <2> QED
    BY <1>1, <2>3, <2>4, MoveClaims, IdleClaims
<1>5. ASSUME NEW a \in Accounts, FormVerified(f, a)
      PROVE  GhostInv'
  <2>1. PICK r : FlowTo(f, r) /\ r.at = "saving" /\ r.acct = a /\ r.kind = "form"
    BY <1>5, FormVerifiedTypes
  <2>2. At(f, "trial") /\ Purge(f) /\ UNCHANGED nextTrial
    BY <1>5 DEF FormVerified
  <2>3. EngineClaims
    <3>1. Commands({flow[f].trial}) /\ \A b \in Accounts : b \notin {flow[f].trial}
      BY <2>2, PurgeTypes, SetupAssumption
    <3> QED
      BY <3>1, CommandsClaim
  <2>4. a \in Range(accounts')
    BY <1>5, AppendRange DEF FormVerified, Listed, Types, ListType
  <2>5. Claims(r)
    BY <2>1, <2>4 DEF Claims, Claimed, Listed
  <2> QED
    BY <1>0, <2>1, <2>2, <2>3, <2>5, MoveClaims
<1> QED
  BY <1>2, <1>3, <1>4, <1>5

LEMMA ToggleClaims ==
  ASSUME Types, GhostInv, ClaimsGrow, NEW f \in Flows, NEW k \in DOMAIN cards, Toggle(f, k)
  PROVE  GhostInv'
<1>1. PICK r : /\ FlowTo(f, r) /\ r.kind = "switch" /\ r.acct = cards[k]
               /\ r.on = (cards[k] \notin enabled)
               /\ r.at = IF Listed(cards[k]) THEN "saving" ELSE "saved"
  BY ToggleMoves
<1>2. UNCHANGED <<accounts, engine, nextTrial>>
  BY DEF Toggle, sip, ids
<1>3. EngineClaims /\ nextTrial' \in Nat \ {0}
  BY <1>2 DEF EngineClaims, Types, FlowType
<1>4. ASSUME r.on PROVE Claimed(r.acct)'
  <2>1. CASE Listed(cards[k])
    BY <1>1, <1>2, <2>1 DEF Claimed, Listed
  <2>2. CASE ~Listed(cards[k])
    BY <1>1, <1>4, <2>2 DEF Toggle, Claimed, Listed
  <2> QED
    BY <2>1, <2>2
<1>5. Claims(r)
  BY <1>1, <1>4 DEF Claims
<1> QED
  BY <1>1, <1>3, <1>5, MoveClaims

LEMMA DeleteClaims ==
  ASSUME Types, GhostInv, NEW k \in DOMAIN cards, DeleteAccount(k)
  PROVE  GhostInv'
<1> DEFINE a == cards[k]
<1>1. /\ a \in Accounts /\ Commands({a}) /\ engine'[a] = "unknown" /\ UNCHANGED flow
      /\ raced \subseteq raced'
  BY DeleteMoves DEF screen
<1>2. \A b \in Accounts \ {a} : Listed(b) => Listed(b)'
  <2>1. CASE Listed(a)
    BY <2>1, DeleteMoves, WithoutProperties DEF Listed, Types, ListType
  <2>2. CASE ~Listed(a)
    BY <2>2, DeleteMoves DEF Listed
  <2> QED
    BY <2>1, <2>2
<1>3. \A b \in Accounts \ {a} : Claimed(b) => Claimed(b)'
  BY <1>1, <1>2 DEF Claimed
<1>4. \A b \in Accounts \ {a} : engine'[b] = engine[b]
  BY <1>1, CommandsKnow, IdsAre
<1>5. GhostsAreRaces'
  BY <1>1, <1>3, <1>4 DEF GhostInv, GhostsAreRaces, Claimed
<1>6. ASSUME NEW f \in Flows, GoesOn(f)' PROVE Claimed(flow[f].acct)'
  <2>1. GoesOn(f) /\ Claimed(flow[f].acct)
    BY <1>1, <1>6 DEF GhostInv, GoesOn, At, Switch
  <2>2. flow[f].acct \in Accounts
    BY <2>1 DEF GoesOn, Types, ActsOnAccount
  <2>3. PICK b \in Accounts : b = flow[f].acct
    BY <2>2
  <2>4. CASE b = a
    <3>1. f \in Registering(a)
      BY <2>1, <2>3, <2>4 DEF Registering, GoesOn
    <3>2. a \in raced'
      BY <3>1 DEF DeleteAccount
    <3> QED
      BY <1>1, <2>3, <2>4, <3>2 DEF Claimed
  <2>5. CASE b # a
    <3>1. Claimed(b)'
      BY <1>3, <2>1, <2>3, <2>5
    <3> QED
      BY <1>1, <2>3, <3>1 DEF Claimed, Listed
  <2> QED
    BY <2>4, <2>5
<1>7. \A f \in Flows : At(f, "trial")' /\ Switch(f)' => flow'[f].on
  BY <1>1 DEF GhostInv, At, Switch
<1> QED
  BY <1>5, <1>6, <1>7 DEF GhostInv
LEMMA WriteClaims ==
  ASSUME Types, GhostInv, ClaimsGrow, NEW w \in Slots, Write(w)
  PROVE  GhostInv'
<1> DEFINE f == saves[w].by
<1>1. f \in {NoFlow} \cup Flows /\ UNCHANGED engine
  BY DEF Types, DiskType, SaveRecords, Write, sip
<1>2. EngineClaims
  BY <1>1 DEF EngineClaims
<1>3. \A g \in Flows : /\ flow'[g].kind = flow[g].kind /\ flow'[g].acct = flow[g].acct
                       /\ flow'[g].on = flow[g].on /\ (g # f => flow'[g] = flow[g])
                       /\ g = f => flow'[g].at \in {"saved", "selected"}
  <2>1. CASE f = NoFlow
    BY <2>1, SetupAssumption DEF Write, Flows
  <2>2. CASE f # NoFlow
    <3>1. f \in Flows /\ Goto(f, IF At(f, "saving") THEN "saved" ELSE "selected")
      BY <1>1, <2>2 DEF Write
    <3> HIDE DEF f
    <3> QED
      BY <3>1 DEF Goto, Types, FlowType, FlowRecords
  <2> QED
    BY <2>1, <2>2
<1>4. f \in Flows => Waits(f)
  BY SetupAssumption DEF Types, SavesAwaited, Flows
<1> HIDE DEF f
<1>5. \A g \in Flows : GoesOn(g)' => GoesOn(g)
  BY <1>3, <1>4 DEF GoesOn, At, Switch, Waits
<1>6. \A g \in Flows : GoesOn(g) => flow[g].acct \in Accounts
  BY DEF GoesOn, Types, ActsOnAccount
<1>7. ASSUME NEW g \in Flows, GoesOn(g)' PROVE Claimed(flow[g].acct)'
  <2>1. PICK a \in Accounts : a = flow[g].acct /\ Claimed(a)
    BY <1>5, <1>6, <1>7 DEF GhostInv
  <2>2. Claimed(a)' /\ flow'[g].acct = a
    BY <1>3, <2>1 DEF ClaimsGrow
  <2> QED
    BY <2>2 DEF Claimed, Listed
<1>8. GhostsAreRaces'
  BY <1>2 DEF GhostInv, GhostsAreRaces, EngineClaims, ClaimsGrow, Claimed
<1>9. \A g \in Flows : At(g, "trial")' /\ Switch(g)' => flow'[g].on
  BY <1>3 DEF GhostInv, At, Switch
<1> QED
  BY <1>7, <1>8, <1>9 DEF GhostInv

LEMMA GhostStep == Types /\ GhostInv /\ [Next]_vars => GhostInv'
<1> SUFFICES ASSUME Types, GhostInv, [Next]_vars PROVE GhostInv'
  OBVIOUS
<1>1. ASSUME NEW k \in DOMAIN cards, DeleteAccount(k) PROVE GhostInv'
  BY <1>1, DeleteClaims
<1> SUFFICES ASSUME ~\E k \in DOMAIN cards : DeleteAccount(k) PROVE GhostInv'
  BY <1>1
<1>2. ClaimsGrow
  BY ClaimsGrowSteps
<1>3. CASE UNCHANGED <<flow, engine>>
  <2>1. /\ \A g \in Flows : /\ Stays(g) /\ flow'[g].on = flow[g].on
                            /\ flow'[g].acct = flow[g].acct
        /\ EngineClaims
    BY <1>3 DEF Stays, EngineClaims, Types, FlowType
  <2> QED
    BY <1>2, <2>1, StayClaims
<1>4. ASSUME NEW f \in Flows, FormLeft(f) \/ TrialTimeout(f) PROVE GhostInv'
  <2>1. EngineClaims
    BY <1>4 DEF FormLeft, TrialTimeout, sip, EngineClaims
  <2> QED
    BY <1>2, <1>4, <2>1, FormLeftMoves, StayClaims
<1>5. CASE Rebuild \/ LeaveTab
  <2>1. EngineClaims
    BY <1>5, RebuildMoves DEF sip, EngineClaims
  <2> QED
    BY <1>2, <1>5, <2>1, RebuildMoves, StayClaims
<1>6. CASE HandleEvent
  <2>1. EngineClaims
    BY <1>6, HandleEventMoves DEF EngineClaims
  <2> QED
    BY <1>2, <1>6, <2>1, HandleEventMoves, StayClaims
<1>7. ASSUME NEW id \in Ids, RegistrationResult(id) PROVE GhostInv'
  <2>1. UNCHANGED flow /\ engine' = [engine EXCEPT ![id] = "answered"] /\ engine[id] = "added"
    BY <1>7 DEF RegistrationResult, screen
  <2>2. EngineClaims
    BY <2>1, IdsAre DEF EngineClaims, Types, SipType
  <2>3. \A g \in Flows : Stays(g) /\ flow'[g].on = flow[g].on /\ flow'[g].acct = flow[g].acct
    BY <2>1 DEF Stays, Types, FlowType
  <2> QED
    BY <1>2, <2>2, <2>3, StayClaims
<1>8. ASSUME NEW w \in Slots, SaveStep(w) PROVE GhostInv'
  BY <1>2, <1>3, <1>8, WriteClaims DEF SaveStep, Encode, screen, sip
<1>9. CASE User
  <2>1. ASSUME NEW f \in Flows, NEW a \in Range(cards) \cup {NoAccount}, NEW ok \in BOOLEAN,
               FormSubmit(f, a, ok)
        PROVE  GhostInv'
    <3>1. a \in Accounts \cup {NoAccount}
      BY RangeTyped DEF Types, ListType
    <3> QED
      BY <1>2, <2>1, <3>1, FormClaims
  <2>2. ASSUME NEW f \in Flows, DialogClosed(f) PROVE GhostInv'
    <3>1. TRUE \in BOOLEAN
      OBVIOUS
    <3> QED
      BY <1>2, <2>2, <3>1, SwitchClaims
  <2>3. ASSUME NEW f \in Flows, NEW k \in DOMAIN cards, Toggle(f, k) PROVE GhostInv'
    BY <1>2, <2>3, ToggleClaims
  <2>4. ASSUME NEW a \in Accounts, SelectAccount(a) PROVE GhostInv'
    BY <1>3, <2>4 DEF SelectAccount, screen, sip
  <2> QED
    BY <1>4, <1>5, <1>9, <2>1, <2>2, <2>3, <2>4 DEF User
<1>10. ASSUME NEW f \in Flows, FlowStep(f) PROVE GhostInv'
  <2>1. PICK ok \in BOOLEAN :
          \/ SwitchOn(f, ok) \/ SwitchVerified(f, ok) \/ FormSaved(f, ok)
          \/ SwitchOff(f) \/ SwitchRefused(f) \/ SelectionSaved(f) \/ FormRefused(f)
          \/ FormDropped(f) \/ \E a \in Accounts : FormVerified(f, a)
    BY <1>10 DEF FlowStep
  <2> QED
    BY <1>2, <2>1, SwitchClaims, FormClaims
<1>11. CASE UNCHANGED vars
  BY <1>3, <1>11 DEF vars, screen, sip
<1> QED
  BY <1>4, <1>5, <1>6, <1>7, <1>8, <1>9, <1>10, <1>11 DEF Next

\* "Accounts are stored in Flutter and mirrored into Rust": the engine has an
\* account that is not stored only if it was deleted while a switch or the
\* form went on with it (deleteAccount, _toggleRegistration, saveAccount).
THEOREM GhostsWereDeleted == Spec => []GhostsAreRaces
<1>1. Init => GhostInv
  <2> SUFFICES ASSUME Init PROVE GhostInv
    OBVIOUS
  <2>1. \A a \in Accounts : engine[a] # "unknown" => a \in Range(accounts)
    BY InitList, IdsAre DEF Init
  <2>2. \A f \in Flows : At(f, "idle") /\ ~At(f, "trial")
    BY DEF Init, At, Idle
  <2> QED
    BY <2>1, <2>2 DEF GhostInv, GoesOn, GhostsAreRaces, Listed
<1>2. GhostInv => GhostsAreRaces
  BY DEF GhostInv
<1> QED
  BY <1>1, <1>2, Inductive, GhostStep, PTL DEF Spec

===============================================================================
