-------------------------- MODULE EngineLocksProofs --------------------------
(***************************************************************************)
(* The circular waits of EngineLocks, for any number of threads, slots,    *)
(* commands and events: which locks an agent may hold while it waits for   *)
(* another follows from what it has still to do.                           *)
(***************************************************************************)
EXTENDS EngineLocks, SequenceTheorems, TLAPS

-----------------------------------------------------------------------------
(* What an agent has still to do *)

OnCalls == {"request", "answer", "hangup", "close", "insert", "route", "state",
            "media", "ended", "free"}

\* What the instructions are about.
Instruction(x) ==
  /\ x \in Kinds \X Locks
  /\ x[1] \in OnCalls => x[2] \in Slots
  /\ x[1] = "push" => x[2] = "ACCOUNTS"
  /\ x[1] = "touch" => x[2] \notin Slots

LocksCall(x) == x[1] = "lock" /\ x[2] \in Slots

Opens(l, x) == x[1] = "lock" /\ x[2] = l

\* The instruction lets go of l, or is replaced by others that do.
Covers(l, x) ==
  \/ x[1] = "unlock" /\ x[2] = l
  \/ x[1] = "push" /\ l = "CALLS"
  \/ x[1] \in {"start", "invite"} /\ l = "PJSUA"

\* Instruction i of s is met with l held: l is let go later, and not taken
\* before that.
Under(s, i, l) ==
  \E k \in DOMAIN s : /\ k >= i /\ Covers(l, s[k])
                      /\ \A j \in DOMAIN s : i <= j /\ j < k => ~Opens(l, s[j])

\* What may be done with CALLS held, and with PJSUA_LOCK held.
UnderCalls(x, kind, a) ==
  \/ x[1] \in {"push", "request", "unlock"}
  \/ x[1] = "touch" /\ x[2] = "PJSUA" /\ (a = Worker \/ kind \in {"dtmf", "answer"})

UnderPjsua(x, kind, a) ==
  IF a # Worker THEN x[1] \in {"start", "unlock"}
  ELSE \/ kind = "invite"
       \/ kind = "result" /\ (x[1] = "unlock" \/ (x[1] = "touch" /\ x[2] = "ACCOUNTS"))

Allowed(l, x, kind, a) ==
  /\ l = "CALLS" => UnderCalls(x, kind, a)
  /\ l = "PJSUA" => UnderPjsua(x, kind, a)

\* What is done by certain commands and events only.
OfKind(x, kind, a) ==
  /\ x[1] \in {"lock", "unlock"} /\ x[2] = "ACCOUNTS" => kind = "register"
  /\ x[1] = "media" => a = Worker \/ kind = "answer"
  /\ x[1] = "answer" => kind = "answer"
  /\ x[1] = "start" => a # Worker
  /\ x[1] = "invite" => a = Worker /\ kind = "invite"

\* What is still to be done of a command or an event of this kind.
Shape(s, kind, a) ==
  /\ s \in Seq(Kinds \X Locks)
  /\ \A i \in DOMAIN s : Instruction(s[i]) /\ OfKind(s[i], kind, a)
  /\ \A i \in DOMAIN s : \A l \in Locks :
       /\ Opens(l, s[i]) => Under(s, i + 1, l)
       /\ Covers(l, s[i]) => ~Under(s, i + 1, l)
       /\ Under(s, i, l) => Allowed(l, s[i], kind, a)
  /\ \A i \in DOMAIN s : s[i][1] \in {"start", "invite"} => i = Len(s)
  /\ \A i \in DOMAIN s : LocksCall(s[i]) => i = 1 /\ a = Worker

\* The inductive invariant: a lock is held exactly until it is let go, and the
\* worker takes the lock of a dialog first of all.
Held ==
  \A a \in Agents, l \in Locks : owner[l] = a <=> Under(code[a], 1, l)

LocksFirst ==
  \A a \in Agents : code[a] # <<>> /\ LocksCall(code[a][1]) => \A l \in Locks : owner[l] # a

Typed ==
  /\ owner \in [Locks -> Agents \cup {Nobody}]
  /\ DOMAIN code = Agents
  /\ job \in [Agents -> Commands \cup Events \cup {"idle"}]
  /\ sess \in [Slots -> {"free", "incoming", "up", "closing"}]
  /\ known \subseteq Slots
  /\ routed \subseteq Slots
  /\ left \in [commands : 0 .. MaxCommands, events : 0 .. MaxEvents]

LocksInv ==
  /\ Typed
  /\ code \in [Agents -> Seq(Kinds \X Locks)]
  /\ \A a \in Agents : Shape(code[a], job[a], a)
  /\ Held
  /\ LocksFirst

-----------------------------------------------------------------------------
(* One instruction before the rest of the code *)

\* No lock of a dialog is taken in s.
Quiet(s) == \A i \in DOMAIN s : ~LocksCall(s[i])

Rest(s, kind, a) == Shape(s, kind, a) /\ Quiet(s)

\* What x may be when v comes after it.
Fits(x, v, kind, a) ==
  /\ Instruction(x) /\ OfKind(x, kind, a)
  /\ \A l \in Locks :
       /\ Opens(l, x) => Under(v, 1, l)
       /\ Covers(l, x) => ~Under(v, 1, l)
       /\ Covers(l, x) \/ (~Opens(l, x) /\ Under(v, 1, l)) => Allowed(l, x, kind, a)
  /\ x[1] \in {"start", "invite"} => v = <<>>
  /\ LocksCall(x) => a = Worker

\* The elements of a sequence with one more in front.
LEMMA ConsIs ==
  ASSUME NEW T, NEW x \in T, NEW v \in Seq(T)
  PROVE  /\ <<x>> \o v \in Seq(T)
         /\ DOMAIN (<<x>> \o v) = 1 .. Len(v) + 1
         /\ Len(<<x>> \o v) = Len(v) + 1
         /\ DOMAIN v = 1 .. Len(v)
         /\ Len(v) \in Nat
         /\ (<<x>> \o v)[1] = x
         /\ \A i \in 1 .. Len(v) : (<<x>> \o v)[i + 1] = v[i]
         /\ <<x>> \o v # <<>>
<1>1. <<x>> \in Seq(T) /\ Len(<<x>>) = 1 /\ <<x>>[1] = x
  OBVIOUS
<1>2. QED
  BY <1>1, ConcatProperties

LEMMA HeadAndTail ==
  ASSUME NEW T, NEW s \in Seq(T), s # <<>>
  PROVE  s[1] \in T /\ Tail(s) \in Seq(T) /\ s = <<s[1]>> \o Tail(s)
<1>1. s[1] \in T /\ Tail(s) \in Seq(T) /\ Len(Tail(s)) = Len(s) - 1 /\ Len(s) \in Nat \ {0}
  BY EmptySeq, LenProperties, HeadTailProperties
<1>2. \A i \in 1 .. Len(s) - 1 : Tail(s)[i] = s[i + 1]
  BY HeadTailProperties
<1>3. <<s[1]>> \o Tail(s) \in Seq(T) /\ Len(<<s[1]>> \o Tail(s)) = Len(s)
  BY <1>1, ConsIs
<1>4. ASSUME NEW i \in 1 .. Len(s)
      PROVE  s[i] = (<<s[1]>> \o Tail(s))[i]
  <2>1. CASE i = 1
    BY <2>1, <1>1, ConsIs
  <2>2. CASE i # 1
    <3>1. i - 1 \in 1 .. Len(Tail(s)) /\ (i - 1) + 1 = i
      BY <2>2, <1>1
    <3>2. (<<s[1]>> \o Tail(s))[(i - 1) + 1] = Tail(s)[i - 1]
      BY <3>1, <1>1, ConsIs
    <3>3. QED
      BY <3>1, <3>2, <1>1, <1>2
  <2>3. QED
    BY <2>1, <2>2
<1>5. QED
  BY <1>1, <1>3, <1>4, SeqEqual

LEMMA UnderNothing ==
  ASSUME NEW l PROVE ~Under(<<>>, 1, l)
BY DEF Under

\* A lock is held at an instruction that lets go of it, and where it is held
\* afterwards unless the instruction takes it.
LEMMA UnderShift ==
  ASSUME NEW T, NEW x \in T, NEW v \in Seq(T), NEW l, NEW i \in Nat \ {0}
  PROVE  Under(<<x>> \o v, i + 1, l) <=> Under(v, i, l)
<1> DEFINE s == <<x>> \o v
<1>0. /\ DOMAIN s = 1 .. Len(v) + 1 /\ DOMAIN v = 1 .. Len(v) /\ Len(v) \in Nat
      /\ \A j \in 1 .. Len(v) : s[j + 1] = v[j]
  BY ConsIs
<1>01. \A j \in 2 .. Len(v) + 1 : j - 1 \in 1 .. Len(v) /\ s[j] = v[j - 1]
  BY <1>0
<1> HIDE DEF s
<1>1. ASSUME Under(s, i + 1, l) PROVE Under(v, i, l)
  <2>1. PICK k \in DOMAIN s : /\ k >= i + 1 /\ Covers(l, s[k])
                             /\ \A j \in DOMAIN s : i + 1 <= j /\ j < k => ~Opens(l, s[j])
    BY <1>1 DEF Under
  <2>2. k - 1 \in DOMAIN v /\ k - 1 >= i /\ Covers(l, v[k - 1])
    BY <2>1, <1>0, <1>01
  <2>3. ASSUME NEW j \in DOMAIN v, i <= j, j < k - 1 PROVE ~Opens(l, v[j])
    <3>1. j + 1 \in DOMAIN s /\ i + 1 <= j + 1 /\ j + 1 < k /\ s[j + 1] = v[j]
      BY <2>3, <2>1, <1>0
    <3>2. QED
      BY <3>1, <2>1
  <2>4. QED
    BY <2>2, <2>3 DEF Under
<1>2. ASSUME Under(v, i, l) PROVE Under(s, i + 1, l)
  <2>1. PICK k \in DOMAIN v : /\ k >= i /\ Covers(l, v[k])
                             /\ \A j \in DOMAIN v : i <= j /\ j < k => ~Opens(l, v[j])
    BY <1>2 DEF Under
  <2>2. k + 1 \in DOMAIN s /\ k + 1 >= i + 1 /\ Covers(l, s[k + 1])
    BY <2>1, <1>0
  <2>3. ASSUME NEW j \in DOMAIN s, i + 1 <= j, j < k + 1 PROVE ~Opens(l, s[j])
    <3>1. j - 1 \in DOMAIN v /\ i <= j - 1 /\ j - 1 < k /\ s[j] = v[j - 1]
      BY <2>3, <2>1, <1>0, <1>01
    <3>2. QED
      BY <3>1, <2>1
  <2>4. QED
    BY <2>2, <2>3 DEF Under
<1>3. QED
  BY <1>1, <1>2 DEF s

LEMMA UnderCons ==
  ASSUME NEW T, NEW x \in T, NEW v \in Seq(T), NEW l
  PROVE  Under(<<x>> \o v, 1, l) <=> Covers(l, x) \/ (~Opens(l, x) /\ Under(v, 1, l))
<1> DEFINE s == <<x>> \o v
<1>0. /\ DOMAIN s = 1 .. Len(v) + 1 /\ Len(v) \in Nat /\ s[1] = x
  BY ConsIs
<1>1. Under(s, 1 + 1, l) <=> Under(v, 1, l)
  BY UnderShift
<1> HIDE DEF s
<1>2. ASSUME Under(s, 1, l), ~Covers(l, x) PROVE ~Opens(l, x) /\ Under(s, 1 + 1, l)
  <2>1. PICK k \in DOMAIN s : /\ k >= 1 /\ Covers(l, s[k])
                             /\ \A j \in DOMAIN s : 1 <= j /\ j < k => ~Opens(l, s[j])
    BY <1>2 DEF Under
  <2>2. k # 1
    BY <2>1, <1>2, <1>0
  <2>3. QED
    BY <2>1, <2>2, <1>0 DEF Under
<1>3. ASSUME Covers(l, x) PROVE Under(s, 1, l)
  <2>1. 1 \in DOMAIN s /\ Covers(l, s[1]) /\ 1 >= 1
    BY <1>3, <1>0
  <2>2. \A j \in DOMAIN s : 1 <= j /\ j < 1 => ~Opens(l, s[j])
    BY <1>0
  <2>3. QED
    BY <2>1, <2>2 DEF Under
<1>4. ASSUME ~Opens(l, x), Under(s, 1 + 1, l) PROVE Under(s, 1, l)
  <2>1. PICK k \in DOMAIN s : /\ k >= 2 /\ Covers(l, s[k])
                             /\ \A j \in DOMAIN s : 2 <= j /\ j < k => ~Opens(l, s[j])
    BY <1>4 DEF Under
  <2>2. \A j \in DOMAIN s : 1 <= j /\ j < k => ~Opens(l, s[j])
    <3>1. ASSUME NEW j \in DOMAIN s, 1 <= j, j < k PROVE ~Opens(l, s[j])
      <4>1. CASE j = 1
        BY <4>1, <1>4, <1>0
      <4>2. CASE j # 1
        BY <4>2, <3>1, <2>1, <1>0
      <4>3. QED
        BY <4>1, <4>2
    <3>2. QED
      BY <3>1
  <2>3. k >= 1
    BY <2>1, <1>0
  <2>4. QED
    BY <2>1, <2>2, <2>3 DEF Under
<1>5. QED
  BY <1>1, <1>2, <1>3, <1>4 DEF s

\* Code is in shape when its first instruction fits the rest of it.
LEMMA ShapeCons ==
  ASSUME NEW x \in Kinds \X Locks, NEW v, NEW kind, NEW a,
         Rest(v, kind, a), Fits(x, v, kind, a)
  PROVE  /\ Shape(<<x>> \o v, kind, a)
         /\ ~LocksCall(x) => Rest(<<x>> \o v, kind, a)
<1> DEFINE s == <<x>> \o v
           T == Kinds \X Locks
<1>0. v \in Seq(T)
  BY DEF Rest, Shape
<1>1. /\ DOMAIN s = 1 .. Len(v) + 1 /\ DOMAIN v = 1 .. Len(v) /\ Len(v) \in Nat
      /\ \A i \in 1 .. Len(v) : s[i + 1] = v[i]
      /\ s[1] = x /\ s \in Seq(T) /\ Len(s) = Len(v) + 1
  BY <1>0, ConsIs
<1>2. \A l : Under(s, 1, l) <=> Covers(l, x) \/ (~Opens(l, x) /\ Under(v, 1, l))
  BY <1>0, UnderCons
<1>3. \A l : \A i \in Nat \ {0} : Under(s, i + 1, l) <=> Under(v, i, l)
  BY <1>0, UnderShift
<1>4. \A i \in DOMAIN s : i # 1 => /\ i - 1 \in DOMAIN v /\ i - 1 \in Nat \ {0}
                                   /\ s[i] = v[i - 1] /\ (i - 1) + 1 = i
  BY <1>1
<1> HIDE DEF s, T
<1>5. \A i \in DOMAIN s : Instruction(s[i]) /\ OfKind(s[i], kind, a)
  BY <1>1, <1>4 DEF Rest, Shape, Fits
<1>6. ASSUME NEW i \in DOMAIN s, NEW l \in Locks
      PROVE  /\ Opens(l, s[i]) => Under(s, i + 1, l)
             /\ Covers(l, s[i]) => ~Under(s, i + 1, l)
             /\ Under(s, i, l) => Allowed(l, s[i], kind, a)
  <2>1. CASE i = 1
    <3>1. (Opens(l, x) => Under(v, 1, l)) /\ (Covers(l, x) => ~Under(v, 1, l))
      BY DEF Fits
    <3>2. Under(s, 1 + 1, l) <=> Under(v, 1, l)
      BY <1>3
    <3>3. Under(s, 1, l) => Allowed(l, x, kind, a)
      BY <1>2 DEF Fits
    <3>4. QED
      BY <2>1, <3>1, <3>2, <3>3, <1>1
  <2>2. CASE i # 1
    <3>1. i - 1 \in DOMAIN v /\ i - 1 \in Nat \ {0} /\ s[i] = v[i - 1] /\ (i - 1) + 1 = i
      BY <2>2, <1>4
    <3>2. PICK j \in Nat \ {0} : j = i - 1
      BY <3>1
    <3>3. /\ Opens(l, v[j]) => Under(v, j + 1, l)
          /\ Covers(l, v[j]) => ~Under(v, j + 1, l)
          /\ Under(v, j, l) => Allowed(l, v[j], kind, a)
      BY <3>1, <3>2 DEF Rest, Shape
    <3>4. /\ Under(s, j + 1, l) <=> Under(v, j, l)
          /\ Under(s, (j + 1) + 1, l) <=> Under(v, j + 1, l)
      <4>1. j + 1 \in Nat \ {0}
        BY <3>2
      <4>2. QED
        BY <1>3, <4>1
    <3>5. j + 1 = i /\ s[i] = v[j]
      BY <3>1, <3>2
    <3>6. QED
      BY <3>3, <3>4, <3>5
  <2>3. QED
    BY <2>1, <2>2
<1>7. ASSUME NEW i \in DOMAIN s, s[i][1] \in {"start", "invite"} PROVE i = Len(s)
  <2>1. CASE i = 1
    <3>1. v = <<>>
      BY <1>7, <2>1, <1>1 DEF Fits
    <3>2. QED
      BY <3>1, <2>1, <1>1
  <2>2. CASE i # 1
    <3>1. i - 1 = Len(v)
      BY <1>7, <2>2, <1>4 DEF Rest, Shape
    <3>2. QED
      BY <3>1, <1>1
  <2>3. QED
    BY <2>1, <2>2
<1>8. \A i \in DOMAIN s : LocksCall(s[i]) => i = 1 /\ a = Worker
  BY <1>1, <1>4 DEF Rest, Quiet, Fits
<1>9. Shape(s, kind, a)
  BY <1>1, <1>5, <1>6, <1>7, <1>8 DEF Shape, T
<1>10. ~LocksCall(x) => Quiet(s)
  BY <1>1, <1>4 DEF Rest, Quiet
<1>11. QED
  BY <1>9, <1>10 DEF Rest, s

\* What is left when the first instruction is done.
LEMMA ShapeRest ==
  ASSUME NEW s, s # <<>>, NEW kind, NEW a, Shape(s, kind, a)
  PROVE  /\ s[1] \in Kinds \X Locks /\ Rest(Tail(s), kind, a)
         /\ Fits(s[1], Tail(s), kind, a)
         /\ \A l \in Locks : Under(s, 1, l) <=>
              Covers(l, s[1]) \/ (~Opens(l, s[1]) /\ Under(Tail(s), 1, l))
<1> DEFINE T == Kinds \X Locks
<1>0. PICK x, v : x = s[1] /\ v = Tail(s)
  OBVIOUS
<1>1. x \in T /\ v \in Seq(T) /\ s = <<x>> \o v
  BY <1>0, HeadAndTail DEF Shape
<1>2. /\ DOMAIN s = 1 .. Len(v) + 1 /\ DOMAIN v = 1 .. Len(v) /\ Len(v) \in Nat
      /\ \A i \in 1 .. Len(v) : s[i + 1] = v[i]
      /\ s[1] = x /\ s \in Seq(T) /\ Len(s) = Len(v) + 1
  BY <1>1, ConsIs
<1>3. \A l : Under(s, 1, l) <=> Covers(l, x) \/ (~Opens(l, x) /\ Under(v, 1, l))
  BY <1>1, UnderCons
<1>4. \A l : \A i \in Nat \ {0} : Under(s, i + 1, l) <=> Under(v, i, l)
  BY <1>1, UnderShift
<1> HIDE DEF T
<1>5. \A i \in DOMAIN v : /\ i + 1 \in DOMAIN s /\ s[i + 1] = v[i] /\ i \in Nat \ {0}
                          /\ i + 1 \in Nat \ {0} /\ i + 1 # 1
  BY <1>2
<1>6. 1 \in DOMAIN s
  BY <1>2
<1>7. ASSUME NEW i \in DOMAIN v, NEW l \in Locks
      PROVE  /\ Opens(l, v[i]) => Under(v, i + 1, l)
             /\ Covers(l, v[i]) => ~Under(v, i + 1, l)
             /\ Under(v, i, l) => Allowed(l, v[i], kind, a)
  <2>1. PICK j \in Nat \ {0} : j = i + 1
    BY <1>5
  <2>2. /\ Opens(l, s[j]) => Under(s, j + 1, l)
        /\ Covers(l, s[j]) => ~Under(s, j + 1, l)
        /\ Under(s, j, l) => Allowed(l, s[j], kind, a)
    BY <2>1, <1>5 DEF Shape
  <2>3. Under(s, j + 1, l) <=> Under(v, j, l)
    BY <1>4
  <2>4. Under(s, i + 1, l) <=> Under(v, i, l)
    BY <1>4, <1>5
  <2>5. QED
    BY <2>1, <2>2, <2>3, <2>4, <1>5
<1>8. \A i \in DOMAIN v : v[i][1] \in {"start", "invite"} => i = Len(v)
  <2>1. ASSUME NEW i \in DOMAIN v, v[i][1] \in {"start", "invite"} PROVE i = Len(v)
    <3>1. i + 1 = Len(s)
      BY <2>1, <1>5 DEF Shape
    <3>2. QED
      BY <3>1, <1>2
  <2>2. QED
    BY <2>1
<1>9. Quiet(v)
  BY <1>5 DEF Shape, Quiet
<1>10. \A i \in DOMAIN v : Instruction(v[i]) /\ OfKind(v[i], kind, a)
  BY <1>5 DEF Shape
<1>11. Rest(v, kind, a)
  BY <1>1, <1>7, <1>8, <1>9, <1>10 DEF Rest, Shape, Quiet, T
<1>12. Fits(x, v, kind, a)
  <2>1. Instruction(x) /\ OfKind(x, kind, a) /\ (LocksCall(x) => a = Worker)
    BY <1>6, <1>2 DEF Shape
  <2>2. \A l \in Locks : /\ Opens(l, x) => Under(v, 1, l)
                         /\ Covers(l, x) => ~Under(v, 1, l)
    <3>1. \A l \in Locks : /\ Opens(l, x) => Under(s, 1 + 1, l)
                           /\ Covers(l, x) => ~Under(s, 1 + 1, l)
      BY <1>6, <1>2 DEF Shape
    <3>2. QED
      BY <3>1, <1>4
  <2>3. \A l \in Locks : Under(s, 1, l) => Allowed(l, x, kind, a)
    BY <1>6, <1>2 DEF Shape
  <2>4. x[1] \in {"start", "invite"} => v = <<>>
    <3>1. x[1] \in {"start", "invite"} => Len(v) = 0
      <4>1. x[1] \in {"start", "invite"} => 1 = Len(s)
        BY <1>6, <1>2 DEF Shape
      <4>2. QED
        BY <4>1, <1>2
    <3>2. QED
      BY <3>1, <1>1, EmptySeq
  <2>5. \A l \in Locks : Covers(l, x) \/ (~Opens(l, x) /\ Under(v, 1, l)) => Allowed(l, x, kind, a)
    BY <2>3, <1>3
  <2>6. QED
    BY <2>1, <2>2, <2>4, <2>5 DEF Fits
<1>13. QED
  BY <1>0, <1>1, <1>3, <1>11, <1>12 DEF T

-----------------------------------------------------------------------------
(* The code that an instruction is replaced by *)

\* A list is its first element and the others.
LEMMA Literal2 ==
  ASSUME NEW x1, NEW x2
  PROVE  <<x1, x2>> = <<x1>> \o <<x2>>
<1>0. PICK T : T = {x1, x2}
  OBVIOUS
<1>1. /\ <<x1, x2>> \in Seq(T) /\ <<x1, x2>> # <<>>
      /\ Tail(<<x1, x2>>) = <<x2>> /\ <<x1, x2>>[1] = x1
  BY <1>0
<1>2. QED
  BY <1>1, HeadAndTail

LEMMA Literal3 ==
  ASSUME NEW x1, NEW x2, NEW x3
  PROVE  <<x1, x2, x3>> = <<x1>> \o <<x2, x3>>
<1>0. PICK T : T = {x1, x2, x3}
  OBVIOUS
<1>1. /\ <<x1, x2, x3>> \in Seq(T) /\ <<x1, x2, x3>> # <<>>
      /\ Tail(<<x1, x2, x3>>) = <<x2, x3>> /\ <<x1, x2, x3>>[1] = x1
  BY <1>0
<1>2. QED
  BY <1>1, HeadAndTail

LEMMA Literal4 ==
  ASSUME NEW x1, NEW x2, NEW x3, NEW x4
  PROVE  <<x1, x2, x3, x4>> = <<x1>> \o <<x2, x3, x4>>
<1>0. PICK T : T = {x1, x2, x3, x4}
  OBVIOUS
<1>1. /\ <<x1, x2, x3, x4>> \in Seq(T) /\ <<x1, x2, x3, x4>> # <<>>
      /\ Tail(<<x1, x2, x3, x4>>) = <<x2, x3, x4>> /\ <<x1, x2, x3, x4>>[1] = x1
  BY <1>0
<1>2. QED
  BY <1>1, HeadAndTail

LEMMA Literal5 ==
  ASSUME NEW x1, NEW x2, NEW x3, NEW x4, NEW x5
  PROVE  <<x1, x2, x3, x4, x5>> = <<x1>> \o <<x2, x3, x4, x5>>
<1>0. PICK T : T = {x1, x2, x3, x4, x5}
  OBVIOUS
<1>1. /\ <<x1, x2, x3, x4, x5>> \in Seq(T) /\ <<x1, x2, x3, x4, x5>> # <<>>
      /\ Tail(<<x1, x2, x3, x4, x5>>) = <<x2, x3, x4, x5>> /\ <<x1, x2, x3, x4, x5>>[1] = x1
  BY <1>0
<1>2. QED
  BY <1>1, HeadAndTail

LEMMA Literal6 ==
  ASSUME NEW x1, NEW x2, NEW x3, NEW x4, NEW x5, NEW x6
  PROVE  <<x1, x2, x3, x4, x5, x6>> = <<x1>> \o <<x2, x3, x4, x5, x6>>
<1>0. PICK T : T = {x1, x2, x3, x4, x5, x6}
  OBVIOUS
<1>1. /\ <<x1, x2, x3, x4, x5, x6>> \in Seq(T) /\ <<x1, x2, x3, x4, x5, x6>> # <<>>
      /\ Tail(<<x1, x2, x3, x4, x5, x6>>) = <<x2, x3, x4, x5, x6>> /\ <<x1, x2, x3, x4, x5, x6>>[1] = x1
  BY <1>0
<1>2. QED
  BY <1>1, HeadAndTail

LEMMA Literal7 ==
  ASSUME NEW x1, NEW x2, NEW x3, NEW x4, NEW x5, NEW x6, NEW x7
  PROVE  <<x1, x2, x3, x4, x5, x6, x7>> = <<x1>> \o <<x2, x3, x4, x5, x6, x7>>
<1>0. PICK T : T = {x1, x2, x3, x4, x5, x6, x7}
  OBVIOUS
<1>1. /\ <<x1, x2, x3, x4, x5, x6, x7>> \in Seq(T) /\ <<x1, x2, x3, x4, x5, x6, x7>> # <<>>
      /\ Tail(<<x1, x2, x3, x4, x5, x6, x7>>) = <<x2, x3, x4, x5, x6, x7>> /\ <<x1, x2, x3, x4, x5, x6, x7>>[1] = x1
  BY <1>0
<1>2. QED
  BY <1>1, HeadAndTail

\* v is met without CALLS, and with PJSUA_LOCK only in an INVITE.
Clear(v, kind, a) ==
  /\ Rest(v, kind, a)
  /\ ~Under(v, 1, "CALLS")
  /\ Under(v, 1, "PJSUA") => a = Worker /\ kind = "invite"

SameLocks(v, w) == \A l \in Locks : Under(w, 1, l) <=> Under(v, 1, l)

LEMMA NothingLeft ==
  ASSUME NEW kind, NEW a
  PROVE  Clear(<<>>, kind, a) /\ \A l : ~Under(<<>>, 1, l)
<1>1. <<>> \in Seq(Kinds \X Locks) /\ DOMAIN <<>> = {}
  OBVIOUS
<1>2. QED
  BY <1>1, UnderNothing DEF Clear, Rest, Shape, Quiet

\* An instruction that takes and lets go of no lock.
LEMMA ConsPlain ==
  ASSUME NEW v, NEW kind, NEW a, Rest(v, kind, a),
         NEW x \in Kinds \X Locks, Instruction(x), OfKind(x, kind, a),
         x[1] \notin {"lock", "unlock", "push", "start", "invite"},
         Under(v, 1, "CALLS") => UnderCalls(x, kind, a),
         Under(v, 1, "PJSUA") => UnderPjsua(x, kind, a)
  PROVE  Rest(<<x>> \o v, kind, a) /\ SameLocks(v, <<x>> \o v)
<1>1. \A l \in Locks : ~Opens(l, x) /\ ~Covers(l, x)
  BY DEF Opens, Covers
<1>2. ~LocksCall(x) /\ x[1] \notin {"start", "invite"}
  BY DEF LocksCall
<1>3. \A l \in Locks : Under(v, 1, l) => Allowed(l, x, kind, a)
  BY DEF Allowed
<1>4. Fits(x, v, kind, a)
  BY <1>1, <1>2, <1>3 DEF Fits
<1>5. v \in Seq(Kinds \X Locks)
  BY DEF Rest, Shape
<1>6. \A l : Under(<<x>> \o v, 1, l) <=> Covers(l, x) \/ (~Opens(l, x) /\ Under(v, 1, l))
  BY <1>5, UnderCons
<1>7. QED
  BY <1>1, <1>2, <1>4, <1>6, ShapeCons DEF SameLocks

LEMMA ClearPlain ==
  ASSUME NEW v, NEW kind, NEW a, Clear(v, kind, a),
         NEW x \in Kinds \X Locks, Instruction(x), OfKind(x, kind, a),
         x[1] \notin {"lock", "unlock", "push", "start", "invite"}
  PROVE  Clear(<<x>> \o v, kind, a) /\ SameLocks(v, <<x>> \o v)
<1>1. Under(v, 1, "PJSUA") => UnderPjsua(x, kind, a)
  BY DEF Clear, UnderPjsua
<1>2. Rest(<<x>> \o v, kind, a) /\ SameLocks(v, <<x>> \o v)
  BY <1>1, ConsPlain DEF Clear
<1>3. "CALLS" \in Locks /\ "PJSUA" \in Locks
  BY DEF Locks, Mutexes
<1>4. QED
  BY <1>2, <1>3 DEF Clear, SameLocks

LEMMA ConsUnlock ==
  ASSUME NEW v, NEW kind, NEW a, Rest(v, kind, a), NEW l \in Locks,
         ~Under(v, 1, l), l = "ACCOUNTS" => kind = "register",
         Under(v, 1, "PJSUA") \/ l = "PJSUA" => a # Worker \/ kind \in {"invite", "result"}
  PROVE  /\ Rest(<<<<"unlock", l>>>> \o v, kind, a)
         /\ \A m \in Locks : Under(<<<<"unlock", l>>>> \o v, 1, m) <=> m = l \/ Under(v, 1, m)
<1>0. PICK x : x = <<"unlock", l>>
  OBVIOUS
<1>1. x \in Kinds \X Locks /\ x[1] = "unlock" /\ x[2] = l
  BY <1>0 DEF Kinds
<1>2. \A m : ~Opens(m, x) /\ (Covers(m, x) <=> m = l)
  BY <1>1 DEF Opens, Covers
<1>3. ~LocksCall(x) /\ Instruction(x) /\ OfKind(x, kind, a)
  BY <1>1 DEF LocksCall, Instruction, OfKind, OnCalls
<1>4. \A m \in Locks : m = l \/ Under(v, 1, m) => Allowed(m, x, kind, a)
  BY <1>1 DEF Allowed, UnderCalls, UnderPjsua
<1>5. Fits(x, v, kind, a)
  BY <1>1, <1>2, <1>3, <1>4 DEF Fits
<1>6. v \in Seq(Kinds \X Locks)
  BY DEF Rest, Shape
<1>7. \A m : Under(<<x>> \o v, 1, m) <=> Covers(m, x) \/ (~Opens(m, x) /\ Under(v, 1, m))
  BY <1>1, <1>6, UnderCons
<1>8. QED
  BY <1>0, <1>1, <1>2, <1>3, <1>5, <1>7, ShapeCons

LEMMA ClearUnlock ==
  ASSUME LocksAssumption,
         NEW v, NEW kind, NEW a, Clear(v, kind, a), NEW l \in Slots \cup {"PJSUA"},
         ~Under(v, 1, l), l = "PJSUA" => a = Worker /\ kind = "invite"
  PROVE  /\ Clear(<<<<"unlock", l>>>> \o v, kind, a)
         /\ \A m \in Locks : Under(<<<<"unlock", l>>>> \o v, 1, m) <=> m = l \/ Under(v, 1, m)
<1>1. l \in Locks /\ l # "ACCOUNTS" /\ l # "CALLS" /\ "CALLS" \in Locks /\ "PJSUA" \in Locks
  BY DEF LocksAssumption, Locks, Mutexes
<1>2. /\ Rest(<<<<"unlock", l>>>> \o v, kind, a)
      /\ \A m \in Locks : Under(<<<<"unlock", l>>>> \o v, 1, m) <=> m = l \/ Under(v, 1, m)
  <2>1. Under(v, 1, "PJSUA") \/ l = "PJSUA" => a # Worker \/ kind \in {"invite", "result"}
    BY DEF Clear
  <2>2. Rest(v, kind, a)
    BY DEF Clear
  <2>3. QED
    BY <2>1, <2>2, <1>1, ConsUnlock
<1>3. QED
  BY <1>1, <1>2 DEF Clear

\* The lock is let go in what comes after it.
LEMMA ConsLock ==
  ASSUME LocksAssumption,
         NEW v, NEW kind, NEW a, Rest(v, kind, a),
         NEW l \in Locks, Under(v, 1, l), l = "ACCOUNTS" => kind = "register",
         l \in Slots => a = Worker,
         ~Under(v, 1, "CALLS") \/ l = "CALLS",
         Under(v, 1, "PJSUA") /\ l # "PJSUA" => a = Worker /\ kind = "invite"
  PROVE  /\ Shape(<<<<"lock", l>>>> \o v, kind, a)
         /\ l \notin Slots => Clear(<<<<"lock", l>>>> \o v, kind, a)
         /\ \A m \in Locks : Under(<<<<"lock", l>>>> \o v, 1, m) <=> m # l /\ Under(v, 1, m)
<1>0. PICK x : x = <<"lock", l>>
  OBVIOUS
<1>1. x \in Kinds \X Locks /\ x[1] = "lock" /\ x[2] = l
  BY <1>0 DEF Kinds
<1>2. \A m : (Opens(m, x) <=> m = l) /\ ~Covers(m, x)
  BY <1>1 DEF Opens, Covers
<1>3. Instruction(x) /\ OfKind(x, kind, a) /\ (LocksCall(x) <=> l \in Slots)
  BY <1>1 DEF LocksCall, Instruction, OfKind, OnCalls
<1>4. \A m \in Locks : m # l /\ Under(v, 1, m) => Allowed(m, x, kind, a)
  BY <1>1 DEF Allowed, UnderPjsua
<1>5. Fits(x, v, kind, a)
  BY <1>1, <1>2, <1>3, <1>4 DEF Fits
<1>6. v \in Seq(Kinds \X Locks)
  BY DEF Rest, Shape
<1>7. \A m : Under(<<x>> \o v, 1, m) <=> m # l /\ Under(v, 1, m)
  BY <1>1, <1>2, <1>6, UnderCons
<1>8. Shape(<<x>> \o v, kind, a) /\ (l \notin Slots => Rest(<<x>> \o v, kind, a))
  BY <1>1, <1>3, <1>5, ShapeCons
<1>9. l \notin Slots => Clear(<<x>> \o v, kind, a)
  BY <1>7, <1>8 DEF Clear
<1>10. QED
  BY <1>0, <1>7, <1>8, <1>9

\* push_call_state with CALLS locked.
LEMMA ConsPush ==
  ASSUME NEW v, NEW kind, NEW a, Clear(v, kind, a)
  PROVE  /\ Rest(<<<<"push", "ACCOUNTS">>>> \o v, kind, a)
         /\ \A m \in Locks : Under(<<<<"push", "ACCOUNTS">>>> \o v, 1, m)
                               <=> m = "CALLS" \/ Under(v, 1, m)
<1>0. PICK x : x = <<"push", "ACCOUNTS">>
  OBVIOUS
<1>1. x \in Kinds \X Locks /\ x[1] = "push" /\ x[2] = "ACCOUNTS"
  BY <1>0 DEF Kinds, Locks, Mutexes
<1>2. \A m : ~Opens(m, x) /\ (Covers(m, x) <=> m = "CALLS")
  BY <1>1 DEF Opens, Covers
<1>3. ~LocksCall(x) /\ Instruction(x) /\ OfKind(x, kind, a)
  BY <1>1 DEF LocksCall, Instruction, OfKind, OnCalls
<1>4. \A m \in Locks : m = "CALLS" \/ Under(v, 1, m) => Allowed(m, x, kind, a)
  BY <1>1 DEF Allowed, UnderCalls, UnderPjsua, Clear
<1>5. Fits(x, v, kind, a)
  BY <1>1, <1>2, <1>3, <1>4 DEF Fits, Clear
<1>6. v \in Seq(Kinds \X Locks)
  BY DEF Clear, Rest, Shape
<1>7. \A m : Under(<<x>> \o v, 1, m) <=> Covers(m, x) \/ (~Opens(m, x) /\ Under(v, 1, m))
  BY <1>1, <1>6, UnderCons
<1>8. QED
  BY <1>0, <1>1, <1>2, <1>3, <1>5, <1>7, ShapeCons DEF Clear

\* A critical section of CALLS, with the muting or the holding of
\* pjsip_on_call_media in it.
LEMMA ClearPushing ==
  ASSUME LocksAssumption,
         NEW v, NEW kind, NEW a, Clear(v, kind, a), NEW p \in Slots,
         NEW m \in {<<>>, <<<<"touch", "PJSUA">>>>},
         NEW h \in {<<>>, <<<<"request", p>>>>},
         m = <<>> \/ a = Worker \/ kind \in {"dtmf", "answer"}
  PROVE  /\ Pushing(m \o h) \in Seq(Kinds \X Locks)
         /\ Clear(Pushing(m \o h) \o v, kind, a)
         /\ SameLocks(v, Pushing(m \o h) \o v)
<1> DEFINE T == Kinds \X Locks
<1>0. /\ "CALLS" \in Locks /\ "PJSUA" \in Locks /\ p \in Locks
      /\ "CALLS" \notin Slots /\ "PJSUA" \notin Slots /\ v \in Seq(T)
  BY DEF LocksAssumption, Locks, Mutexes, Clear, Rest, Shape
<1>1. PICK w1 : w1 = <<<<"push", "ACCOUNTS">>>> \o v
  OBVIOUS
<1>2. Rest(w1, kind, a) /\ \A l \in Locks : Under(w1, 1, l) <=> l = "CALLS" \/ Under(v, 1, l)
  BY <1>1, ConsPush
<1>3. w1 \in Seq(T)
  BY <1>2 DEF Rest, Shape
<1>4. PICK w2 : w2 = h \o w1
  OBVIOUS
<1>5. Rest(w2, kind, a) /\ SameLocks(w1, w2)
  <2>1. CASE h = <<>>
    <3>1. w2 = w1
      BY <2>1, <1>3, <1>4, ConcatEmptySeq
    <3>2. QED
      BY <3>1, <1>2 DEF SameLocks
  <2>2. CASE h = <<<<"request", p>>>>
    <3>1. PICK x : x = <<"request", p>>
      OBVIOUS
    <3>2. x \in T /\ x[1] = "request" /\ x[2] = p
      BY <3>1, <1>0 DEF Kinds
    <3>3. Instruction(x) /\ OfKind(x, kind, a) /\ UnderCalls(x, kind, a)
      BY <3>2 DEF Instruction, OfKind, OnCalls, UnderCalls
    <3>4. Under(w1, 1, "PJSUA") => UnderPjsua(x, kind, a)
      BY <1>0, <1>2 DEF Clear, UnderPjsua
    <3>5. Rest(<<x>> \o w1, kind, a) /\ SameLocks(w1, <<x>> \o w1)
      BY <1>2, <3>2, <3>3, <3>4, ConsPlain
    <3>6. QED
      BY <3>5, <3>1, <2>2, <1>4
  <2>3. QED
    BY <2>1, <2>2
<1>6. w2 \in Seq(T)
  BY <1>5 DEF Rest, Shape
<1>7. PICK w3 : w3 = m \o w2
  OBVIOUS
<1>8. Rest(w3, kind, a) /\ SameLocks(w2, w3)
  <2>1. CASE m = <<>>
    <3>1. w3 = w2
      BY <2>1, <1>6, <1>7, ConcatEmptySeq
    <3>2. QED
      BY <3>1, <1>5 DEF SameLocks
  <2>2. CASE m # <<>>
    <3>0. m = <<<<"touch", "PJSUA">>>> /\ (a = Worker \/ kind \in {"dtmf", "answer"})
      BY <2>2
    <3>1. PICK x : x = <<"touch", "PJSUA">>
      OBVIOUS
    <3>2. x \in T /\ x[1] = "touch" /\ x[2] = "PJSUA"
      BY <3>1, <1>0 DEF Kinds
    <3>3. Instruction(x) /\ OfKind(x, kind, a) /\ UnderCalls(x, kind, a)
      BY <3>0, <3>2, <1>0 DEF Instruction, OfKind, OnCalls, UnderCalls
    <3>4. Under(w2, 1, "PJSUA") => UnderPjsua(x, kind, a)
      BY <1>0, <1>2, <1>5 DEF Clear, UnderPjsua, SameLocks
    <3>5. Rest(<<x>> \o w2, kind, a) /\ SameLocks(w2, <<x>> \o w2)
      BY <1>5, <3>2, <3>3, <3>4, ConsPlain
    <3>6. QED
      BY <3>5, <3>1, <3>0, <1>7
  <2>3. QED
    BY <2>1, <2>2
<1>9. w3 \in Seq(T)
  BY <1>8 DEF Rest, Shape
<1>10. \A l \in Locks : Under(w3, 1, l) <=> l = "CALLS" \/ Under(v, 1, l)
  BY <1>2, <1>5, <1>8 DEF SameLocks
<1>11. PICK w4 : w4 = <<<<"lock", "CALLS">>>> \o w3
  OBVIOUS
<1>12. /\ Clear(w4, kind, a)
       /\ \A l \in Locks : Under(w4, 1, l) <=> l # "CALLS" /\ Under(w3, 1, l)
  <2>1. /\ Under(w3, 1, "CALLS")
        /\ Under(w3, 1, "PJSUA") => a = Worker /\ kind = "invite"
    BY <1>0, <1>10 DEF Clear
  <2>2. QED
    BY <2>1, <1>0, <1>8, <1>11, ConsLock
<1>13. SameLocks(v, w4)
  BY <1>0, <1>10, <1>12 DEF SameLocks, Clear
<1>14. Pushing(m \o h) \in Seq(T) /\ w4 = Pushing(m \o h) \o v
  <2>1. PICK k1, k2 : k1 = <<<<"lock", "CALLS">>>> /\ k2 = <<<<"push", "ACCOUNTS">>>>
    OBVIOUS
  <2>2. <<"lock", "CALLS">> \in T /\ <<"push", "ACCOUNTS">> \in T /\ <<"touch", "PJSUA">> \in T
        /\ <<"request", p>> \in T
    BY <1>0 DEF Kinds, Locks, Mutexes
  <2>3. k1 \in Seq(T) /\ k2 \in Seq(T) /\ m \in Seq(T) /\ h \in Seq(T)
    <3>1. \A x \in T : <<x>> \in Seq(T)
      OBVIOUS
    <3>2. k1 \in Seq(T) /\ k2 \in Seq(T)
      BY <3>1, <2>1, <2>2
    <3>3. m \in Seq(T)
      BY <3>1, <2>2, EmptySeq
    <3>4. h \in Seq(T)
      BY <3>1, <2>2, EmptySeq
    <3>5. QED
      BY <3>2, <3>3, <3>4
  <2> HIDE DEF T
  <2>4. PICK u : u = m \o h
    OBVIOUS
  <2>5. u \in Seq(T)
    BY <2>3, <2>4, ConcatProperties
  <2>6. k1 \o u \in Seq(T) /\ (k1 \o u) \o k2 \in Seq(T)
    BY <2>3, <2>5, ConcatProperties
  <2>7. Pushing(u) = (k1 \o u) \o k2
    BY <2>1 DEF Pushing
  <2>8. ((k1 \o u) \o k2) \o v = (k1 \o u) \o w1
    <3>1. PICK k : k = k1 \o u
      OBVIOUS
    <3>2. k \in Seq(T) /\ k2 \in Seq(T) /\ v \in Seq(T) /\ k2 \o v = w1
      BY <3>1, <2>1, <2>3, <2>6, <1>0, <1>1
    <3>3. (k \o k2) \o v = k \o (k2 \o v)
      <4>1. k \in Seq(T) /\ k2 \in Seq(T) /\ v \in Seq(T)
        BY <3>2
      <4>2. QED
        BY <4>1, ConcatAssociative
    <3>4. QED
      BY <3>1, <3>2, <3>3
  <2>9. (k1 \o u) \o w1 = k1 \o (u \o w1)
    <3>1. k1 \in Seq(T) /\ u \in Seq(T) /\ w1 \in Seq(T)
      BY <2>3, <2>5, <1>3
    <3>2. QED
      BY <3>1, ConcatAssociative
  <2>10. u \o w1 = w3
    <3>1. m \in Seq(T) /\ h \in Seq(T) /\ w1 \in Seq(T)
      BY <2>3, <1>3
    <3>2. (m \o h) \o w1 = m \o (h \o w1)
      BY <3>1, ConcatAssociative
    <3>3. QED
      BY <3>2, <2>4, <1>4, <1>7
  <2>11. QED
    BY <2>1, <2>4, <2>6, <2>7, <2>8, <2>9, <2>10, <1>11
<1>15. QED
  BY <1>12, <1>13, <1>14

-----------------------------------------------------------------------------
(* A step of one agent *)

\* The locks that change hands are taken, or let go, by a.
ByItself(a) ==
  \A l \in Locks : \/ owner'[l] = owner[l]
                   \/ owner[l] \in {a, Nobody} /\ owner'[l] \in {a, Nobody}

\* What an agent still has to do is changed, and locks are taken by it or let
\* go: the rest of the invariant stands.
LEMMA AgentStep ==
  ASSUME LocksAssumption, LocksInv, NEW a \in Agents, NEW c,
         NEW kind \in Commands \cup Events \cup {"idle"},
         code' = [code EXCEPT ![a] = c], job' = [job EXCEPT ![a] = kind],
         Shape(c, kind, a),
         owner' \in [Locks -> Agents \cup {Nobody}],
         ByItself(a),
         \A l \in Locks : owner'[l] = a <=> Under(c, 1, l),
         Quiet(c) \/ \A l \in Locks : owner'[l] # a,
         sess' \in [Slots -> {"free", "incoming", "up", "closing"}],
         known' \subseteq Slots, routed' \subseteq Slots,
         left' \in [commands : 0 .. MaxCommands, events : 0 .. MaxEvents]
  PROVE  LocksInv'
<1>0. /\ code \in [Agents -> Seq(Kinds \X Locks)] /\ c \in Seq(Kinds \X Locks)
      /\ job \in [Agents -> Commands \cup Events \cup {"idle"}] /\ Nobody \notin Agents
  BY DEF LocksInv, Typed, Shape, LocksAssumption, Agents
<1>1. /\ code'[a] = c /\ job'[a] = kind
      /\ \A b \in Agents : b # a => code'[b] = code[b] /\ job'[b] = job[b]
      /\ code' \in [Agents -> Seq(Kinds \X Locks)]
  BY <1>0
<1>2. Typed'
  BY <1>0, <1>1 DEF Typed
<1>3. ASSUME NEW b \in Agents
      PROVE  /\ Shape(code'[b], job'[b], b)
             /\ \A l \in Locks : owner'[l] = b <=> Under(code'[b], 1, l)
             /\ code'[b] # <<>> /\ LocksCall(code'[b][1]) => \A l \in Locks : owner'[l] # b
  <2>1. CASE b = a
    <3>1. Shape(c, kind, a) /\ \A l \in Locks : owner'[l] = a <=> Under(c, 1, l)
      OBVIOUS
    <3>2. c # <<>> /\ LocksCall(c[1]) => \A l \in Locks : owner'[l] # a
      <4>1. c # <<>> => 1 \in DOMAIN c
        BY <1>0, EmptySeq, LenProperties
      <4>2. QED
        BY <4>1 DEF Quiet
    <3>3. QED
      BY <2>1, <3>1, <3>2, <1>1
  <2>2. CASE b # a
    <3>1. \A l \in Locks : owner'[l] = b <=> owner[l] = b
      BY <2>2, <1>0 DEF ByItself
    <3>2. /\ Shape(code[b], job[b], b)
          /\ \A l \in Locks : owner[l] = b <=> Under(code[b], 1, l)
          /\ code[b] # <<>> /\ LocksCall(code[b][1]) => \A l \in Locks : owner[l] # b
      BY DEF LocksInv, Held, LocksFirst
    <3>3. QED
      BY <2>2, <3>1, <3>2, <1>1
  <2>3. QED
    BY <2>1, <2>2
<1>4. (\A b \in Agents : Shape(code[b], job[b], b))'
  BY <1>3
<1>5. Held' /\ LocksFirst'
  BY <1>3 DEF Held, LocksFirst
<1>6. QED
  BY <1>1, <1>2, <1>4, <1>5 DEF LocksInv

\* The invariant at the instruction under way, <<head, On(a)>>, and after it.
LEMMA UnderWay ==
  ASSUME LocksInv, NEW a \in Agents, code[a] # <<>>
  PROVE  /\ code[a][1] \in Kinds \X Locks
         /\ Tail(code[a]) \in Seq(Kinds \X Locks)
         /\ Rest(Tail(code[a]), job[a], a)
         /\ Instruction(code[a][1]) /\ OfKind(code[a][1], job[a], a)
         /\ code[a][1][1] \in {"start", "invite"} => Tail(code[a]) = <<>>
         /\ \A l \in Locks :
              /\ owner[l] = a <=> \/ Covers(l, code[a][1])
                                  \/ ~Opens(l, code[a][1]) /\ Under(Tail(code[a]), 1, l)
              /\ Covers(l, code[a][1]) => ~Under(Tail(code[a]), 1, l)
              /\ Opens(l, code[a][1]) => Under(Tail(code[a]), 1, l)
              /\ Under(Tail(code[a]), 1, l) /\ ~Opens(l, code[a][1])
                   => Allowed(l, code[a][1], job[a], a)
<1>1. Shape(code[a], job[a], a) /\ \A l \in Locks : owner[l] = a <=> Under(code[a], 1, l)
  BY DEF LocksInv, Held
<1>2. /\ code[a][1] \in Kinds \X Locks /\ Rest(Tail(code[a]), job[a], a)
      /\ Fits(code[a][1], Tail(code[a]), job[a], a)
      /\ \A l \in Locks : Under(code[a], 1, l) <=>
           Covers(l, code[a][1]) \/ (~Opens(l, code[a][1]) /\ Under(Tail(code[a]), 1, l))
  BY <1>1, ShapeRest
<1>3. QED
  BY <1>1, <1>2 DEF Fits, Rest, Shape

\* What calls back, takes an entry or reports is not done with CALLS held, nor
\* with PJSUA_LOCK but in an INVITE.
LEMMA ClearAfter ==
  ASSUME LocksInv, NEW a \in Agents, code[a] # <<>>,
         code[a][1][1] \in {"hangup", "close", "answer", "state", "media", "ended",
                            "free", "insert", "route"}
  PROVE  Clear(Tail(code[a]), job[a], a)
<1>1. \A l \in Locks : ~Opens(l, code[a][1])
  BY DEF Opens
<1>2. "CALLS" \in Locks /\ "PJSUA" \in Locks
  BY DEF Locks, Mutexes
<1>3. /\ Rest(Tail(code[a]), job[a], a)
      /\ Under(Tail(code[a]), 1, "CALLS") => UnderCalls(code[a][1], job[a], a)
      /\ Under(Tail(code[a]), 1, "PJSUA") => UnderPjsua(code[a][1], job[a], a)
  BY <1>1, <1>2, UnderWay DEF Allowed
<1>4. ~UnderCalls(code[a][1], job[a], a)
  BY DEF UnderCalls
<1>5. UnderPjsua(code[a][1], job[a], a) => a = Worker /\ job[a] = "invite"
  BY DEF UnderPjsua
<1>6. QED
  BY <1>3, <1>4, <1>5 DEF Clear

\* An instruction is replaced by steps.
LEMMA ThenStep ==
  ASSUME LocksAssumption, LocksInv, NEW a \in Agents, code[a] # <<>>, NEW steps,
         Then(a, steps), Rest(steps \o Tail(code[a]), job[a], a),
         owner' \in [Locks -> Agents \cup {Nobody}],
         ByItself(a),
         \A l \in Locks : owner'[l] = a <=> Under(steps \o Tail(code[a]), 1, l),
         sess' \in [Slots -> {"free", "incoming", "up", "closing"}],
         known' \subseteq Slots, routed' \subseteq Slots, UNCHANGED left
  PROVE  LocksInv'
<1>1. PICK c : c = steps \o Tail(code[a])
  OBVIOUS
<1>2. code \in [Agents -> Seq(Kinds \X Locks)] /\ job \in [Agents -> Commands \cup Events \cup {"idle"}]
  BY DEF LocksInv, Typed
<1>3. code' = [code EXCEPT ![a] = c] /\ code'[a] = c
  BY <1>1, <1>2 DEF Then
<1>4. PICK kind : kind = IF c = <<>> THEN "idle" ELSE job[a]
  OBVIOUS
<1>5. job' = [job EXCEPT ![a] = kind] /\ kind \in Commands \cup Events \cup {"idle"}
  BY <1>2, <1>3, <1>4 DEF Then
<1>6. Shape(c, kind, a) /\ Quiet(c)
  <2>1. CASE c = <<>>
    BY <2>1, NothingLeft DEF Clear, Rest
  <2>2. CASE c # <<>>
    BY <2>2, <1>1, <1>4 DEF Rest
  <2>3. QED
    BY <2>1, <2>2
<1>7. left' \in [commands : 0 .. MaxCommands, events : 0 .. MaxEvents]
  BY DEF LocksInv, Typed
<1>8. QED
  BY <1>1, <1>3, <1>5, <1>6, <1>7, AgentStep

-----------------------------------------------------------------------------
(* The steps *)

\* An instruction that is done leaves the rest.
LEMMA DoneStep ==
  ASSUME LocksAssumption, LocksInv, NEW a \in Agents, code[a] # <<>>, Then(a, <<>>),
         owner' \in [Locks -> Agents \cup {Nobody}],
         ByItself(a),
         \A l \in Locks : owner'[l] = a <=> Under(Tail(code[a]), 1, l),
         sess' \in [Slots -> {"free", "incoming", "up", "closing"}],
         known' \subseteq Slots, routed' \subseteq Slots, UNCHANGED left
  PROVE  LocksInv'
<1>1. Rest(Tail(code[a]), job[a], a) /\ Tail(code[a]) \in Seq(Kinds \X Locks)
  BY UnderWay
<1>2. PICK s : s = <<>>
  OBVIOUS
<1>3. s \o Tail(code[a]) = Tail(code[a])
  BY <1>1, <1>2, ConcatEmptySeq
<1>4. /\ Then(a, s) /\ Rest(s \o Tail(code[a]), job[a], a)
      /\ \A l \in Locks : owner'[l] = a <=> Under(s \o Tail(code[a]), 1, l)
  BY <1>1, <1>2, <1>3
<1>5. QED
  BY <1>4, ThenStep

LEMMA LockStep ==
  ASSUME LocksAssumption, LocksInv, NEW a \in Agents, Lock(a)
  PROVE  LocksInv'
<1>1. code[a] # <<>> /\ code[a][1][1] = "lock" /\ On(a) = code[a][1][2] /\ Then(a, <<>>)
  BY DEF Lock, Do, On
<1>2. PICK p \in Locks : p = On(a)
  BY <1>1, UnderWay
<1>3. /\ owner \in [Locks -> Agents \cup {Nobody}]
      /\ owner' = [owner EXCEPT ![p] = a] /\ owner[p] = Nobody
  BY <1>2 DEF LocksInv, Typed, Lock
<1>4. \A l \in Locks : ~Covers(l, code[a][1]) /\ (Opens(l, code[a][1]) <=> l = p)
  BY <1>1, <1>2 DEF Covers, Opens
<1>5. \A l \in Locks : owner[l] = a <=> l # p /\ Under(Tail(code[a]), 1, l)
  BY <1>1, <1>4, UnderWay
<1>6. Under(Tail(code[a]), 1, p)
  BY <1>1, <1>4, UnderWay
<1>7. owner' \in [Locks -> Agents \cup {Nobody}] /\ ByItself(a)
  BY <1>3 DEF ByItself
<1>8. \A l \in Locks : owner'[l] = a <=> l = p \/ owner[l] = a
  BY <1>3
<1>9. \A l \in Locks : owner'[l] = a <=> Under(Tail(code[a]), 1, l)
  BY <1>5, <1>6, <1>8
<1>10. UNCHANGED <<sess, known, routed, left>>
  BY DEF Lock
<1>11. QED
  BY <1>1, <1>7, <1>9, <1>10, DoneStep DEF LocksInv, Typed

\* A lock that is let go, by its instruction or at the end of a critical
\* section.
LEMMA ReleaseStep ==
  ASSUME LocksAssumption, LocksInv, NEW a \in Agents, NEW l \in Locks, code[a] # <<>>,
         \A m \in Locks : Covers(m, code[a][1]) <=> m = l,
         \A m \in Locks : ~Opens(m, code[a][1]),
         owner' = [owner EXCEPT ![l] = Nobody], Then(a, <<>>),
         UNCHANGED <<sess, known, routed, left>>
  PROVE  LocksInv'
<1>1. owner \in [Locks -> Agents \cup {Nobody}] /\ a # Nobody
  BY DEF LocksInv, Typed, LocksAssumption, Agents
<1>2. \A m \in Locks : owner[m] = a <=> m = l \/ Under(Tail(code[a]), 1, m)
  BY UnderWay
<1>3. owner[l] = a /\ ~Under(Tail(code[a]), 1, l)
  BY UnderWay
<1>4. owner' \in [Locks -> Agents \cup {Nobody}] /\ ByItself(a)
  BY <1>1, <1>3 DEF ByItself
<1>5. \A m \in Locks : owner'[m] = a <=> owner[m] = a /\ m # l
  BY <1>1
<1>6. \A m \in Locks : owner'[m] = a <=> Under(Tail(code[a]), 1, m)
  BY <1>2, <1>3, <1>5
<1>7. QED
  BY <1>4, <1>6, DoneStep DEF LocksInv, Typed

LEMMA UnlockStep ==
  ASSUME LocksAssumption, LocksInv, NEW a \in Agents, Unlock(a)
  PROVE  LocksInv'
<1>1. code[a] # <<>> /\ code[a][1][1] = "unlock" /\ On(a) = code[a][1][2] /\ Then(a, <<>>)
  BY DEF Unlock, Do, On
<1>2. On(a) \in Locks
  BY <1>1, UnderWay
<1>3. \A m \in Locks : (Covers(m, code[a][1]) <=> m = On(a)) /\ ~Opens(m, code[a][1])
  BY <1>1 DEF Covers, Opens
<1>4. QED
  BY <1>1, <1>2, <1>3, ReleaseStep DEF Unlock

LEMMA PushStep ==
  ASSUME LocksAssumption, LocksInv, NEW a \in Agents, Push(a)
  PROVE  LocksInv'
<1>1. code[a] # <<>> /\ code[a][1][1] = "push" /\ Then(a, <<>>)
  BY DEF Push, Do
<1>2. "CALLS" \in Locks
  BY DEF Locks, Mutexes
<1>3. \A m \in Locks : (Covers(m, code[a][1]) <=> m = "CALLS") /\ ~Opens(m, code[a][1])
  BY <1>1 DEF Covers, Opens
<1>4. QED
  BY <1>1, <1>2, <1>3, ReleaseStep DEF Push

\* A section that waits for nothing, an entry that is made.
LEMMA SectionStep ==
  ASSUME LocksAssumption, LocksInv, NEW a \in Agents,
         Touch(a) \/ Insert(a) \/ Route(a)
  PROVE  LocksInv'
<1>1. /\ code[a] # <<>> /\ On(a) = code[a][1][2] /\ Then(a, <<>>)
      /\ code[a][1][1] \in {"touch", "insert", "route"} /\ UNCHANGED <<owner, sess, left>>
  BY DEF Touch, Insert, Route, Do, On
<1>2. \A l \in Locks : ~Covers(l, code[a][1]) /\ ~Opens(l, code[a][1])
  BY <1>1 DEF Covers, Opens
<1>3. owner \in [Locks -> Agents \cup {Nobody}]
  BY DEF LocksInv, Typed
<1>4. (\A l \in Locks : owner'[l] = a <=> Under(Tail(code[a]), 1, l)) /\ ByItself(a)
  BY <1>1, <1>2, UnderWay DEF ByItself
<1>5. known' \subseteq Slots /\ routed' \subseteq Slots
  <2>1. known \subseteq Slots /\ routed \subseteq Slots
    BY DEF LocksInv, Typed
  <2>2. CASE Touch(a)
    BY <2>1, <2>2 DEF Touch
  <2>3. CASE Insert(a)
    <3>1. On(a) \in Slots
      BY <1>1, <2>3, UnderWay DEF Instruction, OnCalls, Insert, Do
    <3>2. QED
      BY <2>1, <2>3, <3>1 DEF Insert
  <2>4. CASE Route(a)
    <3>1. On(a) \in Slots
      BY <1>1, <2>4, UnderWay DEF Instruction, OnCalls, Route, Do
    <3>2. QED
      BY <2>1, <2>4, <3>1 DEF Route
  <2>5. QED
    BY <2>2, <2>3, <2>4
<1>6. QED
  BY <1>1, <1>3, <1>4, <1>5, DoneStep DEF LocksInv, Typed

\* Code that takes no lock put before the rest of it.
LEMMA SameStep ==
  ASSUME LocksAssumption, LocksInv, NEW a \in Agents, code[a] # <<>>, NEW steps,
         \A l \in Locks : ~Covers(l, code[a][1]) /\ ~Opens(l, code[a][1]),
         Then(a, steps), Clear(steps \o Tail(code[a]), job[a], a),
         SameLocks(Tail(code[a]), steps \o Tail(code[a])),
         sess' \in [Slots -> {"free", "incoming", "up", "closing"}],
         routed' \subseteq Slots, UNCHANGED <<owner, known, left>>
  PROVE  LocksInv'
<1>1. owner \in [Locks -> Agents \cup {Nobody}] /\ known \subseteq Slots
  BY DEF LocksInv, Typed
<1>2. (\A l \in Locks : owner'[l] = a <=> Under(steps \o Tail(code[a]), 1, l)) /\ ByItself(a)
  BY UnderWay DEF SameLocks, ByItself
<1>3. Rest(steps \o Tail(code[a]), job[a], a)
  BY DEF Clear
<1>4. QED
  BY <1>1, <1>2, <1>3, ThenStep

\* The end of a call is reported.
LEMMA EndStep ==
  ASSUME LocksAssumption, LocksInv, NEW a \in Agents, code[a] # <<>>,
         code[a][1][1] \in {"close", "ended"}, NEW p \in Slots, EndReported(a, p),
         sess' \in [Slots -> {"free", "incoming", "up", "closing"}],
         UNCHANGED <<owner, known, left>>
  PROVE  LocksInv'
<1> DEFINE T == Kinds \X Locks
<1>0. PICK t : t = Tail(code[a])
  OBVIOUS
<1>1. Clear(t, job[a], a) /\ t \in Seq(T)
  BY <1>0, ClearAfter, UnderWay
<1>2. \A l \in Locks : ~Covers(l, code[a][1]) /\ ~Opens(l, code[a][1])
  BY DEF Covers, Opens
<1>3. routed' \subseteq Slots
  BY DEF EndReported, LocksInv, Typed
<1>40. PICK recorded \in BOOLEAN :
        Then(a, IF p \notin routed THEN <<>>
                ELSE Pushing(<<>>) \o <<<<"touch", "CALLS">>>>
                       \o IF recorded THEN <<<<"touch", "PJSUA">>>> ELSE <<>>)
  BY DEF EndReported
<1>41. PICK steps :
         steps = IF p \notin routed THEN <<>>
                 ELSE Pushing(<<>>) \o <<<<"touch", "CALLS">>>>
                        \o IF recorded THEN <<<<"touch", "PJSUA">>>> ELSE <<>>
  OBVIOUS
<1>4. /\ Then(a, steps)
      /\ steps = IF p \notin routed THEN <<>>
                 ELSE Pushing(<<>>) \o <<<<"touch", "CALLS">>>>
                        \o IF recorded THEN <<<<"touch", "PJSUA">>>> ELSE <<>>
  BY <1>40, <1>41
<1>5. Clear(steps \o t, job[a], a) /\ SameLocks(t, steps \o t)
  <2>1. CASE p \notin routed
    <3>1. steps \o t = t
      BY <2>1, <1>1, <1>4, ConcatEmptySeq
    <3>2. QED
      BY <3>1, <1>1 DEF SameLocks
  <2>2. CASE p \in routed
    <3>1. PICK r : r = IF recorded THEN <<<<"touch", "PJSUA">>>> ELSE <<>>
      OBVIOUS
    <3>2. PICK x, y : x = <<"touch", "CALLS">> /\ y = <<"touch", "PJSUA">>
      OBVIOUS
    <3>3. /\ x \in T /\ Instruction(x) /\ OfKind(x, job[a], a) /\ x[1] = "touch"
          /\ y \in T /\ Instruction(y) /\ OfKind(y, job[a], a) /\ y[1] = "touch"
      BY <3>2 DEF LocksAssumption, Locks, Mutexes, Kinds, Instruction, OfKind, OnCalls
    <3>4. PICK v1 : v1 = r \o t
      OBVIOUS
    <3>5. Clear(v1, job[a], a) /\ SameLocks(t, v1)
      <4>1. CASE recorded
        <5>1. v1 = <<y>> \o t
          BY <4>1, <3>1, <3>2, <3>4
        <5>2. Clear(<<y>> \o t, job[a], a) /\ SameLocks(t, <<y>> \o t)
          BY <1>1, <3>3, ClearPlain
        <5>3. QED
          BY <5>1, <5>2
      <4>2. CASE ~recorded
        <5>1. v1 = t
          BY <4>2, <3>1, <3>4, <1>1, ConcatEmptySeq
        <5>2. QED
          BY <5>1, <1>1 DEF SameLocks
      <4>3. QED
        BY <4>1, <4>2
    <3>6. Clear(<<x>> \o v1, job[a], a) /\ SameLocks(v1, <<x>> \o v1)
      BY <3>3, <3>5, ClearPlain
    <3>7. PICK v2 : v2 = <<x>> \o v1
      OBVIOUS
    <3>8. PICK u : u = Pushing(<<>>)
      OBVIOUS
    <3>9. u \in Seq(T) /\ Clear(u \o v2, job[a], a) /\ SameLocks(v2, u \o v2)
      <4>1. u = Pushing(<<>> \o <<>>)
        BY <3>8, ConcatEmptySeq, EmptySeq
      <4>2. Clear(v2, job[a], a)
        BY <3>6, <3>7
      <4>3. QED
        BY <4>1, <4>2, ClearPushing
    <3>10. steps \o t = u \o v2
      <4>1. PICK c : c = <<x>>
        OBVIOUS
      <4>2. steps = (u \o c) \o r
        BY <2>2, <1>4, <3>1, <3>2, <3>8, <4>1
      <4>3. c \in Seq(T) /\ r \in Seq(T) /\ t \in Seq(T) /\ u \in Seq(T)
        <5>1. <<x>> \in Seq(T) /\ <<y>> \in Seq(T) /\ <<>> \in Seq(T)
          BY <3>3
        <5>2. QED
          BY <5>1, <4>1, <3>1, <3>2, <3>9, <1>1
      <4> HIDE DEF T
      <4>4. PICK d : d = u \o c
        OBVIOUS
      <4>5. d \in Seq(T) /\ v1 \in Seq(T)
        BY <4>3, <4>4, <3>4, ConcatProperties
      <4>6. (d \o r) \o t = d \o (r \o t)
        <5>1. d \in Seq(T) /\ r \in Seq(T) /\ t \in Seq(T)
          BY <4>3, <4>5
        <5>2. QED
          BY <5>1, ConcatAssociative
      <4>7. (u \o c) \o v1 = u \o (c \o v1)
        <5>1. u \in Seq(T) /\ c \in Seq(T) /\ v1 \in Seq(T)
          BY <4>3, <4>5
        <5>2. QED
          BY <5>1, ConcatAssociative, SMTT(30)
      <4>8. QED
        BY <4>1, <4>2, <4>4, <4>6, <4>7, <3>4, <3>7
    <3>11. QED
      BY <3>5, <3>6, <3>7, <3>9, <3>10 DEF SameLocks
  <2>3. QED
    BY <2>1, <2>2
<1>6. QED
  BY <1>0, <1>2, <1>3, <1>4, <1>5, SameStep

\* acquire_call: what is done with the dialog locked, before the unlocking
\* that its holder does not do twice.
LEMMA AcquireStep ==
  ASSUME LocksAssumption, LocksInv, NEW a \in Agents, code[a] # <<>>,
         code[a][1][1] \in {"request", "hangup", "answer"},
         NEW body \in Seq(Kinds \X Locks),
         \A v : /\ Rest(v, job[a], a)
                /\ code[a][1][1] # "request" => Clear(v, job[a], a)
                => Rest(body \o v, job[a], a) /\ SameLocks(v, body \o v),
         Acquire(a, On(a), body),
         sess' \in [Slots -> {"free", "incoming", "up", "closing"}],
         UNCHANGED <<known, routed, left>>
  PROVE  LocksInv'
<1> DEFINE T == Kinds \X Locks
<1>0. PICK t, p : t = Tail(code[a]) /\ p = On(a)
  OBVIOUS
<1>1. /\ Rest(t, job[a], a) /\ t \in Seq(T)
      /\ code[a][1][1] # "request" => Clear(t, job[a], a)
  BY <1>0, UnderWay, ClearAfter
<1>2. p \in Slots /\ p \in Locks /\ p \notin Mutexes /\ p # "PJSUA"
  BY <1>0, UnderWay DEF Instruction, OnCalls, On, LocksAssumption, Locks, Mutexes
<1>3. owner \in [Locks -> Agents \cup {Nobody}] /\ known \subseteq Slots /\ routed \subseteq Slots
  BY DEF LocksInv, Typed
<1>4. \A l \in Locks : ~Covers(l, code[a][1]) /\ ~Opens(l, code[a][1])
  BY DEF Covers, Opens
<1>5. \A l \in Locks : owner[l] = a <=> Under(t, 1, l)
  BY <1>0, <1>4, UnderWay
<1>6. CASE Then(a, <<>>) /\ UNCHANGED owner
  BY <1>0, <1>3, <1>5, <1>6, DoneStep DEF ByItself
<1>7. CASE /\ owner' = [owner EXCEPT ![p] = a] /\ Available(a, p)
           /\ Then(a, body \o IF owner[p] = a THEN <<>> ELSE <<<<"unlock", p>>>>)
  <2>1. PICK r : r = IF owner[p] = a THEN <<>> ELSE <<<<"unlock", p>>>>
    OBVIOUS
  <2>2. PICK v : v = r \o t
    OBVIOUS
  <2>3. /\ Rest(v, job[a], a) /\ (code[a][1][1] # "request" => Clear(v, job[a], a))
        /\ \A l \in Locks : Under(v, 1, l) <=> l = p \/ Under(t, 1, l)
    <3>1. CASE owner[p] = a
      <4>1. v = t
        BY <3>1, <2>1, <2>2, <1>1, ConcatEmptySeq
      <4>2. Under(t, 1, p)
        BY <3>1, <1>2, <1>5
      <4>3. QED
        BY <4>1, <4>2, <1>1
    <3>2. CASE owner[p] # a
      <4>1. v = <<<<"unlock", p>>>> \o t
        BY <3>2, <2>1, <2>2
      <4>2. Under(t, 1, "PJSUA") => a # Worker \/ job[a] \in {"invite", "result"}
        <5>1. "PJSUA" \in Locks /\ ~Opens("PJSUA", code[a][1])
          BY DEF Locks, Opens
        <5>2. Under(t, 1, "PJSUA") => UnderPjsua(code[a][1], job[a], a)
          BY <5>1, <1>0, UnderWay DEF Allowed
        <5>3. QED
          BY <5>2 DEF UnderPjsua
      <4>3. /\ Rest(v, job[a], a)
            /\ \A l \in Locks : Under(v, 1, l) <=> l = p \/ Under(t, 1, l)
        <5>1. p # "ACCOUNTS" /\ p # "PJSUA" /\ ~Under(t, 1, p)
          BY <3>2, <1>2, <1>5 DEF Mutexes
        <5>2. QED
          BY <4>1, <4>2, <5>1, <1>1, <1>2, ConsUnlock
      <4>4. code[a][1][1] # "request" => Clear(v, job[a], a)
        <5>1. "CALLS" \in Locks /\ "PJSUA" \in Locks /\ p # "CALLS"
          BY <1>2 DEF Locks, Mutexes
        <5>2. QED
          BY <5>1, <4>3, <1>1, <1>2 DEF Clear
      <4>5. QED
        BY <4>3, <4>4
    <3>3. QED
      BY <3>1, <3>2
  <2>4. Rest(body \o v, job[a], a) /\ SameLocks(v, body \o v)
    BY <2>3
  <2>5. PICK steps : steps = body \o r
    OBVIOUS
  <2>6. steps \o t = body \o v
    <3>1. r \in Seq(T)
      <4>1. <<"unlock", p>> \in T
        BY <1>2 DEF Kinds
      <4>2. <<<<"unlock", p>>>> \in Seq(T) /\ <<>> \in Seq(T)
        BY <4>1
      <4>3. QED
        BY <2>1, <4>2
    <3>2. body \in Seq(T) /\ r \in Seq(T) /\ t \in Seq(T)
      BY <3>1, <1>1
    <3> HIDE DEF T
    <3>3. (body \o r) \o t = body \o (r \o t)
      BY <3>2, ConcatAssociative
    <3>4. QED
      BY <3>3, <2>2, <2>5
  <2>7. Then(a, steps)
    BY <1>7, <2>1, <2>5
  <2>8. /\ owner' \in [Locks -> Agents \cup {Nobody}]
        /\ ByItself(a)
        /\ \A l \in Locks : owner'[l] = a <=> l = p \/ owner[l] = a
    BY <1>2, <1>3, <1>7 DEF ByItself, Available
  <2>9. \A l \in Locks : owner'[l] = a <=> Under(steps \o t, 1, l)
    BY <2>3, <2>4, <2>6, <2>8, <1>5 DEF SameLocks
  <2>10. Rest(steps \o t, job[a], a)
    BY <2>4, <2>6
  <2>11. QED
    BY <2>7, <2>8, <2>9, <2>10, <1>0, <1>3, ThenStep
<1>8. QED
  BY <1>0, <1>6, <1>7 DEF Acquire

LEMMA RequestStep ==
  ASSUME LocksAssumption, LocksInv, NEW a \in Agents, Request(a)
  PROVE  LocksInv'
<1>1. code[a] # <<>> /\ code[a][1][1] = "request" /\ Acquire(a, On(a), <<>>)
  BY DEF Request, Do
<1>2. PICK body : body = <<>>
  OBVIOUS
<1>3. body \in Seq(Kinds \X Locks)
  BY <1>2
<1>4. ASSUME NEW v, Rest(v, job[a], a)
      PROVE  Rest(body \o v, job[a], a) /\ SameLocks(v, body \o v)
  <2>1. v \in Seq(Kinds \X Locks)
    BY <1>4 DEF Rest, Shape
  <2>2. body \o v = v
    BY <2>1, <1>2, ConcatEmptySeq
  <2>3. QED
    BY <2>2, <1>4 DEF SameLocks
<1>5. sess' \in [Slots -> {"free", "incoming", "up", "closing"}] /\ UNCHANGED <<known, routed, left>>
  BY DEF Request, LocksInv, Typed
<1>6. Acquire(a, On(a), body)
  BY <1>1, <1>2
<1>7. QED
  BY <1>1, <1>3, <1>4, <1>5, <1>6, AcquireStep

LEMMA HangupStep ==
  ASSUME LocksAssumption, LocksInv, NEW a \in Agents, Hangup(a)
  PROVE  LocksInv'
<1>1. code[a] # <<>> /\ code[a][1][1] = "hangup" /\ On(a) = code[a][1][2]
  BY DEF Hangup, Do, On
<1>2. PICK p : p = On(a)
  OBVIOUS
<1>3. p \in Slots /\ p \in Locks
  BY <1>1, <1>2, UnderWay DEF Instruction, OnCalls, Locks
<1>4. PICK body : body = IF sess[p] = "closing" THEN <<>> ELSE <<<<"close", p>>>>
  OBVIOUS
<1>5. PICK x : x = <<"close", p>>
  OBVIOUS
<1>6. x \in Kinds \X Locks /\ Instruction(x) /\ OfKind(x, job[a], a) /\ x[1] = "close"
  BY <1>3, <1>5 DEF Kinds, Instruction, OfKind, OnCalls
<1>7. body \in Seq(Kinds \X Locks)
  <2>1. <<x>> \in Seq(Kinds \X Locks) /\ <<>> \in Seq(Kinds \X Locks)
    BY <1>6
  <2>2. QED
    BY <2>1, <1>4, <1>5
<1>8. ASSUME NEW v, Clear(v, job[a], a)
      PROVE  Rest(body \o v, job[a], a) /\ SameLocks(v, body \o v)
  <2>1. CASE sess[p] = "closing"
    <3>1. v \in Seq(Kinds \X Locks)
      BY <1>8 DEF Clear, Rest, Shape
    <3>2. body \o v = v
      BY <2>1, <3>1, <1>4, ConcatEmptySeq
    <3>3. QED
      BY <3>2, <1>8 DEF Clear, SameLocks
  <2>2. CASE sess[p] # "closing"
    <3>1. body = <<x>>
      BY <2>2, <1>4, <1>5
    <3>2. Clear(<<x>> \o v, job[a], a) /\ SameLocks(v, <<x>> \o v)
      BY <1>6, <1>8, ClearPlain
    <3>3. QED
      BY <3>1, <3>2 DEF Clear
  <2>3. QED
    BY <2>1, <2>2
<1>9. Acquire(a, On(a), body)
  BY <1>2, <1>4 DEF Hangup
<1>10. sess' \in [Slots -> {"free", "incoming", "up", "closing"}] /\ UNCHANGED <<known, routed, left>>
  BY DEF Hangup, LocksInv, Typed
<1>11. QED
  BY <1>1, <1>7, <1>8, <1>9, <1>10, AcquireStep

LEMMA AnswerStep ==
  ASSUME LocksAssumption, LocksInv, NEW a \in Agents, Answer(a)
  PROVE  LocksInv'
<1>1. code[a] # <<>> /\ code[a][1][1] = "answer" /\ On(a) = code[a][1][2]
  BY DEF Answer, Do, On
<1>2. PICK p : p = On(a)
  OBVIOUS
<1>3. p \in Slots /\ p \in Locks /\ job[a] = "answer"
  BY <1>1, <1>2, UnderWay DEF Instruction, OnCalls, OfKind, Locks
<1>4. PICK body : body = IF sess[p] # "incoming" THEN <<>> ELSE <<<<"media", p>>, <<"state", p>>>>
  OBVIOUS
<1>5. PICK x, y : x = <<"media", p>> /\ y = <<"state", p>>
  OBVIOUS
<1>6. /\ x \in Kinds \X Locks /\ Instruction(x) /\ OfKind(x, job[a], a) /\ x[1] = "media"
      /\ y \in Kinds \X Locks /\ Instruction(y) /\ OfKind(y, job[a], a) /\ y[1] = "state"
  BY <1>3, <1>5 DEF Kinds, Instruction, OfKind, OnCalls
<1>7. <<x>> \in Seq(Kinds \X Locks) /\ <<y>> \in Seq(Kinds \X Locks)
      /\ <<x, y>> \in Seq(Kinds \X Locks) /\ <<>> \in Seq(Kinds \X Locks)
  BY <1>6
<1>8. body \in Seq(Kinds \X Locks)
  BY <1>4, <1>5, <1>7
<1>9. <<x, y>> = <<x>> \o <<y>>
  BY Literal2
<1>10. ASSUME NEW v, Clear(v, job[a], a)
      PROVE  Rest(body \o v, job[a], a) /\ SameLocks(v, body \o v)
  <2>0. v \in Seq(Kinds \X Locks)
    BY <1>10 DEF Clear, Rest, Shape
  <2>1. CASE sess[p] # "incoming"
    <3>2. body \o v = v
      BY <2>0, <2>1, <1>4, ConcatEmptySeq
    <3>3. QED
      BY <3>2, <1>10 DEF Clear, SameLocks
  <2>2. CASE sess[p] = "incoming"
    <3>1. PICK w : w = <<y>> \o v
      OBVIOUS
    <3>2. Clear(w, job[a], a) /\ SameLocks(v, w)
      BY <3>1, <1>6, <1>10, ClearPlain
    <3>3. Clear(<<x>> \o w, job[a], a) /\ SameLocks(w, <<x>> \o w)
      BY <3>2, <1>6, ClearPlain
    <3>4. body \o v = <<x>> \o w
      <4>1. body = <<x>> \o <<y>>
        BY <2>2, <1>4, <1>5, <1>9
      <4>2. PICK cx, cy : cx = <<x>> /\ cy = <<y>>
        OBVIOUS
      <4>3. cx \in Seq(Kinds \X Locks) /\ cy \in Seq(Kinds \X Locks)
        BY <4>2, <1>7
      <4>4. (cx \o cy) \o v = cx \o (cy \o v)
        BY <4>3, <2>0, ConcatAssociative
      <4>5. QED
        BY <4>1, <4>2, <4>4, <3>1
    <3>5. QED
      BY <3>2, <3>3, <3>4 DEF Clear, SameLocks
  <2>3. QED
    BY <2>1, <2>2
<1>11. Acquire(a, On(a), body)
  BY <1>2, <1>4 DEF Answer
<1>12. sess' \in [Slots -> {"free", "incoming", "up", "closing"}] /\ UNCHANGED <<known, routed, left>>
  BY <1>2, <1>3 DEF Answer, LocksInv, Typed
<1>13. QED
  BY <1>1, <1>8, <1>10, <1>11, <1>12, AcquireStep

\* What a callback, or an instruction of the worker, is about.
LEMMA OnSlot ==
  ASSUME LocksInv, NEW a \in Agents, code[a] # <<>>, code[a][1][1] \in OnCalls
  PROVE  On(a) \in Slots
BY UnderWay DEF Instruction, On

LEMMA CloseStep ==
  ASSUME LocksAssumption, LocksInv, NEW a \in Agents, Close(a)
  PROVE  LocksInv'
<1>1. code[a] # <<>> /\ code[a][1][1] = "close"
  BY DEF Close, Do
<1>2. PICK p : p = On(a)
  OBVIOUS
<1>3. p \in Slots
  BY <1>1, <1>2, OnSlot DEF OnCalls
<1>4. /\ sess' = [sess EXCEPT ![p] = "closing"] /\ EndReported(a, p)
      /\ UNCHANGED <<owner, known, left>>
  BY <1>2 DEF Close
<1>5. sess' \in [Slots -> {"free", "incoming", "up", "closing"}]
  BY <1>3, <1>4 DEF LocksInv, Typed
<1>6. QED
  BY <1>1, <1>3, <1>4, <1>5, EndStep

LEMMA EndedStep ==
  ASSUME LocksAssumption, LocksInv, Ended
  PROVE  LocksInv'
<1>0. Worker \in Agents
  BY DEF Agents
<1>1. code[Worker] # <<>> /\ code[Worker][1][1] = "ended"
  BY DEF Ended, Do
<1>2. PICK p : p = On(Worker)
  OBVIOUS
<1>3. p \in Slots
  BY <1>0, <1>1, <1>2, OnSlot DEF OnCalls
<1>4. UNCHANGED <<owner, sess, known, left>> /\ sess \in [Slots -> {"free", "incoming", "up", "closing"}]
  BY DEF Ended, LocksInv, Typed
<1>5. CASE EndReported(Worker, p)
  BY <1>0, <1>1, <1>3, <1>4, <1>5, EndStep
<1>6. CASE Then(Worker, <<>>) /\ UNCHANGED routed
  <2>1. \A l \in Locks : ~Covers(l, code[Worker][1]) /\ ~Opens(l, code[Worker][1])
    BY <1>1 DEF Covers, Opens
  <2>2. /\ \A l \in Locks : owner'[l] = Worker <=> Under(Tail(code[Worker]), 1, l)
        /\ ByItself(Worker)
    BY <2>1, <1>0, <1>1, <1>4, UnderWay DEF ByItself
  <2>3. QED
    BY <2>2, <1>0, <1>1, <1>4, <1>6, DoneStep DEF LocksInv, Typed
<1>7. QED
  BY <1>2, <1>5, <1>6 DEF Ended

LEMMA FreeSlotStep ==
  ASSUME LocksAssumption, LocksInv, FreeSlot
  PROVE  LocksInv'
<1>0. Worker \in Agents
  BY DEF Agents
<1>1. code[Worker] # <<>> /\ code[Worker][1][1] = "free"
  BY DEF FreeSlot, Do
<1>2. PICK p : p = On(Worker)
  OBVIOUS
<1>3. p \in Slots
  BY <1>0, <1>1, <1>2, OnSlot DEF OnCalls
<1>4. /\ UNCHANGED <<owner, known, routed, left>> /\ Then(Worker, <<>>)
      /\ sess' = [sess EXCEPT ![p] = "free"]
  BY <1>2 DEF FreeSlot
<1>5. sess' \in [Slots -> {"free", "incoming", "up", "closing"}]
  BY <1>3, <1>4 DEF LocksInv, Typed
<1>6. \A l \in Locks : ~Covers(l, code[Worker][1]) /\ ~Opens(l, code[Worker][1])
  BY <1>1 DEF Covers, Opens
<1>7. /\ \A l \in Locks : owner'[l] = Worker <=> Under(Tail(code[Worker]), 1, l)
      /\ ByItself(Worker)
  BY <1>0, <1>1, <1>4, <1>6, UnderWay DEF ByItself
<1>8. QED
  BY <1>0, <1>1, <1>4, <1>5, <1>7, DoneStep DEF LocksInv, Typed

LEMMA StateStep ==
  ASSUME LocksAssumption, LocksInv, NEW a \in Agents, State(a)
  PROVE  LocksInv'
<1>1. code[a] # <<>> /\ code[a][1][1] = "state"
  BY DEF State, Do
<1>2. PICK p : p = On(a)
  OBVIOUS
<1>3. p \in Slots
  BY <1>1, <1>2, OnSlot DEF OnCalls
<1>4. PICK t : t = Tail(code[a])
  OBVIOUS
<1>5. Clear(t, job[a], a) /\ t \in Seq(Kinds \X Locks)
  BY <1>1, <1>4, ClearAfter, UnderWay
<1>6. PICK steps : steps = IF p \in routed /\ sess[p] # "closing" THEN Pushing(<<>>) ELSE <<>>
  OBVIOUS
<1>7. Clear(steps \o t, job[a], a) /\ SameLocks(t, steps \o t)
  <2>1. CASE p \in routed /\ sess[p] # "closing"
    <3>1. steps = Pushing(<<>> \o <<>>)
      BY <2>1, <1>6, ConcatEmptySeq, EmptySeq
    <3>2. QED
      BY <3>1, <1>3, <1>5, ClearPushing
  <2>2. CASE ~(p \in routed /\ sess[p] # "closing")
    <3>1. steps \o t = t
      BY <2>2, <1>5, <1>6, ConcatEmptySeq
    <3>2. QED
      BY <3>1, <1>5 DEF SameLocks
  <2>3. QED
    BY <2>1, <2>2
<1>8. Then(a, steps) /\ UNCHANGED <<owner, sess, known, routed, left>>
  BY <1>2, <1>6 DEF State
<1>9. \A l \in Locks : ~Covers(l, code[a][1]) /\ ~Opens(l, code[a][1])
  BY <1>1 DEF Covers, Opens
<1>10. QED
  BY <1>1, <1>4, <1>7, <1>8, <1>9, SameStep DEF LocksInv, Typed

LEMMA MediaStep ==
  ASSUME LocksAssumption, LocksInv, NEW a \in Agents, Media(a)
  PROVE  LocksInv'
<1> DEFINE T == Kinds \X Locks
<1>1. code[a] # <<>> /\ code[a][1][1] = "media"
  BY DEF Media, Do
<1>2. PICK p : p = On(a)
  OBVIOUS
<1>3. p \in Slots /\ (a = Worker \/ job[a] = "answer")
  <2>1. p \in Slots
    BY <1>1, <1>2, OnSlot DEF OnCalls
  <2>2. QED
    BY <2>1, <1>1, UnderWay DEF OfKind
<1>4. PICK t : t = Tail(code[a])
  OBVIOUS
<1>5. Clear(t, job[a], a) /\ t \in Seq(T)
  BY <1>1, <1>4, ClearAfter, UnderWay
<1>6. PICK muted \in BOOLEAN, held \in BOOLEAN :
        Then(a, IF sess[p] = "closing" THEN <<>>
                ELSE (IF p \notin routed THEN <<>>
                      ELSE Pushing((IF muted THEN <<<<"touch", "PJSUA">>>> ELSE <<>>)
                                   \o IF held THEN <<<<"request", p>>>> ELSE <<>>))
                     \o <<<<"touch", "PJSUA">>>>)
  BY <1>2 DEF Media
<1>7. PICK m, h : /\ m = IF muted THEN <<<<"touch", "PJSUA">>>> ELSE <<>>
                  /\ h = IF held THEN <<<<"request", p>>>> ELSE <<>>
  OBVIOUS
<1>8. PICK u : u = IF p \notin routed THEN <<>> ELSE Pushing(m \o h)
  OBVIOUS
<1>9. PICK x : x = <<"touch", "PJSUA">>
  OBVIOUS
<1>10. PICK steps : steps = IF sess[p] = "closing" THEN <<>> ELSE u \o <<x>>
  OBVIOUS
<1>11. Then(a, steps)
  BY <1>6, <1>7, <1>8, <1>9, <1>10
<1>12. Clear(steps \o t, job[a], a) /\ SameLocks(t, steps \o t)
  <2>1. CASE sess[p] = "closing"
    <3>1. steps \o t = t
      BY <2>1, <1>5, <1>10, ConcatEmptySeq
    <3>2. QED
      BY <3>1, <1>5 DEF SameLocks
  <2>2. CASE sess[p] # "closing"
    <3>1. x \in T /\ Instruction(x) /\ OfKind(x, job[a], a) /\ x[1] = "touch"
      BY <1>9 DEF LocksAssumption, Locks, Mutexes, Kinds, Instruction, OfKind, OnCalls
    <3>2. PICK v : v = <<x>> \o t
      OBVIOUS
    <3>3. Clear(v, job[a], a) /\ SameLocks(t, v)
      BY <3>1, <3>2, <1>5, ClearPlain
    <3>4. u \in Seq(T) /\ Clear(u \o v, job[a], a) /\ SameLocks(v, u \o v)
      <4>1. CASE p \notin routed
        <5>1. u = <<>> /\ v \in Seq(T)
          BY <4>1, <3>3, <1>8 DEF Clear, Rest, Shape
        <5>2. u \o v = v /\ u \in Seq(T)
          BY <5>1, ConcatEmptySeq, EmptySeq
        <5>3. QED
          BY <5>2, <3>3 DEF SameLocks
      <4>2. CASE p \in routed
        <5>1. u = Pushing(m \o h)
          BY <4>2, <1>8
        <5>2. /\ m \in {<<>>, <<<<"touch", "PJSUA">>>>} /\ h \in {<<>>, <<<<"request", p>>>>}
              /\ m = <<>> \/ a = Worker \/ job[a] \in {"dtmf", "answer"}
          BY <1>3, <1>7
        <5>3. QED
          BY <5>1, <5>2, <1>3, <3>3, ClearPushing
      <4>3. QED
        BY <4>1, <4>2
    <3>5. steps \o t = u \o v
      <4>1. PICK c : c = <<x>>
        OBVIOUS
      <4>2. c \in Seq(T)
        BY <3>1, <4>1
      <4>3. u \in Seq(T) /\ c \in Seq(T) /\ t \in Seq(T)
        BY <4>2, <3>4, <1>5
      <4> HIDE DEF T
      <4>4. (u \o c) \o t = u \o (c \o t)
        BY <4>3, ConcatAssociative
      <4>5. QED
        BY <2>2, <4>1, <4>4, <3>2, <1>10
    <3>6. QED
      BY <3>3, <3>4, <3>5 DEF SameLocks
  <2>3. QED
    BY <2>1, <2>2
<1>13. \A l \in Locks : ~Covers(l, code[a][1]) /\ ~Opens(l, code[a][1])
  BY <1>1 DEF Covers, Opens
<1>14. QED
  BY <1>1, <1>4, <1>11, <1>12, <1>13, SameStep DEF Media, LocksInv, Typed

\* A section, an entry or a report put before code that is met with no lock.
LEMMA SlotInstructions ==
  ASSUME LocksAssumption, NEW p \in Slots, NEW kind, NEW a
  PROVE  /\ <<"state", p>> \in Kinds \X Locks /\ Instruction(<<"state", p>>)
         /\ OfKind(<<"state", p>>, kind, a)
         /\ <<"insert", p>> \in Kinds \X Locks /\ Instruction(<<"insert", p>>)
         /\ OfKind(<<"insert", p>>, kind, a)
         /\ <<"route", p>> \in Kinds \X Locks /\ Instruction(<<"route", p>>)
         /\ OfKind(<<"route", p>>, kind, a)
         /\ <<"hangup", p>> \in Kinds \X Locks /\ Instruction(<<"hangup", p>>)
         /\ OfKind(<<"hangup", p>>, kind, a)
         /\ <<"request", p>> \in Kinds \X Locks /\ Instruction(<<"request", p>>)
         /\ OfKind(<<"request", p>>, kind, a)
         /\ <<"lock", p>> \in Kinds \X Locks /\ <<"unlock", p>> \in Kinds \X Locks
         /\ p \in Locks /\ p \notin {"CALLS", "ACCOUNTS", "PJSUA"}
BY DEF LocksAssumption, Kinds, Locks, Mutexes, Instruction, OfKind, OnCalls

LEMMA OtherInstructions ==
  ASSUME LocksAssumption, NEW kind, NEW a, NEW l \in {"CALLS", "ACCOUNTS", "PJSUA"}
  PROVE  /\ <<"touch", l>> \in Kinds \X Locks /\ Instruction(<<"touch", l>>)
         /\ OfKind(<<"touch", l>>, kind, a)
         /\ <<"lock", l>> \in Kinds \X Locks /\ <<"unlock", l>> \in Kinds \X Locks
         /\ <<"start", l>> \in Kinds \X Locks /\ <<"invite", l>> \in Kinds \X Locks
         /\ l \in Locks /\ l \notin Slots
BY DEF LocksAssumption, Kinds, Locks, Mutexes, Instruction, OfKind, OnCalls

\* pjsua_call_make_call: the dialog is let go of with PJSUA_LOCK taken again.
LEMMA StartStep ==
  ASSUME LocksAssumption, LocksInv, NEW a \in Agents, Start(a)
  PROVE  LocksInv'
<1> DEFINE T == Kinds \X Locks
<1>1. code[a] # <<>> /\ code[a][1][1] = "start" /\ UNCHANGED <<known, routed, left>>
  BY DEF Start, Do
<1>2. Tail(code[a]) = <<>> /\ a # Worker
  BY <1>1, UnderWay DEF OfKind
<1>3. \A l \in Locks : /\ Covers(l, code[a][1]) <=> l = "PJSUA"
                       /\ ~Opens(l, code[a][1])
  BY <1>1 DEF Covers, Opens
<1>4. "PJSUA" \in Locks
  BY DEF Locks
<1>5. CASE owner' = [owner EXCEPT !["PJSUA"] = Nobody] /\ Then(a, <<>>) /\ UNCHANGED sess
  BY <1>1, <1>3, <1>4, <1>5, ReleaseStep
<1>6. ASSUME NEW p \in Slots, owner[p] = Nobody,
             owner' = [owner EXCEPT ![p] = a, !["PJSUA"] = Nobody],
             sess' = [sess EXCEPT ![p] = "up"],
             Then(a, <<<<"state", p>>, <<"lock", "PJSUA">>, <<"unlock", p>>,
                       <<"unlock", "PJSUA">>, <<"touch", "ACCOUNTS">>,
                       <<"insert", p>>, <<"route", p>>>>)
      PROVE  LocksInv'
  <2>1. PICK x1, x2, x3, x4, x5, x6, x7 :
          /\ x1 = <<"state", p>> /\ x2 = <<"lock", "PJSUA">> /\ x3 = <<"unlock", p>>
          /\ x4 = <<"unlock", "PJSUA">> /\ x5 = <<"touch", "ACCOUNTS">>
          /\ x6 = <<"insert", p>> /\ x7 = <<"route", p>>
    OBVIOUS
  <2>2. x1 \in T /\ x2 \in T /\ x3 \in T /\ x4 \in T /\ x5 \in T /\ x6 \in T /\ x7 \in T
    BY <2>1, SlotInstructions, OtherInstructions
  <2>3. /\ x1[1] = "state" /\ x5[1] = "touch" /\ x6[1] = "insert" /\ x7[1] = "route"
        /\ Instruction(x1) /\ Instruction(x5) /\ Instruction(x6) /\ Instruction(x7)
        /\ OfKind(x1, job[a], a) /\ OfKind(x5, job[a], a)
        /\ OfKind(x6, job[a], a) /\ OfKind(x7, job[a], a)
    BY <2>1, SlotInstructions, OtherInstructions
  <2>4. p \in Locks /\ p \notin {"CALLS", "ACCOUNTS", "PJSUA"}
    BY SlotInstructions
  <2>5. PICK w5, w6, w7 : w7 = <<x7>> \o <<>> /\ w6 = <<x6>> \o w7 /\ w5 = <<x5>> \o w6
    OBVIOUS
  <2>6. Clear(<<>>, job[a], a) /\ \A l : ~Under(<<>>, 1, l)
    BY NothingLeft
  <2>7. Clear(w7, job[a], a) /\ SameLocks(<<>>, w7)
    BY <2>2, <2>3, <2>5, <2>6, ClearPlain
  <2>8. Clear(w6, job[a], a) /\ SameLocks(w7, w6)
    BY <2>2, <2>3, <2>5, <2>7, ClearPlain
  <2>9. Clear(w5, job[a], a) /\ SameLocks(w6, w5)
    BY <2>2, <2>3, <2>5, <2>8, ClearPlain
  <2>10. \A l \in Locks : ~Under(w5, 1, l)
    BY <2>6, <2>7, <2>8, <2>9 DEF SameLocks
  <2>11. PICK w4 : w4 = <<x4>> \o w5
    OBVIOUS
  <2>12. Rest(w4, job[a], a) /\ \A l \in Locks : Under(w4, 1, l) <=> l = "PJSUA"
    <3>1. Rest(w5, job[a], a)
      BY <2>9 DEF Clear
    <3>2. /\ Rest(<<<<"unlock", "PJSUA">>>> \o w5, job[a], a)
          /\ \A l \in Locks : Under(<<<<"unlock", "PJSUA">>>> \o w5, 1, l)
                                <=> l = "PJSUA" \/ Under(w5, 1, l)
      BY <3>1, <2>10, <1>2, <1>4, ConsUnlock
    <3>3. QED
      BY <3>2, <2>1, <2>10, <2>11
  <2>13. PICK w3 : w3 = <<x3>> \o w4
    OBVIOUS
  <2>14. Rest(w3, job[a], a) /\ \A l \in Locks : Under(w3, 1, l) <=> l \in {p, "PJSUA"}
    <3>1. /\ Rest(<<<<"unlock", p>>>> \o w4, job[a], a)
          /\ \A l \in Locks : Under(<<<<"unlock", p>>>> \o w4, 1, l) <=> l = p \/ Under(w4, 1, l)
      BY <2>4, <2>12, <1>2, ConsUnlock
    <3>2. QED
      BY <3>1, <2>1, <2>12, <2>13
  <2>15. PICK w2 : w2 = <<x2>> \o w3
    OBVIOUS
  <2>16. Clear(w2, job[a], a) /\ \A l \in Locks : Under(w2, 1, l) <=> l = p
    <3>1. "PJSUA" \notin Slots /\ "CALLS" \in Locks /\ ~Under(w3, 1, "CALLS") /\ Under(w3, 1, "PJSUA")
      BY <2>4, <2>14, <1>4 DEF LocksAssumption, Locks, Mutexes
    <3>2. /\ Clear(<<<<"lock", "PJSUA">>>> \o w3, job[a], a)
          /\ \A l \in Locks : Under(<<<<"lock", "PJSUA">>>> \o w3, 1, l)
                                <=> l # "PJSUA" /\ Under(w3, 1, l)
      BY <3>1, <2>14, <1>4, ConsLock
    <3>3. QED
      BY <3>2, <2>1, <2>4, <2>14, <2>15
  <2>17. PICK w1 : w1 = <<x1>> \o w2
    OBVIOUS
  <2>18. Clear(w1, job[a], a) /\ \A l \in Locks : Under(w1, 1, l) <=> l = p
    <3>1. Clear(w1, job[a], a) /\ SameLocks(w2, w1)
      BY <2>2, <2>3, <2>16, <2>17, ClearPlain
    <3>2. QED
      BY <3>1, <2>16 DEF SameLocks
  <2>19. PICK steps : steps = <<x1, x2, x3, x4, x5, x6, x7>>
    OBVIOUS
  <2> HIDE DEF T
  <2>20. steps \o Tail(code[a]) = w1
    <3>1. <<x7>> \in Seq(T) /\ steps \in Seq(T)
      BY <2>2, <2>19
    <3>2. w7 = <<x7>>
      BY <3>1, <2>5, ConcatEmptySeq
    <3>3. w6 = <<x6, x7>>
      BY <3>2, <2>2, <2>5, Literal2
    <3>4. w5 = <<x5, x6, x7>>
      <4>1. <<x5, x6, x7>> = <<x5>> \o <<x6, x7>>
        BY Literal3
      <4>2. QED
        BY <4>1, <3>3, <2>5
    <3>5. w4 = <<x4, x5, x6, x7>>
      <4>1. <<x4, x5, x6, x7>> = <<x4>> \o <<x5, x6, x7>>
        BY Literal4
      <4>2. QED
        BY <4>1, <3>4, <2>11
    <3>6. w3 = <<x3, x4, x5, x6, x7>>
      <4>1. <<x3, x4, x5, x6, x7>> = <<x3>> \o <<x4, x5, x6, x7>>
        BY Literal5
      <4>2. QED
        BY <4>1, <3>5, <2>13
    <3>7. w2 = <<x2, x3, x4, x5, x6, x7>>
      <4>1. <<x2, x3, x4, x5, x6, x7>> = <<x2>> \o <<x3, x4, x5, x6, x7>>
        BY Literal6
      <4>2. QED
        BY <4>1, <3>6, <2>15
    <3>8. w1 = steps
      <4>1. <<x1, x2, x3, x4, x5, x6, x7>> = <<x1>> \o <<x2, x3, x4, x5, x6, x7>>
        BY Literal7
      <4>2. QED
        BY <4>1, <3>7, <2>17, <2>19
    <3>9. steps \o <<>> = steps
      BY <3>1, ConcatEmptySeq
    <3>10. QED
      BY <3>8, <3>9, <1>2
  <2>21. Then(a, steps)
    BY <1>6, <2>1, <2>19
  <2>22. Rest(steps \o Tail(code[a]), job[a], a)
    BY <2>18, <2>20 DEF Clear
  <2>23. owner \in [Locks -> Agents \cup {Nobody}] /\ a # Nobody
    BY DEF LocksInv, Typed, LocksAssumption, Agents
  <2>24. \A l \in Locks : owner[l] = a <=> l = "PJSUA"
    <3>1. \A l \in Locks : ~Under(Tail(code[a]), 1, l)
      BY <1>2, <2>6
    <3>2. \A l \in Locks : owner[l] = a <=> Covers(l, code[a][1])
      BY <3>1, <1>1, UnderWay
    <3>3. QED
      BY <3>2, <1>3
  <2>25. /\ owner' \in [Locks -> Agents \cup {Nobody}] /\ ByItself(a)
         /\ \A l \in Locks : owner'[l] = a <=> l = p
    BY <1>4, <1>6, <2>4, <2>23, <2>24 DEF ByItself
  <2>26. \A l \in Locks : owner'[l] = a <=> Under(steps \o Tail(code[a]), 1, l)
    BY <2>18, <2>20, <2>25
  <2>27. sess' \in [Slots -> {"free", "incoming", "up", "closing"}]
    BY <1>6 DEF LocksInv, Typed
  <2>28. known' \subseteq Slots /\ routed' \subseteq Slots
    BY <1>1 DEF LocksInv, Typed
  <2>29. QED
    BY <1>1, <2>21, <2>22, <2>25, <2>26, <2>27, <2>28, ThenStep
<1>7. QED
  BY <1>5, <1>6 DEF Start

\* pjsua_call_on_incoming, with PJSUA_LOCK from its first line to its last.
LEMMA InviteStep ==
  ASSUME LocksAssumption, LocksInv, Invite
  PROVE  LocksInv'
<1> DEFINE T == Kinds \X Locks
<1>1. /\ code[Worker] # <<>> /\ code[Worker][1][1] = "invite"
      /\ UNCHANGED <<known, routed, left>> /\ Worker \in Agents
  BY DEF Invite, Do, Agents
<1>2. Tail(code[Worker]) = <<>> /\ job[Worker] = "invite"
  BY <1>1, UnderWay DEF OfKind
<1>3. \A l \in Locks : /\ Covers(l, code[Worker][1]) <=> l = "PJSUA"
                       /\ ~Opens(l, code[Worker][1])
  BY <1>1 DEF Covers, Opens
<1>4. "PJSUA" \in Locks /\ owner \in [Locks -> Agents \cup {Nobody}]
  BY DEF Locks, LocksInv, Typed
<1>5. Clear(<<>>, job[Worker], Worker) /\ \A l : ~Under(<<>>, 1, l)
  BY NothingLeft
<1>6. \A l \in Locks : owner[l] = Worker <=> l = "PJSUA"
  <2>1. \A l \in Locks : ~Under(Tail(code[Worker]), 1, l)
    BY <1>2, <1>5
  <2>2. \A l \in Locks : owner[l] = Worker <=> Covers(l, code[Worker][1])
    BY <2>1, <1>1, UnderWay
  <2>3. QED
    BY <2>2, <1>3
<1>7. PICK x0, w0 : x0 = <<"unlock", "PJSUA">> /\ w0 = <<x0>> \o <<>>
  OBVIOUS
<1>8. /\ Clear(w0, job[Worker], Worker)
      /\ \A l \in Locks : Under(w0, 1, l) <=> l = "PJSUA"
  <2>1. /\ Clear(<<<<"unlock", "PJSUA">>>> \o <<>>, job[Worker], Worker)
        /\ \A l \in Locks : Under(<<<<"unlock", "PJSUA">>>> \o <<>>, 1, l)
                              <=> l = "PJSUA" \/ Under(<<>>, 1, l)
    BY <1>2, <1>5, ClearUnlock
  <2>2. QED
    BY <2>1, <1>5, <1>7
<1>9. x0 \in T /\ <<x0>> \in Seq(T) /\ w0 = <<x0>>
  <2>1. x0 \in T
    BY <1>7, OtherInstructions
  <2>2. <<x0>> \in Seq(T)
    BY <2>1
  <2>3. QED
    BY <2>1, <2>2, <1>7, ConcatEmptySeq
<1>10. CASE Then(Worker, <<<<"unlock", "PJSUA">>>>) /\ UNCHANGED <<owner, sess>>
  <2>1. PICK steps : steps = <<x0>>
    OBVIOUS
  <2>2. Then(Worker, steps) /\ steps \o Tail(code[Worker]) = w0
    BY <2>1, <1>2, <1>7, <1>10
  <2>3. /\ \A l \in Locks : owner'[l] = Worker <=> Under(steps \o Tail(code[Worker]), 1, l)
        /\ ByItself(Worker)
    BY <2>2, <1>6, <1>8, <1>10 DEF ByItself
  <2>4. Rest(steps \o Tail(code[Worker]), job[Worker], Worker)
    BY <2>2, <1>8 DEF Clear
  <2>5. QED
    BY <2>2, <2>3, <2>4, <1>1, <1>4, <1>10, ThenStep DEF LocksInv, Typed
<1>11. ASSUME NEW p \in Slots, owner[p] = Nobody,
              owner' = [owner EXCEPT ![p] = Worker],
              sess' = [sess EXCEPT ![p] = "incoming"],
              NEW answer \in {<<<<"hangup", p>>>>, <<>>,
                            <<<<"touch", "ACCOUNTS">>, <<"insert", p>>, <<"route", p>>>>},
              Then(Worker, answer \o <<<<"unlock", p>>, <<"unlock", "PJSUA">>>>)
       PROVE  LocksInv'
  <2>1. p \in Locks /\ p \notin {"CALLS", "ACCOUNTS", "PJSUA"}
    BY SlotInstructions
  <2>2. PICK y, w1 : y = <<"unlock", p>> /\ w1 = <<y>> \o w0
    OBVIOUS
  <2>3. y \in T /\ w1 = <<y, x0>>
    <3>1. y \in T
      BY <2>2, SlotInstructions
    <3>2. QED
      BY <3>1, <2>2, <1>9, Literal2
  <2>4. Clear(w1, job[Worker], Worker) /\ \A l \in Locks : Under(w1, 1, l) <=> l \in {p, "PJSUA"}
    <3>1. /\ Clear(<<<<"unlock", p>>>> \o w0, job[Worker], Worker)
          /\ \A l \in Locks : Under(<<<<"unlock", p>>>> \o w0, 1, l) <=> l = p \/ Under(w0, 1, l)
      <4>1. p \in Slots \cup {"PJSUA"} /\ p # "PJSUA" /\ ~Under(w0, 1, p)
        BY <2>1, <1>8
      <4>2. QED
        BY <4>1, <1>8, ClearUnlock
    <3>2. QED
      BY <3>1, <2>2, <1>8
  <2>5. PICK steps : steps = answer \o w1
    OBVIOUS
  <2>6. Clear(steps, job[Worker], Worker) /\ SameLocks(w1, steps)
    <3>1. CASE answer = <<>>
      <4>1. w1 \in Seq(T)
        BY <2>4 DEF Clear, Rest, Shape
      <4>2. steps = w1
        BY <4>1, <3>1, <2>5, ConcatEmptySeq
      <4>3. QED
        BY <4>2, <2>4 DEF SameLocks
    <3>2. CASE answer = <<<<"hangup", p>>>>
      <4>1. PICK x : x = <<"hangup", p>>
        OBVIOUS
      <4>2. x \in T /\ Instruction(x) /\ OfKind(x, job[Worker], Worker) /\ x[1] = "hangup"
        BY <4>1, SlotInstructions
      <4>3. Clear(<<x>> \o w1, job[Worker], Worker) /\ SameLocks(w1, <<x>> \o w1)
        BY <4>2, <2>4, ClearPlain
      <4>4. QED
        BY <4>1, <4>3, <3>2, <2>5
    <3>3. CASE answer = <<<<"touch", "ACCOUNTS">>, <<"insert", p>>, <<"route", p>>>>
      <4>1. PICK x1, x2, x3 : x1 = <<"touch", "ACCOUNTS">> /\ x2 = <<"insert", p>> /\ x3 = <<"route", p>>
        OBVIOUS
      <4>2. /\ x1 \in T /\ Instruction(x1) /\ OfKind(x1, job[Worker], Worker) /\ x1[1] = "touch"
            /\ x2 \in T /\ Instruction(x2) /\ OfKind(x2, job[Worker], Worker) /\ x2[1] = "insert"
            /\ x3 \in T /\ Instruction(x3) /\ OfKind(x3, job[Worker], Worker) /\ x3[1] = "route"
        BY <4>1, SlotInstructions, OtherInstructions
      <4>3. PICK v1, v2, v3 : v3 = <<x3>> \o w1 /\ v2 = <<x2>> \o v3 /\ v1 = <<x1>> \o v2
        OBVIOUS
      <4>4. Clear(v3, job[Worker], Worker) /\ SameLocks(w1, v3)
        BY <4>2, <4>3, <2>4, ClearPlain
      <4>5. Clear(v2, job[Worker], Worker) /\ SameLocks(v3, v2)
        BY <4>2, <4>3, <4>4, ClearPlain
      <4>6. Clear(v1, job[Worker], Worker) /\ SameLocks(v2, v1)
        BY <4>2, <4>3, <4>5, ClearPlain
      <4>7. steps = v1
        <5>1. PICK c1, c2, c3 : c1 = <<x1>> /\ c2 = <<x2>> /\ c3 = <<x3>>
          OBVIOUS
        <5>2. c1 \in Seq(T) /\ c2 \in Seq(T) /\ c3 \in Seq(T) /\ w1 \in Seq(T)
          BY <5>1, <4>2, <2>4 DEF Clear, Rest, Shape
        <5>3. answer = c1 \o (c2 \o c3)
          <6>1. <<x2, x3>> = <<x2>> \o <<x3>>
            BY Literal2
          <6>2. <<x1, x2, x3>> = <<x1>> \o <<x2, x3>>
            BY Literal3, SMTT(30)
          <6>3. QED
            BY <6>1, <6>2, <5>1, <4>1, <3>3
        <5> HIDE DEF T
        <5>4. PICK c : c = c2 \o c3
          OBVIOUS
        <5>5. c \in Seq(T)
          BY <5>2, <5>4, ConcatProperties
        <5>6. (c1 \o c) \o w1 = c1 \o (c \o w1)
          <6>1. c1 \in Seq(T) /\ c \in Seq(T) /\ w1 \in Seq(T)
            BY <5>2, <5>5
          <6>2. QED
            BY ONLY <6>1, ConcatAssociative, SMTT(30)
        <5>7. (c2 \o c3) \o w1 = c2 \o (c3 \o w1)
          <6>1. c2 \in Seq(T) /\ c3 \in Seq(T) /\ w1 \in Seq(T)
            BY <5>2
          <6>2. QED
            BY <6>1, ConcatAssociative
        <5>8. QED
          BY <5>1, <5>3, <5>4, <5>6, <5>7, <4>3, <2>5
      <4>8. QED
        BY <4>4, <4>5, <4>6, <4>7 DEF SameLocks
    <3>4. QED
      BY <3>1, <3>2, <3>3
  <2>7. Then(Worker, steps)
    BY <1>7, <1>11, <2>2, <2>3, <2>5
  <2>8. steps \o Tail(code[Worker]) = steps
    <3>1. steps \in Seq(T)
      BY <2>6 DEF Clear, Rest, Shape
    <3>2. QED
      BY <3>1, <1>2, ConcatEmptySeq
  <2>9. /\ owner' \in [Locks -> Agents \cup {Nobody}]
        /\ ByItself(Worker)
        /\ \A l \in Locks : owner'[l] = Worker <=> l = p \/ owner[l] = Worker
    BY <1>1, <1>4, <1>11, <2>1 DEF ByItself
  <2>10. \A l \in Locks : owner'[l] = Worker <=> Under(steps \o Tail(code[Worker]), 1, l)
    BY <2>4, <2>6, <2>8, <2>9, <1>6 DEF SameLocks
  <2>11. Rest(steps \o Tail(code[Worker]), job[Worker], Worker)
    BY <2>6, <2>8 DEF Clear
  <2>12. sess' \in [Slots -> {"free", "incoming", "up", "closing"}]
    BY <1>11 DEF LocksInv, Typed
  <2>13. known' \subseteq Slots /\ routed' \subseteq Slots
    BY <1>1 DEF LocksInv, Typed
  <2>14. QED
    BY <1>1, <2>7, <2>9, <2>10, <2>11, <2>12, <2>13, ThenStep
<1>12. QED
  BY <1>10, <1>11 DEF Invite

-----------------------------------------------------------------------------
(* What the agents begin *)

\* No lock is held where s begins.
Lockless(s) == \A l \in Locks : ~Under(s, 1, l)

\* An agent that has nothing to do holds nothing.
LEMMA BeginStep ==
  ASSUME LocksAssumption, LocksInv, NEW a \in Agents,
         NEW kind \in Commands \cup Events, NEW steps,
         Begin(a, kind, steps), Shape(steps, kind, a), Lockless(steps)
  PROVE  LocksInv'
<1>1. /\ code[a] = <<>> /\ code' = [code EXCEPT ![a] = steps]
      /\ job' = [job EXCEPT ![a] = kind] /\ UNCHANGED <<owner, sess, known, routed>>
  BY DEF Begin
<1>2. \A l \in Locks : owner[l] # a
  BY <1>1, UnderNothing DEF LocksInv, Held
<1>3. left' \in [commands : 0 .. MaxCommands, events : 0 .. MaxEvents]
  <2>1. left \in [commands : 0 .. MaxCommands, events : 0 .. MaxEvents]
    BY DEF LocksInv, Typed
  <2>2. PICK who \in {"commands", "events"} : left[who] > 0 /\ left' = [left EXCEPT ![who] = @ - 1]
    BY DEF Begin
  <2>3. left.commands \in 0 .. MaxCommands /\ left.events \in 0 .. MaxEvents
    BY <2>1
  <2>4. CASE who = "commands"
    <3>1. left.commands - 1 \in 0 .. MaxCommands
      BY <2>2, <2>3, <2>4 DEF LocksAssumption
    <3>2. QED
      BY <2>1, <2>2, <2>4, <3>1
  <2>5. CASE who = "events"
    <3>1. left.events - 1 \in 0 .. MaxEvents
      BY <2>2, <2>3, <2>5 DEF LocksAssumption
    <3>2. QED
      BY <2>1, <2>2, <2>5, <3>1
  <2>6. QED
    BY <2>2, <2>4, <2>5
<1>4. /\ owner' \in [Locks -> Agents \cup {Nobody}]
      /\ sess' \in [Slots -> {"free", "incoming", "up", "closing"}]
      /\ known' \subseteq Slots /\ routed' \subseteq Slots
  BY <1>1 DEF LocksInv, Typed
<1>5. /\ ByItself(a)
      /\ \A l \in Locks : owner'[l] # a
      /\ \A l \in Locks : owner'[l] = a <=> Under(steps, 1, l)
  BY <1>1, <1>2 DEF ByItself, Lockless
<1>6. kind \in Commands \cup Events \cup {"idle"}
  OBVIOUS
<1>7. QED
  BY <1>1, <1>3, <1>4, <1>5, <1>6, AgentStep

LEMMA PlainLockless ==
  ASSUME NEW v, NEW kind, NEW a, Clear(v, kind, a), Lockless(v),
         NEW x \in Kinds \X Locks, Instruction(x), OfKind(x, kind, a),
         x[1] \notin {"lock", "unlock", "push", "start", "invite"}
  PROVE  Clear(<<x>> \o v, kind, a) /\ Lockless(<<x>> \o v)
<1>1. Clear(<<x>> \o v, kind, a) /\ SameLocks(v, <<x>> \o v)
  BY ClearPlain
<1>2. QED
  BY <1>1 DEF SameLocks, Lockless

LEMMA OneLeft ==
  ASSUME NEW kind, NEW a, NEW x \in Kinds \X Locks, Instruction(x), OfKind(x, kind, a),
         x[1] \notin {"lock", "unlock", "push", "start", "invite"}
  PROVE  <<x>> \in Seq(Kinds \X Locks) /\ Clear(<<x>>, kind, a) /\ Lockless(<<x>>)
<1>1. Clear(<<x>> \o <<>>, kind, a) /\ SameLocks(<<>>, <<x>> \o <<>>)
  BY NothingLeft, ClearPlain
<1>2. <<x>> \in Seq(Kinds \X Locks)
  OBVIOUS
<1>3. <<x>> \o <<>> = <<x>>
  BY <1>2, ConcatEmptySeq
<1>4. QED
  BY <1>1, <1>2, <1>3, NothingLeft DEF SameLocks, Lockless

\* What takes l and lets it go after one other instruction.
LEMMA Section ==
  ASSUME LocksAssumption, NEW kind, NEW a, NEW l \in Locks,
         l = "ACCOUNTS" => kind = "register", l \in Slots => a = Worker, l # "CALLS",
         l = "PJSUA" => a # Worker \/ kind \in {"invite", "result"},
         NEW x \in Kinds \X Locks, Instruction(x), OfKind(x, kind, a),
         x[1] \notin {"lock", "unlock", "push", "start", "invite"},
         l = "PJSUA" => UnderPjsua(x, kind, a)
  PROVE  /\ Shape(<<<<"lock", l>>, x, <<"unlock", l>>>>, kind, a)
         /\ Lockless(<<<<"lock", l>>, x, <<"unlock", l>>>>)
         /\ l \notin Slots => Clear(<<<<"lock", l>>, x, <<"unlock", l>>>>, kind, a)
<1> DEFINE T == Kinds \X Locks
<1>0. PICK y, z : y = <<"lock", l>> /\ z = <<"unlock", l>>
  OBVIOUS
<1>1. y \in T /\ z \in T /\ x \in T /\ <<z>> \in Seq(T)
  <2>1. y \in T /\ z \in T
    BY <1>0 DEF Kinds
  <2>2. QED
    BY <2>1
<1>2. Clear(<<>>, kind, a) /\ \A m : ~Under(<<>>, 1, m)
  BY NothingLeft
<1>3. Rest(<<z>>, kind, a) /\ \A m \in Locks : Under(<<z>>, 1, m) <=> m = l
  <2>0. PICK v : v = <<>>
    OBVIOUS
  <2>1. <<z>> \o v = <<z>>
    BY <1>1, <2>0, ConcatEmptySeq
  <2>2. Rest(v, kind, a) /\ \A m : ~Under(v, 1, m)
    BY <1>2, <2>0 DEF Clear
  <2>3. /\ Rest(<<<<"unlock", l>>>> \o v, kind, a)
        /\ \A m \in Locks : Under(<<<<"unlock", l>>>> \o v, 1, m) <=> m = l \/ Under(v, 1, m)
    <3>1. l = "PJSUA" => a # Worker \/ kind \in {"invite", "result"}
      BY DEF UnderPjsua
    <3>2. QED
      BY <2>2, <3>1, ConsUnlock
  <2>4. QED
    BY <1>0, <2>1, <2>2, <2>3
<1>4. Rest(<<x, z>>, kind, a) /\ \A m \in Locks : Under(<<x, z>>, 1, m) <=> m = l
  <2>1. "CALLS" \in Locks /\ "PJSUA" \in Locks
    BY DEF Locks, Mutexes
  <2>2. Rest(<<x>> \o <<z>>, kind, a) /\ SameLocks(<<z>>, <<x>> \o <<z>>)
    BY <1>3, <2>1, ConsPlain
  <2>3. <<x, z>> = <<x>> \o <<z>>
    BY Literal2
  <2>4. QED
    BY <1>3, <2>2, <2>3 DEF SameLocks
<1>5. /\ Shape(<<y>> \o <<x, z>>, kind, a) /\ Lockless(<<y>> \o <<x, z>>)
      /\ l \notin Slots => Clear(<<y>> \o <<x, z>>, kind, a)
  <2>1. PICK v : v = <<x, z>>
    OBVIOUS
  <2>2. Rest(v, kind, a) /\ \A m \in Locks : Under(v, 1, m) <=> m = l
    BY <1>4, <2>1
  <2>3. /\ Under(v, 1, l) /\ ~Under(v, 1, "CALLS")
        /\ Under(v, 1, "PJSUA") /\ l # "PJSUA" => a = Worker /\ kind = "invite"
    BY <2>2 DEF Locks, Mutexes
  <2>4. /\ Shape(<<<<"lock", l>>>> \o v, kind, a)
        /\ l \notin Slots => Clear(<<<<"lock", l>>>> \o v, kind, a)
        /\ \A m \in Locks : Under(<<<<"lock", l>>>> \o v, 1, m) <=> m # l /\ Under(v, 1, m)
    BY <2>2, <2>3, ConsLock
  <2>5. Lockless(<<<<"lock", l>>>> \o v)
    BY <2>2, <2>4 DEF Lockless
  <2>6. QED
    BY <1>0, <2>1, <2>4, <2>5
<1>6. <<y, x, z>> = <<y>> \o <<x, z>>
  BY Literal3
<1>7. QED
  BY <1>0, <1>5, <1>6

\* The last instruction of a call that is made, and of an INVITE, lets go of
\* PJSUA_LOCK.
LEMMA LastUnderPjsua ==
  ASSUME LocksAssumption, NEW kind, NEW a, NEW how \in {"start", "invite"},
         how = "start" => a # Worker,
         how = "invite" => a = Worker /\ kind = "invite"
  PROVE  /\ Clear(<<<<"lock", "PJSUA">>, <<how, "PJSUA">>>>, kind, a)
         /\ Lockless(<<<<"lock", "PJSUA">>, <<how, "PJSUA">>>>)
<1> DEFINE T == Kinds \X Locks
<1>0. PICK y, z : y = <<"lock", "PJSUA">> /\ z = <<how, "PJSUA">>
  OBVIOUS
<1>1. /\ y \in T /\ z \in T /\ z[1] = how /\ Instruction(z) /\ OfKind(z, kind, a)
      /\ ~LocksCall(z) /\ "PJSUA" \in Locks /\ "PJSUA" \notin Slots
  BY <1>0 DEF Kinds, Locks, Mutexes, Instruction, OfKind, OnCalls, LocksCall, LocksAssumption
<1>2. Clear(<<>>, kind, a) /\ \A m : ~Under(<<>>, 1, m)
  BY NothingLeft
<1>3. \A m : ~Opens(m, z) /\ (Covers(m, z) <=> m = "PJSUA")
  BY <1>1 DEF Opens, Covers
<1>4. Fits(z, <<>>, kind, a)
  <2>1. Allowed("PJSUA", z, kind, a)
    BY <1>1 DEF Allowed, UnderPjsua
  <2>2. QED
    BY <1>1, <1>2, <1>3, <2>1 DEF Fits
<1>5. <<z>> \in Seq(T) /\ <<>> \in Seq(T)
  BY <1>1
<1>6. <<z>> \o <<>> = <<z>>
  BY <1>5, ConcatEmptySeq
<1>7. Rest(<<z>>, kind, a) /\ \A m : Under(<<z>>, 1, m) <=> m = "PJSUA"
  <2>1. Rest(<<>>, kind, a)
    BY <1>2 DEF Clear
  <2>2. Rest(<<z>> \o <<>>, kind, a)
    BY <2>1, <1>1, <1>4, ShapeCons
  <2>3. \A m : Under(<<z>> \o <<>>, 1, m) <=> Covers(m, z) \/ (~Opens(m, z) /\ Under(<<>>, 1, m))
    BY <1>1, <1>5, UnderCons
  <2>4. QED
    BY <2>2, <2>3, <1>2, <1>3, <1>6
<1>8. Clear(<<y>> \o <<z>>, kind, a) /\ Lockless(<<y>> \o <<z>>)
  <2>1. PICK v : v = <<z>>
    OBVIOUS
  <2>2. Rest(v, kind, a) /\ \A m : Under(v, 1, m) <=> m = "PJSUA"
    BY <1>7, <2>1
  <2>3. /\ Clear(<<<<"lock", "PJSUA">>>> \o v, kind, a)
        /\ \A m \in Locks : Under(<<<<"lock", "PJSUA">>>> \o v, 1, m)
                              <=> m # "PJSUA" /\ Under(v, 1, m)
    <3>1. Under(v, 1, "PJSUA") /\ ~Under(v, 1, "CALLS")
      BY <2>2
    <3>2. QED
      BY <3>1, <1>1, <2>2, ConsLock
  <2>4. Lockless(<<<<"lock", "PJSUA">>>> \o v)
    BY <2>2, <2>3 DEF Lockless
  <2>5. QED
    BY <1>0, <2>1, <2>3, <2>4
<1>9. <<y, z>> = <<y>> \o <<z>>
  BY Literal2
<1>10. QED
  BY <1>0, <1>8, <1>9

LEMMA RegisterShape ==
  ASSUME LocksAssumption, NEW a, NEW refused \in BOOLEAN
  PROVE  Clear(Register(refused), "register", a) /\ Lockless(Register(refused))
<1> DEFINE T == Kinds \X Locks
<1>0. PICK x, y, r : /\ x = <<"touch", "ACCOUNTS">> /\ y = <<"touch", "PJSUA">>
                     /\ r = IF refused THEN <<<<"lock", "ACCOUNTS">>, x, <<"unlock", "ACCOUNTS">>>>
                            ELSE <<x>>
  OBVIOUS
<1>1. /\ x \in T /\ Instruction(x) /\ OfKind(x, "register", a) /\ x[1] = "touch"
      /\ y \in T /\ Instruction(y) /\ OfKind(y, "register", a) /\ y[1] = "touch"
      /\ "ACCOUNTS" \in Locks /\ "ACCOUNTS" \notin Slots
  BY <1>0, OtherInstructions
<1>2. Clear(r, "register", a) /\ Lockless(r)
  <2>1. CASE refused
    BY <2>1, <1>0, <1>1, Section
  <2>2. CASE ~refused
    BY <2>2, <1>0, <1>1, OneLeft
  <2>3. QED
    BY <2>1, <2>2
<1>3. Clear(<<y>> \o r, "register", a) /\ Lockless(<<y>> \o r)
  BY <1>1, <1>2, PlainLockless
<1>4. Clear(<<x>> \o (<<y>> \o r), "register", a) /\ Lockless(<<x>> \o (<<y>> \o r))
  BY <1>1, <1>3, PlainLockless
<1>5. Register(refused) = <<x, y>> \o r
  BY <1>0 DEF Register
<1>6. <<x, y>> \o r = <<x>> \o (<<y>> \o r)
  <2>1. PICK cx, cy : cx = <<x>> /\ cy = <<y>>
    OBVIOUS
  <2>2. cx \in Seq(T) /\ cy \in Seq(T) /\ r \in Seq(T)
    BY <2>1, <1>1, <1>2 DEF Clear, Rest, Shape
  <2> HIDE DEF T
  <2>3. (cx \o cy) \o r = cx \o (cy \o r)
    BY <2>2, ConcatAssociative
  <2>4. <<x, y>> = <<x>> \o <<y>>
    BY Literal2
  <2>5. QED
    BY <2>1, <2>3, <2>4
<1>7. QED
  BY <1>4, <1>5, <1>6

LEMMA CommandShape ==
  ASSUME LocksAssumption, NEW a, NEW p \in Slots,
         NEW cmd \in Commands \ {"start", "register"}
  PROVE  Clear(CommandOn(cmd, p), cmd, a) /\ Lockless(CommandOn(cmd, p))
<1> DEFINE T == Kinds \X Locks
<1>1. CASE cmd \in {"answer", "hangup"}
  <2>1. PICK x, y : x = <<"touch", "CALLS">> /\ y = <<cmd, p>>
    OBVIOUS
  <2>2. /\ x \in T /\ Instruction(x) /\ OfKind(x, cmd, a) /\ x[1] = "touch"
        /\ y \in T /\ Instruction(y) /\ OfKind(y, cmd, a) /\ y[1] = cmd
    <3>1. p \in Locks
      BY DEF Locks
    <3>2. y \in T /\ Instruction(y) /\ OfKind(y, cmd, a) /\ y[1] = cmd
      BY <1>1, <2>1, <3>1 DEF Kinds, Instruction, OfKind, OnCalls
    <3>3. QED
      BY <2>1, <3>2, OtherInstructions
  <2>3. Clear(<<y>>, cmd, a) /\ Lockless(<<y>>)
    BY <1>1, <2>2, OneLeft
  <2>4. Clear(<<x>> \o <<y>>, cmd, a) /\ Lockless(<<x>> \o <<y>>)
    BY <2>2, <2>3, PlainLockless
  <2>5. <<x, y>> = <<x>> \o <<y>>
    BY Literal2
  <2>6. CommandOn(cmd, p) = <<x, y>>
    BY <1>1, <2>1 DEF CommandOn
  <2>7. QED
    BY <2>4, <2>5, <2>6
<1>2. CASE cmd \in {"hold", "mute"}
  <2>1. PICK x : x = IF cmd = "hold" THEN <<"request", p>> ELSE <<"touch", "PJSUA">>
    OBVIOUS
  <2>2. x \in T /\ Instruction(x) /\ OfKind(x, cmd, a) /\ x[1] \in {"request", "touch"}
    <3>1. CASE cmd = "hold"
      BY <3>1, <2>1, SlotInstructions
    <3>2. CASE cmd # "hold"
      BY <3>2, <2>1, OtherInstructions
    <3>3. QED
      BY <3>1, <3>2
  <2>3. PICK v : v = <<x>>
    OBVIOUS
  <2>4. Clear(v, cmd, a) /\ Lockless(v)
    BY <2>2, <2>3, OneLeft
  <2>5. /\ Clear(Pushing(<<>> \o <<>>) \o v, cmd, a)
        /\ Lockless(Pushing(<<>> \o <<>>) \o v)
    <3>1. /\ Clear(Pushing(<<>> \o <<>>) \o v, cmd, a)
          /\ SameLocks(v, Pushing(<<>> \o <<>>) \o v)
      BY <2>4, ClearPushing
    <3>2. QED
      BY <3>1, <2>4 DEF SameLocks, Lockless
  <2>6. <<>> \o <<>> = <<>>
    BY ConcatEmptySeq, EmptySeq
  <2>7. CommandOn(cmd, p) = Pushing(<<>>) \o v
    BY <1>2, <2>1, <2>3 DEF CommandOn
  <2>8. QED
    BY <2>5, <2>6, <2>7
<1>3. CASE cmd = "dtmf"
  <2>1. PICK x1, x2, x3, x4 : /\ x1 = <<"lock", "CALLS">> /\ x2 = <<"touch", "PJSUA">>
                              /\ x3 = <<"request", p>> /\ x4 = <<"unlock", "CALLS">>
    OBVIOUS
  <2>2. /\ x2 \in T /\ Instruction(x2) /\ OfKind(x2, cmd, a) /\ x2[1] = "touch"
        /\ x3 \in T /\ Instruction(x3) /\ OfKind(x3, cmd, a) /\ x3[1] = "request"
        /\ x4 \in T
    BY <2>1, SlotInstructions, OtherInstructions
  <2>3. "CALLS" \in Locks /\ "PJSUA" \in Locks /\ "CALLS" \notin Slots
    BY OtherInstructions
  <2>4. Clear(<<>>, cmd, a) /\ \A m : ~Under(<<>>, 1, m)
    BY NothingLeft
  <2>5. PICK w1, w2, w3, w4 : /\ w4 = <<x4>> /\ w3 = <<x3>> \o w4
                              /\ w2 = <<x2>> \o w3 /\ w1 = <<x1>> \o w2
    OBVIOUS
  <2>6. Rest(w4, cmd, a) /\ \A m \in Locks : Under(w4, 1, m) <=> m = "CALLS"
    <3>1. <<x4>> \in Seq(T)
      BY <2>2
    <3>2. <<x4>> \o <<>> = <<x4>>
      BY <3>1, ConcatEmptySeq
    <3>3. Rest(<<>>, cmd, a)
      BY <2>4 DEF Clear
    <3>4. /\ Rest(<<<<"unlock", "CALLS">>>> \o <<>>, cmd, a)
          /\ \A m \in Locks : Under(<<<<"unlock", "CALLS">>>> \o <<>>, 1, m)
                                <=> m = "CALLS" \/ Under(<<>>, 1, m)
      BY <2>3, <2>4, <3>3, ConsUnlock
    <3>5. QED
      BY <2>1, <2>4, <2>5, <3>2, <3>4
  <2>7. Rest(w3, cmd, a) /\ \A m \in Locks : Under(w3, 1, m) <=> m = "CALLS"
    <3>1. UnderCalls(x3, cmd, a) /\ ~Under(w4, 1, "PJSUA")
      BY <2>2, <2>3, <2>6 DEF UnderCalls
    <3>2. Rest(<<x3>> \o w4, cmd, a) /\ SameLocks(w4, <<x3>> \o w4)
      BY <2>2, <2>6, <3>1, ConsPlain
    <3>3. QED
      BY <2>5, <2>6, <3>2 DEF SameLocks
  <2>8. Rest(w2, cmd, a) /\ \A m \in Locks : Under(w2, 1, m) <=> m = "CALLS"
    <3>1. UnderCalls(x2, cmd, a) /\ ~Under(w3, 1, "PJSUA")
      BY <1>3, <2>1, <2>3, <2>7 DEF UnderCalls
    <3>2. Rest(<<x2>> \o w3, cmd, a) /\ SameLocks(w3, <<x2>> \o w3)
      BY <2>2, <2>7, <3>1, ConsPlain
    <3>3. QED
      BY <2>5, <2>7, <3>2 DEF SameLocks
  <2>9. Clear(w1, cmd, a) /\ Lockless(w1)
    <3>1. Under(w2, 1, "CALLS") /\ ~Under(w2, 1, "PJSUA")
      BY <2>3, <2>8
    <3>2. /\ Clear(<<<<"lock", "CALLS">>>> \o w2, cmd, a)
          /\ \A m \in Locks : Under(<<<<"lock", "CALLS">>>> \o w2, 1, m)
                                <=> m # "CALLS" /\ Under(w2, 1, m)
      BY <2>3, <2>8, <3>1, ConsLock
    <3>3. Lockless(<<<<"lock", "CALLS">>>> \o w2)
      BY <2>8, <3>2 DEF Lockless
    <3>4. QED
      BY <2>1, <2>5, <3>2, <3>3
  <2>10. w1 = <<x1, x2, x3, x4>>
    <3>1. <<x3, x4>> = <<x3>> \o <<x4>>
      BY Literal2
    <3>2. <<x2, x3, x4>> = <<x2>> \o <<x3, x4>>
      BY Literal3
    <3>3. <<x1, x2, x3, x4>> = <<x1>> \o <<x2, x3, x4>>
      BY Literal4
    <3>4. QED
      BY <2>5, <3>1, <3>2, <3>3
  <2>11. CommandOn(cmd, p) = <<x1, x2, x3, x4>>
    BY <1>3, <2>1 DEF CommandOn
  <2>12. QED
    BY <2>9, <2>10, <2>11
<1>4. QED
  BY <1>1, <1>2, <1>3 DEF Commands

LEMMA NewCommandStep ==
  ASSUME LocksAssumption, LocksInv, NEW t \in Threads, NewCommand(t)
  PROVE  LocksInv'
<1>0. t \in Agents /\ t # Worker
  BY DEF Agents, LocksAssumption
<1>1. CASE Begin(t, "start", <<<<"touch", "ACCOUNTS">>, <<"lock", "PJSUA">>, <<"start", "PJSUA">>>>)
  <2>1. PICK x, y, z : /\ x = <<"touch", "ACCOUNTS">> /\ y = <<"lock", "PJSUA">>
                       /\ z = <<"start", "PJSUA">>
    OBVIOUS
  <2>2. x \in Kinds \X Locks /\ Instruction(x) /\ OfKind(x, "start", t) /\ x[1] = "touch"
    BY <2>1, OtherInstructions
  <2>3. Clear(<<y, z>>, "start", t) /\ Lockless(<<y, z>>)
    BY <1>0, <2>1, LastUnderPjsua
  <2>4. Clear(<<x>> \o <<y, z>>, "start", t) /\ Lockless(<<x>> \o <<y, z>>)
    BY <2>2, <2>3, PlainLockless
  <2>5. <<x, y, z>> = <<x>> \o <<y, z>>
    BY Literal3
  <2>6. /\ Shape(<<x, y, z>>, "start", t) /\ Lockless(<<x, y, z>>)
        /\ Begin(t, "start", <<x, y, z>>)
    BY <1>1, <2>1, <2>4, <2>5 DEF Clear, Rest
  <2>7. QED
    BY <1>0, <2>6, BeginStep DEF Commands
<1>2. ASSUME NEW refused \in BOOLEAN, Begin(t, "register", Register(refused))
      PROVE  LocksInv'
  <2>1. Shape(Register(refused), "register", t) /\ Lockless(Register(refused))
    BY RegisterShape DEF Clear, Rest
  <2>2. QED
    BY <1>0, <1>2, <2>1, BeginStep DEF Commands
<1>3. ASSUME NEW p \in known, NEW cmd \in Commands \ {"start", "register"},
             Begin(t, cmd, CommandOn(cmd, p))
      PROVE  LocksInv'
  <2>1. p \in Slots
    BY DEF LocksInv, Typed
  <2>2. Shape(CommandOn(cmd, p), cmd, t) /\ Lockless(CommandOn(cmd, p))
    BY <2>1, CommandShape DEF Clear, Rest
  <2>3. QED
    BY <1>0, <1>3, <2>2, BeginStep
<1>4. QED
  BY <1>1, <1>2, <1>3 DEF NewCommand

\* The worker has the lock of the dialog before it looks at the session.
LEMMA EventShape ==
  ASSUME LocksAssumption, NEW p \in Slots, NEW how \in {"media", "state"}
  PROVE  /\ Shape(<<<<"lock", p>>, <<how, p>>, <<"unlock", p>>>>, how, Worker)
         /\ Lockless(<<<<"lock", p>>, <<how, p>>, <<"unlock", p>>>>)
         /\ Shape(<<<<"lock", p>>, <<"ended", p>>, <<"free", p>>, <<"unlock", p>>>>, "bye", Worker)
         /\ Lockless(<<<<"lock", p>>, <<"ended", p>>, <<"free", p>>, <<"unlock", p>>>>)
<1> DEFINE T == Kinds \X Locks
<1>0. p \in Locks /\ p \notin {"CALLS", "ACCOUNTS", "PJSUA"}
  BY SlotInstructions
<1>1. /\ Shape(<<<<"lock", p>>, <<how, p>>, <<"unlock", p>>>>, how, Worker)
      /\ Lockless(<<<<"lock", p>>, <<how, p>>, <<"unlock", p>>>>)
  <2>1. PICK x : x = <<how, p>>
    OBVIOUS
  <2>2. x \in T /\ Instruction(x) /\ OfKind(x, how, Worker) /\ x[1] = how
    BY <2>1, <1>0 DEF Kinds, Instruction, OfKind, OnCalls
  <2>3. /\ Shape(<<<<"lock", p>>, x, <<"unlock", p>>>>, how, Worker)
        /\ Lockless(<<<<"lock", p>>, x, <<"unlock", p>>>>)
    BY <2>2, <1>0, Section
  <2>4. QED
    BY <2>1, <2>3
<1>2. /\ Shape(<<<<"lock", p>>, <<"ended", p>>, <<"free", p>>, <<"unlock", p>>>>, "bye", Worker)
      /\ Lockless(<<<<"lock", p>>, <<"ended", p>>, <<"free", p>>, <<"unlock", p>>>>)
  <2>1. PICK x1, x2, x3, x4 : /\ x1 = <<"lock", p>> /\ x2 = <<"ended", p>>
                              /\ x3 = <<"free", p>> /\ x4 = <<"unlock", p>>
    OBVIOUS
  <2>2. /\ x2 \in T /\ Instruction(x2) /\ OfKind(x2, "bye", Worker) /\ x2[1] = "ended"
        /\ x3 \in T /\ Instruction(x3) /\ OfKind(x3, "bye", Worker) /\ x3[1] = "free"
        /\ x4 \in T
    BY <2>1, <1>0 DEF Kinds, Instruction, OfKind, OnCalls
  <2>3. Clear(<<>>, "bye", Worker) /\ \A m : ~Under(<<>>, 1, m)
    BY NothingLeft
  <2>4. PICK w1, w2, w3, w4 : /\ w4 = <<x4>> /\ w3 = <<x3>> \o w4
                              /\ w2 = <<x2>> \o w3 /\ w1 = <<x1>> \o w2
    OBVIOUS
  <2>5. Clear(w4, "bye", Worker) /\ \A m \in Locks : Under(w4, 1, m) <=> m = p
    <3>1. <<x4>> \in Seq(T)
      BY <2>2
    <3>2. <<x4>> \o <<>> = <<x4>>
      BY <3>1, ConcatEmptySeq
    <3>3. p \in Slots \cup {"PJSUA"} /\ p # "PJSUA"
      BY <1>0
    <3>4. /\ Clear(<<<<"unlock", p>>>> \o <<>>, "bye", Worker)
          /\ \A m \in Locks : Under(<<<<"unlock", p>>>> \o <<>>, 1, m) <=> m = p \/ Under(<<>>, 1, m)
      BY <2>3, <3>3, ClearUnlock
    <3>5. QED
      BY <2>1, <2>3, <2>4, <3>2, <3>4
  <2>6. Clear(w3, "bye", Worker) /\ SameLocks(w4, w3)
    BY <2>2, <2>4, <2>5, ClearPlain
  <2>7. Clear(w2, "bye", Worker) /\ SameLocks(w3, w2)
    BY <2>2, <2>4, <2>6, ClearPlain
  <2>8. Shape(w1, "bye", Worker) /\ Lockless(w1)
    <3>1. /\ Rest(w2, "bye", Worker) /\ \A m \in Locks : Under(w2, 1, m) <=> m = p
          /\ ~Under(w2, 1, "CALLS") /\ (Under(w2, 1, "PJSUA") => FALSE)
      BY <1>0, <2>5, <2>6, <2>7 DEF Clear, SameLocks
    <3>2. /\ Shape(<<<<"lock", p>>>> \o w2, "bye", Worker)
          /\ \A m \in Locks : Under(<<<<"lock", p>>>> \o w2, 1, m) <=> m # p /\ Under(w2, 1, m)
      BY <1>0, <3>1, ConsLock
    <3>3. Lockless(<<<<"lock", p>>>> \o w2)
      BY <3>1, <3>2 DEF Lockless
    <3>4. QED
      BY <2>1, <2>4, <3>2, <3>3
  <2>9. w1 = <<x1, x2, x3, x4>>
    <3>1. <<x3, x4>> = <<x3>> \o <<x4>>
      BY Literal2
    <3>2. <<x2, x3, x4>> = <<x2>> \o <<x3, x4>>
      BY Literal3
    <3>3. <<x1, x2, x3, x4>> = <<x1>> \o <<x2, x3, x4>>
      BY Literal4
    <3>4. QED
      BY <2>4, <3>1, <3>2, <3>3
  <2>10. QED
    BY <2>1, <2>8, <2>9
<1>3. QED
  BY <1>1, <1>2

LEMMA NewEventStep ==
  ASSUME LocksAssumption, LocksInv, NewEvent
  PROVE  LocksInv'
<1>0. Worker \in Agents
  BY DEF Agents
<1>1. CASE Begin(Worker, "invite", <<<<"lock", "PJSUA">>, <<"invite", "PJSUA">>>>)
  <2>1. /\ Shape(<<<<"lock", "PJSUA">>, <<"invite", "PJSUA">>>>, "invite", Worker)
        /\ Lockless(<<<<"lock", "PJSUA">>, <<"invite", "PJSUA">>>>)
    BY LastUnderPjsua DEF Clear, Rest
  <2>2. QED
    BY <1>0, <1>1, <2>1, BeginStep DEF Events
<1>2. CASE Begin(Worker, "result",
                 <<<<"lock", "PJSUA">>, <<"touch", "ACCOUNTS">>, <<"unlock", "PJSUA">>>>)
  <2>1. PICK x : x = <<"touch", "ACCOUNTS">>
    OBVIOUS
  <2>2. /\ x \in Kinds \X Locks /\ Instruction(x) /\ OfKind(x, "result", Worker) /\ x[1] = "touch"
        /\ UnderPjsua(x, "result", Worker)
    BY <2>1, OtherInstructions DEF UnderPjsua
  <2>3. "PJSUA" \in Locks /\ "PJSUA" \notin Slots
    BY OtherInstructions
  <2>4. /\ Shape(<<<<"lock", "PJSUA">>, x, <<"unlock", "PJSUA">>>>, "result", Worker)
        /\ Lockless(<<<<"lock", "PJSUA">>, x, <<"unlock", "PJSUA">>>>)
    BY <2>2, <2>3, Section
  <2>5. QED
    BY <1>0, <1>2, <2>1, <2>4, BeginStep DEF Events
<1>3. ASSUME NEW p \in Slots, NEW how \in {"media", "state"},
             Begin(Worker, how, <<<<"lock", p>>, <<how, p>>, <<"unlock", p>>>>)
      PROVE  LocksInv'
  <2>1. /\ Shape(<<<<"lock", p>>, <<how, p>>, <<"unlock", p>>>>, how, Worker)
        /\ Lockless(<<<<"lock", p>>, <<how, p>>, <<"unlock", p>>>>)
    BY EventShape
  <2>2. QED
    BY <1>0, <1>3, <2>1, BeginStep DEF Events
<1>4. ASSUME NEW p \in Slots,
             Begin(Worker, "bye", <<<<"lock", p>>, <<"ended", p>>, <<"free", p>>, <<"unlock", p>>>>)
      PROVE  LocksInv'
  <2>1. /\ Shape(<<<<"lock", p>>, <<"ended", p>>, <<"free", p>>, <<"unlock", p>>>>, "bye", Worker)
        /\ Lockless(<<<<"lock", p>>, <<"ended", p>>, <<"free", p>>, <<"unlock", p>>>>)
    BY EventShape
  <2>2. QED
    BY <1>0, <1>4, <2>1, BeginStep DEF Events
<1>5. QED
  BY <1>1, <1>2, <1>3, <1>4 DEF NewEvent

-----------------------------------------------------------------------------
(* The theorems *)

LEMMA InitHolds ==
  ASSUME LocksAssumption, Init
  PROVE  LocksInv
<1>1. /\ owner = [l \in Locks |-> Nobody] /\ code = [a \in Agents |-> <<>>]
      /\ job = [a \in Agents |-> "idle"] /\ sess = [p \in Slots |-> "free"]
      /\ known = {} /\ routed = {} /\ left = [commands |-> MaxCommands, events |-> MaxEvents]
      /\ Nobody \notin Agents
  BY DEF Init, LocksAssumption, Agents
<1>2. Typed
  BY <1>1 DEF Typed, LocksAssumption
<1>3. code \in [Agents -> Seq(Kinds \X Locks)]
  BY <1>1, EmptySeq
<1>4. \A a \in Agents : Shape(code[a], job[a], a)
  BY <1>1, NothingLeft DEF Clear, Rest
<1>5. Held /\ LocksFirst
  BY <1>1, UnderNothing DEF Held, LocksFirst
<1>6. QED
  BY <1>2, <1>3, <1>4, <1>5 DEF LocksInv

LEMMA StepHolds ==
  ASSUME LocksAssumption, LocksInv, NEW a \in Agents, Step(a)
  PROVE  LocksInv'
<1>1. CASE Lock(a) \/ Unlock(a) \/ Push(a)
  BY <1>1, LockStep, UnlockStep, PushStep
<1>2. CASE Touch(a) \/ Insert(a) \/ Route(a)
  BY <1>2, SectionStep
<1>3. CASE Request(a) \/ Hangup(a) \/ Answer(a)
  BY <1>3, RequestStep, HangupStep, AnswerStep
<1>4. CASE Close(a) \/ State(a) \/ Media(a)
  BY <1>4, CloseStep, StateStep, MediaStep
<1>5. CASE Start(a)
  BY <1>5, StartStep
<1>6. QED
  BY <1>1, <1>2, <1>3, <1>4, <1>5 DEF Step

LEMMA NextHolds ==
  ASSUME LocksAssumption, LocksInv, [Next]_vars
  PROVE  LocksInv'
<1>1. CASE UNCHANGED vars
  BY <1>1 DEF vars, LocksInv, Typed, Held, LocksFirst
<1>2. ASSUME NEW t \in Threads, Step(t) \/ NewCommand(t) PROVE LocksInv'
  BY <1>2, StepHolds, NewCommandStep DEF Agents
<1>3. CASE WorkerStep
  <2>1. Worker \in Agents
    BY DEF Agents
  <2>2. QED
    BY <2>1, <1>3, StepHolds, InviteStep, EndedStep, FreeSlotStep DEF WorkerStep
<1>4. CASE NewEvent
  BY <1>4, NewEventStep
<1>5. QED
  BY <1>1, <1>2, <1>3, <1>4 DEF Next

\* In every reachable state the locks an agent holds are let go in what it has
\* still to do, and nothing but what the engine does under them comes first.
THEOREM LocksAreHeldInShape == Spec => []LocksInv
<1>1. Init => LocksInv
  BY LocksAssumption, InitHolds
<1>2. LocksInv /\ [Next]_vars => LocksInv'
  BY LocksAssumption, NextHolds
<1>3. QED
  BY <1>1, <1>2, PTL DEF Spec

\* TypeOK holds of every behaviour: the instructions of the bodies of lib.rs and
\* of pjsua name locks only, and the slots they name are slots.
THEOREM LocksTypeCorrect == Spec => []TypeOK
<1>1. LocksInv => TypeOK
  BY DEF TypeOK, LocksInv, Typed
<1>2. QED
  BY <1>1, LocksAreHeldInShape, PTL

\* LocksBalanced holds of every behaviour: no command and no event ends with a
\* lock of lib.rs, PJSUA_LOCK or the lock of a dialog still held by it, a lock
\* that is taken again inside a callback is not unlocked twice, and PJSUA_LOCK is
\* held where a call that is made, or an INVITE, lets go of it.
THEOREM LocksComeInPairs == Spec => []LocksBalanced
<1>1. LocksInv => LocksBalanced
  <2> SUFFICES ASSUME LocksInv PROVE LocksBalanced
    OBVIOUS
  <2>1. ASSUME NEW l \in Locks, owner[l] # Nobody PROVE code[owner[l]] # <<>>
    <3>1. owner[l] \in Agents
      BY <2>1 DEF LocksInv, Typed
    <3>2. Under(code[owner[l]], 1, l)
      BY <3>1 DEF LocksInv, Held
    <3>3. QED
      BY <3>2, UnderNothing
  <2>2. ASSUME NEW a \in Agents, NEW l \in Releases(a) PROVE owner[l] = a
    <3>1. code[a] # <<>>
      BY <2>2 DEF Releases, Do
    <3>2. code[a][1] \in Kinds \X Locks
      BY <3>1, UnderWay
    <3>3. l \in Locks /\ Covers(l, code[a][1])
      BY <2>2, <3>1, <3>2 DEF Releases, Do, On, Covers, Locks, Mutexes
    <3>4. QED
      BY <3>1, <3>3, UnderWay
  <2>3. QED
    BY <2>1, <2>2 DEF LocksBalanced
<1>2. QED
  BY <1>1, LocksAreHeldInShape, PTL

\* What an agent that holds l is about to do.
LEMMA HolderAllowed ==
  ASSUME LocksInv, NEW a \in Agents, NEW l \in Locks, owner[l] = a
  PROVE  code[a] # <<>> /\ Allowed(l, code[a][1], job[a], a)
<1>1. Under(code[a], 1, l) /\ Shape(code[a], job[a], a)
  BY DEF LocksInv, Held
<1>2. code[a] # <<>>
  BY <1>1, UnderNothing
<1>3. 1 \in DOMAIN code[a]
  BY <1>1, <1>2, EmptySeq, LenProperties DEF Shape
<1>4. QED
  BY <1>1, <1>2, <1>3 DEF Shape

LEMMA HolderOfAccounts ==
  ASSUME LocksInv, NEW a \in Agents, owner["ACCOUNTS"] = a
  PROVE  job[a] = "register"
<1>1. "ACCOUNTS" \in Locks
  BY DEF Locks, Mutexes
<1>2. Under(code[a], 1, "ACCOUNTS") /\ Shape(code[a], job[a], a)
  BY <1>1 DEF LocksInv, Held
<1>3. PICK k \in DOMAIN code[a] : Covers("ACCOUNTS", code[a][k])
  BY <1>2 DEF Under
<1>4. OfKind(code[a][k], job[a], a)
  BY <1>2, <1>3 DEF Shape
<1>5. QED
  BY <1>3, <1>4 DEF Covers, OfKind

\* Who waits: it has something to do that needs the lock.
LEMMA Waiting ==
  ASSUME LocksInv, NEW a \in Agents, WaitsFor(a) # {}
  PROVE  /\ code[a] # <<>> /\ code[a][1] \in Kinds \X Locks
         /\ \E l \in Locks : /\ Needs(a) = {l} /\ ~Available(a, l)
                             /\ owner[l] # Nobody /\ WaitsFor(a) = {owner[l]}
         /\ code[a][1][1] \in {"lock", "touch", "push"} => Needs(a) = {code[a][1][2]}
         /\ code[a][1][1] \notin {"unlock", "request", "answer", "hangup", "start",
                                  "route", "invite"}
<1>1. code[a] # <<>>
  BY DEF WaitsFor, Needs
<1>2. code[a][1] \in Kinds \X Locks
  BY <1>1, UnderWay
<1>3. \E l \in Locks : Needs(a) = {l}
  <2>1. Needs(a) # {}
    BY DEF WaitsFor
  <2>2. "PJSUA" \in Locks /\ "CALLS" \in Locks /\ code[a][1][2] \in Locks
    BY <1>2 DEF Locks, Mutexes
  <2>3. QED
    BY <2>1, <2>2 DEF Needs, On
<1>4. PICK l \in Locks : Needs(a) = {l}
  BY <1>3
<1>5. ~Available(a, l) /\ owner[l] # Nobody /\ WaitsFor(a) = {owner[l]}
  BY <1>4 DEF WaitsFor
<1>6. code[a][1][1] \in {"lock", "touch", "push"} => Needs(a) = {code[a][1][2]}
  BY <1>1 DEF Needs, On
<1>7. code[a][1][1] \notin {"unlock", "request", "answer", "hangup", "start", "route", "invite"}
  BY <1>1, <1>4 DEF Needs
<1>8. QED
  BY <1>1, <1>2, <1>4, <1>5, <1>6, <1>7

\* Nobody waits in a circle but through the two of the comment at
\* OnlyKnownDeadlocks: who holds ACCOUNTS is in cmd_account_register, who holds
\* CALLS waits for ACCOUNTS or PJSUA_LOCK only, who holds PJSUA_LOCK waits for
\* ACCOUNTS only unless it is the worker in an INVITE, and who waits for the
\* lock of a dialog is the worker, with no other lock.
LEMMA CircularWaits ==
  ASSUME LocksAssumption, LocksInv PROVE OnlyKnownDeadlocks
<1> SUFFICES ASSUME NEW S \in SUBSET Agents, CircularWait(S),
                    ~\E a \in S : job[a] = "register" /\ owner["ACCOUNTS"] = a
             PROVE  /\ Worker \in S /\ job[Worker] = "invite"
                    /\ owner["PJSUA"] = Worker /\ Needs(Worker) = {"CALLS"}
                    /\ owner["CALLS"] # Nobody /\ job[owner["CALLS"]] \in {"dtmf", "answer"}
  BY DEF OnlyKnownDeadlocks
<1>0. /\ "CALLS" \in Locks /\ "ACCOUNTS" \in Locks /\ "PJSUA" \in Locks
      /\ "CALLS" \notin Slots /\ "ACCOUNTS" \notin Slots /\ "PJSUA" \notin Slots
  BY DEF Locks, Mutexes, LocksAssumption
<1>1. ASSUME NEW a \in S
      PROVE  /\ a \in Agents /\ code[a] # <<>>
             /\ \E l \in Locks : /\ Needs(a) = {l} /\ ~Available(a, l) /\ owner[l] \in S
             /\ code[a][1][1] \in {"lock", "touch", "push"} => Needs(a) = {code[a][1][2]}
             /\ code[a][1][1] \notin {"unlock", "request", "answer", "hangup", "start",
                                      "route", "invite"}
             /\ Instruction(code[a][1])
  <2>1. a \in Agents /\ WaitsFor(a) \cap S # {}
    BY DEF CircularWait
  <2>2. WaitsFor(a) # {}
    BY <2>1
  <2>3. /\ code[a] # <<>>
        /\ \E l \in Locks : Needs(a) = {l} /\ ~Available(a, l) /\ WaitsFor(a) = {owner[l]}
        /\ code[a][1][1] \in {"lock", "touch", "push"} => Needs(a) = {code[a][1][2]}
        /\ code[a][1][1] \notin {"unlock", "request", "answer", "hangup", "start",
                                 "route", "invite"}
    BY <2>1, <2>2, Waiting
  <2>4. Instruction(code[a][1])
    BY <2>1, <2>3, UnderWay
  <2>5. QED
    BY <2>1, <2>3, <2>4
\* Nobody in the circle waits for ACCOUNTS.
<1>2. ASSUME NEW a \in S PROVE Needs(a) # {"ACCOUNTS"}
  <2>1. SUFFICES ASSUME Needs(a) = {"ACCOUNTS"} PROVE FALSE
    OBVIOUS
  <2>2. owner["ACCOUNTS"] \in S
    BY <1>1, <2>1
  <2>3. QED
    BY <2>2, HolderOfAccounts
\* Who holds PJSUA_LOCK in the circle is the worker in an INVITE.
<1>3. ASSUME NEW b \in S, owner["PJSUA"] = b PROVE b = Worker /\ job[b] = "invite"
  <2>1. UnderPjsua(code[b][1], job[b], b)
    BY <1>0, <1>1, <1>3, HolderAllowed DEF Allowed
  <2>2. code[b][1][1] = "touch" => code[b][1][2] # "ACCOUNTS"
    BY <1>1, <1>2
  <2>3. QED
    BY <1>1, <2>1, <2>2 DEF UnderPjsua
\* Who holds CALLS in the circle waits for PJSUA_LOCK.
<1>4. ASSUME NEW b \in S, owner["CALLS"] = b
      PROVE  Needs(b) = {"PJSUA"} /\ (b = Worker \/ job[b] \in {"dtmf", "answer"})
  <2>1. UnderCalls(code[b][1], job[b], b)
    BY <1>0, <1>1, <1>4, HolderAllowed DEF Allowed
  <2>2. code[b][1][1] # "push"
    BY <1>1, <1>2 DEF Instruction
  <2>3. QED
    BY <1>1, <2>1, <2>2 DEF UnderCalls
\* So who waits for PJSUA_LOCK, or for CALLS, waits for that INVITE.
<1>5. ASSUME NEW a \in S, Needs(a) \in {{"PJSUA"}, {"CALLS"}}
      PROVE  Worker \in S /\ job[Worker] = "invite" /\ owner["PJSUA"] = Worker
  <2>1. \A b \in S : Needs(b) = {"PJSUA"} => owner["PJSUA"] \in S
    BY <1>1
  <2>2. ASSUME NEW b \in S, Needs(b) = {"PJSUA"}
        PROVE  Worker \in S /\ job[Worker] = "invite" /\ owner["PJSUA"] = Worker
    BY <2>1, <2>2, <1>3
  <2>3. CASE Needs(a) = {"CALLS"}
    <3>1. owner["CALLS"] \in S
      BY <1>1, <2>3
    <3>2. Needs(owner["CALLS"]) = {"PJSUA"}
      BY <3>1, <1>4
    <3>3. QED
      BY <3>1, <3>2, <2>2
  <2>4. QED
    BY <2>2, <2>3, <1>5
\* Who waits for the lock of a dialog is the worker, and it holds nothing.
<1>6. ASSUME NEW a \in S, NEW p \in Slots, Needs(a) = {p}
      PROVE  a = Worker /\ \A l \in Locks : owner[l] # a
  <2>1. p \in Locks /\ p # "PJSUA" /\ p # "CALLS" /\ p # "ACCOUNTS"
    BY SlotInstructions
  <2>2. code[a][1][1] \in {"lock", "touch", "push"} /\ code[a][1][2] = p
    BY <1>1, <1>6, <2>1 DEF Needs
  <2>3. LocksCall(code[a][1])
    BY <2>1, <2>2, <1>1 DEF Instruction, LocksCall
  <2>4. Shape(code[a], job[a], a)
    BY <1>1 DEF LocksInv
  <2>5. 1 \in DOMAIN code[a]
    BY <1>1, <2>4, EmptySeq, LenProperties DEF Shape
  <2>6. a = Worker
    BY <2>3, <2>4, <2>5 DEF Shape
  <2>7. QED
    BY <2>3, <2>6, <1>1 DEF LocksInv, LocksFirst
<1>7. PICK a \in S : Needs(a) \in {{"PJSUA"}, {"CALLS"}}
  <2>1. PICK b \in S : TRUE
    BY DEF CircularWait
  <2>2. PICK l \in Locks : Needs(b) = {l} /\ owner[l] \in S
    BY <1>1, <2>1
  <2>3. CASE l \notin Slots
    BY <1>2, <2>1, <2>2, <2>3 DEF Locks, Mutexes
  <2>4. CASE l \in Slots
    <3>1. b = Worker /\ owner[l] # b
      BY <1>6, <2>2, <2>4
    <3>2. PICK c \in S : c = owner[l] /\ c # Worker
      BY <3>1, <2>2
    <3>3. PICK m \in Locks : Needs(c) = {m}
      BY <1>1
    <3>4. m \notin Slots
      BY <1>6, <3>2, <3>3
    <3>5. QED
      BY <1>2, <3>3, <3>4 DEF Locks, Mutexes
  <2>5. QED
    BY <2>3, <2>4
<1>8. Worker \in S /\ job[Worker] = "invite" /\ owner["PJSUA"] = Worker
  BY <1>5, <1>7
\* The worker can take PJSUA_LOCK again: it waits for CALLS.
<1>9. Needs(Worker) = {"CALLS"}
  <2>1. PICK l \in Locks : Needs(Worker) = {l} /\ ~Available(Worker, l)
    BY <1>1, <1>8
  <2>2. l # "PJSUA"
    BY <1>8, <2>1 DEF Available, Mutexes
  <2>3. l # "ACCOUNTS"
    BY <1>2, <1>8, <2>1
  <2>4. l \notin Slots
    BY <1>0, <1>6, <1>8, <2>1
  <2>5. QED
    BY <2>1, <2>2, <2>3, <2>4 DEF Locks, Mutexes
<1>10. owner["CALLS"] \in S
  BY <1>1, <1>8, <1>9
<1>11. owner["CALLS"] # Worker /\ job[owner["CALLS"]] \in {"dtmf", "answer"}
  BY <1>4, <1>9, <1>10
<1>12. Nobody \notin S
  BY DEF LocksAssumption, Agents
<1>13. QED
  BY <1>8, <1>9, <1>10, <1>11, <1>12

\* Every circular wait of the engine's and pjsua's locks is one of the two that
\* are known: the failure branch of cmd_account_register, or an INVITE that
\* meets cmd_call_send_dtmf or the muting in pjsip_on_call_media.
THEOREM DeadlocksAreKnown == Spec => []OnlyKnownDeadlocks
<1>1. LocksInv => OnlyKnownDeadlocks
  BY LocksAssumption, CircularWaits
<1>2. QED
  BY <1>1, LocksAreHeldInShape, PTL
=============================================================================
