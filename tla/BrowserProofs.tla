---------------------------- MODULE BrowserProofs ----------------------------
(***************************************************************************)
(* The promises of what a tab keeps beside its session slots, for any      *)
(* sessions, tabs, messages, files, models, widgets and heights, whoever   *)
(* takes part and however their steps interleave.                          *)
(***************************************************************************)
EXTENDS Browser, FiniteSetTheorems, SequenceTheorems, WellFoundedInduction, TLAPS

------------------------------------------------------------------------------
(***************************************************************************)
(* Queues of calls: what they hold when one is taken and others are put    *)
(***************************************************************************)
In(q) == {q[i] : i \in DOMAIN q}

LEMMA InAppend ==
  ASSUME NEW C, NEW q \in Seq(C), NEW c \in C
  PROVE  Append(q, c) \in Seq(C) /\ In(Append(q, c)) = In(q) \cup {c}
<1>1. /\ Append(q, c) \in Seq(C) /\ Len(Append(q, c)) = Len(q) + 1
      /\ \A i \in 1 .. Len(q) : Append(q, c)[i] = q[i]
      /\ Append(q, c)[Len(q) + 1] = c
  OBVIOUS
<1>2. DOMAIN q = 1 .. Len(q) /\ DOMAIN Append(q, c) = 1 .. Len(q) + 1
      /\ Len(q) \in Nat
  BY <1>1
<1>3. 1 .. Len(q) + 1 = (1 .. Len(q)) \cup {Len(q) + 1}
  BY <1>2
<1> QED BY <1>1, <1>2, <1>3 DEF In

LEMMA InTail ==
  ASSUME NEW C, NEW q \in Seq(C), q # <<>>
  PROVE  /\ Head(q) \in In(q) /\ Head(q) \in C /\ Tail(q) \in Seq(C)
         /\ Tail(q) \o <<>> = Tail(q)
         /\ In(q) = In(Tail(q)) \cup {Head(q)}
<1>1. /\ Tail(q) \in Seq(C) /\ Len(Tail(q)) = Len(q) - 1 /\ Len(q) \in Nat \ {0}
      /\ \A i \in 1 .. Len(q) - 1 : Tail(q)[i] = q[i + 1]
      /\ Head(q) = q[1] /\ Head(q) \in C
  OBVIOUS
<1>2. DOMAIN q = 1 .. Len(q) /\ DOMAIN Tail(q) = 1 .. Len(q) - 1
  BY <1>1
<1>3. \A i \in 1 .. Len(q) :
        i = 1 \/ (i - 1 \in 1 .. Len(q) - 1 /\ (i - 1) + 1 = i)
  BY <1>1
<1>4. \A i \in 1 .. Len(q) - 1 : i + 1 \in 1 .. Len(q)
  BY <1>1
<1>5. 1 \in 1 .. Len(q)
  BY <1>1
<1>6. In(q) \subseteq In(Tail(q)) \cup {Head(q)}
  <2> SUFFICES ASSUME NEW i \in 1 .. Len(q), i # 1 PROVE q[i] \in In(Tail(q))
    BY <1>1, <1>2 DEF In
  <2>1. i - 1 \in DOMAIN Tail(q) /\ Tail(q)[i - 1] = q[i]
    BY <1>1, <1>2, <1>3
  <2> QED BY <2>1 DEF In
<1>7. In(Tail(q)) \subseteq In(q) /\ Head(q) \in In(q)
  BY <1>1, <1>2, <1>4, <1>5 DEF In
<1>8. Tail(q) \o <<>> = Tail(q)
  BY <1>1
<1> QED BY <1>1, <1>6, <1>7, <1>8

LEMMA InThen ==
  ASSUME NEW C, NEW q \in Seq(C), q # <<>>, NEW c \in C
  PROVE  /\ Tail(q) \o <<c>> \in Seq(C)
         /\ In(Tail(q) \o <<c>>) = In(Tail(q)) \cup {c}
<1> DEFINE t == Tail(q)
<1>1. t \in Seq(C) /\ t \o <<c>> = Append(t, c)
  OBVIOUS
<1> HIDE DEF t
<1>2. Append(t, c) \in Seq(C) /\ In(Append(t, c)) = In(t) \cup {c}
  BY <1>1, InAppend
<1> QED BY <1>1, <1>2 DEF t

LEMMA InEmpty == In(<<>>) = {} /\ \A c : In(<<c>>) = {c}
  BY DEF In
------------------------------------------------------------------------------
(***************************************************************************)
(* SteerQueue.  What was sent to a tab last is what pi displays; a tab     *)
(* that is sent nothing shows it, unless it was loaded since or a message  *)
(* that waits is to be cancelled.                                          *)
(***************************************************************************)
LEMMA Least ==
  ASSUME NEW T, T \subseteq Nat, T # {}
  PROVE  \E m \in T : \A k \in T : m <= k
<1>1. \E m \in T : \A k \in T : ~(<<k, m>> \in OpToRel(<, Nat))
  BY NatLessThanWellFounded, WFMin
<1>2. PICK m \in T : \A k \in T : ~(<<k, m>> \in OpToRel(<, Nat))
  BY <1>1
<1>3. ASSUME NEW k \in T PROVE m <= k
  <2>1. ~(<<k, m>> \in OpToRel(<, Nat)) /\ k \in Nat /\ m \in Nat
    BY <1>2
  <2>2. k < m => <<k, m>> \in OpToRel(<, Nat)
    BY <2>1, SMT DEF OpToRel
  <2>3. ~(k < m)
    BY <2>1, <2>2, Zenon
  <2>4. k \in Nat /\ m \in Nat
    OBVIOUS
  <2> QED BY ONLY <2>3, <2>4
<1> QED BY <1>3

\* What removing a message leaves.
LEMMA Removed ==
  ASSUME NEW q \in Seq(Messages), NEW x
  PROVE  /\ x \notin In(q) => Queue!RemoveFirst(q, x) = q
         /\ x \in In(q) => /\ Queue!RemoveFirst(q, x) \in Seq(Messages)
                           /\ Queue!RemoveFirst(q, x) # q
         /\ q # <<>> /\ x = Head(q) => Queue!RemoveFirst(q, x) = Tail(q)
<1> DEFINE I == {i \in 1 .. Len(q) : q[i] = x}
           k == Queue!Min(I)
<1>1. DOMAIN q = 1 .. Len(q) /\ Len(q) \in Nat
  OBVIOUS
<1>2. x \notin In(q) => Queue!RemoveFirst(q, x) = q
  BY <1>1 DEF In, Queue!RemoveFirst
<1>3. ASSUME x \in In(q)
      PROVE  /\ Queue!RemoveFirst(q, x) = SubSeq(q, 1, k - 1) \o SubSeq(q, k + 1, Len(q))
             /\ k \in I /\ \A i \in I : k <= i
  <2>1. I # {} /\ I \subseteq Nat
    BY <1>1, <1>3 DEF In
  <2>2. Queue!SelectInSeq(q, LAMBDA v : v = x) = k
    BY <2>1 DEF Queue!SelectInSeq
  <2>3. k \in I /\ \A i \in I : k <= i
    BY <2>1, Least DEF Queue!Min
  <2>4. \E i \in 1 .. Len(q) : q[i] = x
    BY <2>1
  <2> QED BY <2>2, <2>3, <2>4 DEF Queue!RemoveFirst, Queue!RemoveAt
<1>4. x \in In(q) => /\ Queue!RemoveFirst(q, x) \in Seq(Messages)
                     /\ Queue!RemoveFirst(q, x) # q
  <2> SUFFICES ASSUME x \in In(q)
               PROVE  /\ Queue!RemoveFirst(q, x) \in Seq(Messages)
                      /\ Queue!RemoveFirst(q, x) # q
    OBVIOUS
  <2> DEFINE u == SubSeq(q, 1, k - 1)
             v == SubSeq(q, k + 1, Len(q))
  <2>1. k \in 1 .. Len(q) /\ Queue!RemoveFirst(q, x) = u \o v
    BY <1>3
  <2> HIDE DEF k, I
  <2>2. u \in Seq(Messages) /\ Len(u) = k - 1
    BY <2>1
  <2>3. v \in Seq(Messages) /\ Len(v) = Len(q) - k
    BY <2>1
  <2> HIDE DEF u, v
  <2>4. u \o v \in Seq(Messages) /\ Len(u \o v) = Len(u) + Len(v)
    BY <2>2, <2>3, ConcatProperties
  <2>5. Len(u \o v) # Len(q)
    BY <1>1, <2>1, <2>2, <2>3, <2>4
  <2> QED BY <2>1, <2>4, <2>5
<1>5. q # <<>> /\ x = Head(q) => Queue!RemoveFirst(q, x) = Tail(q)
  <2> SUFFICES ASSUME q # <<>>, x = Head(q)
               PROVE  Queue!RemoveFirst(q, x) = Tail(q)
    OBVIOUS
  <2>1. 1 \in I /\ x \in In(q)
    BY <1>1 DEF In
  <2>2. k = 1
    <3>1. k \in I /\ \A i \in I : k <= i
      BY <1>3, <2>1
    <3>2. k <= 1 /\ k \in 1 .. Len(q)
      BY <2>1, <3>1
    <3> HIDE DEF k, I
    <3> QED BY <1>1, <3>2
  <2>3. Queue!RemoveFirst(q, x) = SubSeq(q, 1, 0) \o SubSeq(q, 2, Len(q))
    <3>1. Queue!RemoveFirst(q, x) = SubSeq(q, 1, k - 1) \o SubSeq(q, k + 1, Len(q))
      BY <1>3, <2>1
    <3>2. k - 1 = 0 /\ k + 1 = 2
      BY <2>2
    <3> HIDE DEF k, I
    <3> QED BY <3>1, <3>2
  <2>4. SubSeq(q, 1, 0) = <<>>
    OBVIOUS
  <2>5. SubSeq(q, 2, Len(q)) = Tail(q) /\ Tail(q) \in Seq(Messages)
    BY <1>1
  <2> QED BY <2>3, <2>4, <2>5
<1> QED BY <1>2, <1>4, <1>5

\* What waits behind another message is removed from behind it.
LEMMA RemovedBehind ==
  ASSUME NEW q \in Seq(Messages), NEW h \in Messages, NEW x, x # h
  PROVE  /\ <<h>> \o q \in Seq(Messages)
         /\ Queue!RemoveFirst(<<h>> \o q, x) = <<h>> \o Queue!RemoveFirst(q, x)
<1> DEFINE r == <<h>> \o q
           len == Len(q)
           I == {i \in 1 .. len : q[i] = x}
           J == {i \in 1 .. len + 1 : r[i] = x}
           k == Queue!Min(I)
           j == Queue!Min(J)
<1>1. /\ r \in Seq(Messages) /\ Len(r) = len + 1 /\ len \in Nat /\ r[1] = h
      /\ \A i \in 2 .. len + 1 : r[i] = q[i - 1]
  <2>1. <<h>> \in Seq(Messages) /\ Len(<<h>>) = 1 /\ <<h>>[1] = h
    OBVIOUS
  <2>2. r \in Seq(Messages) /\ Len(r) = 1 + len /\ len \in Nat
        /\ \A i \in 1 .. 1 + len : r[i] = IF i <= 1 THEN <<h>>[i] ELSE q[i - 1]
    BY <2>1, ConcatProperties
  <2> HIDE DEF r, len
  <2> QED BY <2>1, <2>2
<1> HIDE DEF r, len
<1>2. CASE I = {}
  <2>1. J = {}
    <3> SUFFICES ASSUME NEW i \in 1 .. len + 1, r[i] = x PROVE FALSE
      OBVIOUS
    <3>1. i # 1
      BY <1>1
    <3>2. i \in 2 .. len + 1 /\ i - 1 \in 1 .. len
      BY <1>1, <3>1
    <3> QED BY <1>1, <1>2, <3>2
  <2>2. ~(\E i \in 1 .. Len(r) : r[i] = x) /\ ~(\E i \in 1 .. Len(q) : q[i] = x)
    BY <1>1, <1>2, <2>1 DEF len
  <2>3. Queue!RemoveFirst(r, x) = r /\ Queue!RemoveFirst(q, x) = q
    BY <2>2 DEF Queue!RemoveFirst
  <2> QED BY <1>1, <2>3 DEF r
<1>3. CASE I # {}
  <2>1. I \subseteq Nat /\ J \subseteq Nat
    BY <1>1
  <2>2. k \in I /\ \A i \in I : k <= i
    BY <1>3, <2>1, Least DEF Queue!Min
  <2> HIDE DEF k
  <2>3. k + 1 \in J
    BY <1>1, <2>2
  <2>4. j \in J /\ \A i \in J : j <= i
    BY <2>1, <2>3, Least DEF Queue!Min
  <2> HIDE DEF j
  <2>5. j = k + 1
    <3>1. j # 1
      BY <1>1, <2>4
    <3>2. j \in 2 .. len + 1 /\ j - 1 \in 1 .. len
      BY <1>1, <2>4, <3>1
    <3>3. j - 1 \in I
      BY <1>1, <2>4, <3>2
    <3>4. k <= j - 1 /\ j <= k + 1
      BY <2>2, <2>3, <2>4, <3>3
    <3> QED BY <2>2, <3>2, <3>4
  <2>6. Queue!RemoveFirst(q, x) = SubSeq(q, 1, k - 1) \o SubSeq(q, k + 1, len)
    <3>1. Queue!SelectInSeq(q, LAMBDA v : v = x) = k
      BY <1>3 DEF Queue!SelectInSeq, k, len
    <3>2. \E i \in 1 .. Len(q) : q[i] = x
      BY <1>3 DEF len
    <3> QED BY <3>1, <3>2 DEF Queue!RemoveFirst, Queue!RemoveAt, len
  <2>7. Queue!RemoveFirst(r, x) = SubSeq(r, 1, j - 1) \o SubSeq(r, j + 1, len + 1)
    <3>1. Queue!SelectInSeq(r, LAMBDA v : v = x) = j
      BY <1>1, <2>3 DEF Queue!SelectInSeq, j
    <3>2. \E i \in 1 .. Len(r) : r[i] = x
      BY <1>1, <2>3
    <3> QED BY <1>1, <3>1, <3>2 DEF Queue!RemoveFirst, Queue!RemoveAt
  <2> DEFINE u == SubSeq(q, 1, k - 1)
             v == SubSeq(q, k + 1, len)
             w == SubSeq(r, 1, j - 1)
             y == SubSeq(r, j + 1, len + 1)
  <2>8. k \in 1 .. len /\ q \in Seq(Messages) /\ Len(q) = len
    BY <2>2 DEF len
  <2> HIDE DEF I, J
  <2>9. /\ u \in Seq(Messages) /\ Len(u) = k - 1
        /\ \A i \in 1 .. k - 1 : u[i] = q[i]
    BY <1>1, <2>8
  <2>10. /\ v \in Seq(Messages) /\ Len(v) = len - k
         /\ \A i \in 1 .. len - k : v[i] = q[k + i]
    BY <1>1, <2>8
  <2>11. /\ w \in Seq(Messages) /\ Len(w) = k
         /\ \A i \in 1 .. k : w[i] = r[i]
    BY <1>1, <2>5, <2>8
  <2>12. /\ y \in Seq(Messages) /\ Len(y) = len - k
         /\ \A i \in 1 .. len - k : y[i] = r[k + 1 + i]
    BY <1>1, <2>5, <2>8
  <2> HIDE DEF u, v, w, y
  <2>13. y = v
    <3>1. ASSUME NEW i \in 1 .. len - k PROVE y[i] = v[i]
      <4>1. k + 1 + i \in 2 .. len + 1 /\ (k + 1 + i) - 1 = k + i
        BY <1>1, <2>8
      <4>2. r[k + 1 + i] = q[k + i]
        BY <1>1, <4>1
      <4> QED BY <2>10, <2>12, <4>2
    <3> QED BY <2>10, <2>12, <3>1, SeqEqual
  <2>14. /\ <<h>> \in Seq(Messages) /\ Len(<<h>>) = 1 /\ <<h>>[1] = h
    OBVIOUS
  <2>15. /\ <<h>> \o u \in Seq(Messages) /\ Len(<<h>> \o u) = 1 + Len(u)
         /\ \A i \in 1 .. 1 + Len(u) :
              (<<h>> \o u)[i] = IF i <= 1 THEN <<h>>[i] ELSE u[i - 1]
    BY <2>9, <2>14, ConcatProperties
  <2>16. w = <<h>> \o u
    <3> DEFINE z == <<h>> \o u
    <3>1. /\ z \in Seq(Messages) /\ Len(z) = k
          /\ \A i \in 1 .. k : z[i] = IF i <= 1 THEN h ELSE u[i - 1]
      BY <1>1, <2>8, <2>9, <2>14, <2>15
    <3> HIDE DEF z
    <3>2. ASSUME NEW i \in 1 .. k PROVE w[i] = z[i]
      <4>1. CASE i = 1
        BY <1>1, <2>8, <2>11, <3>1, <4>1
      <4>2. CASE i # 1
        <5>1. i \in 2 .. len + 1 /\ i - 1 \in 1 .. k - 1
          BY <1>1, <2>8, <4>2
        <5>2. w[i] = r[i] /\ r[i] = q[i - 1]
          BY <1>1, <2>11, <5>1
        <5>3. ~(i <= 1)
          BY <4>2
        <5>4. z[i] = u[i - 1]
          BY <3>1, <5>3
        <5>5. u[i - 1] = q[i - 1]
          BY <2>9, <5>1
        <5> QED BY <5>2, <5>4, <5>5
      <4> QED BY <4>1, <4>2
    <3>3. w = z
      BY <2>11, <3>1, <3>2, SeqEqual
    <3> QED BY <3>3 DEF z
  <2>17. w \o y = <<h>> \o (u \o v)
    BY <2>9, <2>10, <2>13, <2>14, <2>16, ConcatAssociative
  <2> QED BY <1>1, <2>6, <2>7, <2>17 DEF u, v, w, y, r
<1> QED BY <1>2, <1>3

QueueTyped ==
  /\ display \in Seq(Messages) /\ cancels \in Seq(Messages)
  /\ busy \in BOOLEAN /\ sent \in 0 .. MaxSent
  /\ wire \in [Tabs -> Seq(Seq(Messages))] /\ rail = [t \in Tabs |-> rail[t]]
  /\ agent \in Seq(Messages) /\ crossed \in BOOLEAN /\ reset \subseteq Tabs
  /\ taken = <<>> \/ \E x \in Messages : taken = <<x>>
\* What the events on the way to a tab come to.
ToldLast(w) == w[Len(w)]
Follows(t) ==
  IF wire[t] = <<>>
  THEN \/ rail[t] = display \/ (t \in reset /\ rail[t] = <<>>)
       \/ \E x \in In(cancels) : x \in In(display)
  ELSE ToldLast(wire[t]) = display
Waits == ~crossed => display = taken \o agent
QueueInv == QueueTyped /\ Waits /\ \A t \in Tabs : Follows(t)

LEMMA QueueInit == ASSUME Queue!SteerAssumption, Queue!Init PROVE QueueInv
<1>1. wire \in [Tabs -> Seq(Seq(Messages))] /\ rail = [t \in Tabs |-> rail[t]]
  BY DEF Queue!Init
<1>2. /\ display \in Seq(Messages) /\ cancels \in Seq(Messages)
      /\ agent \in Seq(Messages)
  BY DEF Queue!Init
<1>3. sent \in 0 .. MaxSent
  BY DEF Queue!Init, Queue!SteerAssumption
<1>4. busy \in BOOLEAN /\ crossed \in BOOLEAN /\ reset \subseteq Tabs /\ taken = <<>>
  BY DEF Queue!Init
<1>5. \A t \in Tabs : Follows(t)
  BY DEF Queue!Init, Follows
<1>6. Waits
  <2>1. display = <<>> /\ taken = <<>> /\ agent = <<>>
    BY DEF Queue!Init
  <2> QED BY <2>1 DEF Waits
<1> QED BY <1>1, <1>2, <1>3, <1>4, <1>5, <1>6 DEF QueueInv, QueueTyped

\* An event to every tab tells them all.
LEMMA EmitFollows ==
  ASSUME QueueInv, Queue!Emit, display' \in Seq(Messages)
  PROVE  wire' \in [Tabs -> Seq(Seq(Messages))] /\ \A t \in Tabs : Follows(t)'
<1>1. ASSUME NEW t \in Tabs
      PROVE  /\ wire'[t] \in Seq(Seq(Messages)) /\ wire'[t] # <<>>
             /\ ToldLast(wire'[t]) = display'
  <2> DEFINE w == wire[t]
  <2>1. w \in Seq(Seq(Messages))
    BY DEF QueueInv, QueueTyped
  <2>2. wire'[t] = Append(w, display')
    BY DEF Queue!Emit
  <2> HIDE DEF w
  <2>3. /\ Append(w, display') \in Seq(Seq(Messages)) /\ Append(w, display') # <<>>
        /\ Append(w, display')[Len(Append(w, display'))] = display'
    BY <2>1
  <2> QED BY <2>2, <2>3 DEF ToldLast
<1>2. wire' = [t \in Tabs |-> wire'[t]]
  BY DEF Queue!Emit
<1> QED BY <1>1, <1>2 DEF Follows

\* Nothing was taken, or one message.
LEMMA TakenSeq ==
  ASSUME QueueTyped
  PROVE  /\ taken \in Seq(Messages) /\ taken \o agent \in Seq(Messages)
         /\ \A x \in Messages :
              Append(taken \o agent, x) = taken \o Append(agent, x)
<1>1. taken \in Seq(Messages) /\ agent \in Seq(Messages)
  <2>1. \A x \in Messages : <<x>> \in Seq(Messages)
    OBVIOUS
  <2>2. <<>> \in Seq(Messages)
    OBVIOUS
  <2> QED BY <2>1, <2>2, Zenon DEF QueueTyped
<1>2. taken \o agent \in Seq(Messages)
  BY <1>1, ConcatProperties
<1>3. ASSUME NEW x \in Messages
      PROVE  Append(taken \o agent, x) = taken \o Append(agent, x)
  <2>1. <<x>> \in Seq(Messages)
    BY <1>3
  <2>2. (taken \o agent) \o <<x>> = taken \o (agent \o <<x>>)
    BY <1>1, <2>1, ConcatAssociative
  <2>3. \A q \in Seq(Messages) : q \o <<x>> = Append(q, x)
    BY <1>3
  <2> QED BY <1>1, <1>2, <2>2, <2>3
<1> QED BY <1>1, <1>2, <1>3

LEMMA QueueSend ==
  ASSUME Queue!SteerAssumption, QueueInv, NEW x \in Messages, Queue!Send(x)
  PROVE  QueueInv'
<1>1. QueueTyped /\ MaxSent \in Nat /\ Waits
  BY DEF QueueInv, Queue!SteerAssumption
<1>2. /\ sent' \in 0 .. MaxSent
      /\ UNCHANGED <<taken, rail, cancels, reset, crossed>>
  BY <1>1 DEF Queue!Send, QueueTyped
<1>3. CASE busy
  <2>1. /\ display' = Append(display, x) /\ agent' = Append(agent, x)
        /\ Queue!Emit /\ busy' = busy
    BY <1>3 DEF Queue!Send
  <2>2. display' \in Seq(Messages) /\ agent' \in Seq(Messages)
    BY <1>1, <2>1, InAppend DEF QueueTyped
  <2>3. Waits'
    <3>1. Append(taken \o agent, x) = taken \o Append(agent, x)
      BY <1>1, TakenSeq
    <3> QED BY <1>1, <1>2, <2>1, <3>1, Zenon DEF Waits
  <2> QED BY <1>1, <1>2, <2>1, <2>2, <2>3, EmitFollows DEF QueueInv, QueueTyped
<1>4. CASE ~busy
  <2>1. /\ busy' = TRUE /\ display' = display /\ agent' = agent /\ wire' = wire
    BY <1>4 DEF Queue!Send
  <2>2. Waits'
    BY <1>1, <1>2, <2>1 DEF Waits
  <2>3. \A t \in Tabs : Follows(t)'
    BY <1>2, <2>1 DEF QueueInv, Follows
  <2> QED BY <1>1, <1>2, <2>1, <2>2, <2>3 DEF QueueInv, QueueTyped
<1> QED BY <1>3, <1>4

LEMMA QueueTake ==
  ASSUME QueueInv, Queue!Take
  PROVE  QueueInv'
<1>1. QueueTyped /\ Waits /\ taken = <<>> /\ agent # <<>> /\ agent \in Seq(Messages)
  BY DEF QueueInv, QueueTyped, Queue!Take
<1>2. /\ taken' = <<Head(agent)>> /\ agent' = Tail(agent)
      /\ UNCHANGED <<display, busy, wire, rail, cancels, sent, reset, crossed>>
  BY DEF Queue!Take
<1>3. Head(agent) \in Messages /\ Tail(agent) \in Seq(Messages)
  BY <1>1, InTail
<1>4. taken \o agent = taken' \o agent'
  <2>1. taken \o agent = agent
    BY <1>1, ConcatEmptySeq
  <2>2. <<Head(agent)>> \o Tail(agent) = agent
    BY <1>1
  <2> QED BY <1>2, <2>1, <2>2
<1>5. Waits'
  BY <1>1, <1>2, <1>4, Zenon DEF Waits
<1>6. \A t \in Tabs : Follows(t)'
  BY <1>2 DEF QueueInv, Follows
<1>7. taken' = <<>> \/ \E x \in Messages : taken' = <<x>>
  BY <1>2, <1>3
<1>8. agent' \in Seq(Messages)
  BY <1>2, <1>3
<1> QED BY <1>1, <1>2, <1>5, <1>6, <1>7, <1>8 DEF QueueInv, QueueTyped

LEMMA QueueAnnounce ==
  ASSUME QueueInv, Queue!Announce
  PROVE  QueueInv'
<1>1. QueueTyped /\ Waits
  BY DEF QueueInv
<1>2. PICK x \in Messages : taken = <<x>>
  BY <1>1 DEF QueueTyped, Queue!Announce
<1>3. /\ taken' = <<>> /\ display' = Queue!RemoveFirst(display, x)
      /\ IF display' = display THEN wire' = wire ELSE Queue!Emit
      /\ UNCHANGED <<agent, busy, rail, cancels, sent, reset, crossed>>
  <2>1. Head(taken) = x
    BY <1>2
  <2> QED BY <2>1 DEF Queue!Announce
<1>4. display \in Seq(Messages) /\ agent \in Seq(Messages)
  BY <1>1 DEF QueueTyped
<1>5. display' \in Seq(Messages)
  BY <1>3, <1>4, Removed
<1>6. Waits'
  <2> SUFFICES ASSUME ~crossed PROVE display' = taken' \o agent'
    BY <1>3 DEF Waits
  <2> DEFINE r == <<x>> \o agent
  <2>1. /\ display = r /\ r \in Seq(Messages) /\ r # <<>> /\ Head(r) = x
        /\ Tail(r) = agent
    BY <1>1, <1>2, <1>4 DEF Waits
  <2> HIDE DEF r
  <2>2. Queue!RemoveFirst(r, x) = Tail(r)
    BY <2>1, Removed
  <2>3. <<>> \o agent = agent
    BY <1>4, ConcatEmptySeq
  <2> QED BY <1>3, <2>1, <2>2, <2>3
<1>7. wire' \in [Tabs -> Seq(Seq(Messages))] /\ \A t \in Tabs : Follows(t)'
  <2>1. CASE display' = display
    BY <1>1, <1>3, <2>1 DEF QueueInv, QueueTyped, Follows
  <2>2. CASE display' # display
    BY <1>3, <1>5, <2>2, EmitFollows
  <2> QED BY <2>1, <2>2
<1> QED BY <1>1, <1>3, <1>5, <1>6, <1>7 DEF QueueInv, QueueTyped

LEMMA QueueAskCancel ==
  ASSUME QueueInv, NEW t \in Tabs, NEW x \in Messages, Queue!AskCancel(t, x)
  PROVE  QueueInv'
<1>1. QueueTyped /\ Waits
  BY DEF QueueInv
<1>2. /\ Queue!OnRail(t, x) /\ cancels' = Append(cancels, x)
      /\ \A u \in Tabs : u # t => rail'[u] = rail[u]
      /\ rail' = [u \in Tabs |-> rail'[u]]
      /\ UNCHANGED <<display, agent, taken, busy, wire, sent, reset, crossed>>
  BY <1>1 DEF Queue!AskCancel, QueueTyped, Queue!engineVars
<1>3. cancels' \in Seq(Messages) /\ In(cancels') = In(cancels) \cup {x}
  BY <1>1, <1>2, InAppend DEF QueueTyped
<1>4. x \in In(rail[t])
  BY <1>2 DEF Queue!OnRail, Queue!Contains, In
<1>5. ASSUME NEW u \in Tabs PROVE Follows(u)'
  <2>1. Follows(u)
    BY DEF QueueInv
  <2>2. CASE wire[u] # <<>>
    BY <1>2, <2>1, <2>2 DEF Follows
  <2>3. CASE wire[u] = <<>> /\ \E y \in In(cancels) : y \in In(display)
    BY <1>2, <1>3, <2>3 DEF Follows
  <2>4. CASE wire[u] = <<>> /\ u # t
    BY <1>2, <1>3, <2>1, <2>4 DEF Follows
  <2>5. CASE wire[u] = <<>> /\ u = t /\ rail[u] = display
    BY <1>2, <1>3, <1>4, <2>5 DEF Follows
  <2>6. ~(u = t /\ rail[u] = <<>>)
    BY <1>4, InEmpty
  <2> QED BY <2>1, <2>2, <2>3, <2>4, <2>5, <2>6 DEF Follows
<1>6. Waits'
  BY <1>1, <1>2 DEF Waits
<1> QED BY <1>1, <1>2, <1>3, <1>5, <1>6 DEF QueueInv, QueueTyped

LEMMA QueueCancel ==
  ASSUME QueueInv, Queue!Cancel
  PROVE  QueueInv'
<1> DEFINE h == Head(cancels)
<1>1. QueueTyped /\ Waits /\ cancels # <<>>
  BY DEF QueueInv, Queue!Cancel
<1>2. /\ cancels' = Tail(cancels) /\ display' = Queue!RemoveFirst(display, h)
      /\ agent' = Queue!RemoveFirst(agent, h)
      /\ IF <<display', agent'>> = <<display, agent>> THEN wire' = wire
         ELSE Queue!Emit
      /\ crossed' = (crossed \/ taken = <<h>>)
      /\ UNCHANGED <<taken, busy, rail, sent, reset>>
  BY DEF Queue!Cancel, Queue!CancelledEmits
<1>3. /\ cancels' \in Seq(Messages) /\ In(cancels) = In(cancels') \cup {h}
      /\ display \in Seq(Messages) /\ agent \in Seq(Messages)
  BY <1>1, <1>2, InTail DEF QueueTyped
<1> HIDE DEF h
<1>4. display' \in Seq(Messages) /\ agent' \in Seq(Messages)
  BY <1>2, <1>3, Removed
<1>5. Waits'
  <2> SUFFICES ASSUME ~crossed, taken # <<h>> PROVE display' = taken' \o agent'
    BY <1>2 DEF Waits
  <2>1. display = taken \o agent
    BY <1>1 DEF Waits
  <2>2. CASE taken = <<>>
    <3>1. <<>> \o agent = agent /\ <<>> \o agent' = agent'
      BY <1>3, <1>4, ConcatEmptySeq
    <3> QED BY <1>2, <2>1, <2>2, <3>1
  <2>3. CASE taken # <<>>
    <3>1. PICK x \in Messages : taken = <<x>>
      BY <1>1, <2>3 DEF QueueTyped
    <3>2. x # h
      BY <3>1
    <3>3. Queue!RemoveFirst(<<x>> \o agent, h) = <<x>> \o Queue!RemoveFirst(agent, h)
      BY <1>3, <3>2, RemovedBehind
    <3> QED BY <1>2, <2>1, <3>1, <3>3, Zenon
  <2> QED BY <2>2, <2>3
<1>6. wire' \in [Tabs -> Seq(Seq(Messages))] /\ \A t \in Tabs : Follows(t)'
  <2>1. CASE <<display', agent'>> # <<display, agent>>
    BY <1>2, <1>4, <2>1, EmitFollows
  <2>2. CASE <<display', agent'>> = <<display, agent>>
    <3>1. h \notin In(display) /\ display' = display /\ wire' = wire
      BY <1>2, <1>3, <2>2, Removed
    <3>2. wire' \in [Tabs -> Seq(Seq(Messages))]
      BY <1>1, <3>1 DEF QueueTyped
    <3> QED BY <1>2, <1>3, <3>1, <3>2 DEF QueueInv, Follows
  <2> QED BY <2>1, <2>2
<1>7. crossed' \in BOOLEAN
  BY <1>1, <1>2 DEF QueueTyped
<1> QED BY <1>1, <1>2, <1>3, <1>4, <1>5, <1>6, <1>7 DEF QueueInv, QueueTyped

\* A slot that starts anew shows nothing.
LEMMA QueueLoad ==
  ASSUME QueueInv, NEW t \in Tabs, Queue!Load(t)
  PROVE  QueueInv'
<1>1. QueueTyped /\ Waits
  BY DEF QueueInv
<1>2. /\ rail'[t] = <<>> /\ \A u \in Tabs : u # t => rail'[u] = rail[u]
      /\ rail' = [u \in Tabs |-> rail'[u]] /\ reset' = reset \cup {t}
      /\ UNCHANGED <<display, agent, taken, busy, wire, cancels, sent, crossed>>
  BY <1>1 DEF Queue!Load, Queue!engineVars, QueueTyped
<1>3. ASSUME NEW u \in Tabs PROVE Follows(u)'
  <2>1. Follows(u)
    BY DEF QueueInv
  <2>2. CASE u = t
    BY <1>2, <2>1, <2>2 DEF Follows
  <2>3. CASE u # t
    BY <1>2, <2>1, <2>3 DEF Follows
  <2> QED BY <2>2, <2>3
<1>4. Waits'
  BY <1>1, <1>2 DEF Waits
<1> QED BY <1>1, <1>2, <1>3, <1>4 DEF QueueInv, QueueTyped

LEMMA QueueUpdate ==
  ASSUME QueueInv, NEW t \in Tabs, Queue!Update(t)
  PROVE  QueueInv'
<1> DEFINE w == wire[t]
<1>1. QueueTyped /\ w \in Seq(Seq(Messages)) /\ w # <<>> /\ ToldLast(w) = display
  BY DEF QueueInv, QueueTyped, Queue!Update, Follows
<1>2. /\ rail' = [rail EXCEPT ![t] = Head(w)] /\ wire' = [wire EXCEPT ![t] = Tail(w)]
      /\ reset' = reset \ {t}
      /\ UNCHANGED <<display, agent, taken, busy, cancels, sent, crossed>>
  BY DEF Queue!Update, Queue!engineVars
<1>3. /\ rail'[t] = Head(w) /\ wire'[t] = Tail(w)
      /\ \A u \in Tabs : u # t => rail'[u] = rail[u] /\ wire'[u] = wire[u]
      /\ rail' = [u \in Tabs |-> rail'[u]]
  BY <1>1, <1>2 DEF QueueTyped
<1> HIDE DEF w
<1>4. /\ Tail(w) \in Seq(Seq(Messages))
      /\ IF Tail(w) = <<>> THEN Head(w) = ToldLast(w) ELSE ToldLast(Tail(w)) = ToldLast(w)
  <2> DEFINE v == Tail(w)
  <2>1. /\ v \in Seq(Seq(Messages)) /\ Len(w) \in Nat \ {0}
        /\ Len(v) = Len(w) - 1 /\ Head(w) = w[1]
        /\ \A i \in 1 .. Len(w) - 1 : v[i] = w[i + 1]
    BY <1>1
  <2> HIDE DEF v
  <2>2. CASE v = <<>>
    <3>1. Len(v) = 0
      BY <2>2
    <3>2. Len(w) = 1
      BY <2>1, <3>1
    <3>3. Head(w) = ToldLast(w)
      BY <2>1, <3>2 DEF ToldLast
    <3> QED BY <2>1, <2>2, <3>3 DEF v
  <2>3. CASE v # <<>>
    <3>1. Len(v) \in Nat \ {0}
      BY <2>1, <2>3, EmptySeq
    <3>2. Len(v) \in 1 .. Len(w) - 1 /\ Len(v) + 1 = Len(w)
      BY <2>1, <3>1
    <3>3. v[Len(v)] = w[Len(v) + 1]
      BY <2>1, <3>2
    <3>4. ToldLast(v) = ToldLast(w)
      BY <3>2, <3>3 DEF ToldLast
    <3> QED BY <2>1, <2>3, <3>4 DEF v
  <2> QED BY <2>2, <2>3
<1>5. wire' \in [Tabs -> Seq(Seq(Messages))]
  BY <1>1, <1>2, <1>4 DEF QueueTyped
<1>6. ASSUME NEW u \in Tabs PROVE Follows(u)'
  <2>1. CASE u = t
    BY <1>1, <1>2, <1>3, <1>4, <2>1 DEF Follows
  <2>2. CASE u # t
    BY <1>2, <1>3, <2>2 DEF QueueInv, Follows
  <2> QED BY <2>1, <2>2
<1>7. Waits'
  BY <1>2 DEF QueueInv, Waits
<1> QED BY <1>1, <1>2, <1>3, <1>5, <1>6, <1>7 DEF QueueInv, QueueTyped

LEMMA QueueStep ==
  ASSUME Queue!SteerAssumption, QueueInv, [Queue!Next]_queueVars
  PROVE  QueueInv'
<1>1. CASE UNCHANGED queueVars
  BY <1>1 DEF queueVars, QueueInv, QueueTyped, Waits, Follows
<1>2. CASE Queue!EndTurn
  BY <1>2 DEF Queue!EndTurn, QueueInv, QueueTyped, Waits, Follows
<1> QED BY <1>1, <1>2, QueueSend, QueueTake, QueueAnnounce, QueueAskCancel,
           QueueCancel, QueueUpdate, QueueLoad DEF Queue!Next

LEMMA QueueInvKept == ASSUME QueueInv PROVE Queue!QueueShown
  BY InEmpty DEF QueueInv, Waits, Follows, Queue!QueueShown
------------------------------------------------------------------------------
(***************************************************************************)
(* InputBar.  A file that was picked is at one place: in a batch that is   *)
(* read, once in the draft, in a message, or removed.                      *)
(***************************************************************************)
Once(q) == \A a, b \in DOMAIN q : q[a] = q[b] => a = b

LEMMA BarNames ==
  /\ \A q : Bar!ToSet(q) = In(q) /\ (Bar!IsInjective(q) <=> Once(q))
  BY DEF Bar!ToSet, Bar!IsInjective, In, Once

LEMMA SetToSeqOnce ==
  ASSUME NEW S, IsFiniteSet(S)
  PROVE  /\ Bar!SetToSeq(S) \in Seq(S) /\ Once(Bar!SetToSeq(S))
         /\ In(Bar!SetToSeq(S)) = S
<1> DEFINE len == Cardinality(S)
           q == Bar!SetToSeq(S)
<1>1. len \in Nat /\ ExistsBijection(1 .. len, S)
  BY FS_CardinalityType
<1>2. \E f \in [1 .. len -> S] : Bar!IsInjective(f)
  BY <1>1 DEF ExistsBijection, Bijection, Injection, IsInjective, Bar!IsInjective
<1>3. Bar!Cardinality(S) = len
  BY DEF Bar!Cardinality, Cardinality
<1>4. q \in [1 .. len -> S] /\ Bar!IsInjective(q)
  <2> HIDE DEF len
  <2> QED BY <1>2, <1>3 DEF Bar!SetToSeq
<1> HIDE DEF len, q
<1>5. q \in Seq(S) /\ DOMAIN q = 1 .. len
  BY <1>1, <1>4
<1>6. In(q) = S /\ Once(q)
  <2>1. q \in Injection(1 .. len, S)
    BY <1>4 DEF Injection, IsInjective, Bar!IsInjective
  <2>2. Cardinality(1 .. len) = len /\ Cardinality(S) = len
    BY <1>1, FS_Interval DEF len
  <2>3. q \in Surjection(1 .. len, S)
    BY <2>1, <2>2, FS_Injection
  <2> QED BY <1>4, <1>5, <2>3 DEF In, Once, Bar!IsInjective, Surjection
<1> QED BY <1>5, <1>6 DEF q

\* Files appended to others that differ from them.
LEMMA OnceConcat ==
  ASSUME NEW S, NEW p \in Seq(S), NEW q \in Seq(S), Once(p), Once(q),
         In(p) \cap In(q) = {}
  PROVE  p \o q \in Seq(S) /\ Once(p \o q) /\ In(p \o q) = In(p) \cup In(q)
<1> DEFINE r == p \o q
           m == Len(p)
           len == Len(q)
<1>1. m \in Nat /\ len \in Nat /\ DOMAIN p = 1 .. m /\ DOMAIN q = 1 .. len
  OBVIOUS
<1>2. r \in Seq(S) /\ Len(r) = m + len
  BY ConcatProperties
<1>3. \A i \in 1 .. m + len : r[i] = IF i <= m THEN p[i] ELSE q[i - m]
  BY ConcatProperties
<1> HIDE DEF r, m, len
<1>4. DOMAIN r = 1 .. m + len
  BY <1>1, <1>2
<1>5. \A i \in 1 .. m + len : ~(i <= m) => i - m \in 1 .. len
  BY <1>1
<1>6. In(r) \subseteq In(p) \cup In(q)
  <2> SUFFICES ASSUME NEW i \in 1 .. m + len PROVE r[i] \in In(p) \cup In(q)
    BY <1>4 DEF In
  <2>1. CASE i <= m
    <3>1. i \in 1 .. m /\ r[i] = p[i]
      BY <1>1, <1>3, <2>1
    <3> QED BY <1>1, <3>1 DEF In
  <2>2. CASE ~(i <= m)
    <3>1. i - m \in 1 .. len /\ r[i] = q[i - m]
      BY <1>3, <1>5, <2>2
    <3> QED BY <1>1, <3>1 DEF In
  <2> QED BY <2>1, <2>2
<1>7. ASSUME NEW i \in 1 .. len PROVE i + m \in 1 .. m + len /\ r[i + m] = q[i]
  <2>1. i + m \in 1 .. m + len /\ ~(i + m <= m) /\ (i + m) - m = i
    BY <1>1
  <2> QED BY <1>3, <2>1
<1>8. ASSUME NEW i \in 1 .. m PROVE i \in 1 .. m + len /\ r[i] = p[i]
  BY <1>1, <1>3
<1>9. In(p) \subseteq In(r)
  BY <1>1, <1>4, <1>8 DEF In
<1>10. In(q) \subseteq In(r)
  BY <1>1, <1>4, <1>7 DEF In
<1>11. Once(r)
  <2> SUFFICES ASSUME NEW a \in 1 .. m + len, NEW b \in 1 .. m + len, r[a] = r[b]
               PROVE  a = b
    BY <1>4 DEF Once
  <2>1. CASE a <= m /\ b <= m
    <3>1. a \in 1 .. m /\ b \in 1 .. m /\ p[a] = p[b]
      BY <1>3, <2>1
    <3> QED BY <1>1, <3>1 DEF Once
  <2>2. CASE ~(a <= m) /\ ~(b <= m)
    <3>1. a - m \in 1 .. len /\ b - m \in 1 .. len /\ q[a - m] = q[b - m]
      BY <1>3, <1>5, <2>2
    <3>2. a - m = b - m
      BY <1>1, <3>1 DEF Once
    <3> QED BY <1>1, <3>2
  <2>3. CASE a <= m /\ ~(b <= m)
    <3>1. a \in 1 .. m /\ b - m \in 1 .. len /\ r[a] = p[a] /\ r[b] = q[b - m]
      BY <1>3, <1>5, <2>3
    <3>2. p[a] \in In(p) /\ q[b - m] \in In(q)
      BY <1>1, <3>1 DEF In
    <3> QED BY <3>1, <3>2
  <2>4. CASE ~(a <= m) /\ b <= m
    <3>1. b \in 1 .. m /\ a - m \in 1 .. len /\ r[b] = p[b] /\ r[a] = q[a - m]
      BY <1>3, <1>5, <2>4
    <3>2. p[b] \in In(p) /\ q[a - m] \in In(q)
      BY <1>1, <3>1 DEF In
    <3> QED BY <3>1, <3>2
  <2> QED BY <2>1, <2>2, <2>3, <2>4
<1> QED BY <1>2, <1>6, <1>9, <1>10, <1>11 DEF r

\* One taken out.
LEMMA OnceDrop ==
  ASSUME NEW S, NEW s \in Seq(S), Once(s), NEW k \in 1 .. Len(s)
  PROVE  LET t == Bar!RemoveAt(s, k) IN
         t \in Seq(S) /\ Once(t) /\ In(t) = In(s) \ {s[k]} /\ s[k] \in In(s)
<1> DEFINE u == SubSeq(s, 1, k - 1)
           v == SubSeq(s, k + 1, Len(s))
           t == Bar!RemoveAt(s, k)
<1>1. u \in Seq(S) /\ Len(u) = k - 1 /\ \A i \in 1 .. k - 1 : u[i] = s[i]
  OBVIOUS
<1>2. v \in Seq(S) /\ Len(v) = Len(s) - k
      /\ \A i \in 1 .. Len(s) - k : v[i] = s[k + i]
  OBVIOUS
<1>3. t = u \o v
  BY DEF Bar!RemoveAt
<1>4. Len(s) \in Nat /\ DOMAIN s = 1 .. Len(s)
  OBVIOUS
<1> HIDE DEF u, v
<1>5. DOMAIN u = 1 .. k - 1 /\ DOMAIN v = 1 .. Len(s) - k
  BY <1>1, <1>2, <1>4
<1>6. \A i \in 1 .. k - 1 : i \in 1 .. Len(s) /\ i # k
  BY <1>4
<1>7. \A i \in 1 .. Len(s) - k : k + i \in 1 .. Len(s) /\ k + i > k
  BY <1>4
<1>8. Once(u)
  BY <1>1, <1>4, <1>5, <1>6 DEF Once
<1>9. Once(v)
  <2> SUFFICES ASSUME NEW a \in 1 .. Len(s) - k, NEW b \in 1 .. Len(s) - k,
                      v[a] = v[b]
               PROVE  a = b
    BY <1>5 DEF Once
  <2>1. s[k + a] = s[k + b] /\ k + a \in 1 .. Len(s) /\ k + b \in 1 .. Len(s)
    BY <1>2, <1>7
  <2>2. k + a = k + b
    BY <1>4, <2>1 DEF Once
  <2> QED BY <2>2
<1>10. In(u) \subseteq In(s) \ {s[k]}
  <2> SUFFICES ASSUME NEW i \in 1 .. k - 1 PROVE s[i] \in In(s) \ {s[k]}
    BY <1>1, <1>5 DEF In
  <2> QED BY <1>4, <1>6 DEF In, Once
<1>11. In(v) \subseteq In(s) \ {s[k]}
  <2> SUFFICES ASSUME NEW i \in 1 .. Len(s) - k PROVE s[k + i] \in In(s) \ {s[k]}
    BY <1>2, <1>5 DEF In
  <2>1. k + i \in 1 .. Len(s) /\ k + i # k
    BY <1>7
  <2> QED BY <1>4, <2>1 DEF In, Once
<1>12. In(u) \cap In(v) = {}
  <2> SUFFICES ASSUME NEW i \in 1 .. k - 1, NEW j \in 1 .. Len(s) - k, u[i] = v[j]
               PROVE  FALSE
    BY <1>5 DEF In
  <2>1. s[i] = s[k + j] /\ i \in 1 .. Len(s) /\ k + j \in 1 .. Len(s) /\ k + j > k
        /\ i < k
    BY <1>1, <1>2, <1>6, <1>7
  <2>2. i = k + j
    BY <1>4, <2>1 DEF Once
  <2> QED BY <2>1, <2>2
<1>13. u \o v \in Seq(S) /\ Once(u \o v) /\ In(u \o v) = In(u) \cup In(v)
  BY <1>1, <1>2, <1>8, <1>9, <1>12, OnceConcat
<1> HIDE DEF t
<1>14. In(s) \subseteq In(u) \cup In(v) \cup {s[k]}
  <2> SUFFICES ASSUME NEW i \in 1 .. Len(s), i # k
               PROVE  s[i] \in In(u) \cup In(v)
    BY <1>4 DEF In
  <2>1. CASE i < k
    <3>1. i \in 1 .. k - 1
      BY <1>4, <2>1
    <3> QED BY <1>1, <1>5, <3>1 DEF In
  <2>2. CASE ~(i < k)
    <3>1. i - k \in 1 .. Len(s) - k /\ k + (i - k) = i
      BY <1>4, <2>2
    <3>2. v[i - k] = s[i]
      BY <1>2, <3>1
    <3> QED BY <1>5, <3>1, <3>2 DEF In
  <2> QED BY <2>1, <2>2
<1>15. t \in Seq(S) /\ Once(t) /\ In(t) = In(s) \ {s[k]}
  BY <1>3, <1>10, <1>11, <1>13, <1>14
<1>16. s[k] \in In(s)
  BY <1>4 DEF In
<1> QED BY <1>15, <1>16 DEF t

------------------------------------------------------------------------------
Drafted(a) == In(a.images) \cup In(a.texts)
Waiting(r) == UNION {Bar!Whole(b) : b \in r}
AttachedOnce(a) ==
  /\ a \in [images : Seq(Images), texts : Seq(Picked \ Images)]
  /\ Once(a.images) /\ Once(a.texts)

BarTyped ==
  /\ text \in Drafts /\ index \in {-1} \cup Nat
  /\ open \subseteq {"list", "menu", "models", "dialog"}
  /\ ~({"menu", "models"} \subseteq open)
\* Where the files are that were picked: a in the draft, r in batches.
Placed(a, r, all, told_, gone) ==
  /\ all \cup told_ \cup gone \subseteq Picked
  /\ all = Drafted(a) \cup told_ \cup gone \cup Waiting(r)
  /\ Drafted(a) \cap (told_ \cup gone) = {} /\ told_ \cap gone = {}
  /\ Waiting(r) \cap (Drafted(a) \cup told_ \cup gone) = {}
Pending(r) ==
  /\ r \subseteq Bar!Batches /\ \A b \in r : b.left \cup b.bad # {}
  /\ \A b, c \in r : b # c => Bar!Whole(b) \cap Bar!Whole(c) = {}
FilesApart ==
  /\ AttachedOnce(attached) /\ Pending(reading)
  /\ Placed(attached, reading, picked, handed, removed)
BarInv == BarTyped /\ FilesApart

LEMMA BarDrafted == \A a : Bar!InFiles(a) = Drafted(a)
  BY BarNames DEF Bar!InFiles, Drafted

LEMMA NothingOnce == AttachedOnce(Bar!Nothing) /\ Drafted(Bar!Nothing) = {}
  BY DEF AttachedOnce, Bar!Nothing, Drafted, Once, In

LEMMA BarInit == ASSUME Bar!InputAssumption, Bar!Init PROVE BarInv
<1>1. BarTyped
  BY DEF Bar!Init, Bar!InputAssumption, BarTyped
<1>2. FilesApart
  <2>1. Waiting({}) = {}
    BY DEF Waiting
  <2> QED BY <2>1, NothingOnce DEF Bar!Init, FilesApart, Pending, Placed
<1> QED BY <1>1, <1>2 DEF BarInv

LEMMA MatchesNat ==
  ASSUME Bar!InputAssumption, NEW o, NEW x
  PROVE  Bar!Matches(o, x) \in Nat
  BY DEF Bar!InputAssumption, Bar!Matches

LEMMA ClampedType ==
  ASSUME Bar!InputAssumption, NEW i \in {-1} \cup Nat
  PROVE  Bar!Clamped(i) \in {-1} \cup Nat
<1> DEFINE len == Bar!Matches(open', text')
<1>1. len \in Nat
  BY MatchesNat
<1>2. Bar!Clamped(i) = IF len # Bar!Listed /\ i >= len THEN IF len = 0 THEN 0 ELSE len - 1 ELSE i
  BY DEF Bar!Clamped
<1> HIDE DEF len
<1> QED BY <1>1, <1>2

\* Nothing here touches the files.
LEMMA BarMenus ==
  ASSUME Bar!InputAssumption, BarInv,
         \/ \E x \in Drafts : Bar!Type(x) \/ Bar!Slash(x) \/ Bar!PickDialog(x)
         \/ \E x \in Drafts : \E i \in Bar!Rows : Bar!Pick(i, x)
         \/ Bar!Arrow \/ Bar!Escape \/ Bar!Outside \/ Bar!Dialog
         \/ \E m \in {"menu", "models"} : Bar!Menu(m)
  PROVE  BarInv'
<1>1. BarTyped /\ FilesApart
  BY DEF BarInv
<1>2. UNCHANGED <<attached, reading, picked, handed, removed>>
  BY DEF Bar!fileVars, Bar!Type, Bar!Slash, Bar!PickDialog, Bar!Pick, Bar!Arrow, Bar!Escape,
     Bar!Outside, Bar!Dialog, Bar!Menu
<1>3. FilesApart'
  BY <1>1, <1>2, Zenon DEF FilesApart
<1>4. text' \in Drafts
  BY <1>1 DEF Bar!Type, Bar!Slash, Bar!PickDialog, Bar!Pick, Bar!Arrow, Bar!Escape,
     Bar!Outside, Bar!Dialog, Bar!Menu, BarTyped, Bar!InputAssumption
<1>5. /\ open' \subseteq {"list", "menu", "models", "dialog"}
      /\ ~({"menu", "models"} \subseteq open')
  BY <1>1 DEF Bar!Type, Bar!Slash, Bar!PickDialog, Bar!Pick, Bar!Arrow, Bar!Escape,
     Bar!Outside, Bar!Dialog, Bar!Menu, BarTyped
<1>6. index' \in {-1} \cup Nat
  <2>1. index \in {-1} \cup Nat /\ Bar!Listed \in Nat
    BY <1>1, MatchesNat DEF BarTyped, Bar!Listed
  <2>2. ASSUME index' = Bar!Clamped(index) PROVE index' \in {-1} \cup Nat
    BY <2>1, <2>2, ClampedType
  <2>3. ASSUME NEW i \in Bar!Rows, index' = Bar!Clamped(i)
        PROVE  index' \in {-1} \cup Nat
    <3>1. i \in {-1} \cup Nat
      BY <2>1 DEF Bar!Rows
    <3> QED BY <2>3, <3>1, ClampedType
  <2>4. ASSUME Bar!Arrow PROVE index' \in {-1} \cup Nat
    BY <2>1, <2>4 DEF Bar!Arrow
  <2> QED BY <2>1, <2>2, <2>3, <2>4 DEF Bar!Type, Bar!Slash, Bar!PickDialog, Bar!Pick,
         Bar!Escape, Bar!Outside, Bar!Dialog, Bar!Menu
<1> QED BY <1>3, <1>4, <1>5, <1>6 DEF BarInv, BarTyped

LEMMA BarSubmit ==
  ASSUME Bar!InputAssumption, BarInv, Bar!Submit
  PROVE  BarInv'
<1>1. BarTyped /\ FilesApart
  BY DEF BarInv
<1>2. /\ text' = Empty /\ attached' = Bar!Nothing /\ reading' = reading /\ open' = open
      /\ handed' = handed \cup Drafted(attached) /\ index' = Bar!Clamped(index)
      /\ UNCHANGED <<picked, removed>>
  BY BarDrafted DEF Bar!Submit
<1>3. BarTyped'
  BY <1>1, <1>2, ClampedType DEF BarTyped, Bar!InputAssumption
<1>4. Placed(attached', reading', picked', handed', removed')
  BY <1>1, <1>2, NothingOnce DEF FilesApart, Placed
<1>5. FilesApart'
  BY <1>1, <1>2, <1>4, NothingOnce DEF FilesApart
<1> QED BY <1>3, <1>5 DEF BarInv

LEMMA BarAttach ==
  ASSUME BarInv, NEW fs \in SUBSET Picked, Bar!Attach(fs)
  PROVE  BarInv'
<1> DEFINE d == [left |-> fs, got |-> {}, bad |-> {}]
<1>1. BarTyped /\ FilesApart
  BY DEF BarInv
<1>2. /\ fs # {} /\ reading' = reading \cup {d}
      /\ fs \cap picked = {} /\ picked' = picked \cup fs
      /\ UNCHANGED <<text, attached, open, index, handed, removed>>
  BY DEF Bar!Attach
<1>3. d \in Bar!Batches /\ Bar!Whole(d) = fs /\ d.left \cup d.bad = fs
  BY DEF Bar!Batches, Bar!Whole
<1> HIDE DEF d
<1>4. BarTyped'
  BY <1>1, <1>2 DEF BarTyped
<1>5. Waiting(reading') = Waiting(reading) \cup fs
  BY <1>2, <1>3 DEF Waiting
<1>6. Placed(attached', reading', picked', handed', removed')
  BY <1>1, <1>2, <1>5 DEF FilesApart, Placed
<1>7. Pending(reading')
  <2>1. \A b \in reading : Bar!Whole(b) \cap fs = {}
    BY <1>1, <1>2 DEF FilesApart, Placed, Waiting
  <2> QED BY <1>1, <1>2, <1>3, <2>1 DEF FilesApart, Pending
<1> QED BY <1>1, <1>2, <1>4, <1>6, <1>7 DEF BarInv, FilesApart

\* What a batch that is read adds.
LEMMA AppendedOnce ==
  ASSUME Bar!InputAssumption, NEW a, AttachedOnce(a), NEW fs \in SUBSET Picked,
         fs \cap Drafted(a) = {}
  PROVE  /\ AttachedOnce(Bar!Appended(a, fs))
         /\ Drafted(Bar!Appended(a, fs)) = Drafted(a) \cup fs
<1> DEFINE p == Bar!SetToSeq(fs \cap Images)
           q == Bar!SetToSeq(fs \ Images)
<1>1. IsFiniteSet(fs \cap Images) /\ IsFiniteSet(fs \ Images)
  <2>1. IsFiniteSet(Picked)
    BY Zenon DEF Bar!InputAssumption, Bar!IsFiniteSet, IsFiniteSet
  <2>2. fs \cap Images \subseteq Picked /\ fs \ Images \subseteq Picked
    OBVIOUS
  <2> QED BY <2>1, <2>2, FS_Subset
<1>2. /\ p \in Seq(fs \cap Images) /\ Once(p) /\ In(p) = fs \cap Images
      /\ q \in Seq(fs \ Images) /\ Once(q) /\ In(q) = fs \ Images
  BY <1>1, SetToSeqOnce
<1>3. p \in Seq(Images) /\ q \in Seq(Picked \ Images)
  BY <1>2
<1>4. Bar!Appended(a, fs) = [images |-> a.images \o p, texts |-> a.texts \o q]
  BY DEF Bar!Appended
<1> HIDE DEF p, q
<1>5. /\ a.images \in Seq(Images) /\ a.texts \in Seq(Picked \ Images)
      /\ Once(a.images) /\ Once(a.texts)
      /\ In(a.images) \cap In(p) = {} /\ In(a.texts) \cap In(q) = {}
  BY <1>2 DEF AttachedOnce, Drafted
<1>6. /\ a.images \o p \in Seq(Images) /\ Once(a.images \o p)
      /\ In(a.images \o p) = In(a.images) \cup In(p)
  BY <1>2, <1>3, <1>5, OnceConcat
<1>7. /\ a.texts \o q \in Seq(Picked \ Images) /\ Once(a.texts \o q)
      /\ In(a.texts \o q) = In(a.texts) \cup In(q)
  BY <1>2, <1>3, <1>5, OnceConcat
<1> DEFINE x == a.images \o p
           y == a.texts \o q
<1> HIDE DEF x, y
<1>8. AttachedOnce([images |-> x, texts |-> y])
      /\ Drafted([images |-> x, texts |-> y]) = In(x) \cup In(y)
  BY <1>6, <1>7 DEF AttachedOnce, Drafted, x, y
<1> QED BY <1>2, <1>4, <1>6, <1>7, <1>8 DEF Drafted, x, y

\* One batch of those that wait is another one now.
LEMMA BatchChanged ==
  ASSUME Pending(reading), NEW b \in reading, NEW c \in Bar!Batches,
         c.left \cup c.bad # {}, Bar!Whole(c) = Bar!Whole(b)
  PROVE  /\ Pending((reading \ {b}) \cup {c})
         /\ Waiting((reading \ {b}) \cup {c}) = Waiting(reading)
<1>1. Pending((reading \ {b}) \cup {c})
  BY DEF Pending
<1>2. Waiting((reading \ {b}) \cup {c}) = Waiting(reading)
  BY DEF Waiting
<1> QED BY <1>1, <1>2

LEMMA BarLoaded ==
  ASSUME Bar!InputAssumption, BarInv, NEW b \in reading, NEW f \in b.left,
         Bar!Loaded(b, f)
  PROVE  BarInv'
<1> DEFINE c == [b EXCEPT !.left = @ \ {f}, !.got = @ \cup {f}]
<1>1. BarTyped /\ FilesApart /\ Pending(reading)
  BY DEF BarInv, FilesApart
<1>2. b \in Bar!Batches /\ Bar!Whole(b) \subseteq Picked
  BY <1>1 DEF Pending, Bar!Batches, Bar!Whole
<1>3. /\ Bar!Whole(c) = Bar!Whole(b) /\ c \in Bar!Batches
      /\ (c.left \cup c.bad = {} => c.got = Bar!Whole(b))
  BY <1>2 DEF Bar!Whole, Bar!Batches
<1>4. /\ IF c.left \cup c.bad = {}
         THEN attached' = Bar!Appended(attached, c.got) /\ reading' = reading \ {b}
         ELSE reading' = (reading \ {b}) \cup {c} /\ attached' = attached
      /\ UNCHANGED <<text, open, index, picked, handed, removed>>
  BY DEF Bar!Loaded
<1> HIDE DEF c
<1>5. BarTyped'
  BY <1>1, <1>4 DEF BarTyped
<1>6. CASE c.left \cup c.bad = {}
  <2>1. attached' = Bar!Appended(attached, Bar!Whole(b)) /\ reading' = reading \ {b}
    BY <1>3, <1>4, <1>6
  <2>2. /\ AttachedOnce(attached) /\ Bar!Whole(b) \cap Drafted(attached) = {}
        /\ Bar!Whole(b) \subseteq Waiting(reading)
    BY <1>1 DEF FilesApart, Placed, Waiting
  <2>3. AttachedOnce(attached') /\ Drafted(attached') = Drafted(attached) \cup Bar!Whole(b)
    BY <1>2, <2>1, <2>2, AppendedOnce
  <2>4. Waiting(reading') = Waiting(reading) \ Bar!Whole(b)
    BY <1>1, <2>1 DEF Pending, Waiting
  <2>5. Pending(reading')
    BY <1>1, <2>1 DEF Pending
  <2>6. Placed(attached', reading', picked', handed', removed')
    BY <1>1, <1>4, <2>2, <2>3, <2>4 DEF FilesApart, Placed
  <2> QED BY <1>5, <2>3, <2>5, <2>6 DEF BarInv, FilesApart
<1>7. CASE c.left \cup c.bad # {}
  <2>1. Pending(reading') /\ Waiting(reading') = Waiting(reading)
    BY <1>1, <1>3, <1>4, <1>7, BatchChanged
  <2> QED BY <1>1, <1>4, <1>5, <1>7, <2>1 DEF BarInv, FilesApart, Placed
<1> QED BY <1>6, <1>7

LEMMA BarFailed ==
  ASSUME BarInv, NEW b \in reading, NEW f \in b.left, Bar!Failed(b, f)
  PROVE  BarInv'
<1> DEFINE c == [b EXCEPT !.left = @ \ {f}, !.bad = @ \cup {f}]
<1>1. BarTyped /\ FilesApart /\ Pending(reading)
  BY DEF BarInv, FilesApart
<1>2. b \in Bar!Batches
  BY <1>1 DEF Pending
<1>3. /\ Bar!Whole(c) = Bar!Whole(b) /\ c \in Bar!Batches
      /\ c.left \cup c.bad # {}
  BY <1>2 DEF Bar!Whole, Bar!Batches
<1>4. /\ reading' = (reading \ {b}) \cup {c}
      /\ UNCHANGED <<text, attached, open, index, picked, handed, removed>>
  BY DEF Bar!Failed
<1> HIDE DEF c
<1>5. BarTyped'
  BY <1>1, <1>4 DEF BarTyped
<1>6. Pending(reading') /\ Waiting(reading') = Waiting(reading)
  BY <1>1, <1>3, <1>4, BatchChanged
<1> QED BY <1>1, <1>4, <1>5, <1>6 DEF BarInv, FilesApart, Placed

LEMMA BarRemove ==
  ASSUME Bar!InputAssumption, BarInv, NEW i \in Nat, Bar!RemoveAttachment(i)
  PROVE  BarInv'
<1> DEFINE p == attached.images
           q == attached.texts
           len == Len(p)
<1>1. BarTyped /\ FilesApart
  BY DEF BarInv
<1>2. /\ attached = [images |-> p, texts |-> q]
      /\ p \in Seq(Images) /\ q \in Seq(Picked \ Images) /\ Once(p) /\ Once(q)
  BY <1>1 DEF FilesApart, AttachedOnce
<1>3. Drafted(attached) = In(p) \cup In(q) /\ In(p) \cap In(q) = {}
  <2>1. In(p) \subseteq Images /\ In(q) \subseteq Picked \ Images
    BY <1>2 DEF In
  <2> QED BY <2>1 DEF Drafted
<1>4. In(p) \subseteq Picked /\ In(q) \subseteq Picked
  BY <1>2 DEF In, Bar!InputAssumption
<1>5. /\ i \in 1 .. len + Len(q)
      /\ \/ /\ i <= len /\ removed' = removed \cup {p[i]}
            /\ attached' = [images |-> Bar!RemoveAt(p, i), texts |-> q]
         \/ /\ i > len /\ removed' = removed \cup {q[i - len]}
            /\ attached' = [images |-> p, texts |-> Bar!RemoveAt(q, i - len)]
      /\ UNCHANGED <<text, reading, open, index, picked, handed>>
  BY <1>2 DEF Bar!RemoveAttachment, Bar!Previews
<1> HIDE DEF p, q
<1>6. len \in Nat /\ Len(q) \in Nat
  BY <1>2
<1>7. BarTyped'
  BY <1>1, <1>5 DEF BarTyped
<1>8. ASSUME NEW x \in Drafted(attached), removed' = removed \cup {x},
             AttachedOnce(attached'), Drafted(attached') = Drafted(attached) \ {x}
      PROVE  FilesApart'
  <2>1. UNCHANGED <<reading, picked, handed>>
    BY <1>5
  <2>2. x \in Picked
    BY <1>3, <1>4
  <2>3. Placed(attached', reading', picked', handed', removed')
    BY <1>1, <1>8, <2>1, <2>2 DEF FilesApart, Placed
  <2> QED BY <1>1, <1>8, <2>1, <2>3 DEF FilesApart
<1>9. CASE i <= len
  <2> DEFINE t == Bar!RemoveAt(p, i)
  <2>1. i \in 1 .. Len(p)
    BY <1>5, <1>6, <1>9
  <2>2. t \in Seq(Images) /\ Once(t) /\ In(t) = In(p) \ {p[i]} /\ p[i] \in In(p)
    BY <1>2, <2>1, OnceDrop
  <2>3. removed' = removed \cup {p[i]} /\ attached' = [images |-> t, texts |-> q]
    BY <1>5, <1>6, <1>9
  <2> HIDE DEF t
  <2>4. /\ AttachedOnce(attached') /\ p[i] \in Drafted(attached)
        /\ Drafted(attached') = Drafted(attached) \ {p[i]}
    BY <1>2, <1>3, <2>2, <2>3 DEF AttachedOnce, Drafted
  <2> QED BY <1>7, <1>8, <2>3, <2>4 DEF BarInv
<1>10. CASE i > len
  <2> DEFINE t == Bar!RemoveAt(q, i - len)
  <2>1. i - len \in 1 .. Len(q)
    BY <1>5, <1>6, <1>10
  <2>2. /\ t \in Seq(Picked \ Images) /\ Once(t)
        /\ In(t) = In(q) \ {q[i - len]} /\ q[i - len] \in In(q)
    BY <1>2, <2>1, OnceDrop
  <2>3. removed' = removed \cup {q[i - len]} /\ attached' = [images |-> p, texts |-> t]
    BY <1>5, <1>6, <1>10
  <2> HIDE DEF t
  <2>4. /\ AttachedOnce(attached') /\ q[i - len] \in Drafted(attached)
        /\ Drafted(attached') = Drafted(attached) \ {q[i - len]}
    BY <1>2, <1>3, <2>2, <2>3 DEF AttachedOnce, Drafted
  <2> QED BY <1>7, <1>8, <2>3, <2>4 DEF BarInv
<1> QED BY <1>5, <1>6, <1>9, <1>10

LEMMA BarStep ==
  ASSUME Bar!InputAssumption, BarInv, [Bar!Next]_barVars
  PROVE  BarInv'
<1>1. CASE UNCHANGED barVars
  BY <1>1 DEF barVars, BarInv, BarTyped, FilesApart
<1>2. \A i \in 1 .. Bar!Cardinality(Picked) : i \in Nat
  OBVIOUS
<1> QED BY <1>1, <1>2, BarMenus, BarSubmit, BarAttach, BarLoaded, BarFailed,
           BarRemove DEF Bar!Next

LEMMA BarInvKept == ASSUME BarInv PROVE Bar!TypeOK /\ Bar!FilesKept
<1>1. Bar!TypeOK
  BY DEF BarInv, BarTyped, FilesApart, AttachedOnce, Pending, Placed, Bar!TypeOK
<1>2. Bar!FilesKept
  BY BarNames, BarDrafted DEF BarInv, BarTyped, FilesApart, AttachedOnce, Pending,
     Placed, Waiting, Bar!FilesKept
<1> QED BY <1>1, <1>2
------------------------------------------------------------------------------
(***************************************************************************)
(* SessionLists.  A list that is not being read shows the files of its     *)
(* place; a scan has the rows of the files it is done with.                *)
(***************************************************************************)
RowsOf(f, ss) == {<<s, f[s]>> : s \in ss}

OnSession == {"session", "archivedSession", "renaming", "deleteArchived"}
OnProject == {"project", "archived", "deleteProject"}
MenuRight ==
  /\ menu = [kind |-> menu.kind, on |-> menu.on]
  /\ \/ menu.kind \in OnSession /\ menu.on \in Sessions
     \/ menu.kind \in OnProject /\ menu.on \in Projects
     \/ menu.kind \in {"none", "archivedAll", "clear"} /\ menu.on = None

JobRight(j) ==
  /\ j \in Lists!Jobs
  /\ \/ j.op \in Lists!SessionOps \cup Lists!ArchivedOps /\ j.on \in Sessions
     \/ j.op \in Lists!ProjectOps \cup {"archiveProject"} /\ j.on \in Projects
     \/ j.op = "clear"
  /\ j.op = "rename" => j.name \in Names

\* The files a scan has read, and what it holds of them.
ReadBy(c) == {s \in Lists!At(c.of) : s \notin c.files /\ Cwd[s] \notin c.dirs}
ScanRight(c) ==
  /\ c \in Lists!Scans /\ c.files \subseteq Lists!At(c.of)
  /\ \A s \in c.files : Cwd[s] \notin c.dirs
  /\ IF c.started THEN c.got = RowsOf(name, ReadBy(c))
     ELSE c.got = {} /\ c.dirs = {} /\ c.files = {}

ListsTyped ==
  /\ place \in [Sessions -> {"active", "archived", "gone"}]
  /\ name \in [Sessions -> Names] /\ pins \subseteq Sessions /\ pinned = pins
  /\ shown \subseteq Lists!Rows /\ archived \subseteq Lists!Rows
  /\ hidden \subseteq Sessions
WorkRight ==
  /\ \A j, k \in jobs : j = k
  /\ jobs # {} => scans = {}
  /\ \A j \in jobs : JobRight(j)
  /\ \A c \in scans : ScanRight(c)
  /\ \A c, d \in scans : c.of = d.of => c = d

\* Sessions a job has taken off a list before it is done.
Taken(op) == UNION {Lists!Of(j.on) : j \in {k \in jobs : k.op = op}}
ShownRight ==
  (\A c \in scans : c.of # "active") =>
     shown = RowsOf(name, Lists!At("active") \ (hidden \cup Taken("archiveProject")))
ArchivedRight ==
  (\A c \in scans : c.of # "archived") =>
     archived = RowsOf(name, Lists!At("archived") \ Taken("unarchive"))

ListsInv == ListsTyped /\ MenuRight /\ WorkRight /\ ShownRight /\ ArchivedRight

LEMMA WithoutRows ==
  ASSUME NEW f, NEW A, NEW X
  PROVE  Lists!Without(RowsOf(f, A), X) = RowsOf(f, A \ X)
  BY DEF Lists!Without, RowsOf

LEMMA WithoutPart ==
  ASSUME NEW A, NEW X
  PROVE  Lists!Without(A, X) \subseteq A /\ Lists!Without(A, {}) = A
  BY DEF Lists!Without

LEMMA ListsInit == ASSUME Lists!ListsAssumption, Lists!Init PROVE ListsInv
<1>1. /\ place \in [Sessions -> {"active", "archived"}] /\ name \in [Sessions -> Names]
      /\ pins = {} /\ pinned = {} /\ jobs = {} /\ scans = {} /\ hidden = {}
      /\ shown = RowsOf(name, Lists!At("active"))
      /\ archived = RowsOf(name, Lists!At("archived"))
      /\ menu = [kind |-> "none", on |-> None]
  BY DEF Lists!Init, Lists!RowsAt, RowsOf, Lists!Closed
<1>2. ListsTyped
  BY <1>1 DEF ListsTyped, RowsOf, Lists!Rows, Lists!At
<1>3. MenuRight
  BY <1>1 DEF MenuRight
<1>4. WorkRight
  BY <1>1 DEF WorkRight
<1>5. Taken("archiveProject") = {} /\ Taken("unarchive") = {}
  BY <1>1 DEF Taken
<1>6. ShownRight /\ ArchivedRight
  BY <1>1, <1>5 DEF ShownRight, ArchivedRight
<1> QED BY <1>2, <1>3, <1>4, <1>6 DEF ListsInv

LEMMA ListsMenu ==
  ASSUME Lists!ListsAssumption, ListsInv,
         \/ \E kind \in {"session", "archivedSession", "project", "archived",
                         "archivedAll"} :
              \E on \in Sessions \cup Projects \cup {None} : Lists!OpenMenu(kind, on)
         \/ Lists!CloseMenu
         \/ \E op \in Lists!Asked \cup {"renaming"} : Lists!AskFirst(op)
  PROVE  ListsInv'
<1>1. UNCHANGED <<Lists!disk, Lists!lists, jobs, scans, hidden>>
  BY DEF Lists!OpenMenu, Lists!CloseMenu, Lists!AskFirst
<1>2. UNCHANGED <<place, name, pins, shown, archived, pinned, jobs, scans, hidden>>
  BY <1>1 DEF Lists!disk, Lists!lists
<1>3. ListsTyped' /\ WorkRight' /\ ShownRight' /\ ArchivedRight'
  BY <1>2 DEF ListsInv, ListsTyped, WorkRight, JobRight, ScanRight, ReadBy, ShownRight,
     ArchivedRight, Taken, Lists!At
<1>4. ListsTyped /\ MenuRight
  BY DEF ListsInv
<1>5. ASSUME NEW kind \in {"session", "archivedSession", "project", "archived",
                           "archivedAll"},
             NEW on \in Sessions \cup Projects \cup {None}, Lists!OpenMenu(kind, on)
      PROVE  MenuRight'
  <2>1. menu' = [kind |-> kind, on |-> on] /\ on \in Lists!Targets(kind)
    BY <1>5 DEF Lists!OpenMenu
  <2>2. /\ \A r \in shown : r[1] \in Sessions /\ Cwd[r[1]] \in Projects
        /\ \A r \in archived : r[1] \in Sessions /\ Cwd[r[1]] \in Projects
    BY <1>4 DEF ListsTyped, Lists!Rows, Lists!ListsAssumption
  <2>3. CASE kind = "session"
    BY <2>1, <2>2, <2>3 DEF Lists!Targets, MenuRight, OnSession
  <2>4. CASE kind = "archivedSession"
    BY <2>1, <2>2, <2>4 DEF Lists!Targets, MenuRight, OnSession
  <2>5. CASE kind = "project"
    BY <2>1, <2>2, <2>5 DEF Lists!Targets, MenuRight, OnProject
  <2>6. CASE kind = "archived"
    BY <2>1, <2>2, <2>6 DEF Lists!Targets, MenuRight, OnProject
  <2>7. CASE kind = "archivedAll"
    BY <2>1, <2>2, <2>7 DEF Lists!Targets, MenuRight
  <2> QED BY <2>3, <2>4, <2>5, <2>6, <2>7
<1>6. ASSUME Lists!CloseMenu PROVE MenuRight'
  <2>1. menu' = [kind |-> "none", on |-> None]
    BY <1>6 DEF Lists!CloseMenu, Lists!Closed
  <2>2. menu'.kind = "none" /\ menu'.on = None
    BY <2>1
  <2>3. menu' = [kind |-> menu'.kind, on |-> menu'.on]
    BY <2>1
  <2>4. menu'.kind \in {"none", "archivedAll", "clear"} /\ menu'.on = None
    BY <2>2
  <2> QED BY <2>3, <2>4, Zenon DEF MenuRight
<1>7. ASSUME NEW op \in Lists!Asked \cup {"renaming"}, Lists!AskFirst(op)
      PROVE  MenuRight'
  BY <1>4, <1>7 DEF Lists!AskFirst, MenuRight, OnSession, OnProject
<1> QED BY <1>3, <1>5, <1>6, <1>7 DEF ListsInv

LEMMA ListsAsk ==
  ASSUME Lists!ListsAssumption, ListsInv, NEW op \in Lists!Ops,
         NEW x \in Names \cup {None}, Lists!Ask(op, x)
  PROVE  ListsInv'
<1> DEFINE j == [op |-> op, on |-> menu.on, name |-> x, pin |-> menu.on \notin pinned]
<1>1. ListsTyped /\ MenuRight /\ WorkRight /\ ShownRight /\ ArchivedRight
  BY DEF ListsInv
<1>2. /\ op \in Lists!Offered /\ jobs = {} /\ scans = {} /\ jobs' = {j}
      /\ (x = None) = (op # "rename") /\ menu' = [kind |-> "none", on |-> None]
      /\ shown' = IF op = "archiveProject" THEN Lists!Without(shown, Lists!Of(menu.on))
                  ELSE shown
      /\ archived' = IF op = "unarchive" THEN Lists!Without(archived, Lists!Of(menu.on))
                     ELSE archived
      /\ UNCHANGED <<place, name, pins, pinned, scans, hidden>>
  BY DEF Lists!Ask, Lists!Closed, Lists!disk
<1>3. \/ op \in Lists!SessionOps \cup Lists!ArchivedOps /\ menu.on \in Sessions
      \/ op \in Lists!ProjectOps \cup {"archiveProject"} /\ menu.on \in Projects
      \/ op = "clear" /\ menu.on = None
  BY <1>1, <1>2 DEF Lists!Offered, MenuRight, OnSession, OnProject, Lists!SessionOps,
     Lists!ArchivedOps, Lists!ProjectOps, Lists!Asked
<1>4. j \in Lists!Jobs
  <2>1. menu.on \in Sessions \cup Projects \cup {None} /\ (menu.on \notin pinned) \in BOOLEAN
    BY <1>3
  <2> QED BY <2>1 DEF Lists!Jobs
<1>5. JobRight(j)
  BY <1>2, <1>3, <1>4 DEF JobRight
<1>6. j.op = op /\ j.on = menu.on
  OBVIOUS
<1> HIDE DEF j
<1>7. ListsTyped' /\ MenuRight'
  BY <1>1, <1>2, WithoutPart DEF ListsTyped, MenuRight
<1>8. WorkRight'
  BY <1>2, <1>5 DEF WorkRight, JobRight
<1>9. \A o : Taken(o)' = (IF o = op THEN Lists!Of(menu.on) ELSE {}) /\ Taken(o) = {}
  <2> SUFFICES ASSUME NEW o
               PROVE  Taken(o)' = (IF o = op THEN Lists!Of(menu.on) ELSE {}) /\ Taken(o) = {}
    OBVIOUS
  <2>1. Taken(o) = {}
    BY <1>2 DEF Taken
  <2>2. {k \in jobs' : k.op = o} = IF o = op THEN {j} ELSE {}
    BY <1>2, <1>6
  <2>3. Taken(o)' = UNION {Lists!Of(k.on) : k \in {k \in jobs' : k.op = o}}
    BY DEF Taken, Lists!Of
  <2>4. CASE o = op
    <3>1. {Lists!Of(k.on) : k \in {j}} = {Lists!Of(menu.on)}
      BY <1>6
    <3> QED BY <2>1, <2>2, <2>3, <2>4, <3>1
  <2>5. CASE o # op
    BY <2>1, <2>2, <2>3, <2>5
  <2> QED BY <2>4, <2>5
<1>10. /\ shown = RowsOf(name, Lists!At("active") \ hidden)
       /\ archived = RowsOf(name, Lists!At("archived"))
  BY <1>1, <1>2, <1>9 DEF ShownRight, ArchivedRight
<1>11. Lists!At("active")' = Lists!At("active") /\ Lists!At("archived")' = Lists!At("archived")
  BY <1>2 DEF Lists!At
<1>12. ShownRight'
  <2>1. shown' = RowsOf(name, Lists!At("active") \ (hidden \cup Taken("archiveProject")'))
    <3>1. CASE op = "archiveProject"
      <4>1. shown' = RowsOf(name, (Lists!At("active") \ hidden) \ Lists!Of(menu.on))
        BY <1>2, <1>10, <3>1, WithoutRows
      <4>2. (Lists!At("active") \ hidden) \ Lists!Of(menu.on)
              = Lists!At("active") \ (hidden \cup Lists!Of(menu.on))
        OBVIOUS
      <4> QED BY <1>9, <3>1, <4>1, <4>2
    <3>2. CASE op # "archiveProject"
      BY <1>2, <1>9, <1>10, <3>2
    <3> QED BY <3>1, <3>2
  <2> QED BY <1>2, <1>11, <2>1 DEF ShownRight
<1>13. ArchivedRight'
  <2>1. archived' = RowsOf(name, Lists!At("archived") \ Taken("unarchive")')
    <3>1. CASE op = "unarchive"
      BY <1>2, <1>9, <1>10, <3>1, WithoutRows
    <3>2. CASE op # "unarchive"
      BY <1>2, <1>9, <1>10, <3>2
    <3> QED BY <3>1, <3>2
  <2> QED BY <1>2, <1>11, <2>1 DEF ArchivedRight
<1> QED BY <1>7, <1>8, <1>12, <1>13 DEF ListsInv

\* What a change moves was at one place, and goes to another.
LEMMA MovedFrom ==
  ASSUME NEW j
  PROVE  /\ j.op \in {"pin", "rename"} => Lists!Moved(j) = {}
         /\ j.op \in {"deleteArchived", "clear", "deleteProject"} =>
              Lists!Moved(j) \subseteq Lists!At("archived") /\ Lists!Goal(j.op) = "gone"
         /\ j.op = "deleteProject" => Lists!Moved(j) = Lists!Of(j.on) \cap Lists!At("archived")
<1>1. j.op \in {"pin", "rename"} => Lists!Moved(j) = {}
  BY DEF Lists!Moved, Lists!ArchivedOps, Lists!ProjectOps
<1>2. j.op = "deleteArchived" => Lists!Moved(j) \subseteq Lists!At("archived")
  BY DEF Lists!Moved, Lists!ArchivedOps, Lists!ProjectOps
<1>3. j.op = "clear" => Lists!Moved(j) \subseteq Lists!At("archived")
  BY DEF Lists!Moved, Lists!ArchivedOps, Lists!ProjectOps
<1>4. j.op = "deleteProject" => Lists!Moved(j) = Lists!Of(j.on) \cap Lists!At("archived")
  BY DEF Lists!Moved, Lists!ArchivedOps, Lists!ProjectOps
<1>5. j.op \in {"deleteArchived", "clear", "deleteProject"} => Lists!Goal(j.op) = "gone"
  BY DEF Lists!Goal
<1> QED BY <1>1, <1>2, <1>3, <1>4, <1>5

\* Which lists a change reads again, and which rows it drops of the other.
LEMMA ReadAgain ==
  ASSUME NEW j, j.op \in Lists!Ops
  PROVE  /\ Lists!Rescans(j.op) \subseteq {"active", "archived"}
         /\ "active" \notin Lists!Rescans(j.op) =>
              j.op \in {"deleteArchived", "clear"} /\ Lists!DropsShown(j) = {}
         /\ "archived" \notin Lists!Rescans(j.op) =>
              \/ j.op \in {"pin", "rename"} /\ Lists!DropsArchived(j) = {}
              \/ j.op = "deleteProject" /\ Lists!DropsArchived(j) = Lists!Of(j.on)
<1>1. Lists!Rescans(j.op) \subseteq {"active", "archived"}
  BY DEF Lists!Rescans
<1>2. "active" \notin Lists!Rescans(j.op) => j.op \in {"deleteArchived", "clear"}
  BY DEF Lists!Rescans
<1>3. "archived" \notin Lists!Rescans(j.op) => j.op \in {"pin", "rename", "deleteProject"}
  BY DEF Lists!Rescans
<1>4. j.op # "archive" => Lists!DropsShown(j) = {}
  BY DEF Lists!DropsShown
<1>5. j.op \in {"pin", "rename"} => Lists!DropsArchived(j) = {}
  BY DEF Lists!DropsArchived, Lists!ArchivedOps, Lists!ProjectOps
<1>6. j.op = "deleteProject" => Lists!DropsArchived(j) = Lists!Of(j.on)
  BY DEF Lists!DropsArchived, Lists!ArchivedOps, Lists!ProjectOps
<1> QED BY <1>1, <1>2, <1>3, <1>4, <1>5, <1>6

LEMMA ListsDone ==
  ASSUME Lists!ListsAssumption, ListsInv, NEW j \in jobs, Lists!Done(j)
  PROVE  ListsInv'
<1>1. ListsTyped /\ MenuRight /\ WorkRight /\ ShownRight /\ ArchivedRight
  BY DEF ListsInv
<1>2. jobs = {j} /\ scans = {} /\ JobRight(j) /\ j.op \in Lists!Ops
  BY <1>1 DEF WorkRight, JobRight, Lists!Jobs
<1>3. /\ jobs' = {}
      /\ place' = [s \in Sessions |-> IF s \in Lists!Moved(j) THEN Lists!Goal(j.op)
                                      ELSE place[s]]
      /\ name' = IF j.op = "rename" /\ place[j.on] = "active"
                 THEN [name EXCEPT ![j.on] = j.name] ELSE name
      /\ shown' = Lists!Without(shown, Lists!DropsShown(j))
      /\ archived' = Lists!Without(archived, Lists!DropsArchived(j))
      /\ scans' = {Lists!Scan(w) : w \in Lists!Rescans(j.op)}
      /\ UNCHANGED <<menu, hidden>>
  BY <1>2 DEF Lists!Done
<1>4. pins' = pinned' /\ pins' \subseteq Sessions
  BY <1>1, <1>2 DEF Lists!Done, ListsTyped, JobRight, Lists!SessionOps, Lists!ArchivedOps,
     Lists!ProjectOps
<1>5. Lists!Goal(j.op) \in {"active", "archived", "gone"}
  BY DEF Lists!Goal
<1>6. place' \in [Sessions -> {"active", "archived", "gone"}]
  BY <1>1, <1>3, <1>5 DEF ListsTyped
<1>7. name' \in [Sessions -> Names]
  BY <1>1, <1>2, <1>3 DEF ListsTyped, JobRight
<1>8. ListsTyped' /\ MenuRight'
  BY <1>1, <1>3, <1>4, <1>6, <1>7, WithoutPart DEF ListsTyped, MenuRight
<1>9. WorkRight'
  <2>1. ASSUME NEW w \in Lists!Rescans(j.op)
        PROVE  ScanRight(Lists!Scan(w))' /\ Lists!Scan(w).of = w
    <3>1. w \in {"active", "archived"}
      BY <1>2, <2>1, ReadAgain
    <3>2. Lists!Scan(w) = [of |-> w, dirs |-> {}, files |-> {}, got |-> {}, started |-> FALSE]
      BY DEF Lists!Scan
    <3>3. Lists!Scan(w) \in Lists!Scans
      BY <3>1, <3>2 DEF Lists!Scans
    <3> QED BY <3>2, <3>3 DEF ScanRight
  <2> QED BY <1>3, <2>1 DEF WorkRight
<1>10. \A o : Taken(o)' = {}
  BY <1>3 DEF Taken
<1>11. ShownRight'
  <2> SUFFICES ASSUME \A c \in scans' : c.of # "active"
               PROVE  shown' = RowsOf(name', Lists!At("active")' \ hidden')
    BY <1>10 DEF ShownRight
  <2>1. "active" \notin Lists!Rescans(j.op)
    <3>1. Lists!Scan("active").of = "active"
      BY DEF Lists!Scan
    <3> QED BY <1>3, <3>1
  <2>2. j.op \in {"deleteArchived", "clear"} /\ Lists!DropsShown(j) = {}
    BY <1>2, <2>1, ReadAgain
  <2>3. Lists!At("active")' = Lists!At("active")
    <3>1. Lists!Moved(j) \subseteq Lists!At("archived") /\ Lists!Goal(j.op) = "gone"
      BY <2>2, MovedFrom
    <3> QED BY <1>3, <3>1 DEF Lists!At
  <2>4. Taken("archiveProject") = {}
    BY <1>2, <2>2 DEF Taken
  <2>5. shown = RowsOf(name, Lists!At("active") \ hidden)
    BY <1>1, <1>2, <2>4 DEF ShownRight
  <2> QED BY <1>3, <2>2, <2>3, <2>5, WithoutPart
<1>12. ArchivedRight'
  <2> SUFFICES ASSUME \A c \in scans' : c.of # "archived"
               PROVE  archived' = RowsOf(name', Lists!At("archived")')
    BY <1>10 DEF ArchivedRight
  <2>1. "archived" \notin Lists!Rescans(j.op)
    <3>1. Lists!Scan("archived").of = "archived"
      BY DEF Lists!Scan
    <3> QED BY <1>3, <3>1
  <2>2. j.op \in {"pin", "rename", "deleteProject"}
    BY <1>2, <2>1, ReadAgain
  <2>3. Taken("unarchive") = {}
    BY <1>2, <2>2 DEF Taken
  <2>4. archived = RowsOf(name, Lists!At("archived"))
    BY <1>1, <1>2, <2>3 DEF ArchivedRight
  <2>5. CASE j.op \in {"pin", "rename"}
    <3>1. Lists!At("archived")' = Lists!At("archived") /\ archived' = archived
      BY <1>1, <1>2, <1>3, <2>1, <2>5, MovedFrom, ReadAgain, WithoutPart
         DEF Lists!At, ListsTyped
    <3>2. \A s \in Lists!At("archived") : name'[s] = name[s]
      BY <1>1, <1>2, <1>3 DEF Lists!At, ListsTyped
    <3> QED BY <2>4, <3>1, <3>2 DEF RowsOf
  <2>6. CASE j.op = "deleteProject"
    <3>1. Lists!DropsArchived(j) = Lists!Of(j.on)
      BY <1>2, <2>1, <2>6, ReadAgain
    <3>2. archived' = RowsOf(name, Lists!At("archived") \ Lists!Of(j.on)) /\ name' = name
      BY <1>3, <2>4, <2>6, <3>1, WithoutRows
    <3>3. Lists!At("archived")' = Lists!At("archived") \ Lists!Of(j.on)
      <4>1. Lists!Moved(j) = Lists!Of(j.on) \cap Lists!At("archived")
            /\ Lists!Goal(j.op) = "gone"
        BY <2>6, MovedFrom
      <4> QED BY <1>3, <4>1 DEF Lists!At
    <3> QED BY <3>2, <3>3
  <2> QED BY <2>2, <2>5, <2>6
<1> QED BY <1>8, <1>9, <1>11, <1>12 DEF ListsInv

LEMMA ListsFailed ==
  ASSUME ListsInv, NEW j \in jobs, Lists!Failed(j)
  PROVE  ListsInv'
<1>1. ListsTyped /\ MenuRight /\ WorkRight /\ ShownRight /\ ArchivedRight
  BY DEF ListsInv
<1>2. jobs = {j} /\ scans = {} /\ j.op = "archiveProject"
  BY <1>1 DEF WorkRight, Lists!Failed, Lists!Fails
<1>3. /\ jobs' = {} /\ hidden' = hidden \cup (Lists!Of(j.on) \cap Lists!At("active"))
      /\ UNCHANGED <<place, name, pins, shown, archived, pinned, menu, scans>>
  BY <1>2 DEF Lists!Failed, Lists!disk, Lists!lists
<1>4. ListsTyped' /\ MenuRight'
  BY <1>1, <1>3 DEF ListsTyped, MenuRight, Lists!At
<1>5. WorkRight'
  BY <1>2, <1>3 DEF WorkRight
<1>6. /\ Taken("archiveProject") = Lists!Of(j.on) /\ Taken("unarchive") = {}
      /\ Taken("archiveProject")' = {} /\ Taken("unarchive")' = {}
  <2>1. {k \in jobs : k.op = "archiveProject"} = {j} /\ {k \in jobs : k.op = "unarchive"} = {}
    BY <1>2
  <2>2. {Lists!Of(k.on) : k \in {j}} = {Lists!Of(j.on)}
    OBVIOUS
  <2> QED BY <1>3, <2>1, <2>2 DEF Taken
<1>7. Lists!At("active")' = Lists!At("active") /\ Lists!At("archived")' = Lists!At("archived")
  BY <1>3 DEF Lists!At
<1>8. Lists!At("active") \ hidden' = Lists!At("active") \ (hidden \cup Lists!Of(j.on))
  BY <1>3
<1>9. ShownRight' /\ ArchivedRight'
  BY <1>1, <1>2, <1>3, <1>6, <1>7, <1>8 DEF ShownRight, ArchivedRight
<1> QED BY <1>4, <1>5, <1>9 DEF ListsInv

\* A scan goes on.
LEMMA ListsScan ==
  ASSUME ListsInv, NEW c \in scans, NEW d, ScanRight(d), d.of = c.of,
         scans' = (scans \ {c}) \cup {d},
         UNCHANGED <<Lists!disk, Lists!lists, menu, jobs, hidden>>
  PROVE  ListsInv'
<1>1. ListsTyped /\ MenuRight /\ WorkRight /\ ShownRight /\ ArchivedRight
  BY DEF ListsInv
<1>2. UNCHANGED <<place, name, pins, shown, archived, pinned, menu, jobs, hidden>>
  BY DEF Lists!disk, Lists!lists
<1>3. ListsTyped' /\ MenuRight'
  BY <1>1, <1>2 DEF ListsTyped, MenuRight
<1>4. \A e : ScanRight(e) => ScanRight(e)'
  BY <1>2 DEF ScanRight, ReadBy, Lists!At
<1>5. WorkRight'
  BY <1>1, <1>2, <1>4 DEF WorkRight, JobRight
<1>6. \A w : (\A e \in scans' : e.of # w) => \A e \in scans : e.of # w
  OBVIOUS
<1>7. \A o : Taken(o)' = Taken(o) /\ Lists!At(o)' = Lists!At(o)
  BY <1>2 DEF Taken, Lists!At, Lists!Of
<1>8. ShownRight' /\ ArchivedRight'
  BY <1>1, <1>2, <1>6, <1>7 DEF ShownRight, ArchivedRight
<1> QED BY <1>3, <1>5, <1>8 DEF ListsInv

LEMMA ListsRead ==
  ASSUME Lists!ListsAssumption, ListsInv, NEW c \in scans,
         \/ Lists!StartScan(c) \/ \E p \in c.dirs : Lists!ReadDir(c, p)
         \/ \E s \in c.files : Lists!ReadFile(c, s)
  PROVE  ListsInv'
<1>1. ListsTyped /\ ScanRight(c)
  BY DEF ListsInv, WorkRight
<1>2. /\ c \in Lists!Scans /\ c.of \in {"active", "archived"}
      /\ c.dirs \in SUBSET Projects /\ c.files \in SUBSET Sessions
      /\ c.got \in SUBSET Lists!Rows /\ c.started \in BOOLEAN
  BY <1>1 DEF ScanRight, Lists!Scans
<1>3. CASE Lists!StartScan(c)
  <2> DEFINE ds == {Cwd[s] : s \in Lists!At(c.of)}
             d == [c EXCEPT !.started = TRUE, !.dirs = ds]
  <2>1. c.got = {} /\ c.files = {} /\ ds \in SUBSET Projects
    BY <1>1, <1>3 DEF Lists!StartScan, ScanRight, Lists!ListsAssumption, Lists!At
  <2>2. \A s \in Lists!At(c.of) : Cwd[s] \in ds
    OBVIOUS
  <2>3. scans' = (scans \ {c}) \cup {d}
        /\ UNCHANGED <<Lists!disk, Lists!lists, menu, jobs, hidden>>
    BY <1>3 DEF Lists!StartScan, Lists!Becomes
  <2> HIDE DEF ds
  <2>4. /\ d \in Lists!Scans /\ d.of = c.of /\ d.dirs = ds /\ d.files = {} /\ d.got = {}
        /\ d.started = TRUE
    BY <1>2, <2>1 DEF Lists!Scans
  <2> HIDE DEF d
  <2>5. ReadBy(d) = {}
    BY <2>2, <2>4 DEF ReadBy
  <2>6. ScanRight(d)
    BY <2>4, <2>5 DEF ScanRight, RowsOf
  <2> QED BY <2>3, <2>4, <2>6, ListsScan
<1>4. ASSUME NEW p \in c.dirs, Lists!ReadDir(c, p) PROVE ListsInv'
  <2> DEFINE fs == Lists!Of(p) \cap Lists!At(c.of)
             d == [c EXCEPT !.dirs = @ \ {p}, !.files = fs]
  <2>1. c.started = TRUE /\ c.files = {} /\ c.got = RowsOf(name, ReadBy(c))
    BY <1>1, <1>2, <1>4 DEF Lists!ReadDir, ScanRight
  <2>2. fs \in SUBSET Sessions /\ fs \subseteq Lists!At(c.of)
    BY DEF Lists!At
  <2>3. \A s \in Sessions : s \in fs <=> s \in Lists!At(c.of) /\ Cwd[s] = p
    BY DEF Lists!Of
  <2>4. scans' = (scans \ {c}) \cup {d}
        /\ UNCHANGED <<Lists!disk, Lists!lists, menu, jobs, hidden>>
    BY <1>4 DEF Lists!ReadDir, Lists!Becomes
  <2> HIDE DEF fs
  <2>5. /\ d \in Lists!Scans /\ d.of = c.of /\ d.dirs = c.dirs \ {p} /\ d.files = fs
        /\ d.got = c.got /\ d.started = TRUE
    BY <1>2, <2>1, <2>2 DEF Lists!Scans
  <2> HIDE DEF d
  <2>6. ReadBy(d) = ReadBy(c)
    BY <2>1, <2>3, <2>5 DEF ReadBy, Lists!At
  <2>7. ScanRight(d)
    BY <2>1, <2>2, <2>3, <2>5, <2>6 DEF ScanRight
  <2> QED BY <2>4, <2>5, <2>7, ListsScan
<1>5. ASSUME NEW s \in c.files, Lists!ReadFile(c, s) PROVE ListsInv'
  <2> DEFINE g == c.got \cup {<<s, name[s]>>}
             d == [c EXCEPT !.files = @ \ {s}, !.got = g]
  <2>1. /\ c.started = TRUE /\ c.got = RowsOf(name, ReadBy(c)) /\ s \in Sessions
        /\ c.files \subseteq Lists!At(c.of) /\ \A u \in c.files : Cwd[u] \notin c.dirs
    BY <1>1, <1>2, <1>5 DEF ScanRight
  <2>2. g = RowsOf(name, ReadBy(c) \cup {s})
    BY <2>1 DEF RowsOf
  <2>3. g \in SUBSET Lists!Rows
    BY <1>1, <1>2, <2>1 DEF Lists!Rows, ListsTyped
  <2>4. place[s] = c.of
    BY <2>1 DEF Lists!At
  <2>5. scans' = (scans \ {c}) \cup {d}
        /\ UNCHANGED <<Lists!disk, Lists!lists, menu, jobs, hidden>>
    BY <1>5, <2>4 DEF Lists!ReadFile, Lists!Becomes
  <2> HIDE DEF g
  <2>6. /\ d \in Lists!Scans /\ d.of = c.of /\ d.dirs = c.dirs
        /\ d.files = c.files \ {s} /\ d.got = g /\ d.started = TRUE
    BY <1>2, <2>1, <2>3 DEF Lists!Scans
  <2> HIDE DEF d
  <2>7. ReadBy(d) = ReadBy(c) \cup {s}
    BY <2>1, <2>6 DEF ReadBy
  <2>8. ScanRight(d)
    BY <2>1, <2>2, <2>6, <2>7 DEF ScanRight
  <2> QED BY <2>5, <2>6, <2>8, ListsScan
<1> QED BY <1>3, <1>4, <1>5

LEMMA ListsListed ==
  ASSUME ListsInv, NEW c \in scans, Lists!Listed(c)
  PROVE  ListsInv'
<1>1. ListsTyped /\ MenuRight /\ WorkRight /\ ShownRight /\ ArchivedRight /\ ScanRight(c)
  BY DEF ListsInv, WorkRight
<1>2. /\ c.started /\ c.dirs = {} /\ c.files = {} /\ scans' = scans \ {c}
      /\ shown' = IF c.of = "active" THEN c.got ELSE shown
      /\ archived' = IF c.of = "archived" THEN c.got ELSE archived
      /\ hidden' = IF c.of = "active" THEN {} ELSE hidden
      /\ UNCHANGED <<place, name, pins, pinned, menu, jobs>>
  BY DEF Lists!Listed, Lists!disk
<1>3. jobs = {}
  BY <1>1 DEF WorkRight
<1>4. c.got = RowsOf(name, Lists!At(c.of)) /\ c.got \subseteq Lists!Rows
  BY <1>1, <1>2 DEF ScanRight, ReadBy, Lists!Scans
<1>5. ListsTyped' /\ MenuRight'
  BY <1>1, <1>2, <1>4 DEF ListsTyped, MenuRight
<1>6. \A e : ScanRight(e) => ScanRight(e)'
  BY <1>2 DEF ScanRight, ReadBy, Lists!At
<1>7. WorkRight'
  BY <1>1, <1>2, <1>3, <1>6 DEF WorkRight
<1>8. \A o : Taken(o) = {} /\ Taken(o)' = {} /\ Lists!At(o)' = Lists!At(o)
  BY <1>2, <1>3 DEF Taken, Lists!At
<1>9. ShownRight'
  <2>1. CASE c.of = "active"
    <3>1. shown' = RowsOf(name, Lists!At("active")) /\ hidden' = {}
      BY <1>2, <1>4, <2>1
    <3> QED BY <1>2, <1>8, <3>1 DEF ShownRight
  <2>2. CASE c.of # "active"
    BY <1>1, <1>2, <1>8, <2>2 DEF ShownRight
  <2> QED BY <2>1, <2>2
<1>10. ArchivedRight'
  <2>1. CASE c.of = "archived"
    <3>1. archived' = RowsOf(name, Lists!At("archived"))
      BY <1>2, <1>4, <2>1
    <3> QED BY <1>2, <1>8, <3>1 DEF ArchivedRight
  <2>2. CASE c.of # "archived"
    BY <1>1, <1>2, <1>8, <2>2 DEF ArchivedRight
  <2> QED BY <2>1, <2>2
<1> QED BY <1>5, <1>7, <1>9, <1>10 DEF ListsInv

LEMMA ListsStep ==
  ASSUME Lists!ListsAssumption, ListsInv, [Lists!Next]_listsVars
  PROVE  ListsInv'
<1>1. CASE UNCHANGED listsVars
  BY <1>1 DEF listsVars, ListsInv, ListsTyped, MenuRight, WorkRight, JobRight, ScanRight,
     ReadBy, Lists!At, ShownRight, ArchivedRight, Taken, Lists!Of
<1> QED BY <1>1, ListsMenu, ListsAsk, ListsDone, ListsFailed, ListsRead, ListsListed
           DEF Lists!Next

LEMMA ListsInvKept == ASSUME ListsInv PROVE Lists!TypeOK /\ Lists!ListsTrue
<1>1. Lists!TypeOK
  BY DEF ListsInv, ListsTyped, MenuRight, OnSession, OnProject, WorkRight, JobRight,
     ScanRight, Lists!TypeOK, Lists!Asked
<1>2. Lists!ListsTrue
  <2> SUFFICES ASSUME jobs = {}, scans = {}
               PROVE  /\ shown = Lists!Without(Lists!RowsAt("active"), hidden)
                      /\ archived = Lists!RowsAt("archived") /\ pinned = pins
    BY DEF Lists!ListsTrue
  <2>1. \A o : Taken(o) = {}
    BY DEF Taken
  <2>2. \A w : Lists!RowsAt(w) = RowsOf(name, Lists!At(w))
    BY DEF Lists!RowsAt, RowsOf
  <2> QED BY <2>1, <2>2, WithoutRows DEF ListsInv, ListsTyped, ShownRight, ArchivedRight
<1> QED BY <1>1, <1>2
------------------------------------------------------------------------------
(***************************************************************************)
(* ReviewPane.  What is stored of a session is what was left of it, but    *)
(* for the tab in front; and no review holds more than one open file.      *)
(***************************************************************************)
Bare(p) == [p EXCEPT !.id = None]
Few(fs) == fs = {} \/ \E f \in Changed : fs = {f}
Single(r) == r \in Pane!Reviews /\ (r.open # None => Few(r.open))

PaneTyped ==
  /\ active \in Sessions \cup {None} /\ edits \subseteq Sessions
  /\ pane \in Pane!Panes /\ tab \in BOOLEAN
  /\ config \in [Sessions -> Pane!Panes \cup {None}]
  /\ left \in [Sessions -> Pane!Panes]
PaneLeft ==
  /\ active # None => Bare(pane) = left[active]
  /\ \A s \in Sessions :
       left[s] = IF config[s] = None THEN Pane!Blank ELSE Bare(config[s])
ReviewFew ==
  /\ Single(review) /\ Few(rows)
  /\ saved \in [Sessions -> Pane!Reviews \cup {None}]
  /\ \A s \in Sessions : saved[s] # None => Single(saved[s])
PaneInv == PaneTyped /\ PaneLeft /\ ReviewFew

LEMMA PaneRecords ==
  ASSUME Pane!PaneAssumption
  PROVE  /\ Pane!Fresh \in Pane!Panes /\ Pane!Blank \in Pane!Panes
         /\ Bare(Pane!Blank) = Pane!Blank /\ Single(Pane!NoReview)
         /\ None \notin Sessions /\ None \notin Pane!Panes
<1>1. Pane!Fresh \in Pane!Panes
  BY DEF Pane!Fresh, Pane!Panes, Pane!PaneAssumption
<1>2. Pane!Blank \in Pane!Panes /\ Pane!Blank.id = None
  BY <1>1 DEF Pane!Blank, Pane!Fresh, Pane!Panes
<1>3. Bare(Pane!Blank) = Pane!Blank
  BY <1>2 DEF Pane!Panes, Bare
<1>4. Single(Pane!NoReview)
  BY DEF Single, Pane!NoReview, Pane!Reviews, Pane!Opens
<1> QED BY <1>1, <1>2, <1>3, <1>4 DEF Pane!PaneAssumption

\* The tab in front is all that a stored pane may differ in.
LEMMA PaneIds ==
  ASSUME NEW p \in Pane!Panes, NEW i \in {"diff", None}
  PROVE  LET q == [p EXCEPT !.id = i] IN
         q \in Pane!Panes /\ Bare(q) = Bare(p) /\ q.closed = p.closed
         /\ q.id = i
  BY DEF Bare, Pane!Panes

LEMMA PaneWithId ==
  ASSUME NEW has \in BOOLEAN, NEW closed \in BOOLEAN, NEW i \in {"diff", None}
  PROVE  Pane!WithId(has, closed, i) \in {"diff", None}
  BY DEF Pane!WithId

LEMMA PaneWithTab ==
  ASSUME NEW has \in BOOLEAN, NEW closed \in BOOLEAN, NEW on \in BOOLEAN
  PROVE  Pane!WithTab(has, closed, on) \in BOOLEAN
  BY DEF Pane!WithTab

LEMMA FewPart ==
  ASSUME NEW S, NEW T, Few(S)
  PROVE  Few(S \cap T)
  BY DEF Few

LEMMA RowsFew ==
  ASSUME NEW r, Single(r), NEW es, es \subseteq Changed, NEW old, Few(old)
  PROVE  Few(Pane!Mounted(r, es)) /\ Few(Pane!Followed(r, es, old))
<1>1. r.open # None => Few(r.open \cap es)
  BY FewPart DEF Single
<1>2. Few(old \cap es)
  BY FewPart
<1>3. r.sel \in es => Few({r.sel})
  BY DEF Few
<1>4. Few({})
  BY DEF Few
<1>5. es # {} => (CHOOSE f \in es : TRUE) \in Changed
  OBVIOUS
<1>6. es # {} => Few({CHOOSE f \in es : TRUE})
  BY <1>5 DEF Few
<1> QED BY <1>1, <1>2, <1>3, <1>4, <1>6 DEF Pane!Mounted, Pane!Followed

LEMMA EntriesFiles ==
  ASSUME NEW s, NEW r
  PROVE  Pane!Entries(s, r) \subseteq Changed
  BY DEF Pane!Entries

LEMMA PaneInit == ASSUME Pane!PaneAssumption, Pane!Init PROVE PaneInv
<1>1. PaneTyped
  BY PaneRecords DEF Pane!Init, PaneTyped
<1>2. PaneLeft
  BY PaneRecords DEF Pane!Init, PaneLeft
<1>3. ReviewFew
  BY PaneRecords DEF Pane!Init, ReviewFew, Few
<1> QED BY <1>1, <1>2, <1>3 DEF PaneInv

\* Another session: its own pane is read before anything is stored under it.
LEMMA PaneActivate ==
  ASSUME Pane!PaneAssumption, PaneInv, NEW s \in Sessions, Pane!Activate(s)
  PROVE  PaneInv'
<1> DEFINE p == Pane!Restored(s)
           has == s \in edits
           first == has # (active \in edits)
           again == p.closed # pane.closed
           on == IF first THEN Pane!WithTab(has, pane.closed, tab) ELSE tab
           i == IF first THEN Pane!WithId(has, pane.closed, p.id) ELSE p.id
           last2 == IF again THEN Pane!WithId(has, p.closed, i) ELSE i
<1>1. PaneTyped /\ PaneLeft /\ ReviewFew
  BY DEF PaneInv
<1>2. p \in Pane!Panes /\ Bare(p) = left[s]
  <2> DEFINE c == IF config[s] = None THEN Pane!Blank ELSE config[s]
             k == IF c.id = None THEN pane.id ELSE c.id
  <2>1. c \in Pane!Panes /\ Bare(c) = left[s]
    BY <1>1, PaneRecords DEF PaneTyped, PaneLeft
  <2>2. k \in {"diff", None}
    BY <1>1, <2>1 DEF PaneTyped, Pane!Panes
  <2>3. p = [c EXCEPT !.id = k]
    BY DEF Pane!Restored
  <2> HIDE DEF c, k
  <2> QED BY <2>1, <2>2, <2>3, PaneIds
<1>3. /\ active' = s /\ pane' = [p EXCEPT !.id = last2]
      /\ tab' = IF again THEN Pane!WithTab(has, p.closed, on) ELSE on
      /\ config' = [config EXCEPT ![s] = pane']
      /\ review' = Pane!RestoredReview(s) /\ edits' = edits
      /\ rows' = Pane!Mounted(review', Pane!Entries(s, review'))
      /\ saved' = saved /\ left' = left
  BY DEF Pane!Activate
<1> HIDE DEF p
<1>4. p.closed \in BOOLEAN /\ pane.closed \in BOOLEAN /\ has \in BOOLEAN
      /\ p.id \in {"diff", None} /\ tab \in BOOLEAN
  BY <1>1, <1>2 DEF PaneTyped, Pane!Panes
<1> HIDE DEF has
<1>5. i \in {"diff", None} /\ on \in BOOLEAN
  BY <1>4, PaneWithId, PaneWithTab
<1> HIDE DEF i, on
<1>6. last2 \in {"diff", None} /\ tab' \in BOOLEAN
  BY <1>3, <1>4, <1>5, PaneWithId, PaneWithTab
<1> HIDE DEF last2
<1>7. pane' \in Pane!Panes /\ Bare(pane') = left[s]
  BY <1>2, <1>3, <1>6, PaneIds
<1>8. PaneTyped'
  BY <1>1, <1>3, <1>6, <1>7 DEF PaneTyped
<1>9. PaneLeft'
  BY <1>1, <1>3, <1>7, PaneRecords DEF PaneTyped, PaneLeft
<1>10. Single(review')
  <2>1. CASE saved[s] = None
    BY <1>1, <1>3, <2>1 DEF ReviewFew, Single, Pane!RestoredReview, Pane!NoReview,
       Pane!Reviews, Pane!Opens
  <2>2. CASE saved[s] # None
    <3> DEFINE v == saved[s]
    <3>1. Single(v)
      BY <1>1, <2>2 DEF ReviewFew
    <3>2. review' = [v EXCEPT !.sel = IF @ = None THEN review.sel ELSE @]
      BY <1>3, <2>2 DEF Pane!RestoredReview
    <3> HIDE DEF v
    <3>3. review.sel \in Changed \cup {None}
      BY <1>1 DEF ReviewFew, Single, Pane!Reviews
    <3> QED BY <3>1, <3>2, <3>3 DEF Single, Pane!Reviews
  <2> QED BY <2>1, <2>2
<1>11. ReviewFew'
  BY <1>1, <1>3, <1>10, RowsFew, EntriesFiles DEF ReviewFew
<1> QED BY <1>8, <1>9, <1>11 DEF PaneInv

\* What the user did counts as left so, and is stored.
LEMMA PaneStored ==
  ASSUME Pane!PaneAssumption, PaneTyped, PaneLeft,
         pane' \in Pane!Panes, Pane!Stored(pane'), active' = active,
         edits' = edits, tab' \in BOOLEAN
  PROVE  PaneTyped' /\ PaneLeft'
<1>1. [pane' EXCEPT !.id = None] \in Pane!Panes
  BY PaneIds
<1>2. PaneTyped'
  BY <1>1 DEF PaneTyped, Pane!Stored
<1>3. PaneLeft'
  BY <1>1, PaneRecords DEF PaneTyped, PaneLeft, Pane!Stored, Bare
<1> QED BY <1>2, <1>3

LEMMA PaneUser ==
  ASSUME Pane!PaneAssumption, PaneInv,
         \/ Pane!ToggleCollapse \/ Pane!CloseTab
         \/ \E w \in Widths : Pane!Drag(w)
         \/ \E t \in Reviewed : \E f \in Changed : Pane!OpenFileDiff(t, f)
  PROVE  PaneInv'
<1>1. PaneTyped /\ PaneLeft /\ ReviewFew
  BY DEF PaneInv
<1>2. pane \in Pane!Panes /\ active \in Sessions \cup {None}
  BY <1>1 DEF PaneTyped
<1>3. CASE Pane!ToggleCollapse
  <2>1. pane' \in Pane!Panes
    BY <1>2, <1>3 DEF Pane!ToggleCollapse, Pane!Panes
  <2>2. PaneTyped' /\ PaneLeft'
    BY <1>1, <1>3, <2>1, PaneStored DEF Pane!ToggleCollapse, PaneTyped
  <2>3. ReviewFew'
    BY <1>1, <1>3, RowsFew, EntriesFiles DEF Pane!ToggleCollapse, ReviewFew
  <2> QED BY <2>2, <2>3 DEF PaneInv
<1>4. CASE Pane!CloseTab
  <2>1. pane' \in Pane!Panes
    BY <1>2, <1>4 DEF Pane!CloseTab, Pane!Panes
  <2>2. PaneTyped' /\ PaneLeft'
    BY <1>1, <1>4, <2>1, PaneStored DEF Pane!CloseTab
  <2>3. ReviewFew'
    BY <1>1, <1>4 DEF Pane!CloseTab, ReviewFew, Few
  <2> QED BY <2>2, <2>3 DEF PaneInv
<1>5. ASSUME NEW w \in Widths, Pane!Drag(w) PROVE PaneInv'
  <2>1. pane' \in Pane!Panes
    BY <1>2, <1>5 DEF Pane!Drag, Pane!Panes
  <2>2. PaneTyped' /\ PaneLeft'
    BY <1>1, <1>5, <2>1, PaneStored DEF Pane!Drag, PaneTyped
  <2>3. ReviewFew'
    BY <1>1, <1>5 DEF Pane!Drag, ReviewFew
  <2> QED BY <2>2, <2>3 DEF PaneInv
<1>6. ASSUME NEW t \in Reviewed, NEW f \in Changed, Pane!OpenFileDiff(t, f)
      PROVE  PaneInv'
  <2>1. pane' \in Pane!Panes
    BY <1>2, <1>6 DEF Pane!OpenFileDiff, Pane!Panes
  <2>2. PaneTyped' /\ PaneLeft'
    BY <1>1, <1>6, <2>1, PaneStored DEF Pane!OpenFileDiff
  <2>3. Single(review') /\ Few(rows')
    BY <1>6 DEF Pane!OpenFileDiff, Single, Few, Pane!Reviews, Pane!Opens
  <2>4. ReviewFew'
    BY <1>1, <1>2, <1>6, <2>3 DEF Pane!OpenFileDiff, ReviewFew, Single
  <2> QED BY <2>2, <2>4 DEF PaneInv
<1> QED BY <1>3, <1>4, <1>5, <1>6

LEMMA PaneRest ==
  ASSUME Pane!PaneAssumption, PaneInv,
         \/ Pane!Welcome \/ Pane!ItemsChange \/ Pane!Reload
         \/ \E s \in Sessions : Pane!EditsArrive(s)
         \/ \E f \in Changed : Pane!ToggleRow(f)
  PROVE  PaneInv'
<1>1. PaneTyped /\ PaneLeft /\ ReviewFew
  BY DEF PaneInv
<1>2. /\ pane \in Pane!Panes /\ active \in Sessions \cup {None}
      /\ pane.id \in {"diff", None} /\ pane.closed \in BOOLEAN /\ tab \in BOOLEAN
  BY <1>1 DEF PaneTyped, Pane!Panes
<1>3. CASE Pane!Welcome
  <2>1. pane' \in Pane!Panes
    BY <1>2, <1>3, PaneIds, PaneWithId DEF Pane!Welcome
  <2>2. PaneTyped' /\ PaneLeft'
    BY <1>1, <1>3, <2>1 DEF Pane!Welcome, PaneTyped, PaneLeft
  <2>3. ReviewFew'
    BY <1>1, <1>3 DEF Pane!Welcome, ReviewFew, Few
  <2> QED BY <2>2, <2>3 DEF PaneInv
<1>4. CASE Pane!ItemsChange
  <2>1. PaneTyped' /\ PaneLeft'
    BY <1>1, <1>4 DEF Pane!ItemsChange, PaneTyped, PaneLeft
  <2>2. ReviewFew'
    BY <1>1, <1>4, RowsFew, EntriesFiles DEF Pane!ItemsChange, ReviewFew
  <2> QED BY <2>1, <2>2 DEF PaneInv
<1>5. CASE Pane!Reload
  <2>1. PaneTyped' /\ PaneLeft'
    BY <1>1, <1>5, PaneRecords DEF Pane!Reload, PaneTyped, PaneLeft
  <2>2. ReviewFew'
    BY <1>1, <1>5, PaneRecords DEF Pane!Reload, ReviewFew, Few
  <2> QED BY <2>1, <2>2 DEF PaneInv
<1>6. ASSUME NEW s \in Sessions, Pane!EditsArrive(s) PROVE PaneInv'
  <2>1. CASE s = active
    <3>1. /\ pane' = [pane EXCEPT !.id = Pane!WithId(TRUE, pane.closed, pane.id)]
          /\ tab' = Pane!WithTab(TRUE, pane.closed, tab)
          /\ config' = [config EXCEPT ![s] = pane'] /\ left' = left
          /\ edits' = edits \cup {s} /\ active' = active
      BY <1>6, <2>1 DEF Pane!EditsArrive
    <3>2. pane' \in Pane!Panes /\ Bare(pane') = Bare(pane)
      BY <1>2, <3>1, PaneIds, PaneWithId
    <3>3. PaneTyped'
      BY <1>1, <1>2, <3>1, <3>2, PaneWithTab DEF PaneTyped
    <3>4. PaneLeft'
      BY <1>1, <2>1, <3>1, <3>2, PaneRecords DEF PaneTyped, PaneLeft
    <3>5. ReviewFew'
      BY <1>1, <1>6, <2>1, RowsFew, EntriesFiles DEF Pane!EditsArrive, ReviewFew
    <3> QED BY <3>3, <3>4, <3>5 DEF PaneInv
  <2>2. CASE s # active
    <3>1. PaneTyped' /\ PaneLeft'
      BY <1>1, <1>6, <2>2 DEF Pane!EditsArrive, PaneTyped, PaneLeft
    <3>2. ReviewFew'
      BY <1>1, <1>6, <2>2 DEF Pane!EditsArrive, ReviewFew
    <3> QED BY <3>1, <3>2 DEF PaneInv
  <2> QED BY <2>1, <2>2
<1>7. ASSUME NEW f \in Changed, Pane!ToggleRow(f) PROVE PaneInv'
  <2>1. PaneTyped' /\ PaneLeft'
    BY <1>1, <1>7 DEF Pane!ToggleRow, PaneTyped, PaneLeft
  <2>2. Few(rows') /\ rows' \in SUBSET Changed
    BY <1>7 DEF Pane!ToggleRow, Few
  <2>3. Single(review')
    BY <1>1, <1>7, <2>2 DEF Pane!ToggleRow, ReviewFew, Single, Pane!Reviews, Pane!Opens
  <2>4. Single([review EXCEPT !.open = rows'])
    BY <1>1, <2>2 DEF ReviewFew, Single, Pane!Reviews, Pane!Opens
  <2>5. ReviewFew'
    BY <1>1, <1>2, <1>7, <2>2, <2>3, <2>4 DEF Pane!ToggleRow, ReviewFew, Single
  <2> QED BY <2>1, <2>5 DEF PaneInv
<1> QED BY <1>3, <1>4, <1>5, <1>6, <1>7

LEMMA PaneStep ==
  ASSUME Pane!PaneAssumption, PaneInv, [Pane!Next]_paneVars
  PROVE  PaneInv'
<1>1. CASE UNCHANGED paneVars
  BY <1>1 DEF paneVars, PaneInv, PaneTyped, PaneLeft, ReviewFew
<1>2. CASE Pane!Next
  BY <1>2, PaneActivate, PaneUser, PaneRest DEF Pane!Next
<1> QED BY <1>1, <1>2

LEMMA PaneInvKept == ASSUME PaneInv PROVE Pane!TypeOK /\ Pane!PaneKept
<1>1. Pane!TypeOK
  BY DEF PaneInv, PaneTyped, ReviewFew, Single, Few, Pane!TypeOK
<1>2. Cardinality(rows) <= 1
  <2>1. CASE rows = {}
    BY <2>1, FS_EmptySet
  <2>2. ASSUME NEW f \in Changed, rows = {f} PROVE Cardinality(rows) <= 1
    BY <2>2, FS_Singleton
  <2> QED BY <2>1, <2>2 DEF PaneInv, ReviewFew, Few
<1>3. active # None => [pane EXCEPT !.id = None] = left[active]
  BY DEF PaneInv, PaneLeft, Bare
<1>4. Pane!Cardinality(rows) = Cardinality(rows)
  BY Zenon DEF Pane!Cardinality, Cardinality
<1> QED BY <1>1, <1>2, <1>3, <1>4 DEF Pane!PaneKept
------------------------------------------------------------------------------
(***************************************************************************)
(* Autoscroll.  Who went up is locked, and no jump is on its way; between  *)
(* a move of the view and its event only those moves come that keep the    *)
(* view off the bottom, so the event does not unlock it.                   *)
(***************************************************************************)
AtEnd == Scroll!AtBottom(top, max)

Positions ==
  /\ max \in 0 .. MaxTop /\ top \in 0 .. max /\ last \in 0 .. MaxTop
  /\ target \in 0 .. MaxTop
ScrollTyped ==
  /\ Positions /\ program \in {"none", "snap", "chase", "glide"}
  /\ near \in BOOLEAN /\ locked \in BOOLEAN /\ event \in BOOLEAN
  /\ away \in BOOLEAN
LockHolds ==
  /\ ~event => last = top /\ (near <=> AtEnd)
  /\ away => locked /\ program \in {"none", "glide"}
  /\ away /\ event /\ program = "none" => ~AtEnd
  /\ pulled \subseteq {"glide"}

ScrollInv == ScrollTyped /\ LockHolds

LEMMA Heights ==
  Scroll!ScrollAssumption => MaxTop \in Nat /\ Near \in Nat /\ PageTop \in Nat
  BY DEF Scroll!ScrollAssumption

LEMMA ScrollInit == ASSUME Scroll!ScrollAssumption, Scroll!Init PROVE ScrollInv
<1>1. Positions
  BY Heights DEF Scroll!Init, Positions
<1>3. ScrollTyped
  BY <1>1 DEF Scroll!Init, ScrollTyped
<1>2. LockHolds
  BY Heights DEF Scroll!Init, LockHolds, AtEnd, Scroll!AtBottom
<1> QED BY <1>2, <1>3 DEF ScrollInv

\* The code moves the view to the bottom only while it is not locked.
LEMMA SnapInv ==
  ASSUME Scroll!ScrollAssumption, ScrollInv, NEW m \in 0 .. MaxTop, ~locked,
         Scroll!Snap(m), max' = m
  PROVE  ScrollInv'
<1>1. ~away
  BY DEF ScrollInv, LockHolds
<1>2. ScrollTyped'
  BY <1>1, Heights DEF ScrollInv, ScrollTyped, Positions, Scroll!Snap,
     Scroll!Moved
<1>3. /\ top' = m /\ near' = TRUE /\ program' = "snap" /\ locked' = locked
      /\ last' = last /\ away' = away /\ event' = (event \/ m # top) /\ pulled' = pulled
  BY <1>1 DEF ScrollInv, LockHolds, Scroll!Snap, Scroll!Moved
<1>4. AtEnd'
  BY <1>3, Heights DEF AtEnd, Scroll!AtBottom
<1>5. LockHolds'
  BY <1>1, <1>3, <1>4 DEF ScrollInv, LockHolds
<1> QED BY <1>2, <1>5 DEF ScrollInv

LEMMA HeightInv ==
  ASSUME Scroll!ScrollAssumption, ScrollInv,
         \/ Scroll!ToBottom
         \/ \E k \in 1 .. MaxTop : Scroll!Grow(k) \/ Scroll!Shrink(k) \/ Scroll!Prepend(k)
  PROVE  ScrollInv'
<1> USE Heights
<1>1. ScrollTyped /\ LockHolds
  BY DEF ScrollInv
<1>2. CASE Scroll!ToBottom
  <2>1. CASE locked
    BY <1>1, <1>2, <2>1 DEF Scroll!ToBottom, Scroll!vars, ScrollInv, ScrollTyped, Positions,
       LockHolds, AtEnd, Scroll!AtBottom
  <2>2. CASE ~locked
    BY <1>1, <1>2, <2>2, SnapInv DEF Scroll!ToBottom, ScrollTyped, Positions
  <2> QED BY <2>1, <2>2
<1>3. ASSUME NEW k \in 1 .. MaxTop, Scroll!Grow(k) PROVE ScrollInv'
  <2>1. max + k \in 0 .. MaxTop /\ max' = max + k
    BY <1>1, <1>3 DEF Scroll!Grow, ScrollTyped, Positions
  <2>2. CASE Scroll!Follows
    BY <1>3, <2>1, <2>2, SnapInv DEF Scroll!Grow, Scroll!Follows
  <2>3. CASE ~Scroll!Follows
    <3>1. near' = Scroll!AtBottom(top, max + k) /\ top' = top /\ Scroll!Owned
      BY <1>3, <2>3 DEF Scroll!Grow
    <3>2. ScrollTyped'
      BY <1>1, <2>1, <3>1 DEF Scroll!Owned, ScrollTyped, Positions, Scroll!AtBottom
    <3>3. LockHolds'
      BY <1>1, <2>1, <3>1 DEF Scroll!Owned, ScrollTyped, Positions, LockHolds, AtEnd,
         Scroll!AtBottom
    <3> QED BY <3>2, <3>3 DEF ScrollInv
  <2> QED BY <2>2, <2>3
<1>4. ASSUME NEW k \in 1 .. MaxTop, Scroll!Shrink(k) PROVE ScrollInv'
  <2> DEFINE t == IF top > max - k THEN max - k ELSE top
  <2>1. /\ k <= max /\ max' = max - k /\ top' = t /\ event' = (event \/ t # top)
        /\ near' = Scroll!AtBottom(t, max - k) /\ away' = (away /\ ~near')
        /\ UNCHANGED <<last, locked, program, target, pulled>>
    BY <1>4 DEF Scroll!Shrink
  <2>2. t \in 0 .. max - k /\ max - k \in 0 .. MaxTop
    BY <1>1, <2>1 DEF ScrollTyped, Positions
  <2> HIDE DEF t
  <2>3. ScrollTyped'
    BY <1>1, <2>1, <2>2 DEF ScrollTyped, Positions, Scroll!AtBottom
  <2>4. LockHolds'
    BY <1>1, <2>1, <2>2 DEF ScrollTyped, Positions, LockHolds, AtEnd, Scroll!AtBottom
  <2> QED BY <2>3, <2>4 DEF ScrollInv
<1>5. ASSUME NEW k \in 1 .. MaxTop, Scroll!Prepend(k) PROVE ScrollInv'
  <2>1. ScrollTyped'
    BY <1>1, <1>5 DEF Scroll!Prepend, ScrollTyped, Positions
  <2>2. LockHolds'
    BY <1>1, <1>5 DEF Scroll!Prepend, ScrollTyped, Positions, LockHolds, AtEnd,
       Scroll!AtBottom
  <2> QED BY <2>1, <2>2 DEF ScrollInv
<1> QED BY <1>2, <1>3, <1>4, <1>5

LEMMA HandledType ==
  ASSUME ScrollTyped, NEW t, Scroll!Handled(t)
  PROVE  near' \in BOOLEAN /\ locked' \in BOOLEAN /\ event' = FALSE /\ last' = t
<1>1. near' \in BOOLEAN
  BY DEF Scroll!Handled, Scroll!AtBottom
<1>2. locked \in BOOLEAN
  BY DEF ScrollTyped, Positions
<1>3. locked' = locked \/ locked' \in BOOLEAN
  BY DEF Scroll!Handled, Scroll!GoesUp
<1> QED BY <1>1, <1>2, <1>3 DEF Scroll!Handled

LEMMA HandInv ==
  ASSUME Scroll!ScrollAssumption, ScrollInv,
         \/ Scroll!ScrollEvent \/ Scroll!Jump
         \/ \E t \in 0 .. MaxTop : Scroll!UserScroll(t) \/ Scroll!Glide(t)
  PROVE  ScrollInv'
<1> USE Heights
<1>1. ScrollTyped /\ LockHolds
  BY DEF ScrollInv
<1>2. CASE Scroll!ScrollEvent
  <2>1. ScrollTyped'
    <3>0. last' = top /\ UNCHANGED <<max, top, target>>
      BY <1>2 DEF Scroll!ScrollEvent, Scroll!Handled
    <3>1. Positions'
      BY <1>1, <3>0 DEF ScrollTyped, Positions
    <3> QED BY <1>1, <1>2, <3>1, HandledType DEF Scroll!ScrollEvent, ScrollTyped
  <2>2. LockHolds'
    BY <1>1, <1>2 DEF Scroll!ScrollEvent, Scroll!Handled, ScrollTyped, Positions, LockHolds,
       AtEnd, Scroll!AtBottom, Scroll!GoesUp
  <2> QED BY <2>1, <2>2 DEF ScrollInv
<1>3. CASE Scroll!Jump
  BY <1>1, <1>3 DEF Scroll!Jump, ScrollTyped, Positions, ScrollInv, LockHolds, AtEnd,
     Scroll!AtBottom
<1>4. ASSUME NEW t \in 0 .. MaxTop, Scroll!UserScroll(t) PROVE ScrollInv'
  <2>1. ScrollTyped'
    <3>1. away' \in BOOLEAN
      BY <1>1, <1>4 DEF Scroll!UserScroll, ScrollTyped, Positions, Scroll!AtBottom
    <3>0. last' = t /\ top' = t /\ t \in 0 .. max /\ UNCHANGED <<max, target>>
      BY <1>4 DEF Scroll!UserScroll, Scroll!Handled
    <3>2. Positions'
      BY <1>1, <3>0 DEF ScrollTyped, Positions
    <3> QED BY <1>1, <1>4, <3>1, <3>2, HandledType DEF Scroll!UserScroll, ScrollTyped
  <2>2. LockHolds'
    BY <1>1, <1>4 DEF Scroll!UserScroll, Scroll!Handled, ScrollTyped, Positions, LockHolds,
       AtEnd, Scroll!AtBottom, Scroll!GoesUp
  <2> QED BY <2>1, <2>2 DEF ScrollInv
<1>5. ASSUME NEW t \in 0 .. MaxTop, Scroll!Glide(t) PROVE ScrollInv'
  BY <1>1, <1>5 DEF Scroll!Glide, ScrollTyped, Positions, ScrollInv, LockHolds, AtEnd,
     Scroll!AtBottom
<1> QED BY <1>2, <1>3, <1>4, <1>5

LEMMA FrameInv ==
  ASSUME Scroll!ScrollAssumption, ScrollInv, Scroll!Frame
  PROVE  ScrollInv'
<1> USE Heights
<1> DEFINE goal == CASE program = "chase" -> max [] program = "glide" -> target
                     [] OTHER -> top
           t == IF goal > max THEN max ELSE goal
<1>1. ScrollTyped /\ LockHolds
  BY DEF ScrollInv
<1>2. /\ program # "none" /\ ~event /\ top' = t /\ event' = (t # top)
      /\ program' = IF t = top THEN "none" ELSE program
      /\ pulled' = IF away /\ t > top THEN pulled \cup {program} ELSE pulled
      /\ away' = (away /\ ~Scroll!AtBottom(t, max))
      /\ UNCHANGED <<max, last, near, locked, target>>
  BY DEF Scroll!Frame, Scroll!Moved
<1>3. goal \in 0 .. MaxTop
  BY <1>1 DEF ScrollTyped, Positions
<1>4. t \in 0 .. max
  <2> HIDE DEF goal
  <2> QED BY <1>1, <1>3 DEF ScrollTyped, Positions
<1> HIDE DEF t
<1>5. ScrollTyped'
  BY <1>1, <1>2, <1>4 DEF ScrollTyped, Positions
<1>7. pulled' \subseteq {"glide"}
  BY <1>1, <1>2 DEF LockHolds
<1>6. LockHolds'
  BY <1>1, <1>2, <1>4, <1>7 DEF ScrollTyped, Positions, LockHolds, AtEnd, Scroll!AtBottom
<1> QED BY <1>5, <1>6 DEF ScrollInv

LEMMA ScrollStep ==
  ASSUME Scroll!ScrollAssumption, ScrollInv, [Scroll!Next]_scrollVars
  PROVE  ScrollInv'
<1>1. CASE UNCHANGED scrollVars
  BY <1>1 DEF scrollVars, ScrollInv, ScrollTyped, Positions, LockHolds, AtEnd, Scroll!AtBottom
<1> QED BY <1>1, HeightInv, HandInv, FrameInv DEF Scroll!Next

LEMMA ScrollInvKept == ScrollInv => Scroll!TypeOK /\ Scroll!LockKept
  BY DEF ScrollInv, ScrollTyped, LockHolds, Scroll!TypeOK, Positions, Scroll!LockKept
------------------------------------------------------------------------------
(***************************************************************************)
(* ModelChoice.  What a session shows is what the last choice on the way   *)
(* will make of the engine, or what the engine has when none is; and no    *)
(* choice comes after an answer that is not late.                          *)
(***************************************************************************)
ChoiceOps == {"model", "first"}
ChoiceAsks ==
  {r \in [op : {"info", "level", "model", "first"}, s : Sessions,
          v : Models \cup Choice!Levels \cup {None}, late : BOOLEAN] :
     /\ r.op \in ChoiceOps => r.v \in Models
     /\ r.op = "level" => r.v \in Choice!Levels}
ChoiceAnswers == [op : {"info", "first"}, s : Sessions, v : Models,
                  level : Choice!Levels, late : BOOLEAN]

ChoiceTyped ==
  /\ chosenIn \in Choice!Existing \cup {None} /\ raced \subseteq Choice!Existing
  /\ pending \in Models \cup {None} /\ (chosenIn = None => pending # None)
  /\ info \in [Sessions -> Models \cup {None}]
  /\ model \in [Sessions -> Models \cup {None}]
  /\ level \in [Sessions -> Choice!Levels \cup {None}]
  /\ thinking \in [Sessions -> Choice!Levels \cup {None}]
  /\ \A s \in Sessions :
       IF model[s] = None THEN info[s] = None /\ level[s] = None
       ELSE thinking[s] \in Choice!Levels
  /\ asked \in 0 .. MaxChoices
WayTyped ==
  /\ choices \in Seq(ChoiceAsks) /\ told \in Seq(ChoiceAnswers)
  /\ \A i \in DOMAIN choices : model[choices[i].s] # None
  /\ \A i \in DOMAIN told : model[told[i].s] # None

\* The requests of some kinds about a session; what they come to.
Asking(q, k, s) == {i \in DOMAIN q : q[i].s = s /\ q[i].op \in k}
ComesTo(q, k, s, is, now) ==
  /\ \A i \in Asking(q, k, s) : (\A j \in Asking(q, k, s) : j <= i) => q[i].v = is
  /\ Asking(q, k, s) = {} => is = now

ShownNext(s) ==
  /\ info[s] # None => ComesTo(choices, ChoiceOps, s, info[s], model[s])
  /\ level[s] # None => ComesTo(choices, {"level"}, s, level[s], thinking[s])
NoneAfter(q) ==
  \A i, j \in DOMAIN q :
    i < j /\ q[i].op = "info" /\ ~q[i].late /\ q[j].s = q[i].s => q[j].op = "info"
Timely(a) ==
  a.op = "info" /\ ~a.late =>
    /\ a.v = model[a.s] /\ a.level = thinking[a.s]
    /\ \A i \in DOMAIN choices : choices[i].s = a.s => choices[i].op = "info"

ChoiceInv ==
  /\ ChoiceTyped /\ WayTyped /\ NoneAfter(choices)
  /\ \A i \in DOMAIN told : Timely(told[i])
  /\ \A s \in Sessions \ raced : ShownNext(s)

------------------------------------------------------------------------------
\* Sequences by their elements.
LEMMA SeqAppend ==
  ASSUME NEW R, NEW q \in Seq(R), NEW r \in R
  PROVE  /\ Append(q, r) \in Seq(R) /\ Len(q) \in Nat /\ DOMAIN q = 1 .. Len(q)
         /\ DOMAIN Append(q, r) = 1 .. Len(q) + 1
         /\ \A i \in 1 .. Len(q) : i \in 1 .. Len(q) + 1 /\ Append(q, r)[i] = q[i]
         /\ Append(q, r)[Len(q) + 1] = r /\ Len(q) + 1 \in 1 .. Len(q) + 1
         /\ \A i \in 1 .. Len(q) + 1 : i \in 1 .. Len(q) \/ i = Len(q) + 1
  OBVIOUS

LEMMA SeqTail ==
  ASSUME NEW R, NEW q \in Seq(R), q # <<>>
  PROVE  /\ Tail(q) \in Seq(R) /\ Head(q) \in R /\ Head(q) = q[1]
         /\ 1 \in DOMAIN q /\ Len(q) \in Nat \ {0} /\ DOMAIN q = 1 .. Len(q)
         /\ DOMAIN Tail(q) = 1 .. Len(q) - 1
         /\ \A i \in 1 .. Len(q) - 1 : Tail(q)[i] = q[i + 1] /\ i + 1 \in 1 .. Len(q)
         /\ \A i \in 1 .. Len(q) : i = 1 \/ (i - 1 \in 1 .. Len(q) - 1 /\ (i - 1) + 1 = i)
  OBVIOUS

\* One more request: one of these kinds is what they come to.
LEMMA ComesAppend ==
  ASSUME NEW R, NEW q \in Seq(R), NEW r \in R, NEW k, NEW s, NEW is, NEW now
  PROVE  /\ r.s = s /\ r.op \in k => ComesTo(Append(q, r), k, s, r.v, now)
         /\ ~(r.s = s /\ r.op \in k) /\ ComesTo(q, k, s, is, now)
              => ComesTo(Append(q, r), k, s, is, now)
<1> DEFINE p == Append(q, r)
           len == Len(q)
<1>1. /\ len \in Nat /\ DOMAIN q = 1 .. len /\ DOMAIN p = 1 .. len + 1
      /\ \A i \in 1 .. len : i \in 1 .. len + 1 /\ p[i] = q[i]
      /\ p[len + 1] = r /\ len + 1 \in 1 .. len + 1
      /\ \A i \in 1 .. len + 1 : i \in 1 .. len \/ i = len + 1
  BY SeqAppend
<1> HIDE DEF p, len
<1>2. ASSUME r.s = s, r.op \in k PROVE ComesTo(p, k, s, r.v, now)
  <2>1. len + 1 \in Asking(p, k, s)
    BY <1>1, <1>2 DEF Asking
  <2>2. ASSUME NEW i \in Asking(p, k, s), \A j \in Asking(p, k, s) : j <= i
        PROVE  p[i].v = r.v
    <3>1. i \in 1 .. len + 1 /\ len + 1 <= i
      BY <1>1, <2>1, <2>2 DEF Asking
    <3>2. i = len + 1
      BY <1>1, <3>1
    <3> QED BY <1>1, <3>2
  <2> QED BY <2>1, <2>2 DEF ComesTo
<1>3. ASSUME ~(r.s = s /\ r.op \in k), ComesTo(q, k, s, is, now)
      PROVE  ComesTo(p, k, s, is, now)
  <2>1. Asking(p, k, s) = Asking(q, k, s) /\ \A i \in Asking(q, k, s) : p[i] = q[i]
    BY <1>1, <1>3 DEF Asking
  <2> QED BY <1>3, <2>1 DEF ComesTo
<1> QED BY <1>2, <1>3 DEF p

\* The elements of a sequence that one is taken out of.
Up(k, i) == IF i < k THEN i ELSE i + 1
Down(k, i) == IF i < k THEN i ELSE i - 1
LEMMA SeqWithout ==
  ASSUME NEW R, NEW q \in Seq(R), NEW nth \in 1 .. Len(q)
  PROVE  LET p == Choice!RemoveAt(q, nth) IN
         /\ p \in Seq(R) /\ Len(q) \in Nat /\ DOMAIN q = 1 .. Len(q)
         /\ DOMAIN p = 1 .. Len(q) - 1
         /\ \A i \in 1 .. Len(q) - 1 :
              /\ p[i] = q[Up(nth, i)] /\ Up(nth, i) \in 1 .. Len(q) /\ Up(nth, i) # nth
         /\ \A i \in 1 .. Len(q) : i # nth =>
              Down(nth, i) \in 1 .. Len(q) - 1 /\ Up(nth, Down(nth, i)) = i
<1> DEFINE u == SubSeq(q, 1, nth - 1)
           v == SubSeq(q, nth + 1, Len(q))
           p == Choice!RemoveAt(q, nth)
           len == Len(q)
<1>1. len \in Nat /\ nth \in 1 .. len /\ DOMAIN q = 1 .. len
  OBVIOUS
<1>2. u \in Seq(R) /\ Len(u) = nth - 1 /\ \A i \in 1 .. nth - 1 : u[i] = q[i]
  OBVIOUS
<1>3. v \in Seq(R) /\ Len(v) = len - nth
      /\ \A i \in 1 .. len - nth : v[i] = q[nth + i]
  OBVIOUS
<1>4. p = u \o v
  BY DEF Choice!RemoveAt
<1> HIDE DEF u, v
<1>5. /\ u \o v \in Seq(R) /\ Len(u \o v) = Len(u) + Len(v)
      /\ \A i \in 1 .. Len(u) + Len(v) :
           (u \o v)[i] = IF i <= Len(u) THEN u[i] ELSE v[i - Len(u)]
  BY <1>2, <1>3, ConcatProperties
<1>6. /\ p \in Seq(R) /\ Len(p) = len - 1
      /\ \A i \in 1 .. len - 1 :
           p[i] = IF i <= nth - 1 THEN u[i] ELSE v[i - (nth - 1)]
  <2>1. Len(u) + Len(v) = len - 1
    BY <1>1, <1>2, <1>3
  <2> HIDE DEF p, len
  <2> QED BY <1>2, <1>4, <1>5, <2>1
<1> HIDE DEF p, len
<1>7. ASSUME NEW i \in 1 .. len - 1
      PROVE  p[i] = q[Up(nth, i)] /\ Up(nth, i) \in 1 .. len /\ Up(nth, i) # nth
  <2>1. CASE i < nth
    <3>1. i \in 1 .. nth - 1 /\ i <= nth - 1 /\ Up(nth, i) = i /\ i \in 1 .. len
          /\ i # nth
      BY <1>1, <2>1 DEF Up
    <3> QED BY <1>2, <1>6, <3>1
  <2>2. CASE ~(i < nth)
    <3>1. /\ ~(i <= nth - 1) /\ i - (nth - 1) \in 1 .. len - nth
          /\ nth + (i - (nth - 1)) = i + 1 /\ Up(nth, i) = i + 1
          /\ i + 1 \in 1 .. len /\ i + 1 # nth
      BY <1>1, <2>2 DEF Up
    <3>2. p[i] = v[i - (nth - 1)] /\ v[i - (nth - 1)] = q[i + 1]
      BY <1>3, <1>6, <3>1
    <3> QED BY <3>1, <3>2
  <2> QED BY <2>1, <2>2
<1>8. ASSUME NEW i \in 1 .. len, i # nth
      PROVE  Down(nth, i) \in 1 .. len - 1 /\ Up(nth, Down(nth, i)) = i
  BY <1>1, <1>8 DEF Up, Down
<1>9. DOMAIN p = 1 .. len - 1
  BY <1>1, <1>6
<1> QED BY <1>1, <1>6, <1>7, <1>8, <1>9 DEF p, len

\* One less: the first of these kinds leaves the engine what it asked, if the
\* others of them come after.
LEMMA ComesWithout ==
  ASSUME NEW R, NEW q \in Seq(R), NEW nth \in 1 .. Len(q), NEW k, NEW s, NEW is, NEW now,
         ComesTo(q, k, s, is, now)
  PROVE  LET p == Choice!RemoveAt(q, nth)
             mine(i) == q[i].s = s /\ q[i].op \in k IN
         /\ mine(nth) /\ (\A i \in 1 .. nth - 1 : ~mine(i)) => ComesTo(p, k, s, is, q[nth].v)
         /\ ~mine(nth) => ComesTo(p, k, s, is, now)
<1> DEFINE p == Choice!RemoveAt(q, nth)
           len == Len(q)
           mine(i) == q[i].s = s /\ q[i].op \in k
<1>1. /\ len \in Nat /\ nth \in 1 .. len /\ DOMAIN q = 1 .. len
      /\ DOMAIN p = 1 .. len - 1
      /\ \A i \in 1 .. len - 1 :
           /\ p[i] = q[Up(nth, i)] /\ Up(nth, i) \in 1 .. len /\ Up(nth, i) # nth
      /\ \A i \in 1 .. len : i # nth =>
           Down(nth, i) \in 1 .. len - 1 /\ Up(nth, Down(nth, i)) = i
  BY SeqWithout
<1> HIDE DEF p, len
<1>2. /\ Asking(q, k, s) = {i \in 1 .. len : mine(i)}
      /\ Asking(p, k, s) = {i \in 1 .. len - 1 : p[i].s = s /\ p[i].op \in k}
  BY <1>1 DEF Asking
<1>3. \A i \in Asking(p, k, s) :
        /\ i \in 1 .. len - 1 /\ Up(nth, i) \in Asking(q, k, s) /\ Up(nth, i) # nth
        /\ p[i] = q[Up(nth, i)]
  BY <1>1, <1>2
<1>4. \A j \in Asking(q, k, s) :
        /\ j \in 1 .. len
        /\ j = nth \/ (Down(nth, j) \in Asking(p, k, s) /\ Up(nth, Down(nth, j)) = j)
  BY <1>1, <1>2
<1>5. ASSUME mine(nth) => \A i \in 1 .. nth - 1 : ~mine(i),
             NEW i \in Asking(p, k, s), \A j \in Asking(p, k, s) : j <= i
      PROVE  p[i].v = is
  <2> DEFINE t == Up(nth, i)
  <2>1. /\ i \in 1 .. len - 1 /\ t \in Asking(q, k, s) /\ t # nth /\ p[i] = q[t]
        /\ t \in 1 .. len /\ mine(t)
    BY <1>2, <1>3, <1>5
  <2>2. ASSUME NEW j \in Asking(q, k, s) PROVE j <= t
    <3>1. CASE j = nth
      <4>1. mine(nth)
        BY <1>2, <2>2, <3>1
      <4>2. t \notin 1 .. nth - 1
        BY <1>5, <2>1, <4>1
      <4> HIDE DEF t, mine
      <4> QED BY <1>1, <2>1, <3>1, <4>2
    <3>2. CASE j # nth
      <4>1. Down(nth, j) \in Asking(p, k, s) /\ j \in 1 .. len
        BY <1>4, <2>2, <3>2
      <4>2. Down(nth, j) <= i
        BY <1>5, <4>1
      <4>3. j <= Up(nth, i)
        BY <1>1, <2>1, <3>2, <4>1, <4>2 DEF Up, Down
      <4> QED BY <4>3
    <3> QED BY <3>1, <3>2
  <2> HIDE DEF t
  <2> QED BY <2>1, <2>2 DEF ComesTo
<1>6. ASSUME Asking(p, k, s) = {}, mine(nth) PROVE is = q[nth].v
  <2>1. nth \in Asking(q, k, s)
    BY <1>1, <1>2, <1>6
  <2>2. \A j \in Asking(q, k, s) : j <= nth
    <3>1. \A j \in Asking(q, k, s) : j = nth
      BY <1>4, <1>6
    <3> QED BY <1>1, <3>1
  <2> QED BY <2>1, <2>2 DEF ComesTo
<1>7. ASSUME Asking(p, k, s) = {}, ~mine(nth) PROVE is = now
  <2>1. Asking(q, k, s) = {}
    BY <1>2, <1>4, <1>7
  <2> QED BY <2>1 DEF ComesTo
<1> QED BY <1>5, <1>6, <1>7 DEF ComesTo, p

LEMMA ComesSame ==
  ASSUME NEW q, NEW p, DOMAIN p = DOMAIN q,
         \A i \in DOMAIN q : p[i].s = q[i].s /\ p[i].op = q[i].op /\ p[i].v = q[i].v,
         NEW k, NEW s, NEW is, NEW now, ComesTo(q, k, s, is, now)
  PROVE  ComesTo(p, k, s, is, now)
<1>1. Asking(p, k, s) = Asking(q, k, s)
  BY DEF Asking
<1>2. \A i \in Asking(q, k, s) : p[i].v = q[i].v
  BY DEF Asking
<1> QED BY <1>1, <1>2 DEF ComesTo

LEMMA NoneAfterAppend ==
  ASSUME NEW R, NEW q \in Seq(R), NEW r \in R, NoneAfter(q),
         \/ r.op = "info"
         \/ \A i \in DOMAIN q : q[i].op = "info" /\ q[i].s = r.s => q[i].late
  PROVE  NoneAfter(Append(q, r))
<1> DEFINE p == Append(q, r)
           len == Len(q)
<1>1. /\ len \in Nat /\ DOMAIN q = 1 .. len /\ DOMAIN p = 1 .. len + 1
      /\ \A i \in 1 .. len : i \in 1 .. len + 1 /\ p[i] = q[i]
      /\ p[len + 1] = r
      /\ \A i \in 1 .. len + 1 : i \in 1 .. len \/ i = len + 1
  BY SeqAppend
<1> HIDE DEF p, len
<1> SUFFICES ASSUME NEW i \in 1 .. len + 1, NEW j \in 1 .. len + 1, i < j,
                    p[i].op = "info", ~p[i].late, p[j].s = p[i].s
             PROVE  p[j].op = "info"
  BY <1>1 DEF NoneAfter, p
<1>2. i \in 1 .. len /\ p[i] = q[i]
  BY <1>1
<1>3. CASE j = len + 1
  BY <1>1, <1>2, <1>3
<1>4. CASE j \in 1 .. len
  BY <1>1, <1>2, <1>4 DEF NoneAfter
<1> QED BY <1>1, <1>3, <1>4

LEMMA NoneAfterWithout ==
  ASSUME NEW R, NEW q \in Seq(R), NEW nth \in 1 .. Len(q), NoneAfter(q)
  PROVE  LET p == Choice!RemoveAt(q, nth) IN
         /\ NoneAfter(p)
         /\ q[nth].op = "info" /\ ~q[nth].late /\ (\A i \in 1 .. nth - 1 : q[i].s # q[nth].s) =>
              \A i \in DOMAIN p : p[i].s = q[nth].s => p[i].op = "info"
<1> DEFINE p == Choice!RemoveAt(q, nth)
           len == Len(q)
<1>1. /\ len \in Nat /\ nth \in 1 .. len /\ DOMAIN q = 1 .. len
      /\ DOMAIN p = 1 .. len - 1
      /\ \A i \in 1 .. len - 1 :
           /\ p[i] = q[Up(nth, i)] /\ Up(nth, i) \in 1 .. len /\ Up(nth, i) # nth
  BY SeqWithout
<1> HIDE DEF p, len
<1>2. NoneAfter(p)
  <2> SUFFICES ASSUME NEW i \in 1 .. len - 1, NEW j \in 1 .. len - 1, i < j,
                      p[i].op = "info", ~p[i].late, p[j].s = p[i].s
               PROVE  p[j].op = "info"
    BY <1>1 DEF NoneAfter
  <2>1. Up(nth, i) < Up(nth, j)
    BY <1>1 DEF Up
  <2>2. p[i] = q[Up(nth, i)] /\ p[j] = q[Up(nth, j)]
        /\ Up(nth, i) \in DOMAIN q /\ Up(nth, j) \in DOMAIN q
    BY <1>1
  <2> QED BY <2>1, <2>2 DEF NoneAfter
<1>3. ASSUME q[nth].op = "info", ~q[nth].late, \A i \in 1 .. nth - 1 : q[i].s # q[nth].s,
             NEW i \in 1 .. len - 1, p[i].s = q[nth].s
      PROVE  p[i].op = "info"
  <2> DEFINE t == Up(nth, i)
  <2>1. p[i] = q[t] /\ t \in 1 .. len /\ t # nth
    BY <1>1
  <2> HIDE DEF t
  <2>2. t \notin 1 .. nth - 1
    BY <1>3, <2>1
  <2>3. nth < t /\ t \in DOMAIN q /\ nth \in DOMAIN q
    BY <1>1, <2>1, <2>2
  <2> QED BY <1>3, <2>1, <2>3 DEF NoneAfter
<1> QED BY <1>1, <1>2, <1>3 DEF p

\* A choice makes the answers late that its session has on the way.
LEMMA LateAsks ==
  ASSUME NEW q \in Seq(ChoiceAsks), NEW s
  PROVE  LET p == Choice!Late(q, s) IN
         /\ p \in Seq(ChoiceAsks) /\ DOMAIN p = DOMAIN q
         /\ \A i \in DOMAIN q :
              /\ p[i].s = q[i].s /\ p[i].op = q[i].op /\ p[i].v = q[i].v
              /\ p[i].op = "info" /\ p[i].s = s => p[i].late
              /\ ~p[i].late => ~q[i].late
<1> DEFINE p == Choice!Late(q, s)
<1>1. DOMAIN p = DOMAIN q /\ DOMAIN q = 1 .. Len(q) /\ Len(q) \in Nat
  BY DEF Choice!Late
<1>2. ASSUME NEW i \in DOMAIN q
      PROVE  /\ p[i] \in ChoiceAsks
             /\ p[i].s = q[i].s /\ p[i].op = q[i].op /\ p[i].v = q[i].v
             /\ p[i].op = "info" /\ p[i].s = s => p[i].late
             /\ ~p[i].late => ~q[i].late
  <2> DEFINE r == q[i]
  <2>1. r \in ChoiceAsks
    BY <1>1, <1>2
  <2>2. p[i] = IF r.op = "info" /\ r.s = s THEN [r EXCEPT !.late = TRUE] ELSE r
    BY <1>2 DEF Choice!Late
  <2> HIDE DEF r, p
  <2>3. LET e == [r EXCEPT !.late = TRUE] IN
        e \in ChoiceAsks /\ e.s = r.s /\ e.op = r.op /\ e.v = r.v /\ e.late = TRUE
    BY <2>1 DEF ChoiceAsks
  <2> QED BY <2>1, <2>2, <2>3 DEF r
<1>3. p = [i \in 1 .. Len(q) |-> p[i]]
  BY <1>1 DEF Choice!Late
<1> HIDE DEF p
<1>4. p \in Seq(ChoiceAsks)
  BY <1>1, <1>2, <1>3
<1> QED BY <1>1, <1>2, <1>4 DEF p

LEMMA LateAnswers ==
  ASSUME NEW q \in Seq(ChoiceAnswers), NEW s
  PROVE  LET p == Choice!Late(q, s) IN
         /\ p \in Seq(ChoiceAnswers) /\ DOMAIN p = DOMAIN q
         /\ \A i \in DOMAIN q :
              /\ p[i].s = q[i].s /\ p[i].op = q[i].op /\ p[i].v = q[i].v
              /\ p[i].level = q[i].level
              /\ p[i].op = "info" /\ p[i].s = s => p[i].late
              /\ ~p[i].late => ~q[i].late
<1> DEFINE p == Choice!Late(q, s)
<1>1. DOMAIN p = DOMAIN q /\ DOMAIN q = 1 .. Len(q) /\ Len(q) \in Nat
  BY DEF Choice!Late
<1>2. ASSUME NEW i \in DOMAIN q
      PROVE  /\ p[i] \in ChoiceAnswers
             /\ p[i].s = q[i].s /\ p[i].op = q[i].op /\ p[i].v = q[i].v
             /\ p[i].level = q[i].level
             /\ p[i].op = "info" /\ p[i].s = s => p[i].late
             /\ ~p[i].late => ~q[i].late
  <2> DEFINE r == q[i]
  <2>1. r \in ChoiceAnswers
    BY <1>1, <1>2
  <2>2. p[i] = IF r.op = "info" /\ r.s = s THEN [r EXCEPT !.late = TRUE] ELSE r
    BY <1>2 DEF Choice!Late
  <2> HIDE DEF r, p
  <2>3. LET e == [r EXCEPT !.late = TRUE] IN
        /\ e \in ChoiceAnswers /\ e.s = r.s /\ e.op = r.op /\ e.v = r.v /\ e.late = TRUE
        /\ e.level = r.level
    BY <2>1 DEF ChoiceAnswers
  <2> QED BY <2>1, <2>2, <2>3 DEF r
<1>3. p = [i \in 1 .. Len(q) |-> p[i]]
  BY <1>1 DEF Choice!Late
<1> HIDE DEF p
<1>4. p \in Seq(ChoiceAnswers)
  BY <1>1, <1>2, <1>3
<1> QED BY <1>1, <1>2, <1>4 DEF p
------------------------------------------------------------------------------
LEMMA ChoiceNames ==
  ASSUME Choice!ChoiceAssumption
  PROVE  /\ None \notin Models /\ None \notin Sessions /\ First \in Models
         /\ Auth \subseteq Models /\ MaxChoices \in Nat
         /\ \A l : Choice!Toggled(l) \in Choice!Levels
  BY DEF Choice!ChoiceAssumption, Choice!Toggled, Choice!Levels

LEMMA ChoiceInit == ASSUME Choice!ChoiceAssumption, Choice!Init PROVE ChoiceInv
<1>1. /\ chosenIn = None /\ pending = First /\ raced = {} /\ asked = 0
      /\ info = [s \in Sessions |-> None] /\ level = [s \in Sessions |-> None]
      /\ model = [s \in Sessions |-> None] /\ thinking = [s \in Sessions |-> None]
      /\ choices = <<>> /\ told = <<>>
  BY DEF Choice!Init, Choice!Nowhere
<1>2. ChoiceTyped
  BY <1>1, ChoiceNames DEF ChoiceTyped
<1>3. WayTyped
  BY <1>1 DEF WayTyped
<1>4. NoneAfter(choices) /\ \A i \in DOMAIN told : Timely(told[i])
  BY <1>1 DEF NoneAfter
<1>5. \A s \in Sessions : ShownNext(s)
  BY <1>1 DEF ShownNext
<1> QED BY <1>2, <1>3, <1>4, <1>5 DEF ChoiceInv

\* The user chooses for the session on screen, and the choice is sent.
LEMMA ChoiceSent ==
  ASSUME ChoiceInv, NEW s \in Sessions, model[s] # None, NEW r \in ChoiceAsks,
         r.s = s, r.op # "info",
         choices' = Append(Choice!Late(choices, s), r), told' = Choice!Late(told, s),
         UNCHANGED <<model, thinking>>
  PROVE  /\ WayTyped' /\ NoneAfter(choices)'
         /\ \A i \in DOMAIN told' : Timely(told[i])'
         /\ \A u, k, is, now :
              ComesTo(choices, k, u, is, now) /\ ~(u = s /\ r.op \in k)
                => ComesTo(choices', k, u, is, now)
         /\ \A k, now : r.op \in k => ComesTo(choices', k, s, r.v, now)
<1> DEFINE p == Choice!Late(choices, s)
           t == Choice!Late(told, s)
<1>1. WayTyped /\ NoneAfter(choices) /\ \A i \in DOMAIN told : Timely(told[i])
  BY DEF ChoiceInv
<1>2. /\ p \in Seq(ChoiceAsks) /\ DOMAIN p = DOMAIN choices
      /\ \A i \in DOMAIN choices :
           /\ p[i].s = choices[i].s /\ p[i].op = choices[i].op /\ p[i].v = choices[i].v
           /\ p[i].op = "info" /\ p[i].s = s => p[i].late
           /\ ~p[i].late => ~choices[i].late
  BY <1>1, LateAsks DEF WayTyped
<1>3. /\ t \in Seq(ChoiceAnswers) /\ DOMAIN t = DOMAIN told
      /\ \A i \in DOMAIN told :
           /\ t[i].s = told[i].s /\ t[i].op = told[i].op /\ t[i].v = told[i].v
           /\ t[i].level = told[i].level
           /\ t[i].op = "info" /\ t[i].s = s => t[i].late
           /\ ~t[i].late => ~told[i].late
  BY <1>1, LateAnswers DEF WayTyped
<1>4. choices' = Append(p, r) /\ told' = t
  OBVIOUS
<1> HIDE DEF p, t
<1>5. /\ Append(p, r) \in Seq(ChoiceAsks) /\ DOMAIN p = 1 .. Len(p)
      /\ DOMAIN choices' = 1 .. Len(p) + 1
      /\ \A i \in 1 .. Len(p) : choices'[i] = p[i]
      /\ choices'[Len(p) + 1] = r
      /\ \A i \in 1 .. Len(p) + 1 : i \in 1 .. Len(p) \/ i = Len(p) + 1
  BY <1>2, <1>4, SeqAppend
<1>6. \A i \in DOMAIN choices' :
        \/ choices'[i] = r
        \/ /\ i \in DOMAIN choices /\ choices'[i].s = choices[i].s
           /\ choices'[i].op = choices[i].op
  BY <1>2, <1>5
<1>7. WayTyped'
  <2>1. \A i \in DOMAIN choices' : model'[choices'[i].s] # None
    BY <1>1, <1>6 DEF WayTyped
  <2>2. \A i \in DOMAIN told' : model'[told'[i].s] # None
    BY <1>1, <1>3, <1>4 DEF WayTyped
  <2> QED BY <1>3, <1>4, <1>5, <2>1, <2>2 DEF WayTyped
<1>8. NoneAfter(p)
  BY <1>1, <1>2 DEF NoneAfter
<1>9. NoneAfter(choices)'
  <2>1. \A i \in DOMAIN p : p[i].op = "info" /\ p[i].s = r.s => p[i].late
    BY <1>2
  <2>2. NoneAfter(Append(p, r))
    BY <1>2, <1>8, <2>1, NoneAfterAppend
  <2> QED BY <1>4, <2>2 DEF NoneAfter
<1>10. ASSUME NEW i \in DOMAIN told' PROVE Timely(told[i])'
  <2>1. Timely(told[i]) /\ i \in DOMAIN told
    BY <1>1, <1>3, <1>4
  <2> SUFFICES ASSUME told'[i].op = "info", ~told'[i].late
               PROVE  /\ told'[i].v = model[told'[i].s]
                      /\ told'[i].level = thinking[told'[i].s]
                      /\ \A j \in DOMAIN choices' :
                           choices'[j].s = told'[i].s => choices'[j].op = "info"
    BY DEF Timely
  <2>2. /\ told[i].op = "info" /\ ~told[i].late /\ told'[i].s = told[i].s
        /\ told'[i].v = told[i].v /\ told'[i].level = told[i].level /\ told'[i].s # s
    BY <1>3, <1>4, <2>1
  <2> QED BY <1>6, <2>1, <2>2 DEF Timely
<1>11. ASSUME NEW u, NEW k, NEW is, NEW now, ComesTo(choices, k, u, is, now),
              ~(u = s /\ r.op \in k)
       PROVE  ComesTo(choices', k, u, is, now)
  <2>1. ComesTo(p, k, u, is, now)
    BY <1>2, <1>11, ComesSame
  <2> QED BY <1>2, <1>4, <1>11, <2>1, ComesAppend
<1>12. ASSUME NEW k, NEW now, r.op \in k PROVE ComesTo(choices', k, s, r.v, now)
  BY <1>2, <1>4, <1>12, ComesAppend
<1> QED BY <1>7, <1>9, <1>10, <1>11, <1>12

LEMMA AskInfo ==
  ASSUME NEW s \in Sessions, NEW r, r = Choice!Ask("info", s, None)
  PROVE  r \in ChoiceAsks /\ r.op = "info" /\ r.s = s /\ r.late = FALSE
  BY DEF Choice!Ask, ChoiceAsks, ChoiceOps
LEMMA AskLevel ==
  ASSUME NEW s \in Sessions, NEW v \in Choice!Levels, NEW r, r = Choice!Ask("level", s, v)
  PROVE  r \in ChoiceAsks /\ r.op = "level" /\ r.s = s /\ r.v = v
  BY DEF Choice!Ask, ChoiceAsks, ChoiceOps
LEMMA AskModel ==
  ASSUME NEW k \in ChoiceOps, NEW s \in Sessions, NEW v \in Models, NEW r,
         r = Choice!Ask(k, s, v)
  PROVE  r \in ChoiceAsks /\ r.op = k /\ r.s = s /\ r.v = v
  BY DEF Choice!Ask, ChoiceAsks, ChoiceOps

LEMMA ChoiceSwitch ==
  ASSUME Choice!ChoiceAssumption, ChoiceInv, NEW m \in Models, Choice!SwitchModel(m)
  PROVE  ChoiceInv'
<1>1. ChoiceTyped /\ None \notin Models
  BY ChoiceNames DEF ChoiceInv
<1>2. /\ pending' = m /\ UNCHANGED <<chosenIn, level, model, thinking, raced>>
      /\ asked' \in 0 .. MaxChoices
  BY <1>1, ChoiceNames DEF Choice!SwitchModel, Choice!engineVars, Choice!Asks, ChoiceTyped
<1>3. CASE chosenIn = None
  <2>1. UNCHANGED <<info, choices, told>>
    BY <1>3 DEF Choice!SwitchModel
  <2>2. ChoiceTyped'
    BY <1>1, <1>2, <2>1 DEF ChoiceTyped, Choice!Existing
  <2> QED BY <1>2, <2>1, <2>2 DEF ChoiceInv, WayTyped, NoneAfter, Timely, ShownNext
<1>4. CASE chosenIn # None
  <2> DEFINE s == chosenIn
             r == Choice!Ask("model", s, m)
  <2>1. s \in Sessions /\ model[s] # None
    BY <1>1, <1>4 DEF ChoiceTyped, Choice!Existing
  <2>2. r \in ChoiceAsks /\ r.op = "model" /\ r.s = s /\ r.v = m
    <3> HIDE DEF s
    <3>1. "model" \in ChoiceOps
      BY DEF ChoiceOps
    <3>2. r = Choice!Ask("model", s, m)
      OBVIOUS
    <3> HIDE DEF r
    <3> QED BY <2>1, <3>1, <3>2, AskModel
  <2>3. /\ info' = [info EXCEPT ![s] = IF info[s] = None THEN None ELSE m]
        /\ choices' = Append(Choice!Late(choices, s), r) /\ told' = Choice!Late(told, s)
    BY <1>4 DEF Choice!SwitchModel
  <2> HIDE DEF r, s
  <2>4. /\ WayTyped' /\ NoneAfter(choices)'
         /\ \A i \in DOMAIN told' : Timely(told[i])'
        /\ \A u, k, is, now :
             ComesTo(choices, k, u, is, now) /\ ~(u = s /\ r.op \in k)
               => ComesTo(choices', k, u, is, now)
        /\ \A k, now : r.op \in k => ComesTo(choices', k, s, r.v, now)
    BY <1>2, <2>1, <2>2, <2>3, ChoiceSent
  <2>5. info' \in [Sessions -> Models \cup {None}]
    BY <1>1, <2>3 DEF ChoiceTyped
  <2>6. \A u \in Sessions : info'[u] = IF u # s THEN info[u]
                                      ELSE IF info[u] = None THEN None ELSE m
    BY <1>1, <2>3 DEF ChoiceTyped
  <2>7. ChoiceTyped'
    BY <1>1, <1>2, <2>5, <2>6 DEF ChoiceTyped, Choice!Existing
  <2>8. ASSUME NEW u \in Sessions \ raced' PROVE ShownNext(u)'
    <3>1. ShownNext(u)
      BY <1>2 DEF ChoiceInv
    <3>2. r.op \in ChoiceOps /\ r.op \notin {"level"}
      BY <2>2 DEF ChoiceOps
    <3>3. info'[u] # None => ComesTo(choices', ChoiceOps, u, info'[u], model'[u])
      <4>1. CASE u = s
        BY <1>2, <2>2, <2>4, <2>6, <3>2, <4>1
      <4>2. CASE u # s
        BY <1>2, <2>4, <2>6, <3>1, <4>2 DEF ShownNext
      <4> QED BY <4>1, <4>2
    <3>4. level'[u] # None => ComesTo(choices', {"level"}, u, level'[u], thinking'[u])
      BY <1>2, <2>4, <3>1, <3>2 DEF ShownNext
    <3> QED BY <3>3, <3>4 DEF ShownNext
  <2> QED BY <1>2, <2>4, <2>7, <2>8 DEF ChoiceInv
<1> QED BY <1>3, <1>4

LEMMA ChoiceThinking ==
  ASSUME Choice!ChoiceAssumption, ChoiceInv, Choice!SetThinking
  PROVE  ChoiceInv'
<1> DEFINE s == chosenIn
           l == Choice!Toggled(level[s])
           r == Choice!Ask("level", s, l)
<1>1. ChoiceTyped /\ l \in Choice!Levels
  BY ChoiceNames DEF ChoiceInv
<1>2. /\ s # None /\ level' = [level EXCEPT ![s] = l]
      /\ choices' = Append(Choice!Late(choices, s), r) /\ told' = Choice!Late(told, s)
      /\ UNCHANGED <<chosenIn, pending, info, model, thinking, raced>>
      /\ asked' \in 0 .. MaxChoices
  BY <1>1, ChoiceNames DEF Choice!SetThinking, Choice!engineVars, Choice!Asks, ChoiceTyped
<1>3. s \in Sessions /\ model[s] # None
  BY <1>1, <1>2 DEF ChoiceTyped, Choice!Existing
<1> HIDE DEF l
<1>4. r \in ChoiceAsks /\ r.op = "level" /\ r.s = s /\ r.v = l
  <2> HIDE DEF s
  <2>1. r = Choice!Ask("level", s, l)
    OBVIOUS
  <2> HIDE DEF r
  <2> QED BY <1>1, <1>3, <2>1, AskLevel
<1> HIDE DEF r, s
<1>5. /\ WayTyped' /\ NoneAfter(choices)'
         /\ \A i \in DOMAIN told' : Timely(told[i])'
      /\ \A u, k, is, now :
           ComesTo(choices, k, u, is, now) /\ ~(u = s /\ r.op \in k)
             => ComesTo(choices', k, u, is, now)
      /\ \A k, now : r.op \in k => ComesTo(choices', k, s, r.v, now)
  BY <1>2, <1>3, <1>4, ChoiceSent
<1>6. level' \in [Sessions -> Choice!Levels \cup {None}]
      /\ \A u \in Sessions : level'[u] = IF u = s THEN l ELSE level[u]
  BY <1>1, <1>2 DEF ChoiceTyped
<1>7. ChoiceTyped'
  BY <1>1, <1>2, <1>3, <1>6 DEF ChoiceTyped, Choice!Existing
<1>8. ASSUME NEW u \in Sessions \ raced' PROVE ShownNext(u)'
  <2>1. ShownNext(u)
    BY <1>2 DEF ChoiceInv
  <2>2. r.op \notin ChoiceOps /\ r.op \in {"level"}
    BY <1>4 DEF ChoiceOps
  <2>3. info'[u] # None => ComesTo(choices', ChoiceOps, u, info'[u], model'[u])
    BY <1>2, <1>5, <2>1, <2>2 DEF ShownNext
  <2>4. level'[u] # None => ComesTo(choices', {"level"}, u, level'[u], thinking'[u])
    <3>1. CASE u = s
      BY <1>2, <1>4, <1>5, <1>6, <2>2, <3>1
    <3>2. CASE u # s
      BY <1>2, <1>5, <1>6, <2>1, <3>2 DEF ShownNext
    <3> QED BY <3>1, <3>2
  <2> QED BY <2>3, <2>4 DEF ShownNext
<1> QED BY <1>2, <1>5, <1>7, <1>8 DEF ChoiceInv

\* A request for an answer.
LEMMA ChoiceFetch ==
  ASSUME Choice!ChoiceAssumption, ChoiceInv, NEW s \in Sessions, Choice!FetchInfo(s)
  PROVE  ChoiceInv'
<1> DEFINE r == Choice!Ask("info", s, None)
<1>1. ChoiceTyped /\ WayTyped /\ NoneAfter(choices)
  BY DEF ChoiceInv
<1>2. /\ model[s] # None /\ chosenIn' = s /\ choices' = Append(choices, r)
      /\ UNCHANGED <<pending, info, level, model, thinking, told, raced>>
      /\ asked' \in 0 .. MaxChoices
  BY <1>1, ChoiceNames DEF Choice!FetchInfo, Choice!Existing, Choice!engineVars,
     Choice!Asks, ChoiceTyped
<1>3. r \in ChoiceAsks /\ r.op = "info" /\ r.s = s
  <2>1. r = Choice!Ask("info", s, None)
    OBVIOUS
  <2> HIDE DEF r
  <2> QED BY <2>1, AskInfo
<1> HIDE DEF r
<1>4. /\ choices' \in Seq(ChoiceAsks) /\ DOMAIN choices = 1 .. Len(choices)
      /\ DOMAIN choices' = 1 .. Len(choices) + 1
      /\ \A i \in 1 .. Len(choices) : choices'[i] = choices[i]
      /\ choices'[Len(choices) + 1] = r
      /\ \A i \in 1 .. Len(choices) + 1 : i \in 1 .. Len(choices) \/ i = Len(choices) + 1
  BY <1>1, <1>2, <1>3, SeqAppend DEF WayTyped
<1>5. ChoiceTyped'
  BY <1>1, <1>2, ChoiceNames DEF ChoiceTyped, Choice!Existing
<1>6. WayTyped'
  BY <1>1, <1>2, <1>3, <1>4 DEF WayTyped
<1>7. NoneAfter(choices)'
  <2>1. NoneAfter(Append(choices, r))
    BY <1>1, <1>3, NoneAfterAppend DEF WayTyped
  <2> QED BY <1>2, <2>1 DEF NoneAfter
<1>8. ASSUME NEW i \in DOMAIN told' PROVE Timely(told[i])'
  <2>1. Timely(told[i])
    BY <1>2 DEF ChoiceInv
  <2> QED BY <1>2, <1>3, <1>4, <2>1 DEF Timely
<1>9. ASSUME NEW u \in Sessions \ raced' PROVE ShownNext(u)'
  <2>1. ShownNext(u)
    BY <1>2 DEF ChoiceInv
  <2>2. r.op \notin ChoiceOps /\ r.op \notin {"level"}
    BY <1>3 DEF ChoiceOps
  <2>3. \A k, is, now : r.op \notin k /\ ComesTo(choices, k, u, is, now)
                          => ComesTo(choices', k, u, is, now)
    BY <1>1, <1>2, <1>3, ComesAppend DEF WayTyped
  <2> QED BY <1>2, <2>1, <2>2, <2>3 DEF ShownNext
<1> QED BY <1>2, <1>5, <1>6, <1>7, <1>8, <1>9 DEF ChoiceInv

LEMMA ChoiceWelcome ==
  ASSUME Choice!ChoiceAssumption, ChoiceInv, Choice!Welcome
  PROVE  ChoiceInv'
<1>1. ChoiceTyped
  BY DEF ChoiceInv
<1>2. /\ chosenIn' = None /\ pending' \in Models \cup {None} /\ pending' # None
      /\ UNCHANGED <<info, level, model, thinking, choices, told, asked, raced>>
  BY <1>1, ChoiceNames DEF Choice!Welcome, Choice!AutoSelected, Choice!engineVars,
     ChoiceTyped
<1>3. ChoiceTyped'
  BY <1>1, <1>2 DEF ChoiceTyped, Choice!Existing
<1> QED BY <1>2, <1>3 DEF ChoiceInv, WayTyped, NoneAfter, Timely, ShownNext

------------------------------------------------------------------------------
\* A new session has the model it was configured with; nothing is shown of it
\* before its answer, and nothing was on the way.
LEMMA ChoiceCreate ==
  ASSUME Choice!ChoiceAssumption, ChoiceInv, NEW s \in Sessions, Choice!Create(s)
  PROVE  ChoiceInv'
<1> DEFINE a == [Choice!Ask("info", s, None) EXCEPT !.late = TRUE]
           b == Choice!Ask("first", s, pending)
           p == Append(choices, a)
<1>1. /\ ChoiceTyped /\ WayTyped /\ NoneAfter(choices)
      /\ \A i \in DOMAIN told : Timely(told[i])
  BY DEF ChoiceInv
<1>2. PICK own \in Models, m \in Models :
        m \in Choice!Configured(own) /\ model' = [model EXCEPT ![s] = m]
  BY DEF Choice!Create
<1>3. /\ chosenIn = None /\ model[s] = None /\ chosenIn' = s
      /\ thinking' = [thinking EXCEPT ![s] = "high"]
      /\ choices' = choices \o <<a, b>>
      /\ UNCHANGED <<pending, info, level, told, raced>>
      /\ asked' \in 0 .. MaxChoices
  BY <1>1, ChoiceNames DEF Choice!Create, Choice!Existing, Choice!Asks, ChoiceTyped
<1>4. pending \in Models
  BY <1>1, <1>3 DEF ChoiceTyped
<1>5. a \in ChoiceAsks /\ a.op = "info" /\ a.s = s /\ a.late = TRUE
  <2> DEFINE r == Choice!Ask("info", s, None)
  <2>0. r = Choice!Ask("info", s, None)
    OBVIOUS
  <2> HIDE DEF r
  <2>1. r \in ChoiceAsks /\ r.op = "info" /\ r.s = s
    BY <2>0, AskInfo
  <2>2. LET e == [r EXCEPT !.late = TRUE] IN
        e \in ChoiceAsks /\ e.op = r.op /\ e.s = r.s /\ e.late = TRUE
    BY <2>1 DEF ChoiceAsks
  <2>3. a = [r EXCEPT !.late = TRUE]
    BY <2>0
  <2> HIDE DEF a
  <2> QED BY <2>1, <2>2, <2>3
<1>6. b \in ChoiceAsks /\ b.op = "first" /\ b.s = s
  <2>1. b = Choice!Ask("first", s, pending) /\ "first" \in ChoiceOps
    BY DEF ChoiceOps
  <2> HIDE DEF b
  <2> QED BY <1>4, <2>1, AskModel
<1> HIDE DEF a, b
<1>7. choices' = Append(p, b)
  <2>1. choices \in Seq(ChoiceAsks)
    BY <1>1 DEF WayTyped
  <2> QED BY <1>3, <1>5, <1>6, <2>1
<1>8. /\ p \in Seq(ChoiceAsks) /\ DOMAIN choices = 1 .. Len(choices)
      /\ DOMAIN p = 1 .. Len(choices) + 1
      /\ \A i \in 1 .. Len(choices) : p[i] = choices[i]
      /\ p[Len(choices) + 1] = a
      /\ \A i \in 1 .. Len(choices) + 1 : i \in 1 .. Len(choices) \/ i = Len(choices) + 1
  BY <1>1, <1>5, SeqAppend DEF WayTyped
<1>9. NoneAfter(p)
  BY <1>1, <1>5, NoneAfterAppend DEF WayTyped
<1>10. \A k, u, is, now : ComesTo(choices, k, u, is, now) /\ u # s => ComesTo(p, k, u, is, now)
  BY <1>1, <1>5, ComesAppend DEF WayTyped
<1> HIDE DEF p
<1>11. /\ choices' \in Seq(ChoiceAsks) /\ DOMAIN p = 1 .. Len(p)
       /\ DOMAIN choices' = 1 .. Len(p) + 1
       /\ \A i \in 1 .. Len(p) : choices'[i] = p[i]
       /\ choices'[Len(p) + 1] = b
       /\ \A i \in 1 .. Len(p) + 1 : i \in 1 .. Len(p) \/ i = Len(p) + 1
  BY <1>6, <1>7, <1>8, SeqAppend
<1>12. \A i \in DOMAIN choices' :
         choices'[i] \in {a, b} \/ (i \in DOMAIN choices /\ choices'[i] = choices[i])
  BY <1>8, <1>11
<1>13. \A u \in Sessions :
         /\ u # s => model'[u] = model[u] /\ thinking'[u] = thinking[u]
         /\ u = s => model'[u] \in Models /\ thinking'[u] = "high"
  BY <1>1, <1>2, <1>3 DEF ChoiceTyped
<1>14. /\ model' \in [Sessions -> Models \cup {None}]
       /\ thinking' \in [Sessions -> Choice!Levels \cup {None}]
  BY <1>1, <1>2, <1>3 DEF ChoiceTyped, Choice!Levels
<1>15. \A u \in Sessions : model[u] # None => u # s /\ model'[u] # None
  <2>1. model[s] = None
    BY <1>3
  <2> QED BY <1>13, <2>1, ChoiceNames
<1>16. model'[s] # None /\ "high" \in Choice!Levels /\ None \notin Sessions
  BY <1>13, ChoiceNames DEF Choice!Levels
<1>17. ChoiceTyped'
  <2>1. chosenIn' \in Choice!Existing' \cup {None} /\ raced' \subseteq Choice!Existing'
    BY <1>1, <1>3, <1>15, <1>16 DEF ChoiceTyped, Choice!Existing
  <2>2. ASSUME NEW u \in Sessions
        PROVE  IF model'[u] = None THEN info'[u] = None /\ level'[u] = None
               ELSE thinking'[u] \in Choice!Levels
    <3>1. /\ IF model[u] = None THEN info[u] = None /\ level[u] = None
             ELSE thinking[u] \in Choice!Levels
          /\ info'[u] = info[u] /\ level'[u] = level[u]
      BY <1>1, <1>3 DEF ChoiceTyped
    <3>2. CASE u = s
      BY <1>13, <1>16, <3>2, ChoiceNames
    <3>3. CASE u # s
      BY <1>13, <3>1, <3>3
    <3> QED BY <3>2, <3>3
  <2> QED BY <1>1, <1>3, <1>14, <1>16, <2>1, <2>2 DEF ChoiceTyped
<1>18. WayTyped'
  <2>1. \A i \in DOMAIN choices' : model'[choices'[i].s] # None
    <3> SUFFICES ASSUME NEW i \in DOMAIN choices', i \in DOMAIN choices,
                        choices'[i] = choices[i]
                 PROVE  model'[choices[i].s] # None
      BY <1>5, <1>6, <1>12, <1>16
    <3>1. model[choices[i].s] # None /\ choices[i] \in ChoiceAsks
      BY <1>1 DEF WayTyped
    <3> QED BY <1>15, <3>1 DEF ChoiceAsks
  <2>2. \A i \in DOMAIN told' : model'[told'[i].s] # None
    <3> SUFFICES ASSUME NEW i \in DOMAIN told PROVE model'[told[i].s] # None
      BY <1>3
    <3>1. model[told[i].s] # None /\ told[i] \in ChoiceAnswers
      BY <1>1 DEF WayTyped
    <3> QED BY <1>15, <3>1 DEF ChoiceAnswers
  <2> QED BY <1>1, <1>3, <1>11, <2>1, <2>2 DEF WayTyped
<1>19. NoneAfter(choices)'
  <2>1. \A i \in DOMAIN p : p[i].op = "info" /\ p[i].s = b.s => p[i].late
    <3> SUFFICES ASSUME NEW i \in DOMAIN choices PROVE choices[i].s # s
      BY <1>5, <1>6, <1>8
    <3> QED BY <1>1, <1>3 DEF WayTyped
  <2>2. NoneAfter(Append(p, b))
    BY <1>6, <1>8, <1>9, <2>1, NoneAfterAppend
  <2> QED BY <1>7, <2>2 DEF NoneAfter
<1>20. ASSUME NEW i \in DOMAIN told' PROVE Timely(told[i])'
  <2>1. Timely(told[i]) /\ told[i] \in ChoiceAnswers /\ model[told[i].s] # None
    BY <1>1, <1>3 DEF WayTyped
  <2>2. told[i].s \in Sessions /\ told[i].s # s
    BY <1>15, <2>1 DEF ChoiceAnswers
  <2>3. told'[i] = told[i] /\ model'[told[i].s] = model[told[i].s]
        /\ thinking'[told[i].s] = thinking[told[i].s]
    BY <1>3, <1>13, <2>2
  <2>4. \A j \in DOMAIN choices' : choices'[j].s = told[i].s
          => j \in DOMAIN choices /\ choices'[j] = choices[j]
    BY <1>5, <1>6, <1>12, <2>2
  <2> QED BY <2>1, <2>3, <2>4 DEF Timely
<1>21. ASSUME NEW u \in Sessions \ raced' PROVE ShownNext(u)'
  <2>1. CASE u = s
    BY <1>1, <1>3, <2>1 DEF ChoiceTyped, ShownNext
  <2>2. CASE u # s
    <3>1. ShownNext(u)
      BY <1>3 DEF ChoiceInv
    <3>2. \A k, is, now : ComesTo(choices, k, u, is, now) => ComesTo(choices', k, u, is, now)
      BY <1>6, <1>7, <1>8, <1>10, <2>2, ComesAppend
    <3> QED BY <1>3, <1>13, <2>2, <3>1, <3>2 DEF ShownNext
  <2> QED BY <2>1, <2>2
<1> QED BY <1>17, <1>18, <1>19, <1>20, <1>21 DEF ChoiceInv
------------------------------------------------------------------------------
\* The daemon takes a request: it may change the engine's model or level of
\* that session as the request asks, or else the session has raced.
\* Timely, of a state's successor.
TimelyThen(a) ==
  a.op = "info" /\ ~a.late =>
    /\ a.v = model'[a.s] /\ a.level = thinking'[a.s]
    /\ \A i \in DOMAIN choices' : choices'[i].s = a.s => choices'[i].op = "info"
LEMMA ChoiceTaken ==
  ASSUME ChoiceInv, NEW r \in ChoiceAsks, NEW nth \in 1 .. Len(choices), r = choices[nth],
         choices' = Choice!RemoveAt(choices, nth),
         \A i \in 1 .. nth - 1 : choices[i].op \in ChoiceOps,
         UNCHANGED <<chosenIn, pending, info, level, asked>>,
         model' \in [Sessions -> Models \cup {None}],
         thinking' \in [Sessions -> Choice!Levels \cup {None}],
         model'[r.s] # None, thinking'[r.s] \in Choice!Levels,
         \A u \in Sessions : u # r.s => model'[u] = model[u] /\ thinking'[u] = thinking[u],
         r.op = "info" => model'[r.s] = model[r.s] /\ thinking'[r.s] = thinking[r.s],
         raced \subseteq raced', raced' \subseteq raced \cup {r.s},
         r.s \notin raced' =>
           /\ model'[r.s] = IF r.op \in ChoiceOps THEN r.v ELSE model[r.s]
           /\ thinking'[r.s] = IF r.op = "level" THEN r.v ELSE thinking[r.s]
           /\ r.op \in ChoiceOps => \A i \in 1 .. nth - 1 : choices[i].s # r.s,
         \/ told' = told
         \/ \E a \in ChoiceAnswers :
              /\ told' = Append(told, a) /\ a.s = r.s
              /\ a.op = "info" => /\ r.op = "info" /\ a.v = model'[r.s]
                                  /\ a.level = thinking'[r.s]
              /\ a.op = "info" /\ ~a.late =>
                   ~r.late /\ \A i \in 1 .. nth - 1 : choices[i].s # r.s
  PROVE  ChoiceInv'
<1>1. /\ ChoiceTyped /\ WayTyped /\ NoneAfter(choices)
      /\ \A i \in DOMAIN told : Timely(told[i])
  BY DEF ChoiceInv
<1>2. choices \in Seq(ChoiceAsks) /\ told \in Seq(ChoiceAnswers)
  BY <1>1 DEF WayTyped
<1>3. /\ choices' \in Seq(ChoiceAsks)
      /\ nth \in DOMAIN choices /\ choices[nth] = r
      /\ DOMAIN choices = 1 .. Len(choices) /\ DOMAIN choices' = 1 .. Len(choices) - 1
      /\ \A i \in 1 .. Len(choices) - 1 :
           choices'[i] = choices[Up(nth, i)] /\ Up(nth, i) \in 1 .. Len(choices)
  BY <1>2, SeqWithout
<1>4. r.s \in Sessions /\ model[r.s] # None
  BY <1>1, <1>3 DEF WayTyped, ChoiceAsks
<1>5. \A u \in Sessions : model[u] # None => model'[u] # None
  BY <1>4
<1>6. ChoiceTyped'
  <2>1. chosenIn' \in Choice!Existing' \cup {None} /\ raced' \subseteq Choice!Existing'
    BY <1>1, <1>4, <1>5 DEF ChoiceTyped, Choice!Existing
  <2>2. ASSUME NEW u \in Sessions
        PROVE  IF model'[u] = None THEN info'[u] = None /\ level'[u] = None
               ELSE thinking'[u] \in Choice!Levels
    <3>1. IF model[u] = None THEN info[u] = None /\ level[u] = None
          ELSE thinking[u] \in Choice!Levels
      BY <1>1 DEF ChoiceTyped
    <3>2. CASE u = r.s
      BY <3>2
    <3>3. CASE u # r.s
      BY <3>1, <3>3
    <3> QED BY <3>2, <3>3
  <2> QED BY <1>1, <2>1, <2>2 DEF ChoiceTyped
<1>7. \A i \in DOMAIN choices' : model'[choices'[i].s] # None
  <2> SUFFICES ASSUME NEW i \in DOMAIN choices, choices[i] \in ChoiceAsks
               PROVE  model'[choices[i].s] # None
    BY <1>2, <1>3
  <2>1. model[choices[i].s] # None /\ choices[i].s \in Sessions
    BY <1>1 DEF WayTyped, ChoiceAsks
  <2> QED BY <1>5, <2>1
<1>8. \A i \in DOMAIN told : model'[told[i].s] # None /\ told[i].s \in Sessions
  <2> SUFFICES ASSUME NEW i \in DOMAIN told, told[i] \in ChoiceAnswers
               PROVE  model'[told[i].s] # None /\ told[i].s \in Sessions
    BY <1>2
  <2>1. model[told[i].s] # None /\ told[i].s \in Sessions
    BY <1>1 DEF WayTyped, ChoiceAnswers
  <2> QED BY <1>5, <2>1
<1>9. /\ NoneAfter(Choice!RemoveAt(choices, nth))
      /\ r.op = "info" /\ ~r.late /\ (\A i \in 1 .. nth - 1 : choices[i].s # r.s) =>
           \A i \in DOMAIN choices' : choices'[i].s = r.s => choices'[i].op = "info"
  BY <1>1, <1>2, NoneAfterWithout
<1>10. NoneAfter(choices)'
  BY <1>9 DEF NoneAfter
<1>11. ASSUME NEW i \in DOMAIN told PROVE Timely(told[i]) => TimelyThen(told[i])
  <2> SUFFICES ASSUME Timely(told[i]), told[i].op = "info", ~told[i].late
               PROVE  TimelyThen(told[i])
    BY DEF TimelyThen
  <2> DEFINE s == told[i].s
  <2>1. /\ told[i].v = model[s] /\ told[i].level = thinking[s] /\ s \in Sessions
        /\ \A j \in DOMAIN choices : choices[j].s = s => choices[j].op = "info"
    BY <1>8, <1>11 DEF Timely
  <2>2. model'[s] = model[s] /\ thinking'[s] = thinking[s]
    <3>1. CASE s = r.s
      <4>1. r.op = "info"
        BY <1>3, <2>1, <3>1
      <4> QED BY <3>1, <4>1
    <3>2. CASE s # r.s
      BY <2>1, <3>2
    <3> QED BY <3>1, <3>2
  <2>3. \A j \in DOMAIN choices' : choices'[j].s = s => choices'[j].op = "info"
    BY <1>3, <2>1
  <2> QED BY <2>1, <2>2, <2>3 DEF TimelyThen
<1>12. WayTyped' /\ \A i \in DOMAIN told' : TimelyThen(told'[i])
  <2>1. CASE told' = told
    BY <1>1, <1>2, <1>3, <1>7, <1>8, <1>11, <2>1 DEF WayTyped
  <2>2. ASSUME NEW a \in ChoiceAnswers,
               told' = Append(told, a), a.s = r.s,
               a.op = "info" => /\ r.op = "info" /\ a.v = model'[r.s]
                                /\ a.level = thinking'[r.s],
               a.op = "info" /\ ~a.late =>
                 ~r.late /\ \A i \in 1 .. nth - 1 : choices[i].s # r.s
        PROVE  WayTyped' /\ \A i \in DOMAIN told' : TimelyThen(told'[i])
    <3>1. /\ told' \in Seq(ChoiceAnswers) /\ DOMAIN told = 1 .. Len(told)
          /\ DOMAIN told' = 1 .. Len(told) + 1
          /\ \A i \in 1 .. Len(told) : told'[i] = told[i]
          /\ told'[Len(told) + 1] = a
          /\ \A i \in 1 .. Len(told) + 1 : i \in 1 .. Len(told) \/ i = Len(told) + 1
      BY <1>2, <2>2, SeqAppend
    <3>2. \A i \in DOMAIN told' : told'[i] = a \/ (i \in DOMAIN told /\ told'[i] = told[i])
      BY <3>1
    <3>3. TimelyThen(a)
      BY <1>9, <2>2 DEF TimelyThen
    <3>4. \A i \in DOMAIN told' : TimelyThen(told'[i])
      BY <1>1, <1>11, <3>2, <3>3
    <3>5. \A i \in DOMAIN told' : model'[told'[i].s] # None
      BY <1>8, <2>2, <3>2
    <3> QED BY <1>3, <1>7, <3>1, <3>4, <3>5 DEF WayTyped
  <2> QED BY <2>1, <2>2
<1>13. \A i \in DOMAIN told' : Timely(told[i])'
  BY <1>12 DEF Timely, TimelyThen
<1>14. ASSUME NEW u \in Sessions \ raced' PROVE ShownNext(u)'
  <2>1. ShownNext(u) /\ u \in Sessions
    BY DEF ChoiceInv
  <2>2. ASSUME NEW k, NEW is, NEW now, ComesTo(choices, k, u, is, now)
        PROVE  /\ r.s = u /\ r.op \in k
                  /\ (\A i \in 1 .. nth - 1 : ~(choices[i].s = u /\ choices[i].op \in k))
                    => ComesTo(choices', k, u, is, r.v)
               /\ ~(r.s = u /\ r.op \in k) => ComesTo(choices', k, u, is, now)
    <3> DEFINE p == Choice!RemoveAt(choices, nth)
               mine(i) == choices[i].s = u /\ choices[i].op \in k
    <3>1. /\ mine(nth) /\ (\A i \in 1 .. nth - 1 : ~mine(i))
               => ComesTo(p, k, u, is, choices[nth].v)
          /\ ~mine(nth) => ComesTo(p, k, u, is, now)
      BY ONLY <1>2, <2>2, ComesWithout
    <3>2. choices' = p /\ r = choices[nth]
      BY <1>2
    <3> QED BY ONLY <3>1, <3>2
  <2>5. r.op \in {"level"} =>
          \A i \in 1 .. nth - 1 : ~(choices[i].s = u /\ choices[i].op \in {"level"})
    BY DEF ChoiceOps
  <2>6. u = r.s /\ r.op \in ChoiceOps =>
          \A i \in 1 .. nth - 1 : ~(choices[i].s = u /\ choices[i].op \in ChoiceOps)
    OBVIOUS
  <2>3. info'[u] # None => ComesTo(choices', ChoiceOps, u, info'[u], model'[u])
    <3>1. CASE u = r.s /\ r.op \in ChoiceOps
      BY <2>1, <2>2, <2>6, <3>1 DEF ShownNext
    <3>2. CASE ~(u = r.s /\ r.op \in ChoiceOps)
      <4>1. model'[u] = model[u]
        BY <2>1, <3>2
      <4> QED BY <2>1, <2>2, <3>2, <4>1 DEF ShownNext
    <3> QED BY <3>1, <3>2
  <2>4. level'[u] # None => ComesTo(choices', {"level"}, u, level'[u], thinking'[u])
    <3>1. CASE u = r.s /\ r.op \in {"level"}
      BY <2>1, <2>2, <2>5, <3>1 DEF ShownNext
    <3>2. CASE ~(u = r.s /\ r.op \in {"level"})
      <4>1. thinking'[u] = thinking[u]
        BY <2>1, <3>2
      <4> QED BY <2>1, <2>2, <3>2, <4>1 DEF ShownNext
    <3> QED BY <3>1, <3>2
  <2> QED BY <2>3, <2>4 DEF ShownNext
<1> QED BY <1>6, <1>10, <1>12, <1>13, <1>14 DEF ChoiceInv

\* What of the engine a model, or a level, that was asked for changes.
LEMMA ChoiceSet ==
  ASSUME ChoiceTyped, "off" \in Choice!Levels, NEW r \in ChoiceAsks, model[r.s] # None,
         NEW passed, passed \in {raced, raced \cup {r.s}},
         \/ r.op \in ChoiceOps /\ Choice!SetModel(r, passed)
         \/ r.op = "level" /\ Choice!SetLevel(r)
         \/ r.op = "info" /\ UNCHANGED <<model, thinking, raced>>
  PROVE  /\ model' \in [Sessions -> Models \cup {None}]
         /\ thinking' \in [Sessions -> Choice!Levels \cup {None}]
         /\ model'[r.s] \in Models /\ thinking'[r.s] \in Choice!Levels
         /\ \A u \in Sessions : u # r.s => model'[u] = model[u] /\ thinking'[u] = thinking[u]
         /\ r.op = "info" => model'[r.s] = model[r.s] /\ thinking'[r.s] = thinking[r.s]
         /\ raced \subseteq raced' /\ raced' \subseteq raced \cup {r.s}
         /\ r.s \notin raced' =>
              /\ model'[r.s] = IF r.op \in ChoiceOps THEN r.v ELSE model[r.s]
              /\ thinking'[r.s] = IF r.op = "level" THEN r.v ELSE thinking[r.s]
              /\ r.op \in ChoiceOps => passed = raced
<1>1. /\ r.s \in Sessions /\ (r.op \in ChoiceOps => r.v \in Models)
      /\ (r.op = "level" => r.v \in Choice!Levels)
      /\ "level" \notin ChoiceOps /\ "info" \notin ChoiceOps
  BY DEF ChoiceAsks, ChoiceOps
<1>2. /\ model \in [Sessions -> Models \cup {None}]
      /\ thinking \in [Sessions -> Choice!Levels \cup {None}]
      /\ model[r.s] \in Models /\ thinking[r.s] \in Choice!Levels
  BY <1>1 DEF ChoiceTyped
<1>3. CASE r.op \in ChoiceOps /\ Choice!SetModel(r, passed)
  <2>1. CASE r.v \in Auth
    <3>1. PICK l \in {thinking[r.s], "off"} :
            /\ thinking' = [thinking EXCEPT ![r.s] = l]
            /\ raced' = IF l = thinking[r.s] THEN passed ELSE passed \cup {r.s}
      BY <1>3, <2>1 DEF Choice!SetModel
    <3>2. model' = [model EXCEPT ![r.s] = r.v]
      BY <1>3, <2>1 DEF Choice!SetModel
    <3>3. l \in Choice!Levels
      BY <1>2
    <3> QED BY <1>1, <1>2, <1>3, <3>1, <3>2, <3>3
  <2>2. CASE r.v \notin Auth
    <3>1. raced' = passed \cup {r.s} /\ model' = model /\ thinking' = thinking
      BY <1>3, <2>2 DEF Choice!SetModel, Choice!engineVars
    <3> QED BY <1>1, <1>2, <3>1
  <2> QED BY <2>1, <2>2
<1>4. CASE r.op = "level" /\ Choice!SetLevel(r)
  <2>1. PICK l \in {r.v, "off"} :
          /\ thinking' = [thinking EXCEPT ![r.s] = l] /\ UNCHANGED model
          /\ raced' = IF l = r.v THEN raced ELSE raced \cup {r.s}
    BY <1>4 DEF Choice!SetLevel
  <2>2. l \in Choice!Levels
    BY <1>1, <1>4
  <2> QED BY <1>1, <1>2, <1>4, <2>1, <2>2
<1>5. CASE r.op = "info" /\ UNCHANGED <<model, thinking, raced>>
  BY <1>1, <1>2, <1>5
<1> QED BY <1>3, <1>4, <1>5

LEMMA ChoiceHandle ==
  ASSUME Choice!ChoiceAssumption, ChoiceInv, NEW nth \in DOMAIN choices, Choice!Handle(nth)
  PROVE  ChoiceInv'
<1> DEFINE r == choices[nth]
           late == IF r.op = "info" THEN r.late \/ Choice!Before(nth) # {} ELSE r.late
           a == [op |-> r.op, s |-> r.s, v |-> model[r.s], level |-> thinking[r.s],
                 late |-> late]
           passed == IF Choice!Before(nth) = {} THEN raced ELSE raced \cup {r.s}
<1>1. ChoiceTyped /\ WayTyped
  BY DEF ChoiceInv
<1>2. r \in ChoiceAsks /\ model[r.s] # None /\ nth \in 1 .. Len(choices)
  <2>1. choices \in Seq(ChoiceAsks)
    BY <1>1 DEF WayTyped
  <2>2. r \in ChoiceAsks /\ nth \in 1 .. Len(choices)
    BY <2>1
  <2> QED BY <1>1, <2>2 DEF WayTyped
<1>3. /\ choices' = Choice!RemoveAt(choices, nth)
      /\ UNCHANGED <<chosenIn, pending, info, level, asked>>
      /\ \A i \in 1 .. nth - 1 : choices[i].op \in ChoiceOps
  BY DEF Choice!Handle, Choice!Awaits, ChoiceOps
<1>4. \/ /\ r.op = "info" /\ UNCHANGED <<model, thinking, raced>>
         /\ Choice!Reply(r, late)
      \/ /\ r.op \in ChoiceOps /\ Choice!SetModel(r, passed)
         /\ told' = told \/ (r.op = "first" /\ Choice!Reply(r, late))
      \/ r.op = "level" /\ Choice!SetLevel(r) /\ UNCHANGED told
  BY DEF Choice!Handle, Choice!engineVars, Choice!Awaits, ChoiceOps
<1>5. Choice!Before(nth) = {} => \A i \in 1 .. nth - 1 : choices[i].s # r.s
  BY DEF Choice!Before
<1>6. /\ passed \in {raced, raced \cup {r.s}}
      /\ passed = raced => r.s \in raced \/ \A i \in 1 .. nth - 1 : choices[i].s # r.s
  BY <1>5
<1>7. Choice!Reply(r, late) => told' = Append(told, a)
  BY DEF Choice!Reply
<1>8. "off" \in Choice!Levels /\ late \in BOOLEAN
      /\ (r.op = "info" /\ ~late => ~r.late /\ \A i \in 1 .. nth - 1 : choices[i].s # r.s)
  <2>1. r.late \in BOOLEAN
    BY <1>2 DEF ChoiceAsks
  <2> QED BY <1>5, <2>1 DEF Choice!Levels
<1> HIDE DEF r, late, passed
<1>9. /\ model' \in [Sessions -> Models \cup {None}]
      /\ thinking' \in [Sessions -> Choice!Levels \cup {None}]
      /\ model'[r.s] \in Models /\ thinking'[r.s] \in Choice!Levels
      /\ \A u \in Sessions : u # r.s => model'[u] = model[u] /\ thinking'[u] = thinking[u]
      /\ r.op = "info" => model'[r.s] = model[r.s] /\ thinking'[r.s] = thinking[r.s]
      /\ raced \subseteq raced' /\ raced' \subseteq raced \cup {r.s}
      /\ r.s \notin raced' =>
           /\ model'[r.s] = IF r.op \in ChoiceOps THEN r.v ELSE model[r.s]
           /\ thinking'[r.s] = IF r.op = "level" THEN r.v ELSE thinking[r.s]
           /\ r.op \in ChoiceOps => passed = raced
  <2>1. \/ r.op \in ChoiceOps /\ Choice!SetModel(r, passed)
        \/ r.op = "level" /\ Choice!SetLevel(r)
        \/ r.op = "info" /\ UNCHANGED <<model, thinking, raced>>
    BY <1>4
  <2> QED BY <1>1, <1>2, <1>6, <1>8, <2>1, ChoiceSet
<1>10. r.s \notin raced' /\ r.op \in ChoiceOps => \A i \in 1 .. nth - 1 : choices[i].s # r.s
  BY <1>6, <1>9
<1>11. model[r.s] \in Models /\ thinking[r.s] \in Choice!Levels
  BY <1>1, <1>2 DEF ChoiceTyped, ChoiceAsks
<1>12. \/ told' = told
       \/ \E b \in ChoiceAnswers :
            /\ told' = Append(told, b) /\ b.s = r.s
            /\ b.op = "info" => /\ r.op = "info" /\ b.v = model'[r.s]
                                /\ b.level = thinking'[r.s]
            /\ b.op = "info" /\ ~b.late =>
                 ~r.late /\ \A i \in 1 .. nth - 1 : choices[i].s # r.s
  <2>1. CASE r.op \in {"info", "first"} /\ told' = Append(told, a)
    <3>1. r.s \in Sessions
      BY <1>2 DEF ChoiceAsks
    <3>2. a \in ChoiceAnswers
      BY <1>8, <1>11, <2>1, <3>1 DEF ChoiceAnswers
    <3>3. /\ a.s = r.s /\ a.v = model[r.s] /\ a.level = thinking[r.s]
          /\ a.op = r.op /\ a.late = late
      OBVIOUS
    <3> HIDE DEF a
    <3> QED BY <1>8, <1>9, <2>1, <3>2, <3>3
  <2> QED BY <1>4, <1>7, <2>1
<1>13. model'[r.s] # None
  BY <1>9, ChoiceNames
<1>14. r = choices[nth]
  BY DEF r
<1> HIDE DEF a
<1> QED BY <1>1, <1>2, <1>3, <1>9, <1>10, <1>12, <1>13, <1>14, ChoiceTaken
\* An answer: when no choice has passed it, it shows what the engine uses.
LEMMA ChoiceArrive == ASSUME Choice!ChoiceAssumption, ChoiceInv, Choice!Arrive PROVE ChoiceInv'
<1> DEFINE a == Head(told)
<1>1. ChoiceTyped /\ WayTyped /\ told # <<>> /\ told \in Seq(ChoiceAnswers)
      /\ NoneAfter(choices) /\ \A i \in DOMAIN told : Timely(told[i])
  BY DEF ChoiceInv, WayTyped, Choice!Arrive
<1>2. /\ Tail(told) \in Seq(ChoiceAnswers) /\ a \in ChoiceAnswers /\ a = told[1]
      /\ 1 \in DOMAIN told /\ Len(told) \in Nat /\ DOMAIN told = 1 .. Len(told)
      /\ DOMAIN Tail(told) = 1 .. Len(told) - 1
      /\ \A i \in 1 .. Len(told) - 1 : Tail(told)[i] = told[i + 1] /\ i + 1 \in 1 .. Len(told)
  BY <1>1, SeqTail
<1>3. /\ told' = Tail(told) /\ UNCHANGED <<chosenIn, model, thinking, choices, asked>>
      /\ Choice!InfoArrives(a) \/ Choice!FirstApplied(a)
  BY DEF Choice!Arrive, Choice!engineVars
<1> HIDE DEF a
<1>4. Timely(a) /\ model[a.s] # None /\ a.s \in Sessions /\ a.v \in Models
      /\ a.level \in Choice!Levels
  BY <1>1, <1>2 DEF WayTyped, ChoiceAnswers
<1>5. WayTyped'
  BY <1>1, <1>2, <1>3 DEF WayTyped
<1>6. NoneAfter(choices)'
  BY <1>1, <1>3 DEF NoneAfter
<1>7. \A i \in DOMAIN told' : Timely(told[i])'
  BY <1>1, <1>2, <1>3 DEF Timely
<1>8. CASE Choice!InfoArrives(a)
  <2>1. /\ a.op = "info" /\ info' = [info EXCEPT ![a.s] = a.v]
        /\ level' = [level EXCEPT ![a.s] = a.level] /\ UNCHANGED pending
        /\ raced' = IF a.late THEN raced \cup {a.s} ELSE raced \ {a.s}
    BY <1>8 DEF Choice!InfoArrives
  <2>2. /\ info' \in [Sessions -> Models \cup {None}]
        /\ level' \in [Sessions -> Choice!Levels \cup {None}]
        /\ info'[a.s] = a.v /\ level'[a.s] = a.level
        /\ \A u \in Sessions : u # a.s => info'[u] = info[u] /\ level'[u] = level[u]
    BY <1>1, <1>4, <2>1 DEF ChoiceTyped
  <2>3. ChoiceTyped'
    <3>1. raced' \subseteq Choice!Existing'
      BY <1>1, <1>3, <1>4, <2>1 DEF ChoiceTyped, Choice!Existing
    <3>2. ASSUME NEW u \in Sessions
          PROVE  IF model'[u] = None THEN info'[u] = None /\ level'[u] = None
                 ELSE thinking'[u] \in Choice!Levels
      <4>1. IF model[u] = None THEN info[u] = None /\ level[u] = None
            ELSE thinking[u] \in Choice!Levels
        BY <1>1 DEF ChoiceTyped
      <4>2. model[u] = None => u # a.s
        BY <1>4
      <4> QED BY <1>3, <2>2, <4>1, <4>2
    <3> QED BY <1>1, <1>3, <2>1, <2>2, <3>1, <3>2 DEF ChoiceTyped, Choice!Existing
  <2>4. ASSUME NEW u \in Sessions \ raced' PROVE ShownNext(u)'
    <3>1. CASE u = a.s
      <4>1. ~a.late
        BY <2>1, <2>4, <3>1
      <4>2. a.v = model[u] /\ a.level = thinking[u]
            /\ \A i \in DOMAIN choices : choices[i].s = u => choices[i].op = "info"
        BY <1>4, <2>1, <3>1, <4>1 DEF Timely
      <4>3. Asking(choices', ChoiceOps, u) = {} /\ Asking(choices', {"level"}, u) = {}
        BY <1>3, <4>2 DEF Asking, ChoiceOps
      <4>4. info'[u] = model'[u] /\ level'[u] = thinking'[u]
        BY <1>3, <2>2, <3>1, <4>2
      <4> QED BY <4>3, <4>4 DEF ShownNext, ComesTo
    <3>2. CASE u # a.s
      <4>1. u \in Sessions \ raced
        BY <2>1, <2>4, <3>2
      <4>2. ShownNext(u) /\ info'[u] = info[u] /\ level'[u] = level[u]
        BY <2>2, <3>2, <4>1 DEF ChoiceInv
      <4> QED BY <1>3, <4>2 DEF ShownNext
    <3> QED BY <3>1, <3>2
  <2> QED BY <1>5, <1>6, <1>7, <2>3, <2>4 DEF ChoiceInv
<1>9. CASE Choice!FirstApplied(a)
  <2>1. pending' = Choice!AutoSelected(chosenIn, None) /\ UNCHANGED <<info, level, raced>>
    BY <1>9 DEF Choice!FirstApplied
  <2>2. pending' \in Models \cup {None} /\ (chosenIn = None => pending' # None)
    BY <2>1, ChoiceNames DEF Choice!AutoSelected
  <2>3. ChoiceTyped'
    BY <1>1, <1>3, <2>1, <2>2 DEF ChoiceTyped, Choice!Existing
  <2>4. ASSUME NEW u \in Sessions \ raced' PROVE ShownNext(u)'
    BY <1>3, <2>1 DEF ChoiceInv, ShownNext
  <2> QED BY <1>5, <1>6, <1>7, <2>3, <2>4 DEF ChoiceInv
<1> QED BY <1>3, <1>8, <1>9

LEMMA ChoiceStep ==
  ASSUME Choice!ChoiceAssumption, ChoiceInv, [Choice!Next]_choiceVars
  PROVE  ChoiceInv'
<1>1. CASE UNCHANGED choiceVars
  <2>1. UNCHANGED <<chosenIn, pending, info, level, model, thinking, choices, told, asked, raced>>
    BY <1>1 DEF choiceVars
  <2> QED BY <2>1 DEF ChoiceInv, ChoiceTyped, Choice!Existing, WayTyped, NoneAfter, Timely, ShownNext
<1>2. CASE Choice!Next
  BY <1>2, ChoiceCreate, ChoiceFetch, ChoiceSwitch, ChoiceWelcome, ChoiceThinking,
     ChoiceHandle, ChoiceArrive DEF Choice!Next
<1> QED BY <1>1, <1>2

LEMMA ChoiceInvKept == ASSUME Choice!ChoiceAssumption, ChoiceInv PROVE Choice!TypeOK /\ Choice!ChoiceShown
<1>1. ChoiceTyped /\ WayTyped
  BY DEF ChoiceInv
<1>2. /\ choices \in Seq(ChoiceAsks) /\ told \in Seq(ChoiceAnswers)
      /\ DOMAIN choices = 1 .. Len(choices) /\ DOMAIN told = 1 .. Len(told)
  BY <1>1 DEF WayTyped
<1>3. \A i \in DOMAIN choices : choices[i].s \in Choice!Existing
  <2> SUFFICES ASSUME NEW i \in DOMAIN choices, choices[i] \in ChoiceAsks
               PROVE  choices[i].s \in Choice!Existing
    BY <1>2
  <2> QED BY <1>1 DEF WayTyped, ChoiceAsks, Choice!Existing
<1>4. \A i \in DOMAIN told : told[i].s \in Choice!Existing
  <2> SUFFICES ASSUME NEW i \in DOMAIN told, told[i] \in ChoiceAnswers
               PROVE  told[i].s \in Choice!Existing
    BY <1>2
  <2> QED BY <1>1 DEF WayTyped, ChoiceAnswers, Choice!Existing
<1>5. \A x \in Choice!Range(choices) \cup Choice!Range(told) : x.s \in Choice!Existing
  BY <1>3, <1>4 DEF Choice!Range
<1>6. Choice!TypeOK
  BY <1>1, <1>5 DEF Choice!TypeOK, ChoiceTyped
<1>7. ASSUME NEW s \in Choice!Existing \ raced,
             \A x \in Choice!Range(choices) \cup Choice!Range(told) : x.s # s
      PROVE  info[s] \in {None, model[s]} /\ level[s] \in {None, thinking[s]}
  <2>1. ShownNext(s)
    BY DEF ChoiceInv, Choice!Existing
  <2>2. \A i \in DOMAIN choices : choices[i].s # s
    BY <1>7 DEF Choice!Range
  <2>3. \A k : Asking(choices, k, s) = {}
    BY <2>2 DEF Asking
  <2> QED BY <2>1, <2>3 DEF ShownNext, ComesTo
<1> QED BY <1>1, <1>6, <1>7 DEF Choice!ChoiceShown, ChoiceTyped
------------------------------------------------------------------------------
(***************************************************************************)
(* Compaction.  A session's markers are counted by its compactions: the    *)
(* request on the way, the run, the answers on the way; and while there is *)
(* an estimate and the engine knows better, an answer that ends it is      *)
(* asked for or on the way.                                                *)
(***************************************************************************)
CompactEnd == {"compacted", "failed"}
Aims(q, k, s) == {i \in DOMAIN q : q[i].op \in k /\ q[i].s = s}
Requested(s) == Aims(calls, {"compact"}, s)
Ended(s) == Aims(answers, CompactEnd, s)
Compactions(s) == Cardinality(Ended(s)) + (IF s \in runs \/ Requested(s) # {} THEN 1 ELSE 0)

\* A session is compacted once at a time.
OnceEach ==
  \A s \in Sessions :
    /\ s \in runs => Requested(s) = {}
    /\ \A i, j \in Requested(s) : i = j
Counted ==
  \A s \in Sessions :
    /\ Compactions(s) <= marks[s] /\ marks[s] <= steps
    /\ s \notin strayed => marks[s] = Compactions(s)
Stops ==
  compacting => \E s \in Sessions : s \in runs \/ Requested(s) # {} \/ Ended(s) # {}
EstimateEnds ==
  strayed = {} /\ override # None /\ known[seen] =>
    \/ Aims(calls, {"info"}, seen) # {}
    \/ \E i \in Aims(answers, {"info"}, seen) : answers[i].known

CompactInv ==
  /\ seen \in Sessions /\ marks \in [Sessions -> Nat]
  /\ compacting \in BOOLEAN /\ override \in Sessions \cup {None}
  /\ known \in [Sessions -> BOOLEAN] /\ runs \cup strayed \subseteq Sessions
  /\ calls \in Seq(Compact!Requests) /\ answers \in Seq(Compact!Answers)
  /\ steps \in 0 .. MaxCompacts
  /\ OnceEach /\ Counted /\ Stops /\ EstimateEnds

------------------------------------------------------------------------------
\* The requests or answers of some kinds about a session, one more or one less.
LEMMA AimsFinite ==
  ASSUME NEW R, NEW q \in Seq(R), NEW k, NEW s
  PROVE  /\ IsFiniteSet(Aims(q, k, s)) /\ Cardinality(Aims(q, k, s)) \in Nat
         /\ Cardinality(Aims(q, k, s)) = 0 <=> Aims(q, k, s) = {}
<1>1. Aims(q, k, s) \in SUBSET (1 .. Len(q)) /\ Len(q) \in Nat
  BY DEF Aims
<1>2. IsFiniteSet(1 .. Len(q))
  BY <1>1, FS_Interval
<1>3. IsFiniteSet(Aims(q, k, s))
  BY <1>1, <1>2, FS_Subset
<1> QED BY <1>3, FS_CardinalityType, FS_EmptySet

LEMMA AimsAppend ==
  ASSUME NEW R, NEW q \in Seq(R), NEW r \in R, NEW k, NEW s
  PROVE  /\ Append(q, r) \in Seq(R)
         /\ r.op \in k /\ r.s = s =>
              /\ Aims(Append(q, r), k, s) = Aims(q, k, s) \cup {Len(q) + 1}
              /\ Cardinality(Aims(Append(q, r), k, s)) = Cardinality(Aims(q, k, s)) + 1
              /\ Append(q, r)[Len(q) + 1] = r
         /\ ~(r.op \in k /\ r.s = s) => Aims(Append(q, r), k, s) = Aims(q, k, s)
         /\ \A i \in Aims(q, k, s) :
              i \in Aims(Append(q, r), k, s) /\ Append(q, r)[i] = q[i]
<1> DEFINE p == Append(q, r)
           len == Len(q)
<1>1. /\ p \in Seq(R) /\ len \in Nat /\ DOMAIN q = 1 .. len /\ DOMAIN p = 1 .. len + 1
      /\ \A i \in 1 .. len : i \in 1 .. len + 1 /\ p[i] = q[i]
      /\ p[len + 1] = r /\ len + 1 \in 1 .. len + 1
      /\ \A i \in 1 .. len + 1 : i \in 1 .. len \/ i = len + 1
  BY SeqAppend
<1> HIDE DEF p, len
<1>2. \A i \in Aims(q, k, s) : i \in Aims(p, k, s) /\ p[i] = q[i]
  BY <1>1 DEF Aims
<1>3. r.op \in k /\ r.s = s => Aims(p, k, s) = Aims(q, k, s) \cup {len + 1}
  BY <1>1 DEF Aims
<1>4. len + 1 \notin Aims(q, k, s)
  BY <1>1 DEF Aims
<1>5. ~(r.op \in k /\ r.s = s) => Aims(p, k, s) = Aims(q, k, s)
  BY <1>1 DEF Aims
<1>6. Cardinality(Aims(q, k, s) \cup {len + 1}) = Cardinality(Aims(q, k, s)) + 1
  BY <1>4, AimsFinite, FS_AddElement
<1> QED BY <1>1, <1>2, <1>3, <1>5, <1>6 DEF p, len

LEMMA AimsMore ==
  ASSUME NEW R, NEW q \in Seq(R), NEW r \in R, NEW k, r.op \in k
  PROVE  /\ Aims(Append(q, r), k, r.s) = Aims(q, k, r.s) \cup {Len(q) + 1}
         /\ Append(q, r)[Len(q) + 1] = r
<1> DEFINE s == r.s
<1>1. r.s = s
  OBVIOUS
<1> HIDE DEF s
<1>2. /\ Aims(Append(q, r), k, s) = Aims(q, k, s) \cup {Len(q) + 1}
      /\ Append(q, r)[Len(q) + 1] = r
  BY <1>1, AimsAppend
<1> QED BY <1>1, <1>2

LEMMA AimsTail ==
  ASSUME NEW R, NEW q \in Seq(R), q # <<>>, NEW k, NEW s
  PROVE  /\ Tail(q) \in Seq(R) /\ Head(q) \in R
         /\ Cardinality(Aims(q, k, s)) =
              Cardinality(Aims(Tail(q), k, s))
                + (IF Head(q).op \in k /\ Head(q).s = s THEN 1 ELSE 0)
         /\ \A i \in Aims(Tail(q), k, s) :
              i + 1 \in Aims(q, k, s) /\ Tail(q)[i] = q[i + 1] /\ i + 1 # 1
         /\ \A i \in Aims(q, k, s) :
              \/ i = 1 /\ q[i] = Head(q) /\ Head(q).op \in k /\ Head(q).s = s
              \/ i - 1 \in Aims(Tail(q), k, s) /\ Tail(q)[i - 1] = q[i]
         /\ Head(q).op \in k /\ Head(q).s = s => 1 \in Aims(q, k, s)
<1> DEFINE p == Tail(q)
           len == Len(q)
           left_ == Aims(q, k, s) \ {1}
<1>1. /\ p \in Seq(R) /\ Head(q) \in R
      /\ Head(q) = q[1] /\ 1 \in DOMAIN q /\ len \in Nat \ {0} /\ DOMAIN q = 1 .. len
      /\ DOMAIN p = 1 .. len - 1
      /\ \A i \in 1 .. len - 1 : p[i] = q[i + 1] /\ i + 1 \in 1 .. len
      /\ \A i \in 1 .. len : i = 1 \/ (i - 1 \in 1 .. len - 1 /\ (i - 1) + 1 = i)
  BY SeqTail
<1> HIDE DEF p, len
<1>2. \A i \in Aims(p, k, s) : i \in Nat \ {0} /\ i + 1 \in Aims(q, k, s) /\ p[i] = q[i + 1]
  BY <1>1 DEF Aims
<1>3. \A i \in Aims(q, k, s) :
        /\ i \in Nat
        /\ \/ i = 1 /\ q[i] = Head(q) /\ Head(q).op \in k /\ Head(q).s = s
           \/ i - 1 \in Aims(p, k, s) /\ p[i - 1] = q[i]
  BY <1>1 DEF Aims
<1>4. 1 \in Aims(q, k, s) <=> Head(q).op \in k /\ Head(q).s = s
  BY <1>1 DEF Aims
<1>5. Cardinality(left_) = Cardinality(Aims(p, k, s)) /\ IsFiniteSet(left_)
  <2> DEFINE f == [i \in Aims(p, k, s) |-> i + 1]
  <2>1. f \in [Aims(p, k, s) -> left_]
    BY <1>2
  <2>2. \A a, b \in Aims(p, k, s) : f[a] = f[b] => a = b
    BY <1>2
  <2>3. \A t \in left_ : \E a \in Aims(p, k, s) : f[a] = t
    <3> SUFFICES ASSUME NEW t \in left_ PROVE \E a \in Aims(p, k, s) : f[a] = t
      OBVIOUS
    <3>1. t \in Nat /\ t - 1 \in Aims(p, k, s)
      BY <1>3
    <3> QED BY <3>1
  <2>4. ExistsBijection(Aims(p, k, s), left_)
    <3> HIDE DEF f, left_
    <3>1. f \in Bijection(Aims(p, k, s), left_)
      BY <2>1, <2>2, <2>3 DEF Bijection, Injection, Surjection, IsInjective
    <3> QED BY <3>1 DEF ExistsBijection
  <2>5. IsFiniteSet(Aims(p, k, s))
    BY <1>1, AimsFinite
  <2> HIDE DEF left_, f
  <2> QED BY <2>4, <2>5, FS_Bijection
<1>6. Cardinality(left_) = IF 1 \in Aims(q, k, s) THEN Cardinality(Aims(q, k, s)) - 1
                           ELSE Cardinality(Aims(q, k, s))
  BY AimsFinite, FS_RemoveElement
<1>7. Cardinality(Aims(q, k, s)) \in Nat
  BY AimsFinite
<1>8. Cardinality(Aims(q, k, s)) =
        Cardinality(Aims(p, k, s)) + (IF Head(q).op \in k /\ Head(q).s = s THEN 1 ELSE 0)
  <2> HIDE DEF left_
  <2> QED BY <1>4, <1>5, <1>6, <1>7
<1>9. /\ \A i \in Aims(p, k, s) : i + 1 \in Aims(q, k, s) /\ p[i] = q[i + 1] /\ i + 1 # 1
      /\ \A i \in Aims(q, k, s) :
           \/ i = 1 /\ q[i] = Head(q) /\ Head(q).op \in k /\ Head(q).s = s
           \/ i - 1 \in Aims(p, k, s) /\ p[i - 1] = q[i]
  BY <1>2, <1>3
<1> QED BY <1>1, <1>4, <1>8, <1>9 DEF p

------------------------------------------------------------------------------
LEMMA CompactInit == ASSUME Compact!CompactAssumption, Compact!Init PROVE CompactInv
<1>1. /\ seen \in Sessions /\ marks = [s \in Sessions |-> 0] /\ compacting = FALSE
      /\ override = None /\ runs = {} /\ strayed = {} /\ known = [s \in Sessions |-> TRUE]
      /\ calls = <<>> /\ answers = <<>> /\ steps = 0 /\ MaxCompacts \in Nat
  BY DEF Compact!Init, Compact!CompactAssumption
<1>2. \A k, s : Aims(<<>>, k, s) = {}
  BY DEF Aims
<1>3. OnceEach
  BY <1>1, <1>2 DEF OnceEach, Requested
<1>4. Cardinality({}) = 0
  BY FS_EmptySet
<1>5. Counted
  <2> SUFFICES ASSUME NEW s \in Sessions PROVE marks[s] = 0 /\ Compactions(s) = 0
    BY <1>1 DEF Counted
  <2>1. Requested(s) = {} /\ Ended(s) = {} /\ s \notin runs
    BY <1>1, <1>2 DEF Requested, Ended
  <2> QED BY <1>1, <1>4, <2>1 DEF Compactions
<1>6. Stops /\ EstimateEnds
  BY <1>1 DEF Stops, EstimateEnds
<1>7. /\ marks \in [Sessions -> Nat] /\ known \in [Sessions -> BOOLEAN]
      /\ calls \in Seq(Compact!Requests) /\ answers \in Seq(Compact!Answers)
  BY <1>1
<1>8. compacting \in BOOLEAN /\ runs \cup strayed \subseteq Sessions
  BY <1>1
<1>9. steps \in 0 .. MaxCompacts
  BY <1>1
<1> QED BY <1>1, <1>3, <1>5, <1>6, <1>7, <1>8, <1>9 DEF CompactInv

\* A request that is not to compact leaves the compactions alone.
LEMMA CompactAsked ==
  ASSUME CompactInv, NEW r \in Compact!Requests, r.op # "compact",
         calls' = Append(calls, r), UNCHANGED <<marks, compacting, runs, answers, strayed>>,
         steps' \in 0 .. MaxCompacts, steps <= steps'
  PROVE  /\ calls' \in Seq(Compact!Requests) /\ OnceEach' /\ Counted' /\ Stops'
         /\ r.op = "info" => Aims(calls', {"info"}, r.s) # {}
         /\ \A s : Aims(calls, {"info"}, s) # {} => Aims(calls', {"info"}, s) # {}
<1>1. calls \in Seq(Compact!Requests) /\ steps \in 0 .. MaxCompacts /\ marks \in [Sessions -> Nat]
  BY DEF CompactInv
<1>2. calls' \in Seq(Compact!Requests) /\ \A s : Aims(calls', {"compact"}, s) = Aims(calls, {"compact"}, s)
  BY <1>1, AimsAppend
<1>3. OnceEach'
  BY <1>2 DEF CompactInv, OnceEach, Requested
<1>4. Counted'
  BY <1>1, <1>2 DEF CompactInv, Counted, Compactions, Requested, Ended
<1>5. Stops'
  BY <1>2 DEF CompactInv, Stops, Requested, Ended
<1>6. ASSUME r.op = "info" PROVE Aims(calls', {"info"}, r.s) # {}
  <2> DEFINE k == {"info"}
  <2>1. r.op \in k
    BY <1>6
  <2> HIDE DEF k
  <2>2. Aims(calls', k, r.s) = Aims(calls, k, r.s) \cup {Len(calls) + 1}
    BY <1>1, <2>1, AimsMore
  <2> QED BY <2>2 DEF k
<1>7. \A s : Aims(calls, {"info"}, s) # {} => Aims(calls', {"info"}, s) # {}
  BY <1>1, AimsAppend
<1> QED BY <1>2, <1>3, <1>4, <1>5, <1>6, <1>7

LEMMA CompactActivate ==
  ASSUME Compact!CompactAssumption, CompactInv, NEW s \in Sessions, Compact!Activate(s)
  PROVE  CompactInv'
<1> DEFINE r == [op |-> "info", s |-> s]
<1>1. /\ seen' = s /\ calls' = Append(calls, r) /\ steps' \in 0 .. MaxCompacts /\ steps <= steps'
      /\ UNCHANGED <<marks, compacting, override, known, runs, answers, strayed>>
  BY DEF Compact!Activate, Compact!Asks, Compact!Ask, Compact!CompactAssumption, CompactInv
<1>2. r \in Compact!Requests /\ r.op = "info" /\ r.s = s
  BY DEF Compact!Requests
<1> HIDE DEF r
<1>3. /\ calls' \in Seq(Compact!Requests) /\ OnceEach' /\ Counted' /\ Stops'
      /\ Aims(calls', {"info"}, s) # {}
  BY <1>1, <1>2, CompactAsked
<1>4. EstimateEnds'
  BY <1>1, <1>3 DEF EstimateEnds
<1> QED BY <1>1, <1>3, <1>4 DEF CompactInv

LEMMA CompactTurn ==
  ASSUME Compact!CompactAssumption, CompactInv, NEW s \in Sessions, Compact!Turn(s)
  PROVE  CompactInv'
<1> DEFINE r == [op |-> "info", s |-> s]
<1>1. /\ known' = [known EXCEPT ![s] = TRUE] /\ steps' \in 0 .. MaxCompacts /\ steps <= steps'
      /\ UNCHANGED <<seen, marks, compacting, override, runs, answers, strayed>>
      /\ IF s = seen THEN calls' = Append(calls, r) ELSE calls' = calls
  BY DEF Compact!Turn, Compact!Asks, Compact!Ask, Compact!CompactAssumption, CompactInv
<1>2. known' \in [Sessions -> BOOLEAN] /\ \A u \in Sessions : u # s => known'[u] = known[u]
  BY <1>1 DEF CompactInv
<1>3. CASE s = seen
  <2>1. r \in Compact!Requests /\ r.op = "info" /\ r.s = s
    BY DEF Compact!Requests
  <2> HIDE DEF r
  <2>2. /\ calls' \in Seq(Compact!Requests) /\ OnceEach' /\ Counted' /\ Stops'
        /\ Aims(calls', {"info"}, s) # {}
    BY <1>1, <1>3, <2>1, CompactAsked
  <2>3. EstimateEnds'
    BY <1>1, <1>3, <2>2 DEF EstimateEnds
  <2> QED BY <1>1, <1>2, <2>2, <2>3 DEF CompactInv
<1>4. CASE s # seen
  <2>1. calls' = calls
    BY <1>1, <1>4
  <2>2. marks \in [Sessions -> Nat] /\ steps \in 0 .. MaxCompacts
    BY DEF CompactInv
  <2>3. OnceEach' /\ Stops'
    BY <1>1, <2>1 DEF CompactInv, OnceEach, Stops, Requested, Ended
  <2>4. Counted'
    BY <1>1, <2>1, <2>2 DEF CompactInv, Counted, Compactions, Requested, Ended
  <2>5. EstimateEnds'
    BY <1>1, <1>2, <1>4, <2>1 DEF CompactInv, EstimateEnds
  <2> QED BY <1>1, <1>2, <2>1, <2>3, <2>4, <2>5 DEF CompactInv
<1> QED BY <1>3, <1>4

LEMMA CompactAbort ==
  ASSUME Compact!CompactAssumption, CompactInv, Compact!AbortCompaction
  PROVE  CompactInv'
<1> DEFINE r == [op |-> "abort", s |-> seen]
<1>1. /\ calls' = Append(calls, r) /\ steps' \in 0 .. MaxCompacts /\ steps <= steps'
      /\ UNCHANGED <<seen, marks, compacting, override, known, runs, answers, strayed>>
  BY DEF Compact!AbortCompaction, Compact!Asks, Compact!Ask, Compact!CompactAssumption,
     CompactInv
<1>2. r \in Compact!Requests /\ r.op = "abort" /\ r.s = seen
  BY DEF Compact!Requests, CompactInv
<1> HIDE DEF r
<1>3. /\ calls' \in Seq(Compact!Requests) /\ OnceEach' /\ Counted' /\ Stops'
      /\ \A s : Aims(calls, {"info"}, s) # {} => Aims(calls', {"info"}, s) # {}
  BY <1>1, <1>2, CompactAsked
<1>4. EstimateEnds'
  BY <1>1, <1>3 DEF EstimateEnds, CompactInv
<1> QED BY <1>1, <1>3, <1>4 DEF CompactInv

LEMMA CompactCompact ==
  ASSUME Compact!CompactAssumption, CompactInv, Compact!Compact
  PROVE  CompactInv'
<1> DEFINE r == [op |-> "compact", s |-> seen]
<1>1. /\ calls' = Append(calls, r) /\ steps' \in 0 .. MaxCompacts /\ steps' = steps + 1
      /\ marks' = [marks EXCEPT ![seen] = @ + 1] /\ compacting' = TRUE
      /\ seen \notin runs /\ r \notin Compact!Range(calls)
      /\ UNCHANGED <<seen, override, known, runs, answers, strayed>>
  BY DEF Compact!Compact, Compact!Asks, Compact!Ask, Compact!CompactAssumption,
     CompactInv
<1>2. /\ calls \in Seq(Compact!Requests) /\ steps \in 0 .. MaxCompacts
      /\ marks \in [Sessions -> Nat] /\ seen \in Sessions
      /\ answers \in Seq(Compact!Answers)
  BY DEF CompactInv
<1>3. r \in Compact!Requests /\ r.op = "compact" /\ r.s = seen
  BY <1>2 DEF Compact!Requests
<1>4. Requested(seen) = {}
  <2> SUFFICES ASSUME NEW i \in Requested(seen) PROVE FALSE
    OBVIOUS
  <2>1. i \in DOMAIN calls /\ calls[i].op = "compact" /\ calls[i].s = seen
    BY DEF Requested, Aims
  <2>2. calls[i] \in Compact!Requests
    BY <1>2, <2>1
  <2>3. calls[i] = r
    BY <2>1, <2>2 DEF Compact!Requests
  <2> QED BY <1>1, <2>1, <2>3 DEF Compact!Range
<1> HIDE DEF r
<1>5. /\ calls' \in Seq(Compact!Requests)
      /\ \A u \in Sessions : u = seen => Requested(u)' = {Len(calls) + 1}
      /\ \A u \in Sessions : u # seen => Requested(u)' = Requested(u)
  <2> DEFINE k == {"compact"}
  <2>1. r.op \in k
    BY <1>3
  <2> HIDE DEF k
  <2>2. Aims(calls', k, seen) = Aims(calls, k, seen) \cup {Len(calls) + 1}
    <3>1. calls' = Append(calls, r)
      BY <1>1
    <3>2. Aims(Append(calls, r), k, r.s) = Aims(calls, k, r.s) \cup {Len(calls) + 1}
      BY <1>2, <1>3, <2>1, AimsMore
    <3> QED BY <1>3, <3>1, <3>2
  <2>3. \A u : u # seen => Aims(calls', {"compact"}, u) = Aims(calls, {"compact"}, u)
    BY <1>1, <1>2, <1>3, AimsAppend
  <2>4. calls' \in Seq(Compact!Requests)
    BY <1>1, <1>2, <1>3, AimsAppend
  <2> QED BY <1>1, <1>4, <2>2, <2>3, <2>4 DEF Requested, k
<1>6. OnceEach'
  <2> SUFFICES ASSUME NEW u \in Sessions
               PROVE  /\ u \in runs => Requested(u)' = {}
                      /\ \A i, j \in Requested(u)' : i = j
    BY <1>1 DEF OnceEach
  <2> QED BY <1>1, <1>5 DEF CompactInv, OnceEach
<1>7. Counted'
  <2> SUFFICES ASSUME NEW u \in Sessions
               PROVE  /\ Compactions(u)' <= marks'[u] /\ marks'[u] <= steps'
                      /\ u \notin strayed => marks'[u] = Compactions(u)'
    BY <1>1 DEF Counted
  <2>1. /\ Compactions(u) <= marks[u] /\ marks[u] <= steps /\ marks[u] \in Nat
        /\ u \notin strayed => marks[u] = Compactions(u)
    BY <1>2 DEF CompactInv, Counted
  <2>2. Ended(u)' = Ended(u) /\ Cardinality(Ended(u)) \in Nat
    BY <1>1, <1>2, AimsFinite DEF Ended
  <2>3. CASE u = seen
    <3>1. Compactions(u)' = Cardinality(Ended(u)) + 1
      BY <1>5, <2>2, <2>3 DEF Compactions
    <3>2. Compactions(u) = Cardinality(Ended(u)) + 0
      BY <1>1, <1>4, <2>3 DEF Compactions
    <3>3. marks'[u] = marks[u] + 1
      BY <1>1, <1>2, <2>3
    <3> QED BY <1>1, <1>2, <2>1, <2>2, <3>1, <3>2, <3>3
  <2>4. CASE u # seen
    <3>1. Compactions(u)' = Compactions(u)
      BY <1>1, <1>5, <2>2, <2>4 DEF Compactions
    <3>2. marks'[u] = marks[u]
      BY <1>1, <1>2, <2>4
    <3>3. Compactions(u) \in Nat
      BY <2>2 DEF Compactions
    <3> QED BY <1>1, <1>2, <2>1, <3>1, <3>2, <3>3
  <2> QED BY <2>3, <2>4
<1>8. Stops'
  <2> SUFFICES \E u \in Sessions : Requested(u)' # {}
    BY DEF Stops
  <2> QED BY <1>2, <1>5
<1>9. EstimateEnds'
  <2>1. Aims(calls, {"info"}, seen) # {} => Aims(calls', {"info"}, seen) # {}
    BY <1>1, <1>2, <1>3, AimsAppend
  <2> QED BY <1>1, <2>1 DEF EstimateEnds, CompactInv
<1>10. marks' \in [Sessions -> Nat]
  BY <1>1, <1>2
<1>11. calls' \in Seq(Compact!Requests) /\ seen' \in Sessions
  BY <1>1, <1>2, <1>5
<1> QED BY <1>1, <1>6, <1>7, <1>8, <1>9, <1>10, <1>11 DEF CompactInv

------------------------------------------------------------------------------
\* A compaction goes on from the request to the run and to its answer: what a
\* session's markers are counted by stays.
LEMMA CompactGoes ==
  ASSUME CompactInv,
         UNCHANGED <<seen, marks, compacting, override, strayed, steps>>,
         known' \in [Sessions -> BOOLEAN], known'[seen] => known[seen],
         runs' \subseteq Sessions,
         calls' \in Seq(Compact!Requests), answers' \in Seq(Compact!Answers),
         \A u \in Sessions :
           /\ u \in runs' => Requested(u)' = {}
           /\ \A i, j \in Requested(u)' : i = j
           /\ Compactions(u)' = Compactions(u),
         known'[seen] /\ Aims(calls, {"info"}, seen) # {} =>
           \/ Aims(calls', {"info"}, seen) # {}
           \/ \E i \in Aims(answers', {"info"}, seen) : answers'[i].known,
         (\E i \in Aims(answers, {"info"}, seen) : answers[i].known) =>
           \E i \in Aims(answers', {"info"}, seen) : answers'[i].known
  PROVE  CompactInv'
<1>1. OnceEach'
  BY DEF OnceEach
<1>2. Counted'
  BY DEF Counted, CompactInv
<1>3. \A u \in Sessions : Cardinality(Ended(u)) \in Nat /\ Cardinality(Ended(u)') \in Nat
        /\ (Cardinality(Ended(u)) = 0 <=> Ended(u) = {})
        /\ (Cardinality(Ended(u)') = 0 <=> Ended(u)' = {})
  BY AimsFinite DEF Ended, CompactInv
<1>4. Stops'
  <2> SUFFICES ASSUME compacting
               PROVE  \E s \in Sessions : s \in runs' \/ Requested(s)' # {} \/ Ended(s)' # {}
    BY DEF Stops
  <2>1. PICK s \in Sessions : s \in runs \/ Requested(s) # {} \/ Ended(s) # {}
    BY DEF Stops, CompactInv
  <2>2. Compactions(s) # 0
    BY <1>3, <2>1 DEF Compactions
  <2>3. Compactions(s)' # 0
    BY <2>2
  <2> QED BY <1>3, <2>3 DEF Compactions
<1>5. EstimateEnds'
  BY DEF EstimateEnds, CompactInv
<1> QED BY <1>1, <1>2, <1>4, <1>5 DEF CompactInv

\* The engine answers: an answer of a compaction that ends, or an info.
LEMMA CompactReply ==
  ASSUME CompactInv, NEW a \in Compact!Answers, answers' = Append(answers, a)
  PROVE  /\ answers' \in Seq(Compact!Answers)
         /\ \A u \in Sessions :
              Cardinality(Aims(answers', CompactEnd, u)) =
                Cardinality(Ended(u)) + (IF a.op \in CompactEnd /\ a.s = u THEN 1 ELSE 0)
         /\ (\E i \in Aims(answers, {"info"}, seen) : answers[i].known) =>
              \E i \in Aims(answers', {"info"}, seen) : answers'[i].known
         /\ a.op = "info" /\ a.s = seen /\ a.known =>
              \E i \in Aims(answers', {"info"}, seen) : answers'[i].known
<1> DEFINE k == {"info"}
<1>1. answers \in Seq(Compact!Answers)
  BY DEF CompactInv
<1>2. answers' \in Seq(Compact!Answers)
  BY <1>1, AimsAppend
<1>3. ASSUME NEW u \in Sessions
      PROVE  Cardinality(Aims(answers', CompactEnd, u)) =
                Cardinality(Ended(u)) + (IF a.op \in CompactEnd /\ a.s = u THEN 1 ELSE 0)
  <2>1. Cardinality(Aims(answers, CompactEnd, u)) \in Nat
    BY <1>1, AimsFinite
  <2> QED BY <1>1, <2>1, AimsAppend DEF Ended
<1>4. a.op = "info" => a.op \in k
  OBVIOUS
<1> HIDE DEF k
<1>5. \A i \in Aims(answers, k, seen) : i \in Aims(answers', k, seen) /\ answers'[i] = answers[i]
  <2>1. /\ Len(answers) \in Nat /\ DOMAIN answers = 1 .. Len(answers)
        /\ DOMAIN answers' = 1 .. Len(answers) + 1
        /\ \A j \in 1 .. Len(answers) :
             j \in 1 .. Len(answers) + 1 /\ answers'[j] = answers[j]
    BY <1>1, SeqAppend
  <2> QED BY <2>1 DEF Aims
<1>6. ASSUME a.op \in k, a.s = seen
      PROVE  /\ Len(answers) + 1 \in Aims(answers', k, seen)
             /\ answers'[Len(answers) + 1] = a
  <2>1. /\ Aims(Append(answers, a), k, a.s) = Aims(answers, k, a.s) \cup {Len(answers) + 1}
        /\ Append(answers, a)[Len(answers) + 1] = a
    BY <1>1, <1>6, AimsMore
  <2> QED BY <1>6, <2>1
<1> QED BY <1>2, <1>3, <1>4, <1>5, <1>6 DEF k

LEMMA CompactHandle ==
  ASSUME CompactInv, Compact!Handle
  PROVE  CompactInv'
<1> DEFINE r == Head(calls)
           ki == {"info"}
           kc == {"compact"}
           a == [op |-> "info", s |-> r.s, known |-> known'[r.s]]
           b == [op |-> "failed", s |-> r.s, known |-> known'[r.s]]
<1>1. /\ calls \in Seq(Compact!Requests) /\ answers \in Seq(Compact!Answers) /\ calls # <<>>
      /\ known \in [Sessions -> BOOLEAN] /\ runs \subseteq Sessions /\ seen \in Sessions
  BY DEF CompactInv, Compact!Handle
<1>2. /\ calls' = Tail(calls)
      /\ UNCHANGED <<seen, marks, compacting, override, strayed, steps, known>>
      /\ \/ r.op = "info" /\ answers' = Append(answers, a) /\ UNCHANGED runs
         \/ r.op = "compact" /\ runs' = runs \cup {r.s} /\ UNCHANGED answers
         \/ /\ r.op = "abort" /\ runs' = runs \ {r.s}
            /\ IF r.s \in runs THEN answers' = Append(answers, b) ELSE UNCHANGED answers
  BY DEF Compact!Handle, Compact!Reply
<1>3. r \in Compact!Requests /\ r.s \in Sessions /\ calls' \in Seq(Compact!Requests)
  <2>1. r \in Compact!Requests /\ calls' \in Seq(Compact!Requests)
    BY <1>1, <1>2, AimsTail
  <2> QED BY <2>1 DEF Compact!Requests
<1>4. /\ a \in Compact!Answers /\ a.op = "info" /\ a.s = r.s /\ a.known = known[r.s]
      /\ b \in Compact!Answers /\ b.op = "failed" /\ b.s = r.s
  BY <1>1, <1>2, <1>3 DEF Compact!Answers
<1>5. "info" \notin CompactEnd /\ "failed" \in CompactEnd
  BY DEF CompactEnd
<1>6. /\ r.op \in ki <=> r.op = "info"
      /\ r.op \in kc <=> r.op = "compact"
  OBVIOUS
<1> HIDE DEF r, a, b, ki, kc
<1>7. r = Head(calls)
  BY DEF r
<1>8. /\ \A u : \A i \in Aims(calls', kc, u) :
           i + 1 \in Aims(calls, kc, u) /\ i + 1 # 1 /\ i \in Nat
      /\ \A u : \A i \in Aims(calls, kc, u) :
           (i = 1 /\ r.op \in kc /\ r.s = u) \/ i - 1 \in Aims(calls', kc, u)
      /\ \A u : r.op \in kc /\ r.s = u => 1 \in Aims(calls, kc, u)
  <2>1. \A u : \A i \in Aims(calls', kc, u) : i \in Nat
    BY <1>3 DEF Aims
  <2> QED BY <1>1, <1>2, <1>7, <2>1, AimsTail
<1>9. \A i \in Aims(calls, ki, seen) :
           (i = 1 /\ r.op \in ki /\ r.s = seen) \/ i - 1 \in Aims(calls', ki, seen)
  BY <1>1, <1>2, <1>7, AimsTail
<1>10. ASSUME NEW u \in Sessions
       PROVE  /\ Requested(u) = Aims(calls, kc, u) /\ Requested(u)' = Aims(calls', kc, u)
              /\ \A i, j \in Requested(u)' : i = j
              /\ r.op = "compact" /\ r.s = u => Requested(u)' = {} /\ Requested(u) # {} /\ u \notin runs
              /\ ~(r.op = "compact" /\ r.s = u) => (Requested(u)' = {} <=> Requested(u) = {})
              /\ u \in runs => Requested(u) = {}
  <2>1. Requested(u) = Aims(calls, kc, u) /\ Requested(u)' = Aims(calls', kc, u)
    BY DEF Requested, kc
  <2>2. (u \in runs => Requested(u) = {}) /\ \A i, j \in Requested(u) : i = j
    BY DEF CompactInv, OnceEach
  <2>3. ASSUME NEW i \in Requested(u)', NEW j \in Requested(u)' PROVE i = j
    <3>1. i + 1 = j + 1 /\ i \in Nat /\ j \in Nat
      BY <1>8, <2>1, <2>2, <2>3
    <3> QED BY <3>1
  <2>4. ASSUME r.op = "compact", r.s = u
        PROVE  Requested(u)' = {} /\ Requested(u) # {} /\ u \notin runs
    <3>1. 1 \in Requested(u)
      BY <1>6, <1>8, <2>1, <2>4
    <3> QED BY <1>8, <2>1, <2>2, <3>1
  <2>5. ASSUME ~(r.op = "compact" /\ r.s = u) PROVE Requested(u)' = {} <=> Requested(u) = {}
    BY <1>6, <1>8, <2>1, <2>5
  <2> QED BY <2>1, <2>2, <2>3, <2>4, <2>5
<1>11. \A u \in Sessions : Cardinality(Ended(u)) \in Nat
  BY <1>1, AimsFinite DEF Ended
<1>12. CASE r.op = "info"
  <2>1. answers' = Append(answers, a) /\ runs' = runs
    BY <1>2, <1>12
  <2>2. /\ answers' \in Seq(Compact!Answers)
        /\ \A u \in Sessions : Cardinality(Aims(answers', CompactEnd, u)) = Cardinality(Ended(u)) + 0
        /\ (\E i \in Aims(answers, {"info"}, seen) : answers[i].known) =>
             \E i \in Aims(answers', {"info"}, seen) : answers'[i].known
        /\ a.s = seen /\ a.known =>
             \E i \in Aims(answers', {"info"}, seen) : answers'[i].known
    BY <1>4, <1>5, <2>1, CompactReply
  <2>3. ASSUME NEW u \in Sessions
        PROVE  /\ u \in runs' => Requested(u)' = {}
               /\ \A i, j \in Requested(u)' : i = j
               /\ Compactions(u)' = Compactions(u)
    BY <1>10, <1>11, <1>12, <2>1, <2>2 DEF Compactions, Ended
  <2>4. known'[seen] /\ Aims(calls, {"info"}, seen) # {} =>
           \/ Aims(calls', {"info"}, seen) # {}
           \/ \E i \in Aims(answers', {"info"}, seen) : answers'[i].known
    BY <1>2, <1>4, <1>9, <2>2 DEF ki
  <2> QED BY <1>1, <1>2, <1>3, <2>1, <2>2, <2>3, <2>4, CompactGoes
<1>13. CASE r.op = "compact"
  <2>1. answers' = answers /\ runs' = runs \cup {r.s}
    BY <1>2, <1>13
  <2>2. ASSUME NEW u \in Sessions
        PROVE  /\ u \in runs' => Requested(u)' = {}
               /\ \A i, j \in Requested(u)' : i = j
               /\ Compactions(u)' = Compactions(u)
    <3>1. Ended(u)' = Ended(u)
      BY <2>1 DEF Ended
    <3> QED BY <1>10, <1>13, <2>1, <3>1 DEF Compactions
  <2>3. Aims(calls, {"info"}, seen) # {} => Aims(calls', {"info"}, seen) # {}
    BY <1>6, <1>9, <1>13 DEF ki
  <2>4. runs' \subseteq Sessions
    BY <1>1, <1>3, <2>1
  <2> QED BY <1>1, <1>2, <1>3, <2>1, <2>2, <2>3, <2>4, CompactGoes
<1>14. CASE r.op = "abort"
  <2>1. Aims(calls, {"info"}, seen) # {} => Aims(calls', {"info"}, seen) # {}
    BY <1>6, <1>9, <1>14 DEF ki
  <2>2. runs' \subseteq Sessions /\ runs' = runs \ {r.s}
    BY <1>1, <1>2, <1>14
  <2>3. CASE r.s \in runs
    <3>1. answers' = Append(answers, b)
      BY <1>2, <1>14, <2>3
    <3>2. /\ answers' \in Seq(Compact!Answers)
          /\ \A u \in Sessions : Cardinality(Aims(answers', CompactEnd, u)) =
               Cardinality(Ended(u)) + (IF r.s = u THEN 1 ELSE 0)
          /\ (\E i \in Aims(answers, {"info"}, seen) : answers[i].known) =>
               \E i \in Aims(answers', {"info"}, seen) : answers'[i].known
      BY <1>4, <1>5, <3>1, CompactReply
    <3>3. ASSUME NEW u \in Sessions
          PROVE  /\ u \in runs' => Requested(u)' = {}
                 /\ \A i, j \in Requested(u)' : i = j
                 /\ Compactions(u)' = Compactions(u)
      <4>1. Cardinality(Ended(u)') = Cardinality(Ended(u)) + (IF r.s = u THEN 1 ELSE 0)
        BY <3>2 DEF Ended
      <4> QED BY <1>10, <1>11, <1>14, <2>2, <2>3, <4>1 DEF Compactions
    <3> QED BY <1>1, <1>2, <1>3, <2>1, <2>2, <3>2, <3>3, CompactGoes
  <2>4. CASE r.s \notin runs
    <3>1. answers' = answers /\ runs' = runs
      BY <1>2, <1>14, <2>2, <2>4
    <3>2. ASSUME NEW u \in Sessions
          PROVE  /\ u \in runs' => Requested(u)' = {}
                 /\ \A i, j \in Requested(u)' : i = j
                 /\ Compactions(u)' = Compactions(u)
      <4>1. Ended(u)' = Ended(u)
        BY <3>1 DEF Ended
      <4> QED BY <1>10, <1>14, <3>1, <4>1 DEF Compactions
    <3> QED BY <1>1, <1>2, <1>3, <2>1, <2>2, <3>1, <3>2, CompactGoes
  <2> QED BY <2>3, <2>4
<1> QED BY <1>2, <1>12, <1>13, <1>14

LEMMA CompactCompacted ==
  ASSUME CompactInv, NEW s \in Sessions, Compact!Compacted(s)
  PROVE  CompactInv'
<1>1. /\ s \in runs /\ runs' = runs \ {s}
      /\ UNCHANGED <<seen, marks, compacting, override, calls, steps, strayed>>
  BY DEF Compact!Compacted
<1>2. /\ calls \in Seq(Compact!Requests) /\ answers \in Seq(Compact!Answers)
      /\ known \in [Sessions -> BOOLEAN] /\ runs \subseteq Sessions /\ seen \in Sessions
  BY DEF CompactInv
<1>3. /\ known' \in [Sessions -> BOOLEAN] /\ (known'[seen] => known[seen])
      /\ \E k \in CompactEnd : answers' = Append(answers, [op |-> k, s |-> s, known |-> known'[s]])
  <2>1. known' = [known EXCEPT ![s] = FALSE] \/ known' = known
    BY DEF Compact!Compacted
  <2>2. \E k \in CompactEnd : answers' = Append(answers, [op |-> k, s |-> s, known |-> known'[s]])
    BY DEF Compact!Compacted, Compact!Reply, CompactEnd
  <2> QED BY <1>2, <2>1, <2>2
<1>4. PICK k \in CompactEnd : answers' = Append(answers, [op |-> k, s |-> s, known |-> known'[s]])
  BY <1>3
<1> DEFINE a == [op |-> k, s |-> s, known |-> known'[s]]
<1>5. a \in Compact!Answers /\ a.op \in CompactEnd /\ a.s = s
  <2>1. k \in {"info", "compacted", "failed"} /\ known'[s] \in BOOLEAN
    BY <1>3 DEF CompactEnd
  <2> QED BY <2>1 DEF Compact!Answers
<1>6. answers' = Append(answers, a)
  BY <1>4
<1> HIDE DEF a
<1>7. /\ answers' \in Seq(Compact!Answers)
      /\ \A u \in Sessions : Cardinality(Aims(answers', CompactEnd, u)) =
           Cardinality(Ended(u)) + (IF s = u THEN 1 ELSE 0)
      /\ (\E i \in Aims(answers, {"info"}, seen) : answers[i].known) =>
           \E i \in Aims(answers', {"info"}, seen) : answers'[i].known
  BY <1>5, <1>6, CompactReply
<1>8. ASSUME NEW u \in Sessions
      PROVE  /\ u \in runs' => Requested(u)' = {}
             /\ \A i, j \in Requested(u)' : i = j
             /\ Compactions(u)' = Compactions(u)
  <2>1. Cardinality(Ended(u)') = Cardinality(Ended(u)) + (IF s = u THEN 1 ELSE 0)
    BY <1>7 DEF Ended
  <2>2. Requested(u)' = Requested(u)
    BY <1>1 DEF Requested
  <2>3. (u \in runs => Requested(u) = {}) /\ \A i, j \in Requested(u) : i = j
    BY DEF CompactInv, OnceEach
  <2>4. Cardinality(Ended(u)) \in Nat
    BY <1>2, AimsFinite DEF Ended
  <2> QED BY <1>1, <2>1, <2>2, <2>3, <2>4 DEF Compactions
<1>9. runs' \subseteq Sessions /\ calls' \in Seq(Compact!Requests)
      /\ (Aims(calls, {"info"}, seen) # {} => Aims(calls', {"info"}, seen) # {})
  BY <1>1, <1>2
<1> QED BY <1>1, <1>3, <1>7, <1>8, <1>9, CompactGoes

\* An answer arrives: the one to compact takes a marker of its session away
\* where the session is on screen; an info ends the estimate.
LEMMA CompactArrive ==
  ASSUME Compact!CompactAssumption, CompactInv, Compact!Arrive
  PROVE  CompactInv'
<1> DEFINE a == Head(answers)
           ki == {"info"}
           e == [op |-> "info", s |-> a.s]
<1>1. /\ calls \in Seq(Compact!Requests) /\ answers \in Seq(Compact!Answers) /\ answers # <<>>
      /\ known \in [Sessions -> BOOLEAN] /\ runs \subseteq Sessions /\ seen \in Sessions
      /\ marks \in [Sessions -> Nat] /\ steps \in 0 .. MaxCompacts /\ strayed \subseteq Sessions
  BY DEF CompactInv, Compact!Arrive
<1>2. /\ answers' = Tail(answers) /\ UNCHANGED <<seen, known, runs, steps>>
      /\ Compact!CompactEnds(a) \/ Compact!InfoArrives(a)
  BY DEF Compact!Arrive
<1>3. a \in Compact!Answers /\ a.s \in Sessions /\ answers' \in Seq(Compact!Answers)
  <2>1. a \in Compact!Answers /\ answers' \in Seq(Compact!Answers)
    BY <1>1, <1>2, AimsTail
  <2> QED BY <2>1 DEF Compact!Answers
<1>4. e \in Compact!Requests /\ e.op = "info" /\ e.s = a.s
  BY <1>3 DEF Compact!Requests
<1>5. a.op \in ki <=> a.op = "info"
  OBVIOUS
<1> HIDE DEF a, ki, e
<1>6. a = Head(answers)
  BY DEF a
<1>7. \A u \in Sessions : Cardinality(Ended(u)) =
        Cardinality(Ended(u)') + (IF a.op \in CompactEnd /\ a.s = u THEN 1 ELSE 0)
  BY <1>1, <1>2, <1>6, AimsTail DEF Ended
<1>8. \A u \in Sessions : /\ Cardinality(Ended(u)) \in Nat /\ Cardinality(Ended(u)') \in Nat
                          /\ (Cardinality(Ended(u)) = 0 <=> Ended(u) = {})
                          /\ (Cardinality(Ended(u)') = 0 <=> Ended(u)' = {})
  BY <1>1, <1>3, AimsFinite DEF Ended
<1>9. \A i \in Aims(answers, ki, seen) :
        \/ answers[i] = a /\ a.op \in ki
        \/ \E j \in Aims(answers', ki, seen) : answers'[j] = answers[i]
  <2>1. /\ a = answers[1] /\ Len(answers) \in Nat \ {0}
        /\ DOMAIN answers = 1 .. Len(answers) /\ DOMAIN answers' = 1 .. Len(answers) - 1
        /\ \A j \in 1 .. Len(answers) - 1 : answers'[j] = answers[j + 1]
        /\ \A j \in 1 .. Len(answers) :
             j = 1 \/ (j - 1 \in 1 .. Len(answers) - 1 /\ (j - 1) + 1 = j)
    BY <1>1, <1>2, <1>6, SeqTail
  <2> SUFFICES ASSUME NEW i \in Aims(answers, ki, seen), i # 1
               PROVE  \E j \in Aims(answers', ki, seen) : answers'[j] = answers[i]
    BY <2>1 DEF Aims
  <2>2. i \in DOMAIN answers /\ answers[i].op \in ki /\ answers[i].s = seen
    BY DEF Aims
  <2>3. i - 1 \in DOMAIN answers' /\ answers'[i - 1] = answers[i]
    BY <2>1, <2>2
  <2>4. i - 1 \in Aims(answers', ki, seen)
    BY <2>2, <2>3 DEF Aims
  <2> QED BY <2>3, <2>4
<1>10. CASE Compact!InfoArrives(a)
  <2>1. /\ a.op = "info" /\ override' = IF a.known THEN None ELSE override
        /\ UNCHANGED <<marks, compacting, calls, strayed>>
    BY <1>10 DEF Compact!InfoArrives
  <2>2. a.op \notin CompactEnd /\ override' \in Sessions \cup {None}
    BY <2>1 DEF CompactEnd, CompactInv
  <2>3. \A u \in Sessions : /\ Requested(u)' = Requested(u)
                            /\ Cardinality(Ended(u)') = Cardinality(Ended(u))
                            /\ (Ended(u)' = {} <=> Ended(u) = {})
                            /\ Compactions(u)' = Compactions(u)
    <3>1. \A u \in Sessions : Requested(u)' = Requested(u)
      BY <2>1 DEF Requested
    <3>2. \A u \in Sessions : Cardinality(Ended(u)') = Cardinality(Ended(u))
      BY <1>7, <1>8, <2>2
    <3>3. \A u \in Sessions : Ended(u)' = {} <=> Ended(u) = {}
      BY <1>8, <3>2
    <3>4. \A u \in Sessions : Compactions(u)' = Compactions(u)
      BY <1>2, <3>1, <3>2 DEF Compactions
    <3> QED BY <3>1, <3>2, <3>3, <3>4
  <2>4. OnceEach'
    BY <1>2, <2>3 DEF OnceEach, CompactInv
  <2>5. Counted'
    BY <1>2, <2>1, <2>3 DEF Counted, CompactInv
  <2>6. Stops'
    BY <1>2, <2>1, <2>3 DEF Stops, CompactInv
  <2>7. EstimateEnds'
    <3> SUFFICES ASSUME strayed = {}, override' # None, known[seen],
                        Aims(calls, {"info"}, seen) = {}
                 PROVE  \E i \in Aims(answers', {"info"}, seen) : answers'[i].known
      BY <1>2, <2>1 DEF EstimateEnds
    <3>1. override' = override /\ ~a.known
      BY <2>1
    <3>2. PICK i \in Aims(answers, ki, seen) : answers[i].known
      BY <3>1 DEF EstimateEnds, CompactInv, ki
    <3> QED BY <1>9, <3>1, <3>2 DEF ki
  <2> QED BY <1>1, <1>2, <1>3, <2>1, <2>2, <2>4, <2>5, <2>6, <2>7 DEF CompactInv
<1>11. CASE Compact!CompactEnds(a)
  <2>1. /\ a.op \in CompactEnd /\ compacting' = FALSE
        /\ marks' = IF a.s = seen THEN [marks EXCEPT ![a.s] = @ - 1] ELSE marks
        /\ strayed' = IF a.s = seen THEN strayed ELSE strayed \cup {a.s}
        /\ \/ UNCHANGED <<override, calls>>
           \/ override' = a.s /\ calls' = Append(calls, e)
    BY <1>11 DEF Compact!CompactEnds, Compact!WithoutMark, CompactEnd, e
  <2>2. /\ calls' \in Seq(Compact!Requests)
        /\ \A u \in Sessions : Requested(u)' = Requested(u)
        /\ Aims(calls, ki, seen) # {} => Aims(calls', ki, seen) # {}
        /\ override' # override /\ a.s = seen => Aims(calls', ki, seen) # {}
    <3>1. CASE UNCHANGED <<override, calls>>
      BY <1>1, <3>1 DEF Requested
    <3>2. CASE override' = a.s /\ calls' = Append(calls, e)
      <4>1. /\ calls' \in Seq(Compact!Requests)
            /\ \A u : Aims(calls', {"compact"}, u) = Aims(calls, {"compact"}, u)
        BY <1>1, <1>4, <3>2, AimsAppend
      <4>2. e.op \in ki
        BY <1>4 DEF ki
      <4>3. \A u : u = e.s => Aims(calls', ki, u) = Aims(calls, ki, u) \cup {Len(calls) + 1}
        <5>1. Aims(Append(calls, e), ki, e.s) = Aims(calls, ki, e.s) \cup {Len(calls) + 1}
          BY <1>1, <1>4, <4>2, AimsMore
        <5> QED BY <3>2, <5>1
      <4>4. \A u : u # e.s => Aims(calls', ki, u) = Aims(calls, ki, u)
        BY <1>1, <1>4, <3>2, AimsAppend
      <4> QED BY <1>4, <4>1, <4>3, <4>4 DEF Requested
    <3> QED BY <2>1, <3>1, <3>2
  <2>3. OnceEach'
    BY <1>2, <2>2 DEF OnceEach, CompactInv
  <2>4. ASSUME NEW u \in Sessions
        PROVE  /\ Compactions(u)' <= marks'[u] /\ marks'[u] <= steps' /\ marks'[u] \in Nat
               /\ u \notin strayed' => marks'[u] = Compactions(u)'
    <3>1. /\ Compactions(u) <= marks[u] /\ marks[u] <= steps /\ marks[u] \in Nat
          /\ u \notin strayed => marks[u] = Compactions(u)
      BY <1>1 DEF CompactInv, Counted
    <3> DEFINE x == IF u \in runs \/ Requested(u) # {} THEN 1 ELSE 0
    <3>2. /\ Compactions(u) = Cardinality(Ended(u)) + x
          /\ Compactions(u)' = Cardinality(Ended(u)') + x
      BY <1>2, <2>2 DEF Compactions
    <3>3. x \in {0, 1} /\ Cardinality(Ended(u)) \in Nat /\ Cardinality(Ended(u)') \in Nat
          /\ steps \in Nat
      BY <1>1, <1>8
    <3> HIDE DEF x
    <3>4. CASE u # a.s
      <4>1. Cardinality(Ended(u)) = Cardinality(Ended(u)') + 0
        BY <1>7, <3>4
      <4>2. marks'[u] = marks[u] /\ (u \notin strayed' => u \notin strayed)
        BY <1>1, <2>1, <3>4
      <4> QED BY <1>2, <3>1, <3>2, <3>3, <4>1, <4>2
    <3>5. CASE u = a.s
      <4>1. Cardinality(Ended(u)) = Cardinality(Ended(u)') + 1
        BY <1>7, <2>1, <3>5
      <4>2. CASE u = seen
        <5>1. marks'[u] = marks[u] - 1 /\ strayed' = strayed
          BY <1>1, <2>1, <3>5, <4>2
        <5> QED BY <1>2, <3>1, <3>2, <3>3, <4>1, <5>1
      <4>3. CASE u # seen
        <5>1. marks'[u] = marks[u] /\ u \in strayed'
          BY <2>1, <3>5, <4>3
        <5> QED BY <1>2, <3>1, <3>2, <3>3, <4>1, <5>1
      <4> QED BY <4>2, <4>3
    <3> QED BY <3>4, <3>5
  <2>5. Counted'
    BY <2>4 DEF Counted
  <2>6. Stops'
    BY <2>1 DEF Stops
  <2>7. EstimateEnds'
    <3> SUFFICES ASSUME strayed' = {}, override' # None, known[seen],
                        Aims(calls', ki, seen) = {}
                 PROVE  \E i \in Aims(answers', ki, seen) : answers'[i].known
      BY <1>2 DEF EstimateEnds, ki
    <3>1. a.s = seen /\ strayed = {} /\ override' = override /\ Aims(calls, ki, seen) = {}
      BY <2>1, <2>2
    <3>2. PICK i \in Aims(answers, ki, seen) : answers[i].known
      BY <3>1 DEF EstimateEnds, CompactInv, ki
    <3>3. a.op \notin ki
      BY <2>1 DEF CompactEnd, ki
    <3> QED BY <1>9, <3>2, <3>3
  <2>8. marks' \in [Sessions -> Nat]
    <3>1. marks' = [u \in Sessions |-> marks'[u]]
      BY <1>1, <2>1
    <3> QED BY <2>4, <3>1
  <2>9. override' \in Sessions \cup {None} /\ strayed' \subseteq Sessions /\ compacting' \in BOOLEAN
    BY <1>1, <1>3, <2>1 DEF CompactInv
  <2> QED BY <1>1, <1>2, <1>3, <2>2, <2>3, <2>5, <2>6, <2>7, <2>8, <2>9 DEF CompactInv
<1> QED BY <1>2, <1>10, <1>11

LEMMA CompactStep ==
  ASSUME Compact!CompactAssumption, CompactInv, [Compact!Next]_compactVars
  PROVE  CompactInv'
<1>1. CASE UNCHANGED compactVars
  <2>1. UNCHANGED <<seen, marks, compacting, override, known, runs, calls, answers, steps, strayed>>
    BY <1>1 DEF compactVars
  <2>2. \A u : Requested(u)' = Requested(u) /\ Ended(u)' = Ended(u) /\ Compactions(u)' = Compactions(u)
    BY <2>1 DEF Requested, Ended, Compactions
  <2> QED BY <2>1, <2>2 DEF CompactInv, OnceEach, Counted, Stops, EstimateEnds
<1>2. CASE Compact!Next
  BY <1>2, CompactActivate, CompactTurn, CompactCompacted, CompactCompact, CompactAbort,
     CompactHandle, CompactArrive DEF Compact!Next
<1> QED BY <1>1, <1>2

LEMMA CompactInvKept ==
  ASSUME Compact!CompactAssumption, CompactInv PROVE Compact!TypeOK /\ Compact!MarksEnd
<1>1. /\ calls \in Seq(Compact!Requests) /\ answers \in Seq(Compact!Answers)
      /\ seen \in Sessions /\ marks \in [Sessions -> Nat] /\ steps \in 0 .. MaxCompacts
      /\ MaxCompacts \in Nat /\ Counted
  BY DEF CompactInv, Compact!CompactAssumption
<1>2. marks \in [Sessions -> 0 .. MaxCompacts]
  BY <1>1 DEF Counted
<1>3. Compact!TypeOK
  BY <1>2 DEF CompactInv, Compact!TypeOK
<1>4. \A s : /\ Aims(calls, {"info"}, s) # {} => \E x \in Compact!Range(calls) : x.s = s
             /\ Aims(answers, {"info"}, s) # {} => \E x \in Compact!Range(answers) : x.s = s
  BY DEF Aims, Compact!Range
<1>5. ASSUME NEW s \in Sessions
      PROVE  Compact!Compacts(s) <=> s \in runs \/ Requested(s) # {} \/ Ended(s) # {}
  <2>1. Requested(s) # {} <=> \E i \in DOMAIN calls : calls[i].s = s /\ calls[i].op = "compact"
    BY DEF Requested, Aims
  <2>2. Ended(s) # {} <=> \E i \in DOMAIN answers : answers[i].s = s /\ answers[i].op \in CompactEnd
    BY DEF Ended, Aims
  <2>3. /\ \A i \in DOMAIN calls : calls[i].op \notin CompactEnd
        /\ \A i \in DOMAIN answers : answers[i].op # "compact"
    <3>1. \A r \in Compact!Requests : r.op \notin CompactEnd
      BY DEF Compact!Requests, CompactEnd
    <3>2. \A r \in Compact!Answers : r.op # "compact"
      BY DEF Compact!Answers
    <3>3. DOMAIN calls = 1 .. Len(calls) /\ DOMAIN answers = 1 .. Len(answers)
      BY <1>1
    <3> QED BY <1>1, <3>1, <3>2, <3>3
  <2>4. Compact!Compacts(s) <=>
          \/ s \in runs
          \/ \E i \in DOMAIN calls : calls[i].s = s /\ calls[i].op \in {"compact", "compacted", "failed"}
          \/ \E i \in DOMAIN answers : answers[i].s = s /\ answers[i].op \in {"compact", "compacted", "failed"}
    BY DEF Compact!Compacts, Compact!Range
  <2> QED BY <2>1, <2>2, <2>3, <2>4 DEF CompactEnd
<1>6. ASSUME NEW s \in Sessions \ strayed, ~Compact!Compacts(s) PROVE marks[s] = 0
  <2>1. s \notin runs /\ Requested(s) = {} /\ Ended(s) = {}
    BY <1>5, <1>6
  <2>2. Cardinality({}) = 0
    BY FS_EmptySet
  <2>3. Compactions(s) = 0
    BY <2>1, <2>2 DEF Compactions
  <2> QED BY <1>1, <2>3 DEF Counted
<1>7. compacting => \E s \in Sessions : Compact!Compacts(s)
  BY <1>5 DEF CompactInv, Stops
<1>8. override # None /\ strayed = {} /\ ~Compact!OnTheWay(seen) => ~known[seen]
  BY <1>4 DEF CompactInv, EstimateEnds, Compact!OnTheWay
<1> QED BY <1>3, <1>6, <1>7, <1>8 DEF Compact!MarksEnd
------------------------------------------------------------------------------
(***************************************************************************)
(* WidgetBoard.  What is on the way makes of the tab's widgets the cache,  *)
(* and of its statuses, but for those that were missed, the daemon's.      *)
(***************************************************************************)
Cells == [lines : Lines \ {None}, s : Sessions] \cup {None}
BoardEvents ==
  [op : {"widget"}, key : Keys, board : Cells]
    \cup [op : {"all"}, board : [Keys -> Cells]]
    \cup [op : {"status"}, key : Keys, on : BOOLEAN]

\* The events that tell of a widget, or of a status; the last one counts.
About(q, k) == {i \in DOMAIN q : q[i].op = "all" \/ (q[i].op = "widget" /\ q[i].key = k)}
BoardOf(e, k) == IF e.op = "all" THEN e.board[k] ELSE e.board
Replays(q, was, is) ==
  \A k \in Keys :
    /\ \A i \in About(q, k) : (\A j \in About(q, k) : j <= i) => BoardOf(q[i], k) = is[k]
    /\ About(q, k) = {} => was[k] = is[k]
AboutStatus(q, k) == {i \in DOMAIN q : q[i].op = "status" /\ q[i].key = k}
StatusReplays(q, was, is, but) ==
  \A k \in Keys \ but :
    /\ \A i \in AboutStatus(q, k) :
         (\A j \in AboutStatus(q, k) : j <= i) => (q[i].on <=> k \in is)
    /\ AboutStatus(q, k) = {} => (k \in was <=> k \in is)

BoardTypes ==
  /\ registry \in [Keys -> Sessions \cup {None}] /\ look \in [Keys -> Lines]
  /\ cache \in [Keys -> Cells] /\ widgets \in [Keys -> Cells]
  /\ statuses \subseteq Keys /\ status \subseteq Keys /\ missed \subseteq Keys
  /\ online \in BOOLEAN /\ asking \in BOOLEAN /\ panel \in BOOLEAN
  /\ viewed \in Sessions \cup {None} /\ id \in {None, "widget", "diff"}
BoardInv ==
  /\ BoardTypes /\ sends \in Seq(BoardEvents)
  /\ IsFiniteSet({k \in Keys : registry[k] # None})
  /\ online \/ (sends = <<>> /\ ~asking)
  /\ online /\ ~asking => Replays(sends, widgets, cache)
  /\ StatusReplays(sends, statuses, status, missed)
  /\ panel => Board!Visible(viewed, widgets) # {}
  /\ id = "widget" => panel
  /\ \A k \in Keys : registry[k] # None /\ cache[k] # None => cache[k].s = registry[k]

------------------------------------------------------------------------------
\* More events on the way: the widgets they tell of become what they tell.
LEMMA ReplaysMore ==
  ASSUME NEW len \in Nat, NEW m \in Nat, NEW q, NEW p, NEW was, NEW is, NEW next,
         DOMAIN q = 1 .. len, DOMAIN p = 1 .. len + m,
         \A i \in 1 .. len : p[i] = q[i],
         \A k \in Keys : \A i \in 1 .. len + m :
           i > len /\ i \in About(p, k) => BoardOf(p[i], k) = next[k],
         \A k \in Keys :
           next[k] = is[k] \/ \E i \in 1 .. len + m : i > len /\ i \in About(p, k),
         Replays(q, was, is)
  PROVE  Replays(p, was, next)
<1> SUFFICES ASSUME NEW k \in Keys
             PROVE  /\ \A i \in About(p, k) :
                         (\A j \in About(p, k) : j <= i) => BoardOf(p[i], k) = next[k]
                    /\ About(p, k) = {} => was[k] = next[k]
  BY DEF Replays
<1>1. /\ \A i \in About(q, k) :
           (\A j \in About(q, k) : j <= i) => BoardOf(q[i], k) = is[k]
      /\ About(q, k) = {} => was[k] = is[k]
  BY DEF Replays
<1>2. /\ \A i \in About(q, k) : i \in About(p, k) /\ i \in 1 .. len
      /\ \A i \in About(p, k) : i \in 1 .. len + m /\ (i <= len => i \in About(q, k))
  BY DEF About
<1>3. ASSUME NEW i \in About(p, k), \A j \in About(p, k) : j <= i
      PROVE  BoardOf(p[i], k) = next[k]
  <2>1. CASE i > len
    BY <1>2, <2>1
  <2>2. CASE ~(i > len)
    <3>1. i \in About(q, k) /\ i \in 1 .. len /\ p[i] = q[i]
      BY <1>2, <2>2
    <3>2. BoardOf(q[i], k) = is[k]
      BY <1>1, <1>2, <1>3, <3>1
    <3>3. ~\E j \in 1 .. len + m : j > len /\ j \in About(p, k)
      BY <1>3, <2>2, <3>1
    <3> QED BY <3>1, <3>2, <3>3
  <2> QED BY <2>1, <2>2
<1>4. ASSUME About(p, k) = {} PROVE was[k] = next[k]
  BY <1>1, <1>2, <1>4
<1> QED BY <1>3, <1>4

LEMMA ReplaysTail ==
  ASSUME NEW q \in Seq(BoardEvents), q # <<>>, NEW p, p = Tail(q), NEW was, NEW is, NEW now,
         Replays(q, was, is),
         \A k \in Keys : 1 \in About(q, k) => now[k] = BoardOf(q[1], k),
         \A k \in Keys : 1 \notin About(q, k) => now[k] = was[k]
  PROVE  Replays(p, now, is)
<1>1. /\ Len(q) \in Nat \ {0} /\ DOMAIN q = 1 .. Len(q) /\ DOMAIN p = 1 .. Len(q) - 1
      /\ \A i \in 1 .. Len(q) - 1 : p[i] = q[i + 1] /\ i + 1 \in 1 .. Len(q)
      /\ \A i \in 1 .. Len(q) : i = 1 \/ (i - 1 \in 1 .. Len(q) - 1 /\ (i - 1) + 1 = i)
  BY SeqTail
<1> SUFFICES ASSUME NEW k \in Keys
             PROVE  /\ \A i \in About(p, k) :
                         (\A j \in About(p, k) : j <= i) => BoardOf(p[i], k) = is[k]
                    /\ About(p, k) = {} => now[k] = is[k]
  BY DEF Replays
<1>2. /\ \A i \in About(q, k) :
           (\A j \in About(q, k) : j <= i) => BoardOf(q[i], k) = is[k]
      /\ About(q, k) = {} => was[k] = is[k]
  BY DEF Replays
<1>3. /\ \A i \in About(p, k) : i \in Nat /\ i + 1 \in About(q, k) /\ p[i] = q[i + 1]
      /\ \A j \in About(q, k) : j \in Nat /\ (j = 1 \/ j - 1 \in About(p, k))
  BY <1>1 DEF About
<1>4. ASSUME NEW i \in About(p, k), \A j \in About(p, k) : j <= i
      PROVE  BoardOf(p[i], k) = is[k]
  <2>1. ASSUME NEW j \in About(q, k) PROVE j <= i + 1
    <3>1. j \in Nat /\ i \in Nat /\ (j = 1 \/ j - 1 \in About(p, k))
      BY <1>3
    <3>2. j - 1 \in About(p, k) => j - 1 <= i
      BY <1>4
    <3> QED BY <3>1, <3>2
  <2> QED BY <1>2, <1>3, <2>1
<1>5. ASSUME About(p, k) = {} PROVE now[k] = is[k]
  <2>1. CASE 1 \in About(q, k)
    <3>1. \A j \in About(q, k) : j <= 1
      BY <1>3, <1>5
    <3> QED BY <1>2, <2>1, <3>1
  <2>2. CASE 1 \notin About(q, k)
    <3>1. About(q, k) = {}
      BY <1>3, <1>5, <2>2
    <3> QED BY <1>2, <2>2, <3>1
  <2> QED BY <2>1, <2>2
<1> QED BY <1>4, <1>5

\* The same of statuses.
LEMMA StatusAfter ==
  ASSUME NEW q \in Seq(BoardEvents), q # <<>>, NEW p, p = Tail(q), NEW was, NEW is, NEW now,
         NEW but, StatusReplays(q, was, is, but),
         \A k \in Keys : 1 \in AboutStatus(q, k) => (k \in now <=> q[1].on),
         \A k \in Keys : 1 \notin AboutStatus(q, k) => (k \in now <=> k \in was)
  PROVE  StatusReplays(p, now, is, but)
<1>1. /\ Len(q) \in Nat \ {0} /\ DOMAIN q = 1 .. Len(q) /\ DOMAIN p = 1 .. Len(q) - 1
      /\ \A i \in 1 .. Len(q) - 1 : p[i] = q[i + 1] /\ i + 1 \in 1 .. Len(q)
      /\ \A i \in 1 .. Len(q) : i = 1 \/ (i - 1 \in 1 .. Len(q) - 1 /\ (i - 1) + 1 = i)
  BY SeqTail
<1> SUFFICES ASSUME NEW k \in Keys \ but
             PROVE  /\ \A i \in AboutStatus(p, k) :
                         (\A j \in AboutStatus(p, k) : j <= i) => (p[i].on <=> k \in is)
                    /\ AboutStatus(p, k) = {} => (k \in now <=> k \in is)
  BY DEF StatusReplays
<1>2. /\ \A i \in AboutStatus(q, k) :
           (\A j \in AboutStatus(q, k) : j <= i) => (q[i].on <=> k \in is)
      /\ AboutStatus(q, k) = {} => (k \in was <=> k \in is)
  BY DEF StatusReplays
<1>3. /\ \A i \in AboutStatus(p, k) : i \in Nat /\ i + 1 \in AboutStatus(q, k) /\ p[i] = q[i + 1]
      /\ \A j \in AboutStatus(q, k) : j \in Nat /\ (j = 1 \/ j - 1 \in AboutStatus(p, k))
  BY <1>1 DEF AboutStatus
<1>4. ASSUME NEW i \in AboutStatus(p, k), \A j \in AboutStatus(p, k) : j <= i
      PROVE  p[i].on <=> k \in is
  <2>1. ASSUME NEW j \in AboutStatus(q, k) PROVE j <= i + 1
    <3>1. j \in Nat /\ i \in Nat /\ (j = 1 \/ j - 1 \in AboutStatus(p, k))
      BY <1>3
    <3>2. j - 1 \in AboutStatus(p, k) => j - 1 <= i
      BY <1>4
    <3> QED BY <3>1, <3>2
  <2> QED BY <1>2, <1>3, <2>1
<1>5. ASSUME AboutStatus(p, k) = {} PROVE k \in now <=> k \in is
  <2>1. CASE 1 \in AboutStatus(q, k)
    <3>1. \A j \in AboutStatus(q, k) : j <= 1
      BY <1>3, <1>5
    <3> QED BY <1>2, <2>1, <3>1
  <2>2. CASE 1 \notin AboutStatus(q, k)
    <3>1. AboutStatus(q, k) = {}
      BY <1>3, <1>5, <2>2
    <3> QED BY <1>2, <2>2, <3>1
  <2> QED BY <2>1, <2>2
<1> QED BY <1>4, <1>5

------------------------------------------------------------------------------
LEMMA BoardNames ==
  ASSUME Board!WidgetAssumption
  PROVE  None \notin Sessions /\ None # "widget" /\ None # "diff" /\ None \in Lines
  BY DEF Board!WidgetAssumption

LEMMA BoardInit == ASSUME Board!WidgetAssumption, Board!Init PROVE BoardInv
<1>1. /\ registry = [k \in Keys |-> None] /\ look = [k \in Keys |-> None]
      /\ cache = [k \in Keys |-> None] /\ status = {} /\ online = FALSE /\ asking = FALSE
      /\ sends = <<>> /\ viewed = None /\ widgets = [k \in Keys |-> None]
      /\ statuses = {} /\ panel = FALSE /\ id = None /\ missed = {}
  BY DEF Board!Init, Board!Blank
<1>2. BoardTypes
  <2>1. None \in Cells /\ None \in Lines
    BY BoardNames DEF Cells
  <2>2. /\ registry \in [Keys -> Sessions \cup {None}] /\ look \in [Keys -> Lines]
        /\ cache \in [Keys -> Cells] /\ widgets \in [Keys -> Cells]
    BY <1>1, <2>1
  <2> QED BY <1>1, <2>2 DEF BoardTypes
<1>3. {k \in Keys : registry[k] # None} = {}
  BY <1>1
<1>4. StatusReplays(sends, statuses, status, missed)
  BY <1>1 DEF StatusReplays, AboutStatus
<1>5. IsFiniteSet({k \in Keys : registry[k] # None})
  BY <1>3, FS_EmptySet
<1>6. sends \in Seq(BoardEvents)
  BY <1>1
<1> QED BY <1>1, <1>2, <1>4, <1>5, <1>6, BoardNames DEF BoardInv

\* The daemon tells of widgets: the last it tells of each is what it keeps.
LEMMA BoardTells ==
  ASSUME BoardInv, NEW m \in Nat,
         registry' \in [Keys -> Sessions \cup {None}], look' \in [Keys -> Lines],
         cache' \in [Keys -> Cells],
         IsFiniteSet({k \in Keys : registry'[k] # None}),
         \A k \in Keys : registry'[k] # None /\ cache'[k] # None => cache'[k].s = registry'[k],
         UNCHANGED <<status, online, asking, viewed, widgets, statuses, panel, id, missed>>,
         ~online => sends' = sends,
         online => /\ sends' \in Seq(BoardEvents) /\ DOMAIN sends' = 1 .. Len(sends) + m
                   /\ \A i \in 1 .. Len(sends) : sends'[i] = sends[i]
                   /\ \A i \in 1 .. Len(sends) + m : i > Len(sends) =>
                        sends'[i].op = "widget" /\ sends'[i].board = cache'[sends'[i].key]
                   /\ \A k \in Keys : cache'[k] = cache[k] \/
                        \E i \in 1 .. Len(sends) + m : i > Len(sends) /\ sends'[i].key = k
  PROVE  BoardInv'
<1>1. /\ BoardTypes /\ sends \in Seq(BoardEvents)
      /\ online \/ (sends = <<>> /\ ~asking)
      /\ online /\ ~asking => Replays(sends, widgets, cache)
      /\ StatusReplays(sends, statuses, status, missed)
      /\ Len(sends) \in Nat /\ DOMAIN sends = 1 .. Len(sends)
  BY DEF BoardInv
<1>2. BoardTypes'
  BY <1>1 DEF BoardTypes
<1>3. sends' \in Seq(BoardEvents) /\ (online' \/ (sends' = <<>> /\ ~asking'))
  BY <1>1
<1>4. ASSUME online, ~asking PROVE Replays(sends', widgets, cache')
  <2>1. \A k \in Keys : \A i \in 1 .. Len(sends) + m :
          i > Len(sends) /\ i \in About(sends', k) => BoardOf(sends'[i], k) = cache'[k]
    BY <1>4 DEF About, BoardOf
  <2>2. \A k \in Keys : cache'[k] = cache[k] \/
          \E i \in 1 .. Len(sends) + m : i > Len(sends) /\ i \in About(sends', k)
    BY <1>4 DEF About
  <2> QED BY <1>1, <1>4, <2>1, <2>2, ReplaysMore
<1>5. StatusReplays(sends', statuses, status, missed)
  <2>1. CASE online
    <3>1. ASSUME NEW k
          PROVE  /\ AboutStatus(sends', k) = AboutStatus(sends, k)
                 /\ \A i \in AboutStatus(sends, k) : sends'[i] = sends[i]
      <4>1. \A i : i \in AboutStatus(sends', k) => i \in 1 .. Len(sends)
        BY <1>1, <2>1 DEF AboutStatus
      <4>2. 1 .. Len(sends) \subseteq 1 .. Len(sends) + m
        BY <1>1
      <4> QED BY <1>1, <2>1, <4>1, <4>2 DEF AboutStatus
    <3> QED BY <1>1, <3>1 DEF StatusReplays
  <2>2. CASE ~online
    BY <1>1, <2>2
  <2> QED BY <2>1, <2>2
<1>6. online' /\ ~asking' => Replays(sends, widgets, cache)'
  BY <1>4 DEF Replays, About
<1>7. StatusReplays(sends, statuses, status, missed)'
  BY <1>5 DEF StatusReplays, AboutStatus
<1>8. (panel' => Board!Visible(viewed, widgets)' # {}) /\ (id' = "widget" => panel')
  BY DEF BoardInv, Board!Visible
<1> QED BY <1>2, <1>3, <1>6, <1>7, <1>8 DEF BoardInv

LEMMA BoardEmit ==
  ASSUME Board!WidgetAssumption, BoardInv, NEW k \in Keys, NEW s \in Sessions, NEW x \in Lines,
         Board!SetFactory(k, s, x) \/ Board!SetLines(k, s, x)
  PROVE  BoardInv'
<1> DEFINE cell == Board!Board(x, s)
           e == [op |-> "widget", key |-> k, board |-> cell]
<1>1. /\ BoardTypes /\ sends \in Seq(BoardEvents)
      /\ IsFiniteSet({u \in Keys : registry[u] # None})
      /\ \A u \in Keys : registry[u] # None /\ cache[u] # None => cache[u].s = registry[u]
  BY DEF BoardInv
<1>2. /\ cache' = [cache EXCEPT ![k] = cell]
      /\ sends' = IF online THEN sends \o <<e>> ELSE sends
      /\ UNCHANGED <<status, online, asking, viewed, widgets, statuses, panel, id, missed>>
      /\ \/ registry' = [registry EXCEPT ![k] = s] /\ look' = [look EXCEPT ![k] = x]
         \/ registry' = [registry EXCEPT ![k] = None] /\ look' = look
  BY DEF Board!SetFactory, Board!SetLines, Board!EmitWidgetLines, Board!Cached, Board!Sent,
     Board!tabVars
<1>3. cell \in Cells /\ (cell # None => cell.s = s)
  <2>1. cell = IF x = None THEN None ELSE [lines |-> x, s |-> s]
    BY DEF Board!Board
  <2> HIDE DEF cell
  <2> QED BY <2>1 DEF Cells
<1> HIDE DEF cell
<1>4. e \in BoardEvents /\ e.op = "widget" /\ e.key = k /\ e.board = cell
  BY <1>3 DEF BoardEvents
<1> HIDE DEF e
<1>5. /\ cache' \in [Keys -> Cells] /\ cache'[k] = cell
      /\ \A u \in Keys : u # k => cache'[u] = cache[u]
  BY <1>1, <1>2, <1>3 DEF BoardTypes
<1>6. /\ registry' \in [Keys -> Sessions \cup {None}] /\ look' \in [Keys -> Lines]
      /\ registry'[k] \in {s, None} /\ \A u \in Keys : u # k => registry'[u] = registry[u]
  BY <1>1, <1>2 DEF BoardTypes
<1>7. IsFiniteSet({u \in Keys : registry'[u] # None})
  <2>1. {u \in Keys : registry'[u] # None} \subseteq {u \in Keys : registry[u] # None} \cup {k}
    BY <1>6
  <2>2. IsFiniteSet({u \in Keys : registry[u] # None} \cup {k})
    BY <1>1, FS_AddElement
  <2> QED BY <2>1, <2>2, FS_Subset
<1>8. \A u \in Keys : registry'[u] # None /\ cache'[u] # None => cache'[u].s = registry'[u]
  <2> SUFFICES ASSUME NEW u \in Keys, registry'[u] # None, cache'[u] # None
               PROVE  cache'[u].s = registry'[u]
    OBVIOUS
  <2>1. CASE u = k
    BY <1>3, <1>5, <1>6, <2>1
  <2>2. CASE u # k
    BY <1>1, <1>5, <1>6, <2>2
  <2> QED BY <2>1, <2>2
<1>9. ASSUME online
      PROVE  /\ sends' \in Seq(BoardEvents) /\ DOMAIN sends' = 1 .. Len(sends) + 1
             /\ \A i \in 1 .. Len(sends) : sends'[i] = sends[i]
             /\ sends'[Len(sends) + 1] = e /\ Len(sends) \in Nat
  <2>1. sends' = Append(sends, e)
    BY <1>1, <1>2, <1>4, <1>9
  <2> QED BY <1>1, <1>4, <2>1, SeqAppend
<1>10. online =>
         /\ sends' \in Seq(BoardEvents) /\ DOMAIN sends' = 1 .. Len(sends) + 1
         /\ \A i \in 1 .. Len(sends) : sends'[i] = sends[i]
         /\ \A i \in 1 .. Len(sends) + 1 : i > Len(sends) =>
              sends'[i].op = "widget" /\ sends'[i].board = cache'[sends'[i].key]
         /\ \A u \in Keys : cache'[u] = cache[u] \/
              \E i \in 1 .. Len(sends) + 1 : i > Len(sends) /\ sends'[i].key = u
  <2> SUFFICES ASSUME online
               PROVE  /\ \A i \in 1 .. Len(sends) + 1 : i > Len(sends) =>
                           sends'[i].op = "widget" /\ sends'[i].board = cache'[sends'[i].key]
                      /\ \A u \in Keys : cache'[u] = cache[u] \/
                           \E i \in 1 .. Len(sends) + 1 : i > Len(sends) /\ sends'[i].key = u
    BY <1>9
  <2>1. \A i \in 1 .. Len(sends) + 1 : i > Len(sends) => sends'[i] = e
    BY <1>9
  <2>2. Len(sends) + 1 \in 1 .. Len(sends) + 1 /\ Len(sends) + 1 > Len(sends)
    BY <1>9
  <2> QED BY <1>4, <1>5, <2>1, <2>2
<1>11. ~online => sends' = sends
  BY <1>2
<1> QED BY <1>2, <1>5, <1>6, <1>7, <1>8, <1>10, <1>11, BoardTells

LEMMA BoardChanges ==
  ASSUME BoardInv, NEW k \in Keys, NEW x \in Lines, Board!Changes(k, x)
  PROVE  BoardInv'
<1>1. /\ look' = [look EXCEPT ![k] = x]
      /\ UNCHANGED <<registry, cache, status, online, asking, sends, viewed, widgets, statuses,
                     panel, id, missed>>
  BY DEF Board!Changes, Board!tabVars
<1>2. BoardTypes'
  BY <1>1 DEF BoardInv, BoardTypes
<1> QED BY <1>1, <1>2 DEF BoardInv, Replays, About, StatusReplays, AboutStatus, Board!Visible

LEMMA BoardCounts == ASSUME NEW S PROVE Board!Cardinality(S) = Cardinality(S)
  BY Zenon DEF Board!Cardinality, Cardinality

LEMMA BoardRender ==
  ASSUME Board!WidgetAssumption, BoardInv, Board!RequestRender
  PROVE  BoardInv'
<1> DEFINE ks == {k \in Keys : registry[k] # None}
           m == Cardinality(ks)
           Cell(k) == Board!Board(look[k], registry[k])
<1>1. /\ BoardTypes /\ sends \in Seq(BoardEvents) /\ IsFiniteSet(ks)
      /\ \A u \in Keys : registry[u] # None /\ cache[u] # None => cache[u].s = registry[u]
  BY DEF BoardInv
<1>2. m \in Nat
  BY <1>1, FS_CardinalityType
<1> HIDE DEF m
<1>3. /\ cache' = [k \in Keys |-> IF k \in ks THEN Cell(k) ELSE cache[k]]
      /\ UNCHANGED <<registry, look, status, online, asking, viewed, widgets, statuses, panel,
                     id, missed>>
  BY DEF Board!RequestRender, Board!tabVars
<1>4. PICK order \in [1 .. m -> ks] :
        /\ \A k \in ks : \E i \in DOMAIN order : order[i] = k
        /\ sends' = IF online
                     THEN sends \o [i \in DOMAIN order |->
                                      [op |-> "widget", key |-> order[i],
                                       board |-> cache'[order[i]]]]
                     ELSE sends
  BY Zenon, BoardCounts DEF Board!RequestRender, Board!Sent, m
<1>5. \A k \in ks : Cell(k) \in Cells /\ (Cell(k) # None => Cell(k).s = registry[k])
  <2> SUFFICES ASSUME NEW k \in ks
               PROVE  Cell(k) \in Cells /\ (Cell(k) # None => Cell(k).s = registry[k])
    OBVIOUS
  <2>1. Cell(k) = IF look[k] = None THEN None ELSE [lines |-> look[k], s |-> registry[k]]
    BY DEF Board!Board
  <2>2. look[k] \in Lines /\ registry[k] \in Sessions
    BY <1>1 DEF BoardTypes
  <2> HIDE DEF Cell
  <2> QED BY <2>1, <2>2 DEF Cells
<1> HIDE DEF Cell
<1>6. /\ cache' \in [Keys -> Cells]
      /\ \A k \in Keys : cache'[k] = IF k \in ks THEN Cell(k) ELSE cache[k]
  BY <1>1, <1>3, <1>5 DEF BoardTypes
<1>7. \A u \in Keys : registry'[u] # None /\ cache'[u] # None => cache'[u].s = registry'[u]
  BY <1>3, <1>5, <1>6
<1>8. IsFiniteSet({u \in Keys : registry'[u] # None})
  BY <1>1, <1>3
<1> DEFINE p == [i \in 1 .. m |-> [op |-> "widget", key |-> order[i], board |-> cache'[order[i]]]]
<1>9. \A i \in 1 .. m : /\ p[i] \in BoardEvents /\ p[i].op = "widget" /\ p[i].key = order[i]
                        /\ p[i].board = cache'[p[i].key]
  <2> SUFFICES ASSUME NEW i \in 1 .. m
               PROVE  /\ p[i] \in BoardEvents /\ p[i].op = "widget" /\ p[i].key = order[i]
                      /\ p[i].board = cache'[p[i].key]
    OBVIOUS
  <2>1. order[i] \in Keys /\ cache'[order[i]] \in Cells
    BY <1>4, <1>6
  <2> QED BY <2>1 DEF BoardEvents
<1>10. p \in Seq(BoardEvents) /\ Len(p) = m
  <2>1. p \in [1 .. m -> BoardEvents]
    BY <1>9
  <2> HIDE DEF p
  <2> QED BY <1>2, <2>1
<1>11. sends' = IF online THEN sends \o p ELSE sends
  BY <1>4
<1> HIDE DEF p
<1>12. ASSUME online
       PROVE  /\ sends' \in Seq(BoardEvents) /\ DOMAIN sends' = 1 .. Len(sends) + m
              /\ \A i \in 1 .. Len(sends) : sends'[i] = sends[i]
              /\ \A i \in 1 .. m : Len(sends) + i \in 1 .. Len(sends) + m
                   /\ Len(sends) + i > Len(sends) /\ sends'[Len(sends) + i] = p[i]
              /\ Len(sends) \in Nat
              /\ \A i \in 1 .. Len(sends) + m : i > Len(sends) =>
                   i - Len(sends) \in 1 .. m /\ i = Len(sends) + (i - Len(sends))
  BY <1>1, <1>2, <1>10, <1>11, <1>12
<1>13. online =>
         /\ sends' \in Seq(BoardEvents) /\ DOMAIN sends' = 1 .. Len(sends) + m
         /\ \A i \in 1 .. Len(sends) : sends'[i] = sends[i]
         /\ \A i \in 1 .. Len(sends) + m : i > Len(sends) =>
              sends'[i].op = "widget" /\ sends'[i].board = cache'[sends'[i].key]
         /\ \A u \in Keys : cache'[u] = cache[u] \/
              \E i \in 1 .. Len(sends) + m : i > Len(sends) /\ sends'[i].key = u
  <2> SUFFICES ASSUME online
               PROVE  /\ \A i \in 1 .. Len(sends) + m : i > Len(sends) =>
                           sends'[i].op = "widget" /\ sends'[i].board = cache'[sends'[i].key]
                      /\ \A u \in Keys : cache'[u] = cache[u] \/
                           \E i \in 1 .. Len(sends) + m : i > Len(sends) /\ sends'[i].key = u
    BY <1>12
  <2>1. \A i \in 1 .. Len(sends) + m : i > Len(sends) =>
          i - Len(sends) \in 1 .. m /\ sends'[i] = p[i - Len(sends)]
    BY <1>12
  <2>2. ASSUME NEW u \in Keys
        PROVE  cache'[u] = cache[u] \/
                 \E i \in 1 .. Len(sends) + m : i > Len(sends) /\ sends'[i].key = u
    <3>1. CASE u \notin ks
      BY <1>6, <3>1
    <3>2. CASE u \in ks
      <4>1. PICK i \in 1 .. m : order[i] = u
        BY <1>4, <3>2
      <4>2. sends'[Len(sends) + i].key = u
        BY <1>9, <1>12, <4>1
      <4> QED BY <1>12, <4>2
    <3> QED BY <3>1, <3>2
  <2> QED BY <1>9, <2>1, <2>2
<1>14. ~online => sends' = sends
  BY <1>11
<1>15. registry' \in [Keys -> Sessions \cup {None}] /\ look' \in [Keys -> Lines]
  BY <1>1, <1>3 DEF BoardTypes
<1> QED BY <1>2, <1>3, <1>6, <1>7, <1>8, <1>13, <1>14, <1>15, BoardTells

LEMMA BoardStatus ==
  ASSUME BoardInv, NEW k \in Keys, NEW on \in BOOLEAN, Board!SetStatus(k, on)
  PROVE  BoardInv'
<1> DEFINE e == [op |-> "status", key |-> k, on |-> on]
           len == Len(sends)
<1>1. /\ BoardTypes /\ sends \in Seq(BoardEvents)
      /\ online \/ (sends = <<>> /\ ~asking)
      /\ online /\ ~asking => Replays(sends, widgets, cache)
      /\ StatusReplays(sends, statuses, status, missed)
  BY DEF BoardInv
<1>2. /\ sends' = IF online THEN sends \o <<e>> ELSE sends
      /\ status' = IF on THEN status \cup {k} ELSE status \ {k}
      /\ missed' = IF online THEN missed \ {k} ELSE missed \cup {k}
      /\ UNCHANGED <<registry, look, cache, online, asking, viewed, widgets, statuses, panel, id>>
  BY DEF Board!SetStatus, Board!Sent, Board!tabVars
<1>3. e \in BoardEvents /\ e.op = "status" /\ e.key = k /\ e.on = on
  BY DEF BoardEvents
<1> HIDE DEF e
<1>4. BoardTypes'
  BY <1>1, <1>2 DEF BoardTypes
<1>5. k \in status' <=> on
  BY <1>2
<1>6. \A u : u # k => (u \in status' <=> u \in status)
  BY <1>2
<1>7. CASE online
  <2>1. sends' = Append(sends, e)
    BY <1>1, <1>2, <1>3, <1>7
  <2>2. /\ sends' \in Seq(BoardEvents) /\ len \in Nat /\ DOMAIN sends = 1 .. len
        /\ DOMAIN sends' = 1 .. len + 1
        /\ \A i \in 1 .. len : i \in 1 .. len + 1 /\ sends'[i] = sends[i]
        /\ sends'[len + 1] = e /\ len + 1 \in 1 .. len + 1
        /\ \A i \in 1 .. len + 1 : i \in 1 .. len \/ i = len + 1
    BY <1>1, <1>3, <2>1, SeqAppend
  <2> HIDE DEF len
  <2>3. \A u : About(sends', u) = About(sends, u)
               /\ \A i \in About(sends, u) : sends'[i] = sends[i]
    <3> SUFFICES ASSUME NEW u
                 PROVE  About(sends', u) = About(sends, u)
                        /\ \A i \in About(sends, u) : sends'[i] = sends[i]
      OBVIOUS
    <3> QED BY <1>3, <2>2 DEF About
  <2>4. ASSUME online', ~asking' PROVE Replays(sends, widgets, cache)'
    <3>1. Replays(sends, widgets, cache) /\ widgets' = widgets /\ cache' = cache
      BY <1>1, <1>2, <2>4
    <3> QED BY <2>3, <3>1 DEF Replays
  <2>5. StatusReplays(sends, statuses, status, missed)'
    <3> SUFFICES ASSUME NEW u \in Keys \ missed'
                 PROVE  /\ \A i \in AboutStatus(sends', u) :
                             (\A j \in AboutStatus(sends', u) : j <= i)
                               => (sends'[i].on <=> u \in status')
                        /\ AboutStatus(sends', u) = {} => (u \in statuses' <=> u \in status')
      BY DEF StatusReplays
    <3>1. CASE u = k
      <4>1. len + 1 \in AboutStatus(sends', u)
        BY <1>3, <2>2, <3>1 DEF AboutStatus
      <4>2. ASSUME NEW i \in AboutStatus(sends', u), \A j \in AboutStatus(sends', u) : j <= i
            PROVE  sends'[i].on <=> u \in status'
        <5>1. i \in 1 .. len + 1 /\ len + 1 <= i
          BY <2>2, <4>1, <4>2 DEF AboutStatus
        <5>2. i = len + 1
          BY <2>2, <5>1
        <5> QED BY <1>3, <1>5, <2>2, <3>1, <5>2
      <4> QED BY <4>1, <4>2
    <3>2. CASE u # k
      <4>1. /\ AboutStatus(sends', u) = AboutStatus(sends, u)
            /\ \A i \in AboutStatus(sends, u) : sends'[i] = sends[i]
        BY <1>3, <2>2, <3>2 DEF AboutStatus
      <4>2. u \in Keys \ missed
        BY <1>2, <1>7, <3>2
      <4>3. /\ \A i \in AboutStatus(sends, u) :
                 (\A j \in AboutStatus(sends, u) : j <= i) => (sends[i].on <=> u \in status)
            /\ AboutStatus(sends, u) = {} => (u \in statuses <=> u \in status)
        BY <1>1, <4>2 DEF StatusReplays
      <4> QED BY <1>2, <1>6, <3>2, <4>1, <4>3
    <3> QED BY <3>1, <3>2
  <2> QED BY <1>2, <1>4, <1>7, <2>2, <2>4, <2>5 DEF BoardInv, Board!Visible
<1>8. CASE ~online
  <2>1. sends' = sends /\ missed' = missed \cup {k}
    BY <1>2, <1>8
  <2>2. StatusReplays(sends, statuses, status, missed)'
    <3> SUFFICES ASSUME NEW u \in Keys \ missed'
                 PROVE  /\ \A i \in AboutStatus(sends', u) :
                             (\A j \in AboutStatus(sends', u) : j <= i)
                               => (sends'[i].on <=> u \in status')
                        /\ AboutStatus(sends', u) = {} => (u \in statuses' <=> u \in status')
      BY DEF StatusReplays
    <3>1. u # k /\ u \in Keys \ missed
      BY <2>1
    <3> QED BY <1>1, <1>2, <1>6, <2>1, <3>1 DEF StatusReplays
  <2> QED BY <1>1, <1>2, <1>4, <1>8, <2>1, <2>2 DEF BoardInv, Board!Visible
<1> QED BY <1>7, <1>8

\* The panel follows the widgets of the session on screen.
LEMMA BoardFollows ==
  ASSUME Board!WidgetAssumption, BoardTypes, NEW a, NEW w, Board!PanelFollows(a, w)
  PROVE  /\ panel' \in BOOLEAN /\ id' \in {None, "widget", "diff"}
         /\ panel' => Board!Visible(a, w) # {}
         /\ id' = "widget" => panel'
<1>1. /\ panel' = (Board!Visible(a, w) # {})
      /\ id' = IF Board!Visible(a, w) # {} THEN IF id = None THEN "widget" ELSE id
               ELSE IF id = "widget" THEN None ELSE id
  BY DEF Board!PanelFollows, Board!OpensWith
<1>2. id \in {None, "widget", "diff"}
  BY DEF BoardTypes
<1>3. panel' \in BOOLEAN
  BY <1>1
<1>4. id' \in {None, "widget", "diff"}
  BY <1>1, <1>2
<1>5. (panel' => Board!Visible(a, w) # {}) /\ (Board!Visible(a, w) # {} => panel')
  BY <1>1
<1>6. id' = "widget" => Board!Visible(a, w) # {}
  BY <1>1, <1>2, BoardNames
<1> QED BY <1>3, <1>4, <1>5, <1>6

LEMMA BoardTabs ==
  ASSUME Board!WidgetAssumption, BoardInv,
         (\E s \in Sessions : Board!Activate(s)) \/ Board!CloseTab \/ Board!FrontTab
  PROVE  BoardInv'
<1>1. UNCHANGED <<registry, look, cache, status, online, asking, sends, widgets, statuses, missed>>
  BY DEF Board!Activate, Board!CloseTab, Board!FrontTab, Board!daemonVars
<1>2. BoardTypes /\ (panel => Board!Visible(viewed, widgets) # {}) /\ (id = "widget" => panel)
  BY DEF BoardInv
<1>3. /\ viewed' \in Sessions \cup {None} /\ panel' \in BOOLEAN
      /\ id' \in {None, "widget", "diff"}
      /\ panel' => Board!Visible(viewed', widgets) # {}
      /\ id' = "widget" => panel'
  <2>1. CASE \E s \in Sessions : Board!Activate(s)
    <3>1. PICK s \in Sessions : viewed' = s /\ Board!PanelFollows(s, widgets)
      BY <2>1 DEF Board!Activate
    <3> QED BY <1>2, <3>1, BoardFollows
  <2>2. CASE Board!CloseTab
    BY <1>2, <2>2, BoardNames DEF Board!CloseTab, BoardTypes
  <2>3. CASE Board!FrontTab
    BY <1>2, <2>3, BoardNames DEF Board!FrontTab, BoardTypes
  <2> QED BY <2>1, <2>2, <2>3
<1>4. BoardTypes'
  BY <1>1, <1>2, <1>3 DEF BoardTypes
<1>5. (panel => Board!Visible(viewed, widgets) # {})'
  BY <1>1, <1>3 DEF Board!Visible
<1>6. /\ (online /\ ~asking => Replays(sends, widgets, cache))'
      /\ StatusReplays(sends, statuses, status, missed)'
  BY <1>1 DEF BoardInv, Replays, About, StatusReplays, AboutStatus
<1> QED BY <1>1, <1>3, <1>4, <1>5, <1>6 DEF BoardInv

------------------------------------------------------------------------------
\* A connection opens, is answered, breaks; the page is loaded anew.
LEMMA BoardConnect == ASSUME BoardInv, Board!Connect PROVE BoardInv'
<1>1. /\ ~online /\ online' = TRUE /\ asking' = TRUE
      /\ UNCHANGED <<registry, look, cache, status, sends, viewed, widgets, statuses, panel, id,
                     missed>>
  BY DEF Board!Connect, Board!daemonVars, Board!tabVars
<1>2. BoardTypes'
  BY <1>1 DEF BoardInv, BoardTypes
<1> QED BY <1>1, <1>2 DEF BoardInv, StatusReplays, AboutStatus, Board!Visible

LEMMA BoardAnswered == ASSUME BoardInv, Board!GetWidgets PROVE BoardInv'
<1> DEFINE e == [op |-> "all", board |-> cache]
           len == Len(sends)
<1>1. /\ BoardTypes /\ sends \in Seq(BoardEvents) /\ (online \/ ~asking)
      /\ StatusReplays(sends, statuses, status, missed)
  BY DEF BoardInv
<1>2. /\ online /\ asking' = FALSE /\ sends' = Append(sends, e)
      /\ UNCHANGED <<registry, look, cache, status, online, viewed, widgets, statuses, panel, id,
                     missed>>
  BY <1>1 DEF Board!GetWidgets, Board!daemonVars, Board!tabVars
<1>3. e \in BoardEvents /\ e.op = "all" /\ e.board = cache
  BY <1>1 DEF BoardEvents, BoardTypes
<1> HIDE DEF e
<1>4. /\ sends' \in Seq(BoardEvents) /\ len \in Nat /\ DOMAIN sends = 1 .. len
      /\ DOMAIN sends' = 1 .. len + 1
      /\ \A i \in 1 .. len : i \in 1 .. len + 1 /\ sends'[i] = sends[i]
      /\ sends'[len + 1] = e /\ len + 1 \in 1 .. len + 1
      /\ \A i \in 1 .. len + 1 : i \in 1 .. len \/ i = len + 1
  BY <1>1, <1>2, <1>3, SeqAppend
<1> HIDE DEF len
<1>5. BoardTypes'
  BY <1>1, <1>2 DEF BoardTypes
<1>6. Replays(sends, widgets, cache)'
  <2> SUFFICES ASSUME NEW k \in Keys
               PROVE  /\ \A i \in About(sends', k) :
                           (\A j \in About(sends', k) : j <= i)
                             => BoardOf(sends'[i], k) = cache'[k]
                      /\ About(sends', k) # {}
    BY DEF Replays
  <2>1. len + 1 \in About(sends', k)
    BY <1>3, <1>4 DEF About
  <2>2. ASSUME NEW i \in About(sends', k), \A j \in About(sends', k) : j <= i
        PROVE  BoardOf(sends'[i], k) = cache'[k]
    <3>1. i \in 1 .. len + 1 /\ len + 1 <= i
      BY <1>4, <2>1, <2>2 DEF About
    <3>2. i = len + 1
      BY <1>4, <3>1
    <3> QED BY <1>2, <1>3, <1>4, <3>2 DEF BoardOf
  <2> QED BY <2>1, <2>2
<1>7. StatusReplays(sends, statuses, status, missed)'
  <2>1. \A u : /\ AboutStatus(sends', u) = AboutStatus(sends, u)
               /\ \A i \in AboutStatus(sends, u) : sends'[i] = sends[i]
    <3> SUFFICES ASSUME NEW u
                 PROVE  /\ AboutStatus(sends', u) = AboutStatus(sends, u)
                        /\ \A i \in AboutStatus(sends, u) : sends'[i] = sends[i]
      OBVIOUS
    <3> QED BY <1>3, <1>4 DEF AboutStatus
  <2> SUFFICES ASSUME NEW u \in Keys \ missed
               PROVE  /\ \A i \in AboutStatus(sends', u) :
                           (\A j \in AboutStatus(sends', u) : j <= i)
                             => (sends'[i].on <=> u \in status)
                      /\ AboutStatus(sends', u) = {} => (u \in statuses <=> u \in status)
    BY <1>2 DEF StatusReplays
  <2>2. /\ \A i \in AboutStatus(sends, u) :
             (\A j \in AboutStatus(sends, u) : j <= i) => (sends[i].on <=> u \in status)
        /\ AboutStatus(sends, u) = {} => (u \in statuses <=> u \in status)
    BY <1>1 DEF StatusReplays
  <2>3. /\ AboutStatus(sends', u) = AboutStatus(sends, u)
        /\ \A i \in AboutStatus(sends, u) : sends'[i] = sends[i]
    BY <2>1
  <2> QED BY <2>2, <2>3
<1> QED BY <1>2, <1>4, <1>5, <1>6, <1>7 DEF BoardInv, Board!Visible

LEMMA BoardBreaks ==
  ASSUME Board!WidgetAssumption, BoardInv, Board!Disconnect PROVE BoardInv'
<1>1. BoardTypes /\ sends \in Seq(BoardEvents) /\ StatusReplays(sends, statuses, status, missed)
  BY DEF BoardInv
<1>2. /\ online' = FALSE /\ asking' = FALSE /\ sends' = <<>>
      /\ missed' = missed \cup {sends[i].key : i \in {j \in DOMAIN sends : sends[j].op = "status"}}
      /\ UNCHANGED <<registry, look, cache, status, viewed, widgets, statuses, panel, id>>
  BY DEF Board!Disconnect, Board!daemonVars, Board!tabVars
<1>3. \A i \in DOMAIN sends : sends[i].op = "status" => sends[i].key \in Keys
  <2>1. \A e \in BoardEvents : e.op = "status" => e.key \in Keys
    BY DEF BoardEvents
  <2>2. \A i \in DOMAIN sends : sends[i] \in BoardEvents
    BY <1>1
  <2> QED BY <2>1, <2>2
<1>4. missed' \subseteq Keys
  BY <1>1, <1>2, <1>3 DEF BoardTypes
<1>5. BoardTypes'
  BY <1>1, <1>2, <1>4 DEF BoardTypes
<1>6. StatusReplays(sends, statuses, status, missed)'
  <2> SUFFICES ASSUME NEW k \in Keys \ missed' PROVE k \in statuses <=> k \in status
    BY <1>2 DEF StatusReplays, AboutStatus
  <2>1. k \in Keys \ missed /\ AboutStatus(sends, k) = {}
    BY <1>2 DEF AboutStatus
  <2> QED BY <1>1, <2>1 DEF StatusReplays
<1>7. sends' \in Seq(BoardEvents)
  BY <1>2
<1> QED BY <1>2, <1>5, <1>6, <1>7 DEF BoardInv, Board!Visible

LEMMA BoardReload ==
  ASSUME Board!WidgetAssumption, BoardInv, Board!Reload PROVE BoardInv'
<1>1. BoardTypes
  BY DEF BoardInv
<1>2. /\ online' = FALSE /\ asking' = FALSE /\ sends' = <<>> /\ viewed' = None
      /\ widgets' = [k \in Keys |-> None] /\ statuses' = {} /\ missed' = Keys
      /\ panel' = FALSE /\ id' = None /\ UNCHANGED <<registry, look, cache, status>>
  BY DEF Board!Reload, Board!daemonVars, Board!Blank
<1>3. widgets' \in [Keys -> Cells]
  BY <1>2 DEF Cells
<1>4. BoardTypes'
  BY <1>1, <1>2, <1>3 DEF BoardTypes
<1>5. StatusReplays(sends, statuses, status, missed)'
  BY <1>2 DEF StatusReplays
<1>6. sends' \in Seq(BoardEvents)
  BY <1>2
<1>7. id' # "widget" /\ ~panel' /\ ~online'
  BY <1>2, BoardNames
<1> QED BY <1>2, <1>4, <1>5, <1>6, <1>7 DEF BoardInv

\* The tab takes the next event.
LEMMA BoardArrive ==
  ASSUME Board!WidgetAssumption, BoardInv, Board!Arrive PROVE BoardInv'
<1> DEFINE e == Head(sends)
<1>1. /\ BoardTypes /\ sends \in Seq(BoardEvents) /\ sends # <<>> /\ online
      /\ ~asking => Replays(sends, widgets, cache)
      /\ StatusReplays(sends, statuses, status, missed)
  BY DEF BoardInv, Board!Arrive
<1>2. /\ sends' = Tail(sends)
      /\ UNCHANGED <<registry, look, cache, status, online, asking, viewed, missed>>
      /\ \/ /\ e.op = "widget" /\ UNCHANGED statuses
            /\ widgets' = [widgets EXCEPT ![e.key] = e.board]
            /\ Board!PanelFollows(viewed, widgets')
         \/ /\ e.op = "all" /\ widgets' = e.board /\ UNCHANGED statuses
            /\ Board!PanelFollows(viewed, widgets')
         \/ /\ e.op = "status" /\ UNCHANGED <<widgets, panel, id>>
            /\ statuses' = IF e.on THEN statuses \cup {e.key} ELSE statuses \ {e.key}
  BY DEF Board!Arrive, Board!daemonVars
<1>3. e \in BoardEvents /\ e = sends[1] /\ 1 \in DOMAIN sends /\ sends' \in Seq(BoardEvents)
  BY <1>1, <1>2, SeqTail
<1> HIDE DEF e
<1>4. /\ e.op = "widget" => e.key \in Keys /\ e.board \in Cells
      /\ e.op = "all" => e.board \in [Keys -> Cells]
      /\ e.op = "status" => e.key \in Keys
  BY <1>3 DEF BoardEvents
<1>5. /\ \A k : 1 \in About(sends, k) <=> (e.op = "all" \/ (e.op = "widget" /\ e.key = k))
      /\ \A k : 1 \in AboutStatus(sends, k) <=> (e.op = "status" /\ e.key = k)
  BY <1>3 DEF About, AboutStatus
<1>6. ASSUME e.op \in {"widget", "all"}
      PROVE  /\ statuses' = statuses /\ widgets' \in [Keys -> Cells]
             /\ Board!PanelFollows(viewed, widgets')
             /\ \A k \in Keys : /\ 1 \in About(sends, k) => widgets'[k] = BoardOf(sends[1], k)
                                /\ 1 \notin About(sends, k) => widgets'[k] = widgets[k]
  <2>1. CASE e.op = "widget"
    <3>1. /\ widgets' = [widgets EXCEPT ![e.key] = e.board] /\ statuses' = statuses
          /\ Board!PanelFollows(viewed, widgets')
      BY <1>2, <2>1
    <3>2. /\ widgets' \in [Keys -> Cells] /\ widgets'[e.key] = e.board
          /\ \A k \in Keys : k # e.key => widgets'[k] = widgets[k]
      BY <1>1, <1>4, <2>1, <3>1 DEF BoardTypes
    <3> QED BY <1>3, <1>5, <2>1, <3>1, <3>2 DEF BoardOf
  <2>2. CASE e.op = "all"
    <3>1. /\ widgets' = e.board /\ statuses' = statuses
          /\ Board!PanelFollows(viewed, widgets')
      BY <1>2, <2>2
    <3> QED BY <1>3, <1>4, <1>5, <2>2, <3>1 DEF BoardOf
  <2> QED BY <1>6, <2>1, <2>2
<1>7. CASE e.op \in {"widget", "all"}
  <2>1. /\ panel' \in BOOLEAN /\ id' \in {None, "widget", "diff"}
        /\ panel' => Board!Visible(viewed, widgets') # {}
        /\ id' = "widget" => panel'
    BY <1>1, <1>6, <1>7, BoardFollows
  <2>2. BoardTypes'
    BY <1>1, <1>2, <1>6, <1>7, <2>1 DEF BoardTypes
  <2>3. ASSUME ~asking PROVE Replays(sends', widgets', cache)
    <3>1. /\ sends \in Seq(BoardEvents) /\ sends # <<>> /\ Replays(sends, widgets, cache)
          /\ sends' = Tail(sends)
      BY <1>1, <1>2, <2>3
    <3>2. \A k \in Keys : /\ 1 \in About(sends, k) => widgets'[k] = BoardOf(sends[1], k)
                          /\ 1 \notin About(sends, k) => widgets'[k] = widgets[k]
      BY <1>6, <1>7
    <3> QED BY <3>1, <3>2, ReplaysTail
  <2>4. \A k : 1 \notin AboutStatus(sends, k)
    BY <1>5, <1>7
  <2>5. StatusReplays(sends', statuses', status, missed)
    BY <1>1, <1>2, <1>6, <1>7, <2>4, StatusAfter
  <2>6. (online /\ ~asking => Replays(sends, widgets, cache))'
    BY <1>2, <2>3 DEF Replays
  <2>7. StatusReplays(sends, statuses, status, missed)'
    BY <1>2, <2>5 DEF StatusReplays
  <2>8. (panel => Board!Visible(viewed, widgets) # {})'
    BY <1>2, <2>1 DEF Board!Visible
  <2> QED BY <1>1, <1>2, <1>3, <2>1, <2>2, <2>6, <2>7, <2>8 DEF BoardInv
<1>8. CASE e.op = "status"
  <2>1. /\ UNCHANGED <<widgets, panel, id>>
        /\ statuses' = IF e.on THEN statuses \cup {e.key} ELSE statuses \ {e.key}
    BY <1>2, <1>8
  <2>2. BoardTypes'
    BY <1>1, <1>2, <1>4, <1>8, <2>1 DEF BoardTypes
  <2>3. ~asking => Replays(sends', widgets, cache)
    <3>1. \A k \in Keys : 1 \notin About(sends, k)
      BY <1>5, <1>8
    <3> QED BY <1>1, <1>2, <3>1, ReplaysTail
  <2>4. /\ \A k \in Keys : 1 \in AboutStatus(sends, k) => (k \in statuses' <=> sends[1].on)
        /\ \A k \in Keys : 1 \notin AboutStatus(sends, k) => (k \in statuses' <=> k \in statuses)
    BY <1>3, <1>5, <1>8, <2>1
  <2>5. StatusReplays(sends', statuses', status, missed)
    BY <1>1, <1>2, <2>4, StatusAfter
  <2>6. (online /\ ~asking => Replays(sends, widgets, cache))'
    BY <1>2, <2>1, <2>3 DEF Replays
  <2>7. StatusReplays(sends, statuses, status, missed)'
    BY <1>2, <2>5 DEF StatusReplays
  <2> QED BY <1>1, <1>2, <1>3, <2>1, <2>2, <2>6, <2>7 DEF BoardInv, Board!Visible
<1> QED BY <1>2, <1>7, <1>8

LEMMA BoardStep ==
  ASSUME Board!WidgetAssumption, BoardInv, [Board!Next]_boardVars
  PROVE  BoardInv'
<1>1. CASE UNCHANGED boardVars
  <2>1. UNCHANGED <<registry, look, cache, status, online, asking, sends, viewed, widgets,
                    statuses, panel, id, missed>>
    BY <1>1 DEF boardVars
  <2> QED BY <2>1 DEF BoardInv, BoardTypes, Replays, About, StatusReplays, AboutStatus,
          Board!Visible
<1>2. CASE Board!Next
  BY <1>2, BoardEmit, BoardChanges, BoardRender, BoardStatus, BoardTabs, BoardConnect,
     BoardAnswered, BoardBreaks, BoardReload, BoardArrive DEF Board!Next
<1> QED BY <1>1, <1>2

LEMMA BoardInvKept == ASSUME BoardInv PROVE Board!TypeOK /\ Board!BoardTrue
<1>1. Board!TypeOK
  <2>1. BoardTypes
    BY DEF BoardInv
  <2>2. {online, asking, panel} \subseteq BOOLEAN
    BY <2>1 DEF BoardTypes
  <2>3. statuses \cup status \cup missed \subseteq Keys
    BY <2>1 DEF BoardTypes
  <2> QED BY <2>1, <2>2, <2>3 DEF BoardTypes, Board!TypeOK, Board!Boards, Cells
<1>2. ASSUME online, ~asking, sends = <<>>
      PROVE  /\ Board!Visible(viewed, widgets) = Board!Visible(viewed, cache)
             /\ statuses \ missed = status \ missed
  <2>1. Replays(sends, widgets, cache) /\ StatusReplays(sends, statuses, status, missed)
        /\ BoardTypes
    BY <1>2 DEF BoardInv
  <2>2. \A k : About(sends, k) = {} /\ AboutStatus(sends, k) = {}
    BY <1>2 DEF About, AboutStatus
  <2>3. \A k \in Keys : widgets[k] = cache[k]
    BY <2>1, <2>2 DEF Replays
  <2>4. \A k \in Keys \ missed : k \in statuses <=> k \in status
    BY <2>1, <2>2 DEF StatusReplays
  <2>5. Board!Visible(viewed, widgets) = Board!Visible(viewed, cache)
    BY <2>3 DEF Board!Visible
  <2> QED BY <2>1, <2>4, <2>5 DEF BoardTypes
<1>3. panel \/ id = "widget" => Board!Panel # {}
  BY DEF BoardInv, Board!Panel
<1>4. \A k \in Keys : registry[k] # None /\ cache[k] # None => cache[k].s = registry[k]
  BY DEF BoardInv
<1> QED BY <1>1, <1>2, <1>3, <1>4 DEF Board!BoardTrue, Board!Dock
------------------------------------------------------------------------------
(***************************************************************************)
(* The composition: a step of the tab is a step of one machine and leaves  *)
(* the state of the others alone.                                          *)
(***************************************************************************)
LEMMA Parts ==
  ASSUME Init
  PROVE  /\ Queue!Init /\ Bar!Init /\ Lists!Init /\ Pane!Init /\ Scroll!Init
         /\ Choice!Init /\ Compact!Init /\ Board!Init
  BY DEF Init

LEMMA Moves ==
  ASSUME [Next]_vars
  PROVE  /\ [Queue!Next]_queueVars /\ [Bar!Next]_barVars /\ [Lists!Next]_listsVars
         /\ [Pane!Next]_paneVars /\ [Scroll!Next]_scrollVars
         /\ [Choice!Next]_choiceVars /\ [Compact!Next]_compactVars
         /\ [Board!Next]_boardVars
<1>1. CASE UNCHANGED vars
  BY <1>1 DEF vars
<1>2. CASE QueueNext
  BY <1>2 DEF QueueNext
<1>3. CASE BarNext
  BY <1>3 DEF BarNext
<1>4. CASE ListsNext
  BY <1>4 DEF ListsNext
<1>5. CASE PaneNext
  BY <1>5 DEF PaneNext
<1>6. CASE ScrollNext
  BY <1>6 DEF ScrollNext
<1>7. CASE TimelineNext
  BY <1>7 DEF TimelineNext
<1>8. CASE ChoiceNext
  BY <1>8 DEF ChoiceNext
<1>9. CASE CompactNext
  BY <1>9 DEF CompactNext
<1>10. CASE BoardNext
  BY <1>10 DEF BoardNext
<1> QED BY <1>1, <1>2, <1>3, <1>4, <1>5, <1>6, <1>7, <1>8, <1>9, <1>10 DEF Next

BrowserInv ==
  /\ QueueInv /\ BarInv /\ ListsInv /\ PaneInv /\ ScrollInv
  /\ ChoiceInv /\ CompactInv /\ BoardInv

LEMMA Always == ASSUME BrowserAssumption PROVE Spec => []BrowserInv
<1>1. ASSUME Init PROVE BrowserInv
  BY <1>1, Parts, QueueInit, BarInit, ListsInit, PaneInit, ScrollInit, ChoiceInit,
     CompactInit, BoardInit DEF BrowserAssumption, BrowserInv
<1>2. ASSUME BrowserInv, [Next]_vars PROVE BrowserInv'
  <2>1. QueueInv' /\ BarInv' /\ ListsInv' /\ PaneInv' /\ ScrollInv'
    BY <1>2, Moves, QueueStep, BarStep, ListsStep, PaneStep, ScrollStep
       DEF BrowserAssumption, BrowserInv
  <2>2. ChoiceInv' /\ CompactInv' /\ BoardInv'
    BY <1>2, Moves, ChoiceStep, CompactStep, BoardStep DEF BrowserAssumption, BrowserInv
  <2> QED BY <2>1, <2>2 DEF BrowserInv
<1> QED BY <1>1, <1>2, PTL DEF Spec

\* Files, lists, panel, view, choice, compactions and widgets stay in their
\* types: no answer, event or jump that comes late takes them out.
THEOREM TypesCorrect ==
  ASSUME BrowserAssumption
  PROVE  Spec => [](/\ Bar!TypeOK /\ Lists!TypeOK /\ Pane!TypeOK /\ Scroll!TypeOK
                    /\ Choice!TypeOK /\ Compact!TypeOK /\ Board!TypeOK)
<1>1. ASSUME BrowserAssumption, BrowserInv
      PROVE  /\ Bar!TypeOK /\ Lists!TypeOK /\ Pane!TypeOK /\ Scroll!TypeOK
             /\ Choice!TypeOK /\ Compact!TypeOK /\ Board!TypeOK
  BY <1>1, BarInvKept, ListsInvKept, PaneInvKept, ScrollInvKept, ChoiceInvKept,
     CompactInvKept, BoardInvKept DEF BrowserAssumption, BrowserInv
<1> QED BY <1>1, Always, PTL

\* Every queued message is shown as it is kept, in the tab that queued it and
\* in those that hear of it (steering-queue.ts), and no file is lost or doubled
\* on its way from the picker into a message (input.tsx).
THEOREM InputAlwaysKept == ASSUME BrowserAssumption PROVE Spec => []InputKept
<1>1. BrowserInv => InputKept
  BY QueueInvKept, BarInvKept DEF BrowserInv, InputKept
<1> QED BY <1>1, Always, PTL

\* Once nothing is on the way the tab shows the daemon's state: the sidebar's
\* lists, a session's model and thinking level, the extensions' widgets and
\* the statuses it did not miss.
THEOREM DaemonAlwaysShown == ASSUME BrowserAssumption PROVE Spec => []DaemonShown
<1>1. ASSUME BrowserAssumption, BrowserInv PROVE DaemonShown
  BY <1>1, ListsInvKept, ChoiceInvKept, BoardInvKept
     DEF BrowserAssumption, BrowserInv, DaemonShown
<1> QED BY <1>1, Always, PTL

\* A session's panel comes back as it was left, the view stays where the user
\* scrolled it, and no mark of a compaction outlives it.
THEOREM ViewAlwaysKept == ASSUME BrowserAssumption PROVE Spec => []ViewKept
<1>1. ASSUME BrowserAssumption, BrowserInv PROVE ViewKept
  BY <1>1, PaneInvKept, ScrollInvKept, CompactInvKept
     DEF BrowserAssumption, BrowserInv, ViewKept
<1> QED BY <1>1, Always, PTL
===============================================================================
