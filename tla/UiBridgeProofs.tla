--------------------------- MODULE UiBridgeProofs ----------------------------
(***************************************************************************)
(* Proofs about UiBridge: types, that every question in uiPending is one   *)
(* whose extension still waits, that the history on disk is true, that the *)
(* bridge implements AskOnce, and that tabs show what is pending, with     *)
(* turns that never go back.                                               *)
(***************************************************************************)
EXTENDS UiBridge, TLAPS

USE DEF dialog, turns

\* What a request to answer carries.
LEMMA RespondTyped ==
  ASSUME NEW q \in Request, q.kind = "ui.respond"
  PROVE  q.d \in Dialogs /\ q.r \in Answers
BY DEF Request

\* What reaches a tab, by kind.
LEMMA MessageTyped ==
  ASSUME NEW m \in Message
  PROVE  /\ m.kind = "ui.request" => m.d \in Dialogs
         /\ m.kind = "pending" => m.ds \in SUBSET Dialogs
         /\ m.kind = "history" => m.lines \in SUBSET Line
BY DEF Message

LEMMA ResolveTyped ==
  ASSUME TypeOK, NEW d \in Dialogs, NEW r \in Answers, ResolveUi(d, r)
  PROVE  /\ asked' \in [Dialogs -> {"new", "open", "answered", "expired", "lost"}]
         /\ outcome' \in [Dialogs -> Answers]
         /\ pending' \in SUBSET Dialogs
         /\ history' \in SUBSET Line
<1>1. CASE d \in pending
  <2>1. [d |-> d, r |-> r] \in Line
    BY DEF Line
  <2>2. asked' = [asked EXCEPT ![d] = "answered"] /\ outcome' = [outcome EXCEPT ![d] = r]
        /\ pending' = pending \ {d} /\ history' = history \cup {[d |-> d, r |-> r]}
    BY <1>1 DEF ResolveUi
  <2> QED BY Zenon, <2>1, <2>2 DEF TypeOK
<1>2. CASE d \notin pending
  BY <1>2 DEF TypeOK, ResolveUi
<1> QED BY <1>1, <1>2

\* The type invariant is inductive.
LEMMA TypeStep == TypeOK /\ [Next]_vars => TypeOK'
<1> SUFFICES ASSUME TypeOK, [Next]_vars PROVE TypeOK'
  OBVIOUS
<1> USE BridgeAssumption
<1>1. CASE NextTurn
  <2>1. counter' \in Nat /\ runs' \in Nat
    BY <1>1 DEF NextTurn, TypeOK, Line
  <2> QED BY <1>1, <2>1 DEF NextTurn, TypeOK
<1>2. ASSUME NEW d \in Dialogs, Ask(d) PROVE TypeOK'
  <2>1. [kind |-> "ui.request", d |-> d] \in Message
    BY DEF Message
  <2>2. down' \in [Tabs -> Seq(Message)]
    BY <1>2, <2>1 DEF Ask, Broadcast, TypeOK
  <2> QED BY <1>2, <2>2 DEF Ask, TypeOK
<1>3. ASSUME NEW d \in Dialogs, Timeout(d) PROVE TypeOK'
  BY <1>3 DEF Timeout, TypeOK
<1>4. ASSUME NEW t \in Tabs, HandleQuery(t) PROVE TypeOK'
  <2>1. /\ [kind |-> "pending", ds |-> pending] \in Message
        /\ [kind |-> "history", lines |-> history] \in Message
    BY DEF Message, TypeOK
  <2>2. down' \in [Tabs -> Seq(Message)]
    BY <1>4, <2>1 DEF HandleQuery, TypeOK
  <2>3. up' \in [Tabs -> Seq(Request)]
    BY <1>4 DEF HandleQuery, TypeOK
  <2> QED BY <1>4, <2>2, <2>3 DEF HandleQuery, TypeOK
<1>5. ASSUME NEW t \in Tabs, HandleRespond(t) PROVE TypeOK'
  <2>1. Head(up[t]) \in Request
    BY <1>5 DEF HandleRespond, TypeOK
  <2>2. Head(up[t]).d \in Dialogs /\ Head(up[t]).r \in Answers
    BY <1>5, <2>1, RespondTyped DEF HandleRespond
  <2>3. up' \in [Tabs -> Seq(Request)]
    BY <1>5 DEF HandleRespond, TypeOK
  <2>4. ResolveUi(Head(up[t]).d, Head(up[t]).r)
    BY <1>5 DEF HandleRespond
  <2> QED BY <1>5, <2>2, <2>3, <2>4, ResolveTyped DEF HandleRespond, TypeOK
<1>6. ASSUME NEW d \in Dialogs, NEW r \in Answers, StdioRespond(d, r) PROVE TypeOK'
  BY <1>6, ResolveTyped DEF StdioRespond, TypeOK
<1>7. CASE Restart
  BY <1>7 DEF Restart, TypeOK
<1>8. ASSUME NEW t \in Tabs, Connect(t) PROVE TypeOK'
  <2>1. <<[kind |-> "ui.pending"], [kind |-> "ui.history"]>> \in Seq(Request)
    BY DEF Request
  <2> QED BY <1>8, <2>1 DEF Connect, TypeOK
<1>9. ASSUME NEW t \in Tabs, Disconnect(t) PROVE TypeOK'
  BY <1>9 DEF Disconnect, TypeOK
<1>10. ASSUME NEW t \in Tabs, Reload(t) PROVE TypeOK'
  BY <1>10 DEF Reload, TypeOK
<1>11. ASSUME NEW t \in Tabs, Deliver(t) PROVE TypeOK'
  <2> DEFINE m == Head(down[t])
  <2>1. m \in Message /\ down' \in [Tabs -> Seq(Message)]
    BY <1>11 DEF Deliver, TypeOK
  <2>2. cards' \in [Tabs -> SUBSET Card]
    <3>1. CASE m.kind = "ui.request" /\ ShowRequest(t, m)
      <4>1. AskCard(m.d) \in Card
        BY <2>1, <3>1, MessageTyped DEF AskCard, Card
      <4> QED BY <3>1, <4>1 DEF ShowRequest, TypeOK
    <3>2. CASE m.kind = "pending" /\ ShowPending(t, m)
      <4>1. {AskCard(d) : d \in m.ds} \subseteq Card
        BY <2>1, <3>2, MessageTyped DEF AskCard, Card
      <4> QED BY <3>2, <4>1 DEF ShowPending, TypeOK
    <3>3. CASE m.kind = "history" /\ ShowHistory(t, m)
      <4>1. {AnsweredCard(l.d, l.r) : l \in m.lines} \subseteq Card
        BY <2>1, <3>3, MessageTyped DEF AnsweredCard, Card, Line
      <4> QED BY <3>3, <4>1 DEF ShowHistory, TypeOK
    <3> QED BY <1>11, <3>1, <3>2, <3>3 DEF Deliver
  <2> QED BY <1>11, <2>1, <2>2 DEF Deliver, TypeOK
<1>12. ASSUME NEW t \in Tabs, NEW d \in Dialogs, NEW r \in Answers, Respond(t, d, r)
       PROVE  TypeOK'
  <2>1. AnsweredCard(d, r) \in Card
    BY DEF AnsweredCard, Card
  <2>2. cards' \in [Tabs -> SUBSET Card]
    BY <1>12, <2>1 DEF Respond, TypeOK
  <2>3. [kind |-> "ui.respond", d |-> d, r |-> r] \in Request
    BY DEF Request
  <2>4. up' \in [Tabs -> Seq(Request)]
    BY <1>12, <2>3 DEF Respond, TypeOK
  <2> QED BY <1>12, <2>2, <2>4 DEF Respond, TypeOK
<1>13. CASE UNCHANGED vars
  BY <1>13 DEF vars, TypeOK
<1> QED BY <1>1, <1>2, <1>3, <1>4, <1>5, <1>6, <1>7, <1>8, <1>9, <1>10, <1>11, <1>12, <1>13
        DEF Next, DaemonStep, TabStep

\* Questions, answers, requests, messages and cards keep their types.
THEOREM TypeCorrect == Spec => []TypeOK
<1>1. Init => TypeOK
  BY BridgeAssumption DEF Init, TypeOK
<1> QED BY <1>1, TypeStep, PTL DEF Spec

------------------------------------------------------------------------------
(***************************************************************************)
(* The promise                                                             *)
(***************************************************************************)

\* uiPending holds the questions that are still open, and no other.
PendingOpen == \A d \in Dialogs : d \in pending <=> asked[d] = "open"

\* Steps of the bridge as steps of the promise: the three ways in which a
\* question ends.
LEMMA ResolvePromise ==
  ASSUME TypeOK, PendingOpen, NEW d \in Dialogs, NEW r \in Answers, ResolveUi(d, r)
  PROVE  Promise!Answer(d, r) \/ UNCHANGED <<asked, outcome, history>>
BY DEF ResolveUi, PendingOpen, Promise!Answer

LEMMA ResolveOpen ==
  ASSUME TypeOK, PendingOpen, NEW d \in Dialogs, NEW r \in Answers, ResolveUi(d, r)
  PROVE  PendingOpen'
<1>1. CASE d \in pending
  BY <1>1 DEF TypeOK, PendingOpen, ResolveUi
<1>2. CASE d \notin pending
  BY <1>2 DEF PendingOpen, ResolveUi
<1> QED BY <1>1, <1>2

\* The request at the head of a tab's queue names a question and an answer.
LEMMA HeadTyped ==
  ASSUME TypeOK, NEW t \in Tabs, HandleRespond(t)
  PROVE  /\ Head(up[t]).d \in Dialogs /\ Head(up[t]).r \in Answers
         /\ ResolveUi(Head(up[t]).d, Head(up[t]).r)
<1>1. Head(up[t]) \in Request
  BY DEF HandleRespond, TypeOK
<1> QED BY <1>1, RespondTyped DEF HandleRespond

LEMMA OpenStep == TypeOK /\ PendingOpen /\ [Next]_vars => PendingOpen'
<1> SUFFICES ASSUME TypeOK, PendingOpen, [Next]_vars PROVE PendingOpen'
  OBVIOUS
<1>1. CASE UNCHANGED <<asked, pending>>
  BY <1>1 DEF PendingOpen
<1>2. ASSUME NEW d \in Dialogs, Ask(d) PROVE PendingOpen'
  BY <1>2 DEF Ask, PendingOpen, TypeOK
<1>3. ASSUME NEW d \in Dialogs, Timeout(d) PROVE PendingOpen'
  BY <1>3 DEF Timeout, PendingOpen, TypeOK
<1>4. ASSUME NEW t \in Tabs, HandleRespond(t) PROVE PendingOpen'
  BY <1>4, HeadTyped, ResolveOpen
<1>5. ASSUME NEW d \in Dialogs, NEW r \in Answers, StdioRespond(d, r) PROVE PendingOpen'
  BY <1>5, ResolveOpen DEF StdioRespond
<1>6. CASE Restart
  BY <1>6 DEF Restart, PendingOpen
<1> QED BY <1>1, <1>2, <1>3, <1>4, <1>5, <1>6 DEF Next, DaemonStep, TabStep, NextTurn,
           HandleQuery, Connect, Disconnect, Reload, Deliver, Respond, vars

\* Every step of the bridge is a step of the promise, or changes nothing it
\* speaks of.
LEMMA PromiseStep == TypeOK /\ PendingOpen /\ [Next]_vars => [Promise!Next]_<<asked, outcome, history>>
<1> SUFFICES ASSUME TypeOK, PendingOpen, [Next]_vars
             PROVE  Promise!Next \/ UNCHANGED <<asked, outcome, history>>
  OBVIOUS
<1>1. ASSUME NEW d \in Dialogs, Ask(d) PROVE Promise!Next
  BY <1>1 DEF Ask, Promise!Ask, Promise!Next
<1>2. ASSUME NEW d \in Dialogs, Timeout(d) PROVE Promise!Next
  BY <1>2 DEF Timeout, PendingOpen, Promise!Expire, Promise!Next
<1>3. ASSUME NEW d \in Dialogs, NEW r \in Answers, ResolveUi(d, r)
      PROVE  Promise!Next \/ UNCHANGED <<asked, outcome, history>>
  BY <1>3, ResolvePromise DEF Promise!Next
<1>4. ASSUME NEW t \in Tabs, HandleRespond(t)
      PROVE  Promise!Next \/ UNCHANGED <<asked, outcome, history>>
  BY <1>4, <1>3, HeadTyped
<1>5. CASE Restart
  BY <1>5 DEF Restart, Promise!Lose, Promise!Next
<1> QED BY <1>1, <1>2, <1>3, <1>4, <1>5 DEF Next, DaemonStep, TabStep, NextTurn, StdioRespond,
           HandleQuery, Connect, Disconnect, Reload, Deliver, Respond, vars

\* The bridge implements AskOnce, for any number of questions and tabs: a
\* question is settled once, and no late answer, double answer, timeout or
\* restart changes what the extension was told.
THEOREM BridgeKeepsPromise == Spec => KeepsPromise
<1>1. Init => Promise!Init
  BY DEF Init, Promise!Init
<1>2. Init => TypeOK /\ PendingOpen
  BY BridgeAssumption DEF Init, TypeOK, PendingOpen
<1>3. (TypeOK /\ PendingOpen) /\ [Next]_vars => (TypeOK /\ PendingOpen)'
  BY TypeStep, OpenStep
<1>4. TypeOK /\ PendingOpen /\ [Next]_vars => [Promise!Next]_Promise!vars
  BY PromiseStep DEF Promise!vars
<1> QED BY <1>1, <1>2, <1>3, <1>4, PTL DEF Spec, KeepsPromise, Promise!Spec

\* What the history tells is kept true by every step of the promise.
LEMMA HistoryStep ==
  TypeOK /\ HistoryTrue /\ [Promise!Next]_<<asked, outcome, history>> => HistoryTrue'
<1> SUFFICES ASSUME TypeOK, HistoryTrue, [Promise!Next]_<<asked, outcome, history>>
             PROVE  HistoryTrue'
  OBVIOUS
<1>1. CASE UNCHANGED <<asked, outcome, history>>
  BY <1>1 DEF HistoryTrue
<1>2. ASSUME NEW d \in Dialogs, Promise!Ask(d) PROVE HistoryTrue'
  BY <1>2 DEF Promise!Ask, HistoryTrue, TypeOK
<1>3. ASSUME NEW d \in Dialogs, NEW r \in Answers, Promise!Answer(d, r) PROVE HistoryTrue'
  <2> SUFFICES ASSUME NEW e \in Dialogs, NEW q \in Answers
               PROVE  [d |-> e, r |-> q] \in history' <=> asked'[e] = "answered" /\ outcome'[e] = q
    BY DEF HistoryTrue
  <2>1. [d |-> e, r |-> q] = [d |-> d, r |-> r] <=> e = d /\ q = r
    OBVIOUS
  <2> QED BY <1>3, <2>1 DEF Promise!Answer, HistoryTrue, TypeOK
<1>4. ASSUME NEW d \in Dialogs, Promise!Expire(d) PROVE HistoryTrue'
  BY <1>4 DEF Promise!Expire, HistoryTrue, TypeOK
<1>5. CASE Promise!Lose
  BY <1>5 DEF Promise!Lose, HistoryTrue
<1>6. Timed \subseteq Dialogs
  BY BridgeAssumption
<1> QED BY <1>1, <1>2, <1>3, <1>4, <1>5, <1>6 DEF Promise!Next

\* The history on disk has the answer of each answered question, the one
\* the extension was given, and nothing else.
THEOREM HistoryAlwaysTrue == Spec => []HistoryTrue
<1>1. Init => TypeOK /\ PendingOpen /\ HistoryTrue
  BY BridgeAssumption DEF Init, TypeOK, PendingOpen, HistoryTrue
<1>2. (TypeOK /\ PendingOpen /\ HistoryTrue) /\ [Next]_vars
        => (TypeOK /\ PendingOpen /\ HistoryTrue)'
  BY TypeStep, OpenStep, PromiseStep, HistoryStep
<1> QED BY <1>1, <1>2, PTL DEF Spec

------------------------------------------------------------------------------
(***************************************************************************)
(* Cards                                                                   *)
(***************************************************************************)

\* A message that puts a card for d on the screen, one that takes it away,
\* and an answer to d from this tab.
Brings(m, d) ==
  \/ m.kind = "ui.request" /\ m.d = d
  \/ m.kind = "pending" /\ d \in m.ds
Takes(m, d) == m.kind = "pending" /\ m.ds # {} /\ d \notin m.ds
IsAnswer(q, d) == q.kind = "ui.respond" /\ q.d = d

\* How a tab with a socket comes to show question d: it has yet to ask what
\* is pending, it has answered d, it shows d and nothing on the way takes
\* that back, or the card is on its way and nothing behind it takes it back.
WillAsk(t)       == \E i \in DOMAIN up[t] : up[t][i].kind = "ui.pending"
HasAnswered(t, d) == \E i \in DOMAIN up[t] : IsAnswer(up[t][i], d)
Keeps(t, d) ==
  /\ AskCard(d) \in cards[t]
  /\ \A j \in DOMAIN down[t] : ~Takes(down[t][j], d)
Arriving(t, d) ==
  \E i \in DOMAIN down[t] :
    /\ Brings(down[t][i], d)
    /\ \A j \in DOMAIN down[t] : j > i => ~Takes(down[t][j], d)

Covered(t, d) == WillAsk(t) \/ HasAnswered(t, d) \/ Keeps(t, d) \/ Arriving(t, d)
AllCovered ==
  \A t \in Tabs, d \in Dialogs : link[t] = "up" /\ d \in pending => Covered(t, d)

LEMMA CoveredShown == TypeOK /\ AllCovered => PendingShown
<1> SUFFICES ASSUME TypeOK, AllCovered, NEW t \in Tabs, Settled(t), NEW d \in pending
             PROVE  AskCard(d) \in cards[t]
  BY DEF PendingShown
<1> d \in Dialogs
  BY DEF TypeOK
<1>1. Covered(t, d) /\ DOMAIN up[t] = {} /\ DOMAIN down[t] = {}
  BY DEF AllCovered, Settled
<1> QED  BY <1>1 DEF Covered, WillAsk, HasAnswered, Keeps, Arriving

\* Messages and requests at the end of a queue.
LEMMA AppendPlaces ==
  ASSUME NEW S, NEW q \in Seq(S), NEW m \in S
  PROVE  LET r == Append(q, m) IN
           /\ r \in Seq(S)
           /\ DOMAIN r = DOMAIN q \cup {Len(q) + 1} /\ r[Len(q) + 1] = m
           /\ \A i \in DOMAIN q : r[i] = q[i] /\ i \in 1 .. Len(q)
           /\ Len(q) \in Nat
  OBVIOUS

\* What was second is first when the head is gone.
LEMMA TailPlaces ==
  ASSUME NEW S, NEW q \in Seq(S), q # <<>>
  PROVE  /\ Tail(q) \in Seq(S) /\ Head(q) = q[1] /\ 1 \in DOMAIN q
         /\ DOMAIN q \subseteq Nat
         /\ \A i \in DOMAIN q : i # 1 => i - 1 \in DOMAIN Tail(q) /\ Tail(q)[i - 1] = q[i]
         /\ \A i \in DOMAIN Tail(q) : i + 1 \in DOMAIN q /\ Tail(q)[i] = q[i + 1]
  OBVIOUS

\* A message for tab t that takes no card of d keeps d covered; one that
\* brings it makes it so.
LEMMA SendKeeps ==
  ASSUME TypeOK, NEW t \in Tabs, NEW d \in Dialogs, NEW m \in Message,
         down'[t] = Append(down[t], m), cards'[t] = cards[t]
  PROVE  /\ ~Takes(m, d) /\ Keeps(t, d) => Keeps(t, d)'
         /\ ~Takes(m, d) /\ Arriving(t, d) => Arriving(t, d)'
         /\ Brings(m, d) => Arriving(t, d)'
<1> DEFINE q == down[t]
<1>1. q \in Seq(Message)
  BY DEF TypeOK
<1>2. LET r == Append(q, m) IN
        /\ DOMAIN r = DOMAIN q \cup {Len(q) + 1} /\ r[Len(q) + 1] = m
        /\ \A i \in DOMAIN q : r[i] = q[i] /\ i \in 1 .. Len(q)
        /\ Len(q) \in Nat
  BY <1>1, AppendPlaces
<1> QED  BY <1>2 DEF Keeps, Arriving

\* A request that tab t sends keeps those it sent before.
LEMMA RequestKeeps ==
  ASSUME TypeOK, NEW t \in Tabs, NEW d \in Dialogs, NEW q \in Request,
         up'[t] = Append(up[t], q)
  PROVE  /\ WillAsk(t) => WillAsk(t)'
         /\ HasAnswered(t, d) \/ IsAnswer(q, d) => HasAnswered(t, d)'
<1>1. up[t] \in Seq(Request)
  BY DEF TypeOK
<1>2. LET r == Append(up[t], q) IN
        /\ DOMAIN r = DOMAIN up[t] \cup {Len(up[t]) + 1} /\ r[Len(up[t]) + 1] = q
        /\ \A i \in DOMAIN up[t] : r[i] = up[t][i]
  BY <1>1, AppendPlaces
<1> QED  BY <1>2 DEF WillAsk, HasAnswered

\* A request that is handled was the first one.
LEMMA HandledFirst ==
  ASSUME TypeOK, NEW t \in Tabs, NEW d \in Dialogs, up[t] # <<>>,
         up'[t] = Tail(up[t])
  PROVE  /\ WillAsk(t) => Head(up[t]).kind = "ui.pending" \/ WillAsk(t)'
         /\ HasAnswered(t, d) => IsAnswer(Head(up[t]), d) \/ HasAnswered(t, d)'
<1>1. up[t] \in Seq(Request)
  BY DEF TypeOK
<1>2. /\ Head(up[t]) = up[t][1]
      /\ \A i \in DOMAIN up[t] : i # 1 =>
           i - 1 \in DOMAIN Tail(up[t]) /\ Tail(up[t])[i - 1] = up[t][i]
  BY <1>1, TailPlaces
<1>3. ASSUME NEW i \in DOMAIN up[t], i # 1
      PROVE  i - 1 \in DOMAIN up'[t] /\ up'[t][i - 1] = up[t][i]
  BY <1>2, <1>3
<1> QED  BY <1>2, <1>3 DEF WillAsk, HasAnswered

\* The daemon answers a query of tab t: with all that is pending, or with
\* something that takes no card.
LEMMA QueryCovers ==
  ASSUME TypeOK, AllCovered, NEW t \in Tabs, HandleQuery(t)
  PROVE  AllCovered'
<1> SUFFICES ASSUME NEW u \in Tabs, NEW d \in Dialogs, link[u] = "up", d \in pending
             PROVE  Covered(u, d)'
  BY DEF AllCovered, HandleQuery
<1>1. Covered(u, d)
  BY DEF AllCovered
<1>2. CASE u # t
  <2>1. down'[u] = down[u] /\ up'[u] = up[u] /\ cards' = cards
    BY <1>2 DEF HandleQuery, TypeOK
  <2> QED  BY <1>1, <2>1 DEF Covered, WillAsk, HasAnswered, Keeps, Arriving
<1>3. CASE u = t
  <2> DEFINE m == IF Head(up[t]).kind = "ui.pending"
                    THEN [kind |-> "pending", ds |-> pending]
                    ELSE [kind |-> "history", lines |-> history]
  <2>1. /\ m \in Message /\ ~Takes(m, d)
        /\ Head(up[t]).kind = "ui.pending" => Brings(m, d)
    BY DEF Message, TypeOK, Takes, Brings
  <2>2. /\ down'[t] = Append(down[t], m) /\ up'[t] = Tail(up[t]) /\ cards' = cards
        /\ up[t] # <<>> /\ ~IsAnswer(Head(up[t]), d)
    BY DEF HandleQuery, TypeOK, IsAnswer
  <2> HIDE DEF m
  <2>3. /\ Keeps(t, d) => Keeps(t, d)'
        /\ Arriving(t, d) => Arriving(t, d)'
        /\ Head(up[t]).kind = "ui.pending" => Arriving(t, d)'
    BY <2>1, <2>2, SendKeeps
  <2>4. /\ WillAsk(t) => Head(up[t]).kind = "ui.pending" \/ WillAsk(t)'
        /\ HasAnswered(t, d) => HasAnswered(t, d)'
    BY <2>2, HandledFirst
  <2> QED  BY <1>1, <1>3, <2>3, <2>4 DEF Covered
<1> QED  BY <1>2, <1>3

\* A question is asked: it is under way to every tab that has a socket.
LEMMA AskCovers ==
  ASSUME TypeOK, AllCovered, NEW e \in Dialogs, Ask(e)
  PROVE  AllCovered'
<1> SUFFICES ASSUME NEW u \in Tabs, NEW d \in Dialogs, link[u] = "up",
                    d \in pending \cup {e}
             PROVE  Covered(u, d)'
  BY DEF AllCovered, Ask
<1> DEFINE m == [kind |-> "ui.request", d |-> e]
<1>1. m \in Message /\ ~Takes(m, d) /\ (d = e => Brings(m, d))
  BY DEF Message, Takes, Brings
<1>2. down'[u] = Append(down[u], m) /\ cards'[u] = cards[u] /\ up' = up
  BY DEF Ask, Broadcast
<1> HIDE DEF m
<1>3. /\ Keeps(u, d) => Keeps(u, d)'
      /\ Arriving(u, d) => Arriving(u, d)'
      /\ d = e => Arriving(u, d)'
  BY <1>1, <1>2, SendKeeps
<1>4. d # e => Covered(u, d)
  BY DEF AllCovered
<1> QED  BY <1>2, <1>3, <1>4 DEF Covered, WillAsk, HasAnswered

\* An answer is handled: its question is pending no more.
LEMMA RespondCovers ==
  ASSUME TypeOK, AllCovered, NEW t \in Tabs, HandleRespond(t)
  PROVE  AllCovered'
<1> SUFFICES ASSUME NEW u \in Tabs, NEW d \in Dialogs, link[u] = "up", d \in pending'
             PROVE  Covered(u, d)'
  BY DEF AllCovered, HandleRespond
<1>1. d \in pending /\ d # Head(up[t]).d
  BY DEF HandleRespond, ResolveUi
<1>2. Covered(u, d) /\ down' = down /\ cards' = cards
  BY <1>1 DEF AllCovered, HandleRespond
<1>3. CASE u # t
  BY <1>2, <1>3 DEF HandleRespond, TypeOK, Covered, WillAsk, HasAnswered, Keeps, Arriving
<1>4. CASE u = t
  <2>1. up'[t] = Tail(up[t]) /\ up[t] # <<>> /\ ~IsAnswer(Head(up[t]), d)
        /\ Head(up[t]).kind # "ui.pending"
    BY <1>1 DEF HandleRespond, TypeOK, IsAnswer
  <2>2. (WillAsk(t) => WillAsk(t)') /\ (HasAnswered(t, d) => HasAnswered(t, d)')
    BY <2>1, HandledFirst
  <2> QED  BY <1>2, <1>4, <2>2 DEF Covered, Keeps, Arriving
<1> QED  BY <1>3, <1>4

\* A message reaches tab t.
LEMMA DeliverCovers ==
  ASSUME TypeOK, AllCovered, NEW t \in Tabs, Deliver(t)
  PROVE  AllCovered'
<1> SUFFICES ASSUME NEW u \in Tabs, NEW d \in Dialogs, link[u] = "up", d \in pending
             PROVE  Covered(u, d)'
  BY DEF AllCovered, Deliver
<1>1. Covered(u, d) /\ up' = up
  BY DEF AllCovered, Deliver
<1>2. CASE u # t
  <2>1. down'[u] = down[u] /\ cards'[u] = cards[u]
    BY <1>2 DEF Deliver, ShowRequest, ShowPending, ShowHistory, TypeOK
  <2> QED  BY <1>1, <2>1 DEF Covered, WillAsk, HasAnswered, Keeps, Arriving
<1>3. CASE u = t
  <2> DEFINE m == Head(down[t])
  <2>1. down[t] \in Seq(Message) /\ down[t] # <<>> /\ down'[t] = Tail(down[t])
    BY DEF TypeOK, Deliver
  <2>2. /\ m = down[t][1] /\ 1 \in DOMAIN down[t] /\ DOMAIN down[t] \subseteq Nat
        /\ \A i \in DOMAIN down[t] : i # 1 =>
             i - 1 \in DOMAIN Tail(down[t]) /\ Tail(down[t])[i - 1] = down[t][i]
        /\ \A i \in DOMAIN Tail(down[t]) :
             i + 1 \in DOMAIN down[t] /\ Tail(down[t])[i] = down[t][i + 1] /\ i \in Nat \ {0}
    BY <2>1, TailPlaces
  <2>3. Brings(m, d) => AskCard(d) \in cards'[t]
    BY DEF Deliver, ShowRequest, ShowPending, ShowHistory, Brings, TypeOK
  <2>4. AskCard(d) \in cards[t] /\ ~Takes(m, d) => AskCard(d) \in cards'[t]
    BY DEF Deliver, ShowRequest, ShowPending, ShowHistory, Takes, TypeOK
  <2> HIDE DEF m
  <2>5. Keeps(t, d) => Keeps(t, d)'
    BY <2>1, <2>2, <2>4 DEF Keeps
  <2>6. Arriving(t, d) => Keeps(t, d)' \/ Arriving(t, d)'
    <3> SUFFICES ASSUME NEW i \in DOMAIN down[t], Brings(down[t][i], d),
                        \A j \in DOMAIN down[t] : j > i => ~Takes(down[t][j], d)
                 PROVE  Keeps(t, d)' \/ Arriving(t, d)'
      BY DEF Arriving
    <3>1. CASE i = 1
      BY <2>1, <2>2, <2>3, <3>1 DEF Keeps
    <3>2. CASE i # 1
      <4>1. i - 1 \in DOMAIN down'[t] /\ Brings(down'[t][i - 1], d)
        BY <2>1, <2>2, <3>2
      <4>2. ASSUME NEW j \in DOMAIN down'[t], j > i - 1 PROVE ~Takes(down'[t][j], d)
        <5>1. j + 1 \in DOMAIN down[t] /\ down'[t][j] = down[t][j + 1] /\ j \in Nat /\ i \in Nat
          BY <2>1, <2>2
        <5> QED  BY <4>2, <5>1
      <4> QED  BY <4>1, <4>2 DEF Arriving
    <3> QED  BY <3>1, <3>2
  <2> QED  BY <1>1, <1>3, <2>5, <2>6 DEF Covered, WillAsk, HasAnswered
<1> QED  BY <1>2, <1>3

\* The user answers a card.
LEMMA UserCovers ==
  ASSUME TypeOK, AllCovered, NEW t \in Tabs, NEW e \in Dialogs, NEW r \in Answers,
         Respond(t, e, r)
  PROVE  AllCovered'
<1> SUFFICES ASSUME NEW u \in Tabs, NEW d \in Dialogs, link[u] = "up", d \in pending
             PROVE  Covered(u, d)'
  BY DEF AllCovered, Respond
<1>1. Covered(u, d) /\ down' = down
  BY DEF AllCovered, Respond
<1>2. CASE u # t
  <2>1. up'[u] = up[u] /\ cards'[u] = cards[u]
    BY <1>2 DEF Respond, TypeOK
  <2> QED  BY <1>1, <2>1 DEF Covered, WillAsk, HasAnswered, Keeps, Arriving
<1>3. CASE u = t
  <2> DEFINE q == [kind |-> "ui.respond", d |-> e, r |-> r]
  <2>1. q \in Request /\ up'[t] = Append(up[t], q) /\ (d = e => IsAnswer(q, d))
    BY <1>3 DEF Respond, TypeOK, Request, IsAnswer
  <2> HIDE DEF q
  <2>2. /\ WillAsk(t) => WillAsk(t)'
        /\ HasAnswered(t, d) \/ d = e => HasAnswered(t, d)'
    BY <2>1, RequestKeeps
  <2>3. d # e /\ Keeps(t, d) => Keeps(t, d)'
    BY DEF Keeps, Respond, AskCard, TypeOK
  <2>4. Arriving(t, d) => Arriving(t, d)'
    BY <1>1 DEF Arriving
  <2> QED  BY <1>1, <1>3, <2>2, <2>3, <2>4 DEF Covered
<1> QED  BY <1>2, <1>3

\* No step leaves a pending question without a card on the screen or on its
\* way to it.
LEMMA CoveredStep == TypeOK /\ AllCovered /\ [Next]_vars => AllCovered'
<1> SUFFICES ASSUME TypeOK, AllCovered, [Next]_vars PROVE AllCovered'
  OBVIOUS
<1>1. ASSUME pending' \subseteq pending, UNCHANGED <<link, up, down, cards>>
      PROVE  AllCovered'
  BY <1>1 DEF AllCovered, Covered, WillAsk, HasAnswered, Keeps, Arriving
<1>2. CASE NextTurn \/ UNCHANGED vars
  BY <1>1, <1>2 DEF NextTurn, vars
<1>3. ASSUME NEW d \in Dialogs, Timeout(d) PROVE AllCovered'
  BY <1>1, <1>3 DEF Timeout
<1>4. ASSUME NEW d \in Dialogs, NEW r \in Answers, StdioRespond(d, r) PROVE AllCovered'
  BY <1>1, <1>4 DEF StdioRespond, ResolveUi
<1>5. CASE Restart
  BY <1>5 DEF Restart, AllCovered
<1>6. ASSUME NEW t \in Tabs, Connect(t) PROVE AllCovered'
  <2>1. WillAsk(t)'
    <3> DEFINE q == <<[kind |-> "ui.pending"], [kind |-> "ui.history"]>>
    <3>1. up'[t] = q
      BY <1>6 DEF Connect, TypeOK
    <3>2. 1 \in DOMAIN q /\ q[1].kind = "ui.pending"
      OBVIOUS
    <3> QED  BY <3>1, <3>2 DEF WillAsk
  <2>2. \A u \in Tabs \ {t} : link'[u] = link[u] /\ up'[u] = up[u]
    BY <1>6 DEF Connect, TypeOK
  <2>3. pending' = pending /\ down' = down /\ cards' = cards
    BY <1>6 DEF Connect
  <2> QED
    BY <2>1, <2>2, <2>3 DEF AllCovered, Covered, WillAsk, HasAnswered, Keeps, Arriving
<1>7. ASSUME NEW t \in Tabs, Disconnect(t) \/ Reload(t) PROVE AllCovered'
  <2>1. link'[t] = "down" /\ pending' = pending
    BY <1>7 DEF Disconnect, Reload, TypeOK
  <2>2. \A u \in Tabs \ {t} : /\ link'[u] = link[u] /\ up'[u] = up[u]
                               /\ down'[u] = down[u] /\ cards'[u] = cards[u]
    BY <1>7 DEF Disconnect, Reload, TypeOK
  <2> QED
    BY <2>1, <2>2 DEF AllCovered, Covered, WillAsk, HasAnswered, Keeps, Arriving
<1> QED
  BY <1>2, <1>3, <1>4, <1>5, <1>6, <1>7, AskCovers, QueryCovers, RespondCovers,
     DeliverCovers, UserCovers DEF Next, DaemonStep, TabStep

------------------------------------------------------------------------------
\* Questions that are open or answered have turns the counter has reached,
\* or 0 if they were asked since the restart and before the first run.
Counted(d) == asked[d] \in {"open", "answered"}
TurnsReached ==
  /\ \A d \in Dialogs : Counted(d) =>
       /\ counter # 0 => turnOf[d] <= counter
       /\ counter = 0 /\ asked[d] = "open" => turnOf[d] = 0
  /\ \A d \in Dialogs : runOf[d] <= runs
  /\ \A d, e \in Dialogs :
       Counted(d) /\ asked[e] # "new" /\ runOf[d] < runOf[e] =>
         turnOf[e] = 0 \/ turnOf[d] <= turnOf[e]

LEMMA ReachedRise == TurnsReached => TurnsRise
  BY DEF TurnsReached, TurnsRise, Counted

\* An open question is answered, expires or is lost: its turn stays.
LEMMA SettledReached ==
  ASSUME TypeOK, TurnsReached,
         counter' = counter, runs' = runs, turnOf' = turnOf, runOf' = runOf,
         \A d \in Dialogs : \/ asked'[d] = asked[d]
                            \/ asked[d] = "open" /\ asked'[d] # "new"
  PROVE  TurnsReached'
BY DEF TypeOK, TurnsReached, Counted

\* Turns are counted on from the highest one in the history, which has all
\* that were answered.
LEMMA ReachedStep ==
  TypeOK /\ PendingOpen /\ HistoryTrue /\ TurnsReached /\ [Next]_vars => TurnsReached'
<1> SUFFICES ASSUME TypeOK, PendingOpen, HistoryTrue, TurnsReached, [Next]_vars
             PROVE  TurnsReached'
  OBVIOUS
<1>1. CASE UNCHANGED <<asked, turns>>
  <2>1. /\ asked' = asked /\ counter' = counter /\ runs' = runs
        /\ turnOf' = turnOf /\ runOf' = runOf
    BY <1>1
  <2> QED  BY <2>1, SettledReached
<1>2. CASE NextTurn
  <2>1. PICK base \in {0} \cup {turnOf[l.d] : l \in history} :
          /\ \A l \in history : turnOf[l.d] <= base
          /\ counter' = IF counter # 0 THEN counter + 1 ELSE IF base > 0 THEN base ELSE 1
    BY <1>2 DEF NextTurn
  <2>2. base \in Nat
    BY <2>1 DEF TypeOK, Line
  <2>3. \A d \in Dialogs : asked[d] = "answered" => turnOf[d] <= base
    <3> SUFFICES ASSUME NEW d \in Dialogs, asked[d] = "answered"
                 PROVE  turnOf[d] <= base
      OBVIOUS
    <3>1. [d |-> d, r |-> outcome[d]] \in history
      BY DEF HistoryTrue, TypeOK
    <3> QED  BY <2>1, <3>1
  <2>4. /\ counter' \in Nat \ {0}
        /\ counter # 0 => counter' = counter + 1
        /\ counter = 0 => base <= counter'
    BY <2>1, <2>2 DEF TypeOK
  <2>5. runs' = runs + 1 /\ UNCHANGED <<asked, turnOf, runOf>>
    BY <1>2 DEF NextTurn
  <2>6. \A d \in Dialogs : Counted(d) => turnOf[d] <= counter'
    BY <2>2, <2>3, <2>4 DEF TypeOK, TurnsReached, Counted
  <2> QED
    BY <2>4, <2>5, <2>6 DEF TypeOK, TurnsReached, Counted
<1>3. ASSUME NEW d \in Dialogs, Ask(d) PROVE TurnsReached'
  <2>1. /\ asked[d] = "new" /\ asked'[d] = "open"
        /\ turnOf'[d] = counter /\ runOf'[d] = runs
        /\ UNCHANGED <<counter, runs>>
        /\ \A e \in Dialogs \ {d} : /\ asked'[e] = asked[e] /\ turnOf'[e] = turnOf[e]
                                    /\ runOf'[e] = runOf[e]
    BY <1>3 DEF Ask, TypeOK
  <2> USE DEF TypeOK, TurnsReached, Counted
  <2>2. \A e \in Dialogs : Counted(e)' =>
          /\ counter' # 0 => turnOf'[e] <= counter'
          /\ counter' = 0 /\ asked'[e] = "open" => turnOf'[e] = 0
    <3> SUFFICES ASSUME NEW e \in Dialogs, Counted(e)'
                 PROVE  /\ counter # 0 => turnOf'[e] <= counter
                        /\ counter = 0 /\ asked'[e] = "open" => turnOf'[e] = 0
      BY <2>1
    <3>1. CASE e = d
      BY <2>1, <3>1
    <3>2. CASE e # d
      BY <2>1, <3>2
    <3> QED BY <3>1, <3>2
  <2>3. ASSUME NEW e \in Dialogs PROVE runOf'[e] <= runs'
    <3>1. runs \in Nat /\ runs' = runs /\ runOf[e] <= runs
      BY <2>1
    <3>2. CASE e = d
      BY <2>1, <3>1, <3>2
    <3>3. CASE e # d
      BY <2>1, <3>1, <3>3
    <3> QED  BY <3>2, <3>3
  <2>4. ASSUME NEW e \in Dialogs, NEW f \in Dialogs, Counted(e)', asked'[f] # "new",
               runOf'[e] < runOf'[f]
        PROVE  turnOf'[f] = 0 \/ turnOf'[e] <= turnOf'[f]
    <3>1. e # d
      <4>1. runOf'[f] <= runs /\ runs \in Nat /\ runOf'[d] = runs
        BY <2>1, <2>3
      <4>2. runOf'[f] \in Nat
        BY <1>3 DEF Ask
      <4> QED  BY <2>4, <4>1, <4>2
    <3>2. CASE f = d
      BY <2>1, <2>4, <3>1, <3>2
    <3>3. CASE f # d
      BY <2>1, <2>4, <3>1, <3>3
    <3> QED  BY <3>2, <3>3
  <2> QED  BY <2>2, <2>3, <2>4
<1>4. ASSUME NEW d \in Dialogs, NEW r \in Answers, ResolveUi(d, r), UNCHANGED turns
      PROVE  TurnsReached'
  <2>1. counter' = counter /\ runs' = runs /\ turnOf' = turnOf /\ runOf' = runOf
    BY <1>4
  <2>2. \A e \in Dialogs : \/ asked'[e] = asked[e]
                           \/ asked[e] = "open" /\ asked'[e] # "new"
    BY <1>4 DEF ResolveUi, PendingOpen, TypeOK
  <2> QED  BY <2>1, <2>2, SettledReached
<1>5. ASSUME NEW d \in Dialogs, Timeout(d) PROVE TurnsReached'
  <2>1. counter' = counter /\ runs' = runs /\ turnOf' = turnOf /\ runOf' = runOf
    BY <1>5 DEF Timeout
  <2>2. \A e \in Dialogs : \/ asked'[e] = asked[e]
                           \/ asked[e] = "open" /\ asked'[e] # "new"
    BY <1>5 DEF Timeout, PendingOpen, TypeOK
  <2> QED  BY <2>1, <2>2, SettledReached
<1>6. ASSUME NEW t \in Tabs, HandleRespond(t) PROVE TurnsReached'
  BY <1>4, <1>6, HeadTyped DEF HandleRespond
<1>7. ASSUME NEW d \in Dialogs, NEW r \in Answers, StdioRespond(d, r)
      PROVE  TurnsReached'
  BY <1>4, <1>7 DEF StdioRespond
<1>8. CASE Restart
  BY <1>8 DEF Restart, TypeOK, TurnsReached, Counted
<1> QED
  BY <1>1, <1>2, <1>3, <1>5, <1>6, <1>7, <1>8 DEF Next, DaemonStep, TabStep,
     HandleQuery, Connect, Disconnect, Reload, Deliver, Respond, vars

\* Every pending question has its card on each connected tab, and the turns
\* that place the cards never go back, for any number of tabs and runs.
THEOREM CardsAlwaysTrue == Spec => []CardsTrue
<1> DEFINE IInv == /\ TypeOK /\ PendingOpen /\ HistoryTrue
                   /\ AllCovered /\ TurnsReached
<1>1. Init => IInv
  BY BridgeAssumption DEF Init, TypeOK, PendingOpen, HistoryTrue, AllCovered,
     TurnsReached, Counted
<1>2. IInv /\ [Next]_vars => IInv'
  BY TypeStep, OpenStep, PromiseStep, HistoryStep, CoveredStep, ReachedStep
<1>3. IInv => CardsTrue
  BY CoveredShown, ReachedRise DEF CardsTrue
<1> QED
  BY <1>1, <1>2, <1>3, PTL DEF Spec
==============================================================================
