-------------------------- MODULE ChatStreamProofs ---------------------------
(***************************************************************************)
(* What ChatStream promises, for every number of sessions and every bound. *)
(* When text blocks of different sessions do not overlap, nothing of an    *)
(* agent's output is lost and its order is kept: whenever a delta or a     *)
(* card arrives that the buffered text must not meet, a flush has arrived  *)
(* before it.  With patient users, a slot is busy exactly when its session *)
(* works.                                                                  *)
(***************************************************************************)
EXTENDS ChatStream, FiniteSetTheorems, TLAPS

(***************************************************************************)
(* Counting in sequences                                                   *)
(***************************************************************************)

\* Positions moved by m are as many as before.
LEMMA ShiftCard ==
  ASSUME NEW A \in SUBSET Nat, IsFiniteSet(A), NEW m \in Nat
  PROVE  /\ IsFiniteSet({a + m : a \in A})
         /\ Cardinality({a + m : a \in A}) = Cardinality(A)
<1> DEFINE B == {a + m : a \in A}
           f == [a \in A |-> a + m]
<1>1. f \in Bijection(A, B)
  BY DEF Bijection, Injection, IsInjective, Surjection
<1>2. f \in Surjection(A, B) /\ ExistsBijection(A, B)
  BY <1>1 DEF Bijection, ExistsBijection
<1>3. IsFiniteSet(B)
  BY <1>2, FS_Surjection DEF Surjection
<1> QED BY <1>2, <1>3, FS_Bijection

\* The positions Upto counts are finitely many, and it counts them.
LEMMA UptoType ==
  ASSUME NEW T, NEW q \in Seq(T), NEW n \in Nat, NEW S
  PROVE  /\ IsFiniteSet({i \in DOMAIN q : i <= n /\ q[i] \in S})
         /\ Upto(q, n, S) \in Nat
<1>1. IsFiniteSet(1 .. Len(q))
  BY FS_Interval
<1>2. {i \in DOMAIN q : i <= n /\ q[i] \in S} \subseteq 1 .. Len(q)
  OBVIOUS
<1> QED BY <1>1, <1>2, FS_Subset, FS_CardinalityType DEF Upto

LEMMA CountEmpty == ASSUME NEW S PROVE Count(<<>>, S) = 0
<1>1. {i \in DOMAIN <<>> : i <= Len(<<>>) /\ <<>>[i] \in S} = {}
  OBVIOUS
<1> QED BY <1>1, FS_EmptySet DEF Count, Upto

\* The first elements count as before when others are put behind them.
LEMMA UptoPrefix ==
  ASSUME NEW T, NEW q \in Seq(T), NEW r \in Seq(T), NEW n \in 0 .. Len(q),
         NEW S
  PROVE  Upto(q \o r, n, S) = Upto(q, n, S)
<1>1. {i \in DOMAIN (q \o r) : i <= n /\ (q \o r)[i] \in S}
        = {i \in DOMAIN q : i <= n /\ q[i] \in S}
  OBVIOUS
<1> QED BY <1>1 DEF Upto

\* Past the first sequence, the second adds what it counts itself.
LEMMA UptoConcat ==
  ASSUME NEW T, NEW q \in Seq(T), NEW r \in Seq(T), NEW n \in Nat, NEW S
  PROVE  Upto(q \o r, Len(q) + n, S) = Count(q, S) + Upto(r, n, S)
<1> DEFINE A == {i \in DOMAIN q : i <= Len(q) /\ q[i] \in S}
           R == {i \in DOMAIN r : i <= n /\ r[i] \in S}
           B == {i + Len(q) : i \in R}
           C == {i \in DOMAIN (q \o r) : i <= Len(q) + n /\ (q \o r)[i] \in S}
<1>0. Len(q) \in Nat
  OBVIOUS
<1>1. /\ IsFiniteSet(A)
      /\ IsFiniteSet(R)
      /\ R \in SUBSET Nat
  <2>1. IsFiniteSet(A) BY <1>0, UptoType
  <2>2. IsFiniteSet(R) BY UptoType
  <2> QED BY <2>1, <2>2
<1>2. IsFiniteSet(B) /\ Cardinality(B) = Cardinality(R)
  <2> HIDE DEF R
  <2> QED BY <1>0, <1>1, ShiftCard
<1>3. C = A \cup B
  <2>1. ASSUME NEW i \in C PROVE i \in A \cup B
    <3>1. CASE i <= Len(q)
      BY <3>1
    <3>2. CASE i > Len(q)
      <4>1. i - Len(q) \in R
        BY <3>2
      <4> QED BY <4>1, <3>2
    <3> QED BY <3>1, <3>2
  <2>2. ASSUME NEW i \in A PROVE i \in C
    OBVIOUS
  <2>3. ASSUME NEW i \in R PROVE i + Len(q) \in C
    OBVIOUS
  <2> QED BY <2>1, <2>2, <2>3
<1>4. A \cap B = {}
  OBVIOUS
<1>5. Cardinality(C) = Cardinality(A) + Cardinality(B)
  <2> HIDE DEF A, B, C, R
  <2>1. Cardinality(A \cap B) = 0
    BY <1>4, FS_EmptySet
  <2>2. Cardinality(A) \in Nat /\ Cardinality(B) \in Nat
    BY <1>1, <1>2, FS_CardinalityType
  <2>3. Cardinality(A \cup B)
          = Cardinality(A) + Cardinality(B) - Cardinality(A \cap B)
    BY <1>1, <1>2, FS_Union
  <2> QED BY <1>3, <2>1, <2>2, <2>3
<1> QED BY <1>2, <1>5 DEF Upto, Count

LEMMA CountConcat ==
  ASSUME NEW T, NEW q \in Seq(T), NEW r \in Seq(T), NEW S
  PROVE  Count(q \o r, S) = Count(q, S) + Count(r, S)
BY UptoConcat, Len(q \o r) = Len(q) + Len(r), Len(r) \in Nat DEF Count

LEMMA CountOne ==
  ASSUME NEW e, NEW S
  PROVE  Count(<<e>>, S) = IF e \in S THEN 1 ELSE 0
<1>1. {i \in DOMAIN <<e>> : i <= Len(<<e>>) /\ <<e>>[i] \in S}
        = IF e \in S THEN {1} ELSE {}
  OBVIOUS
<1> QED BY <1>1, FS_EmptySet, FS_Singleton DEF Count, Upto

LEMMA CountAppend ==
  ASSUME NEW T, NEW q \in Seq(T), NEW e \in T, NEW S
  PROVE  Count(Append(q, e), S) = Count(q, S) + (IF e \in S THEN 1 ELSE 0)
<1>1. Append(q, e) = q \o <<e>> /\ <<e>> \in Seq(T)
  OBVIOUS
<1>2. Count(q \o <<e>>, S) = Count(q, S) + Count(<<e>>, S)
  BY <1>1, CountConcat
<1> QED BY <1>1, <1>2, CountOne

\* The head of a sequence counts for itself.
LEMMA UptoTail ==
  ASSUME NEW T, NEW q \in Seq(T), q # <<>>, NEW n \in Nat, NEW S
  PROVE  Upto(q, n + 1, S)
           = Upto(Tail(q), n, S) + (IF Head(q) \in S THEN 1 ELSE 0)
<1>1. q = <<Head(q)>> \o Tail(q) /\ <<Head(q)>> \in Seq(T)
      /\ Tail(q) \in Seq(T)
  OBVIOUS
<1>2. Upto(<<Head(q)>> \o Tail(q), 1 + n, S)
        = Count(<<Head(q)>>, S) + Upto(Tail(q), n, S)
  <2>1. ASSUME NEW h \in Seq(T), NEW r \in Seq(T)
        PROVE  Upto(h \o r, Len(h) + n, S) = Count(h, S) + Upto(r, n, S)
    BY <2>1, UptoConcat
  <2>2. Len(<<Head(q)>>) = 1
    OBVIOUS
  <2> QED BY <1>1, <2>1, <2>2
<1>3. Upto(Tail(q), n, S) \in Nat
  BY <1>1, UptoType
<1>4. Count(<<Head(q)>>, S) = IF Head(q) \in S THEN 1 ELSE 0
  BY CountOne
<1>5. Upto(q, n + 1, S) = Count(<<Head(q)>>, S) + Upto(Tail(q), n, S)
  BY <1>1, <1>2, 1 + n = n + 1
<1> QED BY <1>3, <1>4, <1>5

LEMMA CountTail ==
  ASSUME NEW T, NEW q \in Seq(T), q # <<>>, NEW S
  PROVE  Count(q, S)
           = Count(Tail(q), S) + (IF Head(q) \in S THEN 1 ELSE 0)
<1>1. Len(Tail(q)) \in Nat /\ Len(q) = Len(Tail(q)) + 1
  OBVIOUS
<1> QED BY <1>1, UptoTail DEF Count

\* The same at every place.
LEMMA UptoTails ==
  ASSUME NEW T, NEW q \in Seq(T), q # <<>>, NEW S
  PROVE  \A n \in Nat :
           Upto(q, n + 1, S)
             = Upto(Tail(q), n, S) + (IF Head(q) \in S THEN 1 ELSE 0)
  BY UptoTail

\* An element of S is counted at its place, and not past the whole.
LEMMA UptoWithin ==
  ASSUME NEW T, NEW q \in Seq(T), NEW n \in DOMAIN q, NEW S, q[n] \in S
  PROVE  Upto(q, n, S) \in 1 .. Count(q, S)
<1> DEFINE A == {i \in DOMAIN q : i <= n /\ q[i] \in S}
           B == {i \in DOMAIN q : i <= Len(q) /\ q[i] \in S}
<1>1. IsFiniteSet(A) /\ IsFiniteSet(B) /\ Upto(q, n, S) \in Nat
      /\ Count(q, S) \in Nat
  BY UptoType, Len(q) \in Nat, n \in Nat DEF Count
<1>2. A \subseteq B /\ A # {}
  OBVIOUS
<1>3. Cardinality(A) <= Cardinality(B) /\ Cardinality(A) # 0
  BY <1>1, <1>2, FS_Subset, FS_EmptySet
<1> QED BY <1>1, <1>3 DEF Upto, Count
------------------------------------------------------------------------------
(***************************************************************************)
(* The inductive invariants                                                *)
(***************************************************************************)

\* The text in the buffer, if any, takes part as a frame that came before
\* those on the wire.
At(i) ==
  IF i # 0 THEN wire[i]
  ELSE [s |-> buf.s, kind |-> IF buf.text = <<>> THEN "none" ELSE "text"]
Places == 0 .. Len(wire)

IsText(i) == At(i).kind = "text"
FlushIn(i, j) == \E k \in DOMAIN wire :
  i < k /\ k < j /\ wire[k].kind \in {"text_done", "end"}

\* Between text of one session and text of another there is a flush.
Apart ==
  \A i, j \in Places :
    i < j /\ IsText(i) /\ IsText(j) /\ At(i).s # At(j).s => FlushIn(i, j)

\* Text that no flush follows is of a block that is still open.
Open ==
  \A i \in Places :
    IsText(i) /\ ~FlushIn(i, Len(wire) + 1) => At(i).s \in block

\* Between text and a card of one session there is a flush, unless its
\* stream broke off inside the block.
Settled ==
  \A i, j \in Places :
    i < j /\ IsText(i) /\ At(j) = [s |-> At(i).s, kind |-> "card"]
      => FlushIn(i, j) \/ At(i).s \in cut

Kept == Apart /\ Open /\ Settled

OutputInv == TypeOK /\ Kept /\ NothingLost /\ InOrder

Turn(s)  == [s : {s}, kind : {"start", "end"}]
Reply(s) == [s : {s}, kind : {"answer", "refusal"}]
NoFrame(S) == \A i \in DOMAIN wire : wire[i] \notin S
Last(i, S) == wire[i] \in S /\ \A j \in DOMAIN wire : i < j => wire[j] \notin S

\* A turn is within a prompt, whose reply comes after the turn's frames and
\* before the next prompt.
Framed(s) ==
  /\ s \in running => prompt[s] = "taken"
  /\ \A i \in DOMAIN wire : wire[i] \in Turn(s) =>
       \/ prompt[s] = "taken"
       \/ \E j \in DOMAIN wire : i < j /\ wire[j] \in Reply(s)
  /\ ~NoFrame(Reply(s)) => prompt[s] = "none"

\* The last frame of a turn on the wire, and when there is none the slot,
\* tells whether the session works.
Told(s) ==
  /\ NoFrame(Turn(s)) => (s \in busy <=> s \in running)
  /\ \A i \in DOMAIN wire :
       Last(i, Turn(s)) => (wire[i].kind = "start" <=> s \in running)

\* The user stays with the session whose turn has not begun to show.
Stays(s) ==
  s \in waiting /\ (prompt[s] = "sent" \/ ~NoFrame({[s |-> s, kind |-> "refusal"]}))
    => s = active /\ s \notin busy /\ NoFrame(Turn(s))

TurnInv == \A s \in Sessions : Framed(s) /\ Told(s) /\ Stays(s)

------------------------------------------------------------------------------
(***************************************************************************)
(* Types                                                                   *)
(***************************************************************************)

\* A frame that is sent keeps the wire's type, and so does one that arrives.
LEMMA SendType ==
  ASSUME TypeOK, NEW s \in Sessions, NEW k \in Kinds, Send(s, k)
  PROVE  wire' \in Seq([s : Sessions, kind : Kinds])
BY DEF TypeOK, Send

LEMMA ArriveType ==
  ASSUME TypeOK, NEW k \in Kinds, Arrives(k)
  PROVE  /\ wire' \in Seq([s : Sessions, kind : Kinds])
         /\ Head(wire).s \in Sessions
<1> DEFINE F == [s : Sessions, kind : Kinds]
<1>1. wire \in Seq(F) /\ wire # <<>> /\ wire' = Tail(wire)
  BY DEF TypeOK, Arrives
<1> HIDE DEF F
<1>2. Head(wire) \in F /\ wire' \in Seq(F)
  BY <1>1
<1> QED BY <1>2 DEF F

LEMMA FlushType ==
  ASSUME TypeOK
  PROVE  /\ Flushed \in [Sessions -> Seq(Item)]
         /\ Emptied \in [s : Sessions, text : Seq({"text"}), raf : Rafs]
<1>1. buf.s \in Sessions /\ buf.text \in Seq(Item)
  BY DEF TypeOK, Item
<1>2. items[buf.s] \o buf.text \in Seq(Item)
  BY <1>1 DEF TypeOK
<1>3. Flushed \in [Sessions -> Seq(Item)]
  BY <1>2 DEF TypeOK, Flushed
<1>4. <<>> \in Seq({"text"}) /\ "none" \in Rafs
  BY DEF Rafs
<1>5. Emptied \in [s : Sessions, text : Seq({"text"}), raf : Rafs]
  BY <1>4 DEF TypeOK, Emptied
<1> QED BY <1>3, <1>5

LEMMA EngineType == TypeOK /\ EngineStep => TypeOK'
<1> SUFFICES ASSUME TypeOK, EngineStep PROVE TypeOK'
  OBVIOUS
<1>1. ASSUME NEW s \in Sessions, AgentStart(s) PROVE TypeOK'
  <2>1. wire' \in Seq([s : Sessions, kind : Kinds])
    BY <1>1, SendType DEF AgentStart, Kinds
  <2> QED BY <1>1, <2>1 DEF AgentStart, Send, tab, TypeOK
<1>2. ASSUME NEW s \in Sessions, Refuse(s) PROVE TypeOK'
  <2>1. wire' \in Seq([s : Sessions, kind : Kinds])
    BY <1>2, SendType DEF Refuse, Kinds
  <2> QED BY <1>2, <2>1 DEF Refuse, Send, tab, TypeOK
<1>3. ASSUME NEW s \in Sessions, NEW k \in Item, Emit(s, k)
      PROVE  /\ wire' \in Seq([s : Sessions, kind : Kinds])
             /\ emitted' \in [Sessions -> Seq(Item)]
  <2>1. wire' \in Seq([s : Sessions, kind : Kinds])
    BY <1>3, SendType DEF Emit, Kinds
  <2>2. Append(emitted[s], k) \in Seq(Item)
    BY DEF TypeOK
  <2> QED BY <1>3, <2>1, <2>2 DEF Emit, TypeOK
<1>4. ASSUME NEW s \in Sessions, TextDelta(s) PROVE TypeOK'
  <2>1. "text" \in Item /\ Emit(s, "text")
    BY <1>4 DEF TextDelta, Item
  <2>2. block' \in SUBSET running' /\ UNCHANGED <<prompt, running, cut, tab>>
    BY <1>4, <2>1 DEF TextDelta, Emit, Send, TypeOK
  <2>3. wire' \in Seq([s : Sessions, kind : Kinds]) /\ emitted' \in [Sessions -> Seq(Item)]
    BY <1>3, <2>1
  <2> QED BY <2>2, <2>3 DEF tab, TypeOK
<1>5. ASSUME NEW s \in Sessions, TextEnd(s) PROVE TypeOK'
  <2>1. wire' \in Seq([s : Sessions, kind : Kinds])
    BY <1>5, SendType DEF TextEnd, Kinds
  <2> QED BY <1>5, <2>1 DEF TextEnd, Send, tab, TypeOK
<1>6. ASSUME NEW s \in Sessions, OtherItem(s) PROVE TypeOK'
  <2>1. "card" \in Item /\ Emit(s, "card")
    BY <1>6 DEF OtherItem, Item
  <2>2. cut' \in SUBSET Sessions /\ UNCHANGED <<prompt, running, block, tab>>
    BY <1>6, <2>1 DEF OtherItem, Emit, Send, TypeOK
  <2>3. wire' \in Seq([s : Sessions, kind : Kinds]) /\ emitted' \in [Sessions -> Seq(Item)]
    BY <1>3, <2>1
  <2> QED BY <2>2, <2>3 DEF tab, TypeOK
<1>7. ASSUME NEW s \in Sessions, AgentEnd(s) PROVE TypeOK'
  <2>1. wire' \in Seq([s : Sessions, kind : Kinds])
    BY <1>7, SendType DEF AgentEnd, Kinds
  <2> QED BY <1>7, <2>1 DEF AgentEnd, Send, tab, TypeOK
<1>8. ASSUME NEW s \in Sessions, Answer(s) PROVE TypeOK'
  <2>1. wire' \in Seq([s : Sessions, kind : Kinds])
    BY <1>8, SendType DEF Answer, Kinds
  <2> QED BY <1>8, <2>1 DEF Answer, Send, tab, TypeOK
<1> QED BY <1>1, <1>2, <1>4, <1>5, <1>6, <1>7, <1>8 DEF EngineStep

LEMMA TabType ==
  TypeOK /\ (UserStep \/ Frame \/ \E s \in Sessions : Timeout(s)) => TypeOK'
<1> SUFFICES ASSUME TypeOK PROVE
      UserStep \/ Frame \/ (\E s \in Sessions : Timeout(s)) => TypeOK'
  OBVIOUS
<1>1. ASSUME NEW s \in Sessions, Prompt(s) PROVE TypeOK'
  BY <1>1 DEF Prompt, TypeOK
<1>2. ASSUME NEW s \in Sessions, Activate(s) PROVE TypeOK'
  BY <1>2 DEF Activate, agent, TypeOK
<1>3. ASSUME Frame PROVE TypeOK'
  BY <1>3, FlushType DEF Frame, agent, TypeOK
<1>4. ASSUME NEW s \in Sessions, Timeout(s) PROVE TypeOK'
  BY <1>4 DEF Timeout, PromptFails, agent, TypeOK
<1> QED BY <1>1, <1>2, <1>3, <1>4 DEF UserStep

LEMMA HandleType == TypeOK /\ Handle => TypeOK'
<1> SUFFICES ASSUME TypeOK, Handle PROVE TypeOK'
  OBVIOUS
<1>1. ASSUME NEW k \in Kinds, Arrives(k)
      PROVE  /\ wire' \in Seq([s : Sessions, kind : Kinds])
             /\ Head(wire).s \in Sessions
  BY <1>1, ArriveType
<1>2. Item \subseteq Kinds /\ {"text_done", "start", "end", "answer", "refusal"} \subseteq Kinds
  BY DEF Kinds
<1>3. CASE HandleDelta
  <2>1. "text" \in Kinds /\ Arrives("text")
    BY <1>3 DEF HandleDelta, Kinds, Item
  <2>2. buf' \in [s : Sessions, text : Seq({"text"}), raf : Rafs]
    BY <1>1, <1>3, <2>1 DEF HandleDelta, ScheduleFlush, TypeOK, Rafs
  <2> QED BY <1>1, <1>3, <2>1, <2>2
          DEF HandleDelta, ScheduleFlush, Arrives, agent, TypeOK
<1>4. CASE HandleDone
  BY <1>1, <1>2, <1>4, FlushType DEF HandleDone, ForceFlush, Arrives, agent, TypeOK
<1>5. CASE HandleItem
  <2>1. "card" \in Kinds /\ "card" \in Item /\ Arrives("card")
    BY <1>5 DEF HandleItem, Kinds, Item
  <2>2. Append(items[Head(wire).s], "card") \in Seq(Item)
    BY <1>1, <2>1 DEF TypeOK
  <2> QED BY <1>1, <1>5, <2>1, <2>2 DEF HandleItem, Arrives, agent, TypeOK
<1>6. CASE HandleStart
  BY <1>1, <1>2, <1>6 DEF HandleStart, Arrives, agent, TypeOK
<1>7. CASE HandleEnd
  BY <1>1, <1>2, <1>7, FlushType DEF HandleEnd, ForceFlush, Arrives, agent, TypeOK
<1>8. CASE HandleAnswer
  BY <1>1, <1>2, <1>8 DEF HandleAnswer, Arrives, agent, TypeOK
<1>9. CASE HandleRefusal
  BY <1>1, <1>2, <1>9 DEF HandleRefusal, PromptFails, Arrives, agent, TypeOK
<1> QED BY <1>3, <1>4, <1>5, <1>6, <1>7, <1>8, <1>9 DEF Handle

LEMMA TypeStep == TypeOK /\ [Next]_vars => TypeOK'
<1>1. TypeOK /\ UNCHANGED vars => TypeOK'
  BY DEF TypeOK, vars, agent, tab
<1> QED BY <1>1, EngineType, TabType, HandleType DEF Next

\* The state always has its types; a block is open only in a turn.
THEOREM TypeCorrect == Spec => []TypeOK
<1>1. Init => TypeOK
  <2> SUFFICES ASSUME Init PROVE TypeOK
    OBVIOUS
  <2>1. buf \in [s : Sessions, text : Seq({"text"}), raf : Rafs]
    BY DEF Init, Rafs
  <2>2. wire \in Seq([s : Sessions, kind : Kinds])
    BY DEF Init
  <2> QED BY <2>1, <2>2 DEF Init, TypeOK
<1> QED BY <1>1, TypeStep, PTL DEF Spec

------------------------------------------------------------------------------
(***************************************************************************)
(* Flushes between text that must not meet                                 *)
(***************************************************************************)

LEMMA SendPlaces ==
  ASSUME TypeOK, NEW s \in Sessions, NEW k \in Kinds, Send(s, k),
         NEW n \in Nat, n = Len(wire)
  PROVE  /\ Len(wire') = n + 1
         /\ \A i \in Places : At(i)' = At(i)
         /\ At(n + 1)' = [s |-> s, kind |-> k]
         /\ \A i, j \in Nat : FlushIn(i, j) => FlushIn(i, j)'
         /\ k \in {"text_done", "end"} => \A i \in Places : FlushIn(i, n + 2)'
<1> DEFINE F == [s : Sessions, kind : Kinds]
<1>1. /\ wire \in Seq(F)
      /\ wire' = Append(wire, [s |-> s, kind |-> k])
      /\ buf' = buf
  BY DEF TypeOK, Send, tab
<1>2. /\ Len(wire') = n + 1
      /\ \A i \in DOMAIN wire : i \in DOMAIN wire' /\ wire'[i] = wire[i]
      /\ wire'[n + 1] = [s |-> s, kind |-> k]
      /\ n + 1 \in DOMAIN wire'
      /\ DOMAIN wire = 1 .. n
  <2> HIDE DEF F
  <2> QED BY <1>1
<1> HIDE DEF F
<1>3. \A i \in Places : At(i)' = At(i)
  BY <1>1, <1>2 DEF Places, At
<1>4. At(n + 1)' = [s |-> s, kind |-> k]
  BY <1>2 DEF At
<1>5. \A i, j \in Nat : FlushIn(i, j) => FlushIn(i, j)'
  BY <1>2 DEF FlushIn
<1>6. ASSUME k \in {"text_done", "end"}, NEW i \in Places
      PROVE  FlushIn(i, n + 2)'
  <2>1. i < n + 1 /\ n + 1 < n + 2
    BY DEF Places
  <2>2. wire'[n + 1].kind \in {"text_done", "end"}
    BY <1>2, <1>6
  <2> QED BY <1>2, <2>1, <2>2 DEF FlushIn
<1> QED BY <1>2, <1>3, <1>4, <1>5, <1>6

\* What the engine sends keeps them apart: text when no other session's block
\* is open, a card between blocks or after a break, and a flush whenever a
\* block closes.
LEMMA SendKeeps ==
  ASSUME TypeOK, Kept, NEW s \in Sessions, NEW k \in Kinds, Send(s, k),
         cut \subseteq cut',
         k \notin {"text_done", "end"} => block \subseteq block',
         k = "text" => s \in block' /\ block \subseteq {s},
         k = "card" => s \notin block \/ s \in cut'
  PROVE  Kept'
<1> PICK n \in Nat : n = Len(wire)
  BY DEF TypeOK
<1>0. /\ Len(wire') = n + 1 /\ Places \subseteq Nat
      /\ Places = 0 .. n /\ Places' = 0 .. n + 1
  <2>1. Len(wire') = n + 1
    BY SendPlaces
  <2> QED BY <2>1 DEF Places
<1>1. /\ \A i \in Places : At(i)' = At(i)
      /\ At(n + 1)' = [s |-> s, kind |-> k]
      /\ \A i, j \in Nat : FlushIn(i, j) => FlushIn(i, j)'
      /\ k \in {"text_done", "end"} => \A i \in Places : FlushIn(i, n + 2)'
  BY SendPlaces
<1>2. ASSUME NEW i \in Places, IsText(i), ~FlushIn(i, n + 1)'
      PROVE  At(i).s \in block
  BY <1>0, <1>1, <1>2 DEF Kept, Open
<1>3. Apart'
  <2> SUFFICES ASSUME NEW i \in Places', NEW j \in Places',
                      i < j, IsText(i)', IsText(j)', At(i)'.s # At(j)'.s
               PROVE  FlushIn(i, j)'
    BY DEF Apart
  <2>1. i \in Places /\ IsText(i)
    BY <1>0, <1>1 DEF IsText
  <2>2. CASE j \in Places
    BY <1>0, <1>1, <2>1, <2>2 DEF Kept, Apart, IsText
  <2>3. CASE j = n + 1
    BY <1>1, <1>2, <2>1, <2>3 DEF IsText
  <2> QED BY <1>0, <2>2, <2>3
<1>4. Open'
  <2> SUFFICES ASSUME NEW i \in Places', IsText(i)', ~FlushIn(i, n + 2)'
               PROVE  At(i)'.s \in block'
    BY <1>0, n + 1 + 1 = n + 2 DEF Open
  <2>1. CASE i = n + 1
    BY <1>1, <2>1 DEF IsText
  <2>2. CASE i \in Places
    <3>1. ~FlushIn(i, n + 1)
      <4> SUFFICES ASSUME FlushIn(i, n + 1) PROVE FlushIn(i, n + 2)'
        OBVIOUS
      <4>1. FlushIn(i, n + 2)
        BY <1>0, <2>2 DEF FlushIn
      <4> QED BY <1>0, <1>1, <2>2, <4>1
    <3>2. IsText(i) /\ At(i)' = At(i)
      BY <1>1, <2>2 DEF IsText
    <3>3. At(i).s \in block
      BY <2>2, <3>1, <3>2 DEF Kept, Open
    <3>4. k \notin {"text_done", "end"}
      BY <1>1, <2>2
    <3> QED BY <3>2, <3>3, <3>4
  <2> QED BY <1>0, <2>1, <2>2
<1>5. Settled'
  <2> SUFFICES ASSUME NEW i \in Places', NEW j \in Places', i < j, IsText(i)',
                      At(j)' = [s |-> At(i)'.s, kind |-> "card"],
                      At(i)'.s \notin cut'
               PROVE  FlushIn(i, j)'
    BY DEF Settled
  <2>1. i \in Places /\ IsText(i) /\ At(i)' = At(i) /\ At(i).s \notin cut
    BY <1>0, <1>1 DEF IsText
  <2>2. CASE j \in Places
    BY <1>0, <1>1, <2>1, <2>2 DEF Kept, Settled
  <2>3. CASE j = n + 1
    <3>1. k = "card" /\ At(i).s = s
      BY <1>1, <2>1, <2>3
    <3> QED BY <1>2, <2>1, <2>3, <3>1
  <2> QED BY <1>0, <2>2, <2>3
<1> QED BY <1>3, <1>4, <1>5 DEF Kept

LEMMA ArrivePlaces ==
  ASSUME TypeOK, wire # <<>>, wire' = Tail(wire)
  PROVE  /\ Len(wire) \in Nat /\ Len(wire') = Len(wire) - 1
         /\ At(1) = Head(wire) /\ 1 \in Places
         /\ \A i \in 1 .. Len(wire') : i + 1 \in Places /\ At(i)' = At(i + 1)
         /\ \A i, j \in Nat : FlushIn(i + 1, j + 1) => FlushIn(i, j)'
         /\ Head(wire).kind \notin {"text_done", "end"} =>
              \A j \in Nat : FlushIn(0, j + 1) => FlushIn(0, j)'
<1> DEFINE F == [s : Sessions, kind : Kinds]
<1>1. wire \in Seq(F)
  BY DEF TypeOK
<1> HIDE DEF F
<1>2. /\ Len(wire) \in Nat \ {0} /\ Len(wire') = Len(wire) - 1
      /\ DOMAIN wire = 1 .. Len(wire) /\ DOMAIN wire' = 1 .. Len(wire')
      /\ Head(wire) = wire[1]
      /\ \A i \in DOMAIN wire' : wire'[i] = wire[i + 1]
  BY <1>1
<1>3. At(1) = Head(wire) /\ 1 \in Places
  BY <1>2 DEF At, Places
<1>4. \A i \in 1 .. Len(wire') : i + 1 \in Places /\ At(i)' = At(i + 1)
  BY <1>2 DEF At, Places
<1>5. ASSUME NEW i \in Nat, NEW j \in Nat, NEW k \in DOMAIN wire, k # 1,
             i < k - 1, k < j + 1, wire[k].kind \in {"text_done", "end"}
      PROVE  FlushIn(i, j)'
  <2>1. k - 1 \in DOMAIN wire' /\ i < k - 1 /\ k - 1 < j
    BY <1>2, <1>5
  <2>2. wire'[k - 1] = wire[k]
    BY <1>2, <2>1
  <2> QED BY <1>5, <2>1, <2>2 DEF FlushIn
<1>6. \A i, j \in Nat : FlushIn(i + 1, j + 1) => FlushIn(i, j)'
  <2> SUFFICES ASSUME NEW i \in Nat, NEW j \in Nat, NEW k \in DOMAIN wire,
                      i + 1 < k, k < j + 1, wire[k].kind \in {"text_done", "end"}
               PROVE  FlushIn(i, j)'
    BY DEF FlushIn
  <2>1. k # 1 /\ i < k - 1
    BY <1>2
  <2> QED BY <1>5, <2>1
<1>7. ASSUME Head(wire).kind \notin {"text_done", "end"},
             NEW j \in Nat, FlushIn(0, j + 1)
      PROVE  FlushIn(0, j)'
  <2>1. PICK k \in DOMAIN wire :
          k < j + 1 /\ wire[k].kind \in {"text_done", "end"}
    BY <1>7 DEF FlushIn
  <2>2. k # 1 /\ 0 < k - 1
    BY <1>2, <1>7, <2>1
  <2> QED BY <1>5, <2>1, <2>2
<1> QED BY <1>2, <1>3, <1>4, <1>6, <1>7

\* What arrives keeps them apart: text takes the place of text of its own
\* session, or of none; a flush empties the buffer; the rest leaves it alone.
LEMMA ArriveKeeps ==
  ASSUME TypeOK, Kept, wire # <<>>, wire' = Tail(wire),
         block' = block, cut' = cut,
         \/ Head(wire).kind = "text" /\ buf'.s = Head(wire).s
         \/ buf'.text = <<>>
         \/ buf' = buf /\ Head(wire).kind \notin {"text_done", "end"}
  PROVE  Kept'
<1> PICK n \in Nat : n = Len(wire)
  BY DEF TypeOK
<1>1. /\ n \in Nat /\ Len(wire') = n - 1 /\ n # 0
      /\ Places = 0 .. n /\ Places' = 0 .. n - 1
      /\ \A i \in 1 .. n - 1 : i + 1 \in Places /\ At(i)' = At(i + 1)
      /\ \A i, j \in Nat : FlushIn(i + 1, j + 1) => FlushIn(i, j)'
  <2>1. n # 0
    BY ArrivePlaces DEF TypeOK
  <2> QED BY <2>1, ArrivePlaces DEF Places
\* Where the text at a place of the next state is now: p.
<1>2. ASSUME NEW i \in Places', IsText(i)'
      PROVE  \E p \in Places :
               /\ IsText(p) /\ At(p).s = At(i)'.s /\ p <= i + 1
               /\ \A j \in Nat : FlushIn(p, j + 1) => FlushIn(i, j)'
  <2>1. CASE i # 0
    <3>1. i \in 1 .. n - 1
      BY <1>1, <2>1
    <3>2. i + 1 \in Places /\ IsText(i + 1) /\ At(i + 1).s = At(i)'.s
      BY <1>1, <1>2, <3>1 DEF IsText
    <3> QED BY <1>1, <3>1, <3>2
  <2>2. CASE i = 0
    <3>1. buf'.text # <<>> /\ At(0)'.s = buf'.s
      BY <1>2, <2>2 DEF IsText, At
    <3>2. CASE Head(wire).kind = "text" /\ buf'.s = Head(wire).s
      <4>1. 1 \in Places /\ IsText(1) /\ At(1).s = At(i)'.s
        BY <2>2, <3>1, <3>2, ArrivePlaces DEF IsText
      <4>2. \A j \in Nat : FlushIn(1, j + 1) => FlushIn(0, j)'
        <5> SUFFICES ASSUME NEW j \in Nat PROVE FlushIn(0 + 1, j + 1) => FlushIn(0, j)'
          OBVIOUS
        <5> QED BY <1>1
      <4> QED BY <2>2, <4>1, <4>2
    <3>3. CASE buf' = buf /\ Head(wire).kind \notin {"text_done", "end"}
      <4>1. 0 \in Places /\ IsText(0) /\ At(0).s = At(i)'.s
        BY <1>1, <2>2, <3>1, <3>3 DEF IsText, At
      <4>2. \A j \in Nat : FlushIn(0, j + 1) => FlushIn(0, j)'
        BY <3>3, ArrivePlaces
      <4> QED BY <2>2, <4>1, <4>2
    <3> QED BY <3>1, <3>2, <3>3
  <2> QED BY <2>1, <2>2
<1>3. Apart'
  <2> SUFFICES ASSUME NEW i \in Places', NEW j \in Places',
                      i < j, IsText(i)', IsText(j)', At(i)'.s # At(j)'.s
               PROVE  FlushIn(i, j)'
    BY DEF Apart
  <2>1. PICK p \in Places :
          /\ IsText(p) /\ At(p).s = At(i)'.s /\ p <= i + 1
          /\ \A m \in Nat : FlushIn(p, m + 1) => FlushIn(i, m)'
    BY <1>2
  <2>2. j \in 1 .. n - 1 /\ p < j + 1
    BY <1>1, <2>1
  <2>3. j + 1 \in Places /\ IsText(j + 1) /\ At(j + 1).s = At(j)'.s
    BY <1>1, <2>2 DEF IsText
  <2>4. FlushIn(p, j + 1)
    BY <2>1, <2>2, <2>3 DEF Kept, Apart
  <2> QED BY <2>1, <2>2, <2>4
<1>4. Open'
  <2> SUFFICES ASSUME NEW i \in Places', IsText(i)', ~FlushIn(i, n)'
               PROVE  At(i)'.s \in block'
    BY <1>1, n - 1 + 1 = n DEF Open
  <2>1. PICK p \in Places :
          /\ IsText(p) /\ At(p).s = At(i)'.s
          /\ \A m \in Nat : FlushIn(p, m + 1) => FlushIn(i, m)'
    BY <1>2
  <2>2. ~FlushIn(p, n + 1)
    BY <1>1, <2>1
  <2> QED BY <2>1, <2>2 DEF Kept, Open
<1>5. Settled'
  <2> SUFFICES ASSUME NEW i \in Places', NEW j \in Places', i < j, IsText(i)',
                      At(j)' = [s |-> At(i)'.s, kind |-> "card"],
                      At(i)'.s \notin cut'
               PROVE  FlushIn(i, j)'
    BY DEF Settled
  <2>1. PICK p \in Places :
          /\ IsText(p) /\ At(p).s = At(i)'.s /\ p <= i + 1
          /\ \A m \in Nat : FlushIn(p, m + 1) => FlushIn(i, m)'
    BY <1>2
  <2>2. j \in 1 .. n - 1 /\ p < j + 1
    BY <1>1, <2>1
  <2>3. j + 1 \in Places /\ At(j + 1) = [s |-> At(p).s, kind |-> "card"]
    BY <1>1, <2>1, <2>2
  <2>4. FlushIn(p, j + 1)
    BY <2>1, <2>2, <2>3 DEF Kept, Settled
  <2> QED BY <2>1, <2>2, <2>4
<1> QED BY <1>3, <1>4, <1>5 DEF Kept

\* Nothing moves on the wire, and the buffer keeps its text or loses it.
LEMMA QuietKeeps ==
  ASSUME TypeOK, Kept, UNCHANGED <<wire, block, cut>>,
         buf' = buf \/ buf'.text = <<>>
  PROVE  Kept'
<1>1. Places' = Places /\ Len(wire)' = Len(wire)
  BY DEF Places
<1>2. \A i, j : FlushIn(i, j)' <=> FlushIn(i, j)
  BY DEF FlushIn
<1>3. \A i \in Places : i # 0 => At(i)' = At(i)
  BY DEF At
<1>4. \A i \in Places : IsText(i)' => IsText(i) /\ At(i)' = At(i)
  BY <1>3 DEF IsText, At
<1>5. Apart'
  BY <1>1, <1>2, <1>4 DEF Kept, Apart
<1>6. Open'
  BY <1>1, <1>2, <1>4 DEF Kept, Open
<1>7. Settled'
  <2> SUFFICES ASSUME NEW i \in Places, NEW j \in Places, i < j, IsText(i)',
                      At(j)' = [s |-> At(i)'.s, kind |-> "card"],
                      At(i)'.s \notin cut'
               PROVE  FlushIn(i, j)'
    BY <1>1 DEF Settled
  <2>1. j # 0 /\ At(j)' = At(j)
    BY <1>3 DEF Places, TypeOK
  <2> QED BY <1>2, <1>4, <2>1 DEF Kept, Settled
<1> QED BY <1>5, <1>6, <1>7 DEF Kept

\* No step lets text meet text or a card without a flush in between.
LEMMA KeptStep == ~Overlap /\ TypeOK /\ Kept /\ [Next]_vars => Kept'
<1> SUFFICES ASSUME ~Overlap, TypeOK, Kept, [Next]_vars PROVE Kept'
  OBVIOUS
<1> USE DEF Kinds, Item
<1>1. ASSUME NEW s \in Sessions, AgentStart(s) PROVE Kept'
  BY <1>1, SendKeeps DEF AgentStart
<1>2. ASSUME NEW s \in Sessions, Refuse(s) PROVE Kept'
  BY <1>2, SendKeeps DEF Refuse
<1>3. ASSUME NEW s \in Sessions, TextDelta(s) PROVE Kept'
  BY <1>3, SendKeeps DEF TextDelta, Emit
<1>4. ASSUME NEW s \in Sessions, TextEnd(s) PROVE Kept'
  BY <1>4, SendKeeps DEF TextEnd
<1>5. ASSUME NEW s \in Sessions, OtherItem(s) PROVE Kept'
  BY <1>5, SendKeeps DEF OtherItem, Emit
<1>6. ASSUME NEW s \in Sessions, AgentEnd(s) PROVE Kept'
  BY <1>6, SendKeeps DEF AgentEnd
<1>7. ASSUME NEW s \in Sessions, Answer(s) PROVE Kept'
  BY <1>7, SendKeeps DEF Answer
<1>8. ASSUME NEW s \in Sessions, Prompt(s) PROVE Kept'
  BY <1>8, QuietKeeps DEF Prompt
<1>9. ASSUME NEW s \in Sessions, Activate(s) PROVE Kept'
  BY <1>9, QuietKeeps DEF Activate, agent
<1>10. ASSUME NEW s \in Sessions, Timeout(s) PROVE Kept'
  BY <1>10, QuietKeeps DEF Timeout, PromptFails, agent
<1>11. Emptied.text = <<>>
  BY DEF Emptied, TypeOK
<1>12. CASE Frame
  BY <1>11, <1>12, QuietKeeps DEF Frame, agent
<1>13. CASE HandleDelta
  <2>1. buf'.s = Head(wire).s
    BY <1>13 DEF HandleDelta, ScheduleFlush
  <2> QED BY <1>13, <2>1, ArriveKeeps DEF HandleDelta, Arrives, agent
<1>14. CASE HandleDone
  BY <1>11, <1>14, ArriveKeeps DEF HandleDone, ForceFlush, Arrives, agent
<1>15. CASE HandleItem
  BY <1>15, ArriveKeeps DEF HandleItem, Arrives, agent
<1>16. CASE HandleStart
  BY <1>16, ArriveKeeps DEF HandleStart, Arrives, agent
<1>17. CASE HandleEnd
  BY <1>11, <1>17, ArriveKeeps DEF HandleEnd, ForceFlush, Arrives, agent
<1>18. CASE HandleAnswer
  BY <1>18, ArriveKeeps DEF HandleAnswer, Arrives, agent
<1>19. CASE HandleRefusal
  BY <1>19, ArriveKeeps DEF HandleRefusal, PromptFails, Arrives, agent
<1>20. CASE UNCHANGED vars
  BY <1>20, QuietKeeps DEF vars, agent, tab
<1> QED
  BY <1>1, <1>2, <1>3, <1>4, <1>5, <1>6, <1>7, <1>8, <1>9, <1>10, <1>12, <1>13,
     <1>14, <1>15, <1>16, <1>17, <1>18, <1>19, <1>20
  DEF Next, EngineStep, UserStep, Handle

------------------------------------------------------------------------------
(***************************************************************************)
(* What has arrived, and what is on its way                                *)
(***************************************************************************)

\* The output e begins with a, and goes on with the frames of w in S.
Tells(e, a, w, S) ==
  /\ Len(e) = Len(a) + Count(w, S)
  /\ \A i \in DOMAIN a : a[i] = e[i]
  /\ \A i \in DOMAIN w : w[i] \in S => w[i].kind = e[Len(a) + Upto(w, i, S)]

\* It still does when another frame is sent, or the next item with its frame,
LEMMA TellsSend ==
  ASSUME NEW T, NEW E, NEW e \in Seq(E), NEW a \in Seq(E), NEW w \in Seq(T),
         NEW S, NEW f \in T, Tells(e, a, w, S)
  PROVE  /\ f \notin S => Tells(e, a, Append(w, f), S)
         /\ f \in S /\ f.kind \in E =>
              Tells(Append(e, f.kind), a, Append(w, f), S)
<1>1. /\ Len(e) \in Nat /\ Len(a) \in Nat /\ Len(w) \in Nat
      /\ Count(w, S) \in Nat
  <2>1. Len(e) \in Nat /\ Len(a) \in Nat /\ Len(w) \in Nat
    OBVIOUS
  <2>2. Count(w, S) \in Nat
    BY <2>1, UptoType DEF Count
  <2> QED BY <2>1, <2>2
<1>2. /\ DOMAIN w = 1 .. Len(w) /\ DOMAIN Append(w, f) = 1 .. Len(w) + 1
      /\ \A i \in DOMAIN w : Append(w, f)[i] = w[i]
      /\ Append(w, f)[Len(w) + 1] = f
      /\ DOMAIN a = 1 .. Len(a)
  OBVIOUS
<1>3. Count(Append(w, f), S) = Count(w, S) + (IF f \in S THEN 1 ELSE 0)
  BY SMTT(20), CountAppend
<1>4. ASSUME NEW i \in DOMAIN w PROVE Upto(Append(w, f), i, S) = Upto(w, i, S)
  <2>1. Append(w, f) = w \o <<f>> /\ <<f>> \in Seq(T) /\ i \in 0 .. Len(w)
    OBVIOUS
  <2>2. Upto(w \o <<f>>, i, S) = Upto(w, i, S)
    BY <2>1, UptoPrefix
  <2> QED BY <2>1, <2>2
<1>5. ASSUME NEW i \in DOMAIN w, w[i] \in S
      PROVE  Upto(w, i, S) \in 1 .. Count(w, S)
  BY <1>5, UptoWithin
<1>6. ASSUME f \notin S PROVE Tells(e, a, Append(w, f), S)
  BY <1>1, <1>2, <1>3, <1>4, <1>6 DEF Tells
<1>7. ASSUME f \in S, f.kind \in E
      PROVE  Tells(Append(e, f.kind), a, Append(w, f), S)
  <2>1. /\ Len(Append(e, f.kind)) = Len(e) + 1
        /\ \A i \in 1 .. Len(e) : Append(e, f.kind)[i] = e[i]
        /\ Append(e, f.kind)[Len(e) + 1] = f.kind
    BY <1>7
  <2>2. Len(e) = Len(a) + Count(w, S)
    BY DEF Tells
  <2>3. Len(Append(e, f.kind)) = Len(a) + Count(Append(w, f), S)
    BY <1>1, <1>3, <1>7, <2>1, <2>2
  <2>4. \A i \in DOMAIN a : a[i] = Append(e, f.kind)[i]
    BY <1>1, <1>2, <2>1, <2>2 DEF Tells
  <2>5. ASSUME NEW i \in DOMAIN w, w[i] \in S
        PROVE  w[i].kind = Append(e, f.kind)[Len(a) + Upto(w, i, S)]
    <3>1. Len(a) + Upto(w, i, S) \in 1 .. Len(e)
      BY <1>1, <1>5, <2>2, <2>5
    <3> QED BY <2>1, <2>5, <3>1 DEF Tells
  <2>6. Upto(Append(w, f), Len(w) + 1, S) = Count(w, S) + 1
    BY <1>1, <1>2, <1>3, <1>7 DEF Count
  <2>7. f.kind = Append(e, f.kind)[Len(a) + Upto(Append(w, f), Len(w) + 1, S)]
    BY <1>1, <2>1, <2>2, <2>6, Len(a) + (Count(w, S) + 1) = Len(e) + 1
  <2>8. ASSUME NEW i \in DOMAIN Append(w, f), Append(w, f)[i] \in S
        PROVE  Append(w, f)[i].kind
                 = Append(e, f.kind)[Len(a) + Upto(Append(w, f), i, S)]
    <3>1. CASE i \in DOMAIN w
      BY <1>2, <1>4, <2>5, <2>8, <3>1
    <3>2. CASE i = Len(w) + 1
      BY <1>2, <2>7, <3>2
    <3>3. i \in DOMAIN w \/ i = Len(w) + 1
      BY <1>1, <1>2
    <3> QED BY <3>1, <3>2, <3>3
  <2> QED BY <2>3, <2>4, <2>8 DEF Tells
<1> QED BY <1>6, <1>7

\* and when a frame of another kind is taken off, or the next item arrives.
LEMMA TellsArrive ==
  ASSUME NEW T, NEW E, NEW e \in Seq(E), NEW a \in Seq(E), NEW w \in Seq(T),
         NEW S, w # <<>>, Tells(e, a, w, S)
  PROVE  /\ Head(w) \notin S => Tells(e, a, Tail(w), S)
         /\ Head(w) \in S /\ Head(w).kind \in E =>
              Tells(e, Append(a, Head(w).kind), Tail(w), S)
<1> DEFINE one == IF Head(w) \in S THEN 1 ELSE 0
<1>1. /\ Len(e) \in Nat /\ Len(a) \in Nat /\ Tail(w) \in Seq(T)
      /\ Len(Tail(w)) \in Nat
  OBVIOUS
<1>2. Count(Tail(w), S) \in Nat /\ Count(w, S) = Count(Tail(w), S) + one
  BY <1>1, UptoType, CountTail DEF Count
<1>3. ASSUME NEW i \in DOMAIN Tail(w)
      PROVE  /\ i + 1 \in DOMAIN w /\ Tail(w)[i] = w[i + 1]
             /\ Upto(w, i + 1, S) = Upto(Tail(w), i, S) + one
             /\ Upto(Tail(w), i, S) \in Nat
  <2>1. i \in Nat /\ i + 1 \in DOMAIN w /\ Tail(w)[i] = w[i + 1]
    OBVIOUS
  <2> HIDE DEF one
  <2>2. ASSUME NEW m \in Nat PROVE Upto(w, m + 1, S) = Upto(Tail(w), m, S) + one
    BY Zenon, UptoTails DEF one
  <2>3. Upto(Tail(w), i, S) \in Nat
    BY <1>1, <2>1, UptoType
  <2> QED BY <2>1, <2>2, <2>3
<1>4. ASSUME Head(w) \notin S PROVE Tells(e, a, Tail(w), S)
  BY <1>1, <1>2, <1>3, <1>4 DEF Tells
<1>5. ASSUME Head(w) \in S, Head(w).kind \in E
      PROVE  Tells(e, Append(a, Head(w).kind), Tail(w), S)
  <2> DEFINE b == Append(a, Head(w).kind)
  <2>1. /\ Len(b) = Len(a) + 1 /\ DOMAIN b = 1 .. Len(a) + 1
        /\ \A i \in DOMAIN a : b[i] = a[i]
        /\ b[Len(a) + 1] = Head(w).kind /\ DOMAIN a = 1 .. Len(a)
    BY <1>5
  <2> HIDE DEF b
  <2>2. Len(e) = Len(b) + Count(Tail(w), S)
    BY <1>1, <1>2, <1>5, <2>1 DEF Tells
  <2>3. Head(w).kind = e[Len(a) + 1]
    <3>1. 1 \in DOMAIN w /\ w[1] = Head(w)
      OBVIOUS
    <3>2. Upto(w, 1, S) = Upto(Tail(w), 0, S) + 1
      BY <1>5, UptoTail, 0 + 1 = 1
    <3>3. Upto(Tail(w), 0, S) = 0
      <4>1. {i \in DOMAIN Tail(w) : i <= 0 /\ Tail(w)[i] \in S} = {}
        BY <1>1
      <4> QED BY <4>1, FS_EmptySet DEF Upto
    <3> QED BY <1>5, <3>1, <3>2, <3>3 DEF Tells
  <2>4. \A i \in DOMAIN b : b[i] = e[i]
    BY <1>1, <2>1, <2>3 DEF Tells
  <2>5. ASSUME NEW i \in DOMAIN Tail(w), Tail(w)[i] \in S
        PROVE  Tail(w)[i].kind = e[Len(b) + Upto(Tail(w), i, S)]
    <3>1. Len(a) + Upto(w, i + 1, S) = Len(b) + Upto(Tail(w), i, S)
      BY <1>1, <1>3, <1>5, <2>1
    <3> QED BY <1>3, <2>5, <3>1 DEF Tells
  <2> QED BY <2>2, <2>4, <2>5 DEF Tells, b
<1> QED BY <1>4, <1>5

LEMMA StreamTypes ==
  ASSUME TypeOK, NEW s \in Sessions
  PROVE  /\ emitted[s] \in Seq(Item) /\ items[s] \in Seq(Item)
         /\ InBuffer(s) \in Seq(Item) /\ Arrived(s) \in Seq(Item)
         /\ wire \in Seq([s : Sessions, kind : Kinds])
<1>1. emitted[s] \in Seq(Item) /\ items[s] \in Seq(Item)
      /\ wire \in Seq([s : Sessions, kind : Kinds])
  BY DEF TypeOK
<1>2. buf.text \in Seq(Item)
  BY DEF TypeOK, Item
<1>3. InBuffer(s) \in Seq(Item)
  BY <1>2 DEF InBuffer
<1> QED BY <1>1, <1>3 DEF Arrived

\* A flush moves the buffered text to the timeline, behind what is there.
LEMMA FlushArrives ==
  ASSUME TypeOK, NEW s \in Sessions, items' = Flushed, buf'.text = <<>>
  PROVE  Arrived(s)' = Arrived(s)
<1>1. /\ items[s] \in Seq(Item) /\ buf.text \in Seq(Item) /\ buf.s \in Sessions
  BY StreamTypes DEF TypeOK, Item
<1>2. InBuffer(s)' = <<>>
  BY DEF InBuffer
<1>3. CASE buf.s = s
  <2>1. items'[s] = items[s] \o buf.text /\ items[s] \o buf.text \in Seq(Item)
    BY <1>1, <1>3 DEF Flushed, TypeOK
  <2>2. Arrived(s)' = items[s] \o buf.text
    BY <1>2, <2>1 DEF Arrived
  <2> QED BY <1>3, <2>2 DEF Arrived, InBuffer
<1>4. CASE buf.s # s
  BY <1>1, <1>2, <1>4 DEF Flushed, Arrived, InBuffer, TypeOK
<1> QED BY <1>3, <1>4

LEMMA HeadFrame ==
  TypeOK /\ wire # <<>> => Head(wire) \in [s : Sessions, kind : Kinds]
<1> DEFINE F == [s : Sessions, kind : Kinds]
<1>1. TypeOK => wire \in Seq(F)
  BY DEF TypeOK
<1> HIDE DEF F
<1>2. TypeOK /\ wire # <<>> => Head(wire) \in F
  BY <1>1
<1> QED BY <1>2 DEF F

LEMMA NoFlushAhead == TypeOK => ~FlushIn(0, 1)
BY DEF FlushIn, TypeOK

\* A delta that meets the buffer of another session finds it empty.
LEMMA DeltaArrives ==
  ASSUME TypeOK, Kept, HandleDelta, NEW s \in Sessions
  PROVE  Arrived(s)' = IF Head(wire).s = s THEN Append(Arrived(s), "text")
                       ELSE Arrived(s)
<1> DEFINE h == Head(wire).s
<1>1. /\ wire # <<>> /\ wire' = Tail(wire) /\ Head(wire).kind = "text"
      /\ items' = items
      /\ buf'.s = h
      /\ buf'.text = Append(IF buf.s # h THEN <<>> ELSE buf.text, "text")
  BY DEF HandleDelta, Arrives, ScheduleFlush
<1>2. ASSUME buf.s # h PROVE buf.text = <<>>
  <2>1. 0 \in Places /\ 1 \in Places /\ At(1) = Head(wire)
    BY <1>1, ArrivePlaces DEF Places, TypeOK
  <2>2. IsText(1) /\ At(0).s = buf.s /\ (IsText(0) <=> buf.text # <<>>)
    BY <1>1, <2>1 DEF IsText, At
  <2> QED BY <1>2, <2>1, <2>2, NoFlushAhead DEF Kept, Apart
<1>3. items[s] \in Seq(Item) /\ buf.text \in Seq(Item) /\ "text" \in Item
  BY StreamTypes DEF TypeOK, Item
<1>4. CASE h = s
  <2>1. InBuffer(s)' = Append(InBuffer(s), "text")
    BY <1>1, <1>4 DEF InBuffer
  <2>2. InBuffer(s) \in Seq(Item)
    BY StreamTypes
  <2>3. items[s] \o Append(InBuffer(s), "text")
          = Append(items[s] \o InBuffer(s), "text")
    <3>1. ASSUME NEW q \in Seq(Item), NEW r \in Seq(Item), NEW e \in Item
          PROVE  q \o Append(r, e) = Append(q \o r, e)
      OBVIOUS
    <3> QED BY <1>3, <2>2, <3>1
  <2> QED BY <1>1, <1>4, <2>1, <2>3 DEF Arrived
<1>5. CASE h # s
  <2>1. InBuffer(s)' = <<>> /\ InBuffer(s) = <<>>
    BY <1>1, <1>2, <1>5 DEF InBuffer
  <2> QED BY <1>1, <1>5, <2>1 DEF Arrived
<1> QED BY <1>4, <1>5

\* A card meets no text of its session, unless the stream broke off.
LEMMA CardArrives ==
  ASSUME TypeOK, Kept, HandleItem, NEW s \in Sessions \ cut
  PROVE  Arrived(s)' = IF Head(wire).s = s THEN Append(Arrived(s), "card")
                       ELSE Arrived(s)
<1>1. /\ wire # <<>> /\ wire' = Tail(wire) /\ Head(wire).kind = "card"
      /\ items' = [items EXCEPT ![Head(wire).s] = Append(@, "card")]
      /\ buf' = buf
  BY DEF HandleItem, Arrives
<1>2. CASE Head(wire).s = s
  <2>1. 0 \in Places /\ 1 \in Places /\ At(1) = Head(wire)
    BY <1>1, ArrivePlaces DEF Places, TypeOK
  <2>2. Head(wire) = [s |-> s, kind |-> "card"]
    <3>1. Head(wire) \in [s : Sessions, kind : Kinds]
      BY <1>1, HeadFrame
    <3> QED BY <1>1, <1>2, <3>1
  <2>3. At(0).s = buf.s /\ (IsText(0) <=> buf.text # <<>>)
    BY DEF IsText, At
  <2>4. InBuffer(s) = <<>>
    <3>1. CASE buf.s = s /\ buf.text # <<>>
      <4>1. IsText(0) /\ At(0).s = s
        BY <2>3, <3>1
      <4>2. FlushIn(0, 1)
        BY <2>1, <2>2, <4>1 DEF Kept, Settled
      <4> QED BY <4>2, NoFlushAhead
    <3> QED BY <3>1 DEF InBuffer
  <2>5. items'[s] = Append(items[s], "card") /\ items[s] \in Seq(Item)
        /\ "card" \in Item
    BY <1>1, <1>2 DEF TypeOK, Item
  <2>6. InBuffer(s)' = <<>>
    BY <1>1, <2>4 DEF InBuffer
  <2> QED BY <1>2, <2>4, <2>5, <2>6 DEF Arrived
<1>3. CASE Head(wire).s # s
  BY <1>1, <1>3 DEF Arrived, InBuffer, TypeOK
<1> QED BY <1>2, <1>3

------------------------------------------------------------------------------
(***************************************************************************)
(* Order                                                                   *)
(***************************************************************************)

LEMMA OrderTells ==
  InOrder <=> \A s \in Sessions \ cut :
                Tells(emitted[s], Arrived(s), wire, Frames(s))
BY DEF InOrder, Tells

LEMMA SendOrder ==
  ASSUME TypeOK, InOrder, NEW t \in Sessions, NEW k \in Kinds, Send(t, k),
         cut \subseteq cut',
         \/ k \notin Item /\ emitted' = emitted
         \/ k \in Item /\ emitted' = [emitted EXCEPT ![t] = Append(@, k)]
  PROVE  InOrder'
<1> SUFFICES ASSUME NEW s \in Sessions, s \notin cut'
             PROVE  Tells(emitted'[s], Arrived(s)', wire', Frames(s))
  BY DEF InOrder, Tells, Frames
<1> DEFINE f == [s |-> t, kind |-> k]
           F == [s : Sessions, kind : Kinds]
<1>1. /\ wire' = Append(wire, f) /\ f \in F /\ Arrived(s)' = Arrived(s)
      /\ f.kind = k
  BY DEF Send, tab, Arrived, InBuffer
<1>2. f \in Frames(s) <=> t = s /\ k \in Item
  BY DEF Frames
<1>3. emitted'[s] = IF t = s /\ k \in Item THEN Append(emitted[s], k)
                    ELSE emitted[s]
  BY DEF TypeOK
<1>4. Tells(emitted[s], Arrived(s), wire, Frames(s))
  BY OrderTells
<1>5. emitted[s] \in Seq(Item) /\ Arrived(s) \in Seq(Item) /\ wire \in Seq(F)
  BY StreamTypes
<1> HIDE DEF f, F
<1>6. /\ f \notin Frames(s) =>
           Tells(emitted[s], Arrived(s), Append(wire, f), Frames(s))
      /\ f \in Frames(s) /\ f.kind \in Item =>
           Tells(Append(emitted[s], f.kind), Arrived(s), Append(wire, f), Frames(s))
  BY <1>1, <1>4, <1>5, TellsSend
<1> QED BY <1>1, <1>2, <1>3, <1>6

LEMMA ArriveOrder ==
  ASSUME TypeOK, InOrder, wire # <<>>, wire' = Tail(wire),
         emitted' = emitted, cut' = cut,
         \A s \in Sessions \ cut :
           Arrived(s)' = IF Head(wire) \in Frames(s)
                         THEN Append(Arrived(s), Head(wire).kind) ELSE Arrived(s)
  PROVE  InOrder'
<1> SUFFICES ASSUME NEW s \in Sessions, s \notin cut
             PROVE  Tells(emitted[s], Arrived(s)', Tail(wire), Frames(s))
  BY DEF InOrder, Tells, Frames
<1>1. Tells(emitted[s], Arrived(s), wire, Frames(s))
  BY OrderTells
<1>2. Head(wire) \in Frames(s) => Head(wire).kind \in Item
  BY DEF Frames
<1>3. /\ Head(wire) \notin Frames(s) =>
           Tells(emitted[s], Arrived(s), Tail(wire), Frames(s))
      /\ Head(wire) \in Frames(s) /\ Head(wire).kind \in Item =>
           Tells(emitted[s], Append(Arrived(s), Head(wire).kind), Tail(wire), Frames(s))
  BY <1>1, StreamTypes, TellsArrive
<1> QED BY <1>2, <1>3

\* Neither the wire nor what has arrived changes.
LEMMA QuietOrder ==
  ASSUME InOrder, UNCHANGED <<emitted, cut, wire>>,
         \A s \in Sessions : Arrived(s)' = Arrived(s)
  PROVE  InOrder'
<1>1. \A s \in Sessions : Frames(s)' = Frames(s)
  BY DEF Frames
<1>2. \A s \in Sessions : Tells(emitted[s], Arrived(s), wire, Frames(s))'
        <=> Tells(emitted[s], Arrived(s), wire, Frames(s))
  BY <1>1 DEF Tells
<1>3. InOrder' <=> \A s \in Sessions \ cut' :
                     Tells(emitted[s], Arrived(s), wire, Frames(s))'
  BY DEF InOrder, Tells
<1> QED BY <1>2, <1>3, OrderTells

\* Every step keeps the order.
LEMMA OrderStep == TypeOK /\ Kept /\ InOrder /\ [Next]_vars => InOrder'
<1> SUFFICES ASSUME TypeOK, Kept, InOrder, [Next]_vars PROVE InOrder'
  OBVIOUS
<1>1. /\ Kinds = {"text", "card", "text_done", "start", "end", "answer", "refusal"}
      /\ Item = {"text", "card"}
  BY DEF Kinds, Item
<1>2. ASSUME NEW s \in Sessions, AgentStart(s) PROVE InOrder'
  BY <1>1, <1>2, SendOrder DEF AgentStart
<1>3. ASSUME NEW s \in Sessions, Refuse(s) PROVE InOrder'
  BY <1>1, <1>3, SendOrder DEF Refuse
<1>4. ASSUME NEW s \in Sessions, TextDelta(s) PROVE InOrder'
  BY <1>1, <1>4, SendOrder DEF TextDelta, Emit
<1>5. ASSUME NEW s \in Sessions, TextEnd(s) PROVE InOrder'
  BY <1>1, <1>5, SendOrder DEF TextEnd
<1>6. ASSUME NEW s \in Sessions, OtherItem(s) PROVE InOrder'
  BY <1>1, <1>6, SendOrder DEF OtherItem, Emit
<1>7. ASSUME NEW s \in Sessions, AgentEnd(s) PROVE InOrder'
  BY <1>1, <1>7, SendOrder DEF AgentEnd
<1>8. ASSUME NEW s \in Sessions, Answer(s) PROVE InOrder'
  BY <1>1, <1>8, SendOrder DEF Answer
<1>9. UNCHANGED <<items, buf>> => \A s \in Sessions : Arrived(s)' = Arrived(s)
  BY DEF Arrived, InBuffer
<1>10. ASSUME NEW s \in Sessions, Prompt(s) PROVE InOrder'
  BY <1>9, <1>10, QuietOrder DEF Prompt
<1>11. ASSUME NEW s \in Sessions, Activate(s) PROVE InOrder'
  BY <1>9, <1>11, QuietOrder DEF Activate, agent
<1>12. ASSUME NEW s \in Sessions, Timeout(s) PROVE InOrder'
  BY <1>9, <1>12, QuietOrder DEF Timeout, PromptFails, agent
<1>13. Emptied.text = <<>>
  BY DEF Emptied, TypeOK
<1>14. CASE Frame
  <2>1. \A s \in Sessions : Arrived(s)' = Arrived(s)
    BY <1>13, <1>14, FlushArrives DEF Frame
  <2> QED BY <1>14, <2>1, QuietOrder DEF Frame, agent
<1>15. wire # <<>> => /\ Head(wire) \in [s : Sessions, kind : Kinds]
                     /\ \A s \in Sessions :
                          Head(wire) \in Frames(s) <=>
                            Head(wire).s = s /\ Head(wire).kind \in Item
  BY HeadFrame DEF Frames
<1>16. CASE HandleDelta
  <2>1. \A s \in Sessions \ cut :
          Arrived(s)' = IF Head(wire) \in Frames(s)
                        THEN Append(Arrived(s), Head(wire).kind) ELSE Arrived(s)
    BY <1>1, <1>15, <1>16, DeltaArrives DEF HandleDelta, Arrives
  <2> QED BY <1>16, <2>1, ArriveOrder DEF HandleDelta, Arrives, agent
<1>17. CASE HandleItem
  <2>1. \A s \in Sessions \ cut :
          Arrived(s)' = IF Head(wire) \in Frames(s)
                        THEN Append(Arrived(s), Head(wire).kind) ELSE Arrived(s)
    BY <1>1, <1>15, <1>17, CardArrives DEF HandleItem, Arrives
  <2> QED BY <1>17, <2>1, ArriveOrder DEF HandleItem, Arrives, agent
<1>18. ASSUME NEW k \in Kinds \ Item, Arrives(k),
              \A s \in Sessions : Arrived(s)' = Arrived(s)
       PROVE  InOrder'
  <2>1. \A s \in Sessions \ cut :
          Arrived(s)' = IF Head(wire) \in Frames(s)
                        THEN Append(Arrived(s), Head(wire).kind) ELSE Arrived(s)
    BY <1>15, <1>18 DEF Arrives
  <2> QED BY <1>18, <2>1, ArriveOrder DEF Arrives, agent
<1>19. CASE HandleDone
  <2>1. \A s \in Sessions : Arrived(s)' = Arrived(s)
    BY <1>13, <1>19, FlushArrives DEF HandleDone, ForceFlush
  <2> QED BY <1>1, <1>18, <1>19, <2>1 DEF HandleDone
<1>20. CASE HandleStart
  BY <1>1, <1>9, <1>18, <1>20 DEF HandleStart
<1>21. CASE HandleEnd
  <2>1. \A s \in Sessions : Arrived(s)' = Arrived(s)
    BY <1>13, <1>21, FlushArrives DEF HandleEnd, ForceFlush
  <2> QED BY <1>1, <1>18, <1>21, <2>1 DEF HandleEnd
<1>22. CASE HandleAnswer
  BY <1>1, <1>9, <1>18, <1>22 DEF HandleAnswer
<1>23. CASE HandleRefusal
  BY <1>1, <1>9, <1>18, <1>23 DEF HandleRefusal, PromptFails
<1>24. CASE UNCHANGED vars
  BY <1>9, <1>24, QuietOrder DEF vars, agent, tab
<1> QED
  BY <1>2, <1>3, <1>4, <1>5, <1>6, <1>7, <1>8, <1>10, <1>11, <1>12, <1>14,
     <1>16, <1>17, <1>19, <1>20, <1>21, <1>22, <1>23, <1>24
  DEF Next, EngineStep, UserStep, Handle

------------------------------------------------------------------------------
(***************************************************************************)
(* Loss                                                                    *)
(***************************************************************************)

Shown(s, k) == Count(items[s], {k}) + Count(InBuffer(s), {k})

LEMMA SendCount ==
  ASSUME TypeOK, NEW s \in Sessions, NEW k \in Kinds, Send(s, k), NEW S
  PROVE  Count(wire', S) = Count(wire, S) + (IF [s |-> s, kind |-> k] \in S THEN 1 ELSE 0)
<1> DEFINE F == [s : Sessions, kind : Kinds]
           f == [s |-> s, kind |-> k]
<1>1. wire \in Seq(F) /\ f \in F /\ wire' = Append(wire, f)
  BY StreamTypes DEF Send
<1> HIDE DEF F, f
<1>2. Count(wire', S) = Count(wire, S) + (IF f \in S THEN 1 ELSE 0)
  BY <1>1, CountAppend
<1> QED BY <1>2 DEF f

\* All that is counted is a number.
LEMMA CountTypes ==
  ASSUME TypeOK, NEW s \in Sessions, NEW S
  PROVE  /\ Count(emitted[s], S) \in Nat /\ Count(items[s], S) \in Nat
         /\ Count(InBuffer(s), S) \in Nat /\ Count(wire, S) \in Nat
<1>1. ASSUME NEW T, NEW q \in Seq(T) PROVE Count(q, S) \in Nat
  <2>1. Len(q) \in Nat
    OBVIOUS
  <2> QED BY <2>1, UptoType DEF Count
<1> QED BY <1>1, StreamTypes

LEMMA SendLoss ==
  ASSUME TypeOK, NothingLost, NEW t \in Sessions, NEW m \in Kinds, Send(t, m),
         \/ m \notin Item /\ emitted' = emitted
         \/ m \in Item /\ emitted' = [emitted EXCEPT ![t] = Append(@, m)]
  PROVE  NothingLost'
<1> SUFFICES ASSUME NEW s \in Sessions, NEW k \in Item
             PROVE  Count(emitted'[s], {k})
                      = Count(items'[s], {k}) + Count(InBuffer(s)', {k})
                          + Count(wire', {[s |-> s, kind |-> k]})
  BY DEF NothingLost
<1> DEFINE new == IF s = t /\ k = m THEN 1 ELSE 0
<1>1. UNCHANGED <<items, InBuffer(s)>>
  BY DEF Send, tab, InBuffer
<1>2. Count(wire', {[s |-> s, kind |-> k]})
        = Count(wire, {[s |-> s, kind |-> k]}) + new
  <2>1. [s |-> t, kind |-> m] \in {[s |-> s, kind |-> k]} <=> s = t /\ k = m
    OBVIOUS
  <2> QED BY <2>1, SendCount
<1>3. Count(emitted'[s], {k}) = Count(emitted[s], {k}) + new
  <2>1. CASE s = t /\ m \in Item
    <3>1. emitted'[s] = Append(emitted[s], m)
      BY <2>1 DEF TypeOK
    <3>2. emitted[s] \in Seq(Item)
      BY StreamTypes
    <3>3. Count(Append(emitted[s], m), {k})
            = Count(emitted[s], {k}) + (IF m \in {k} THEN 1 ELSE 0)
      BY <2>1, <3>2, CountAppend
    <3> QED BY <2>1, <3>1, <3>3
  <2>2. CASE ~(s = t /\ m \in Item)
    <3>1. emitted'[s] = emitted[s] /\ new = 0
      BY <2>2 DEF TypeOK
    <3> QED BY <3>1, CountTypes
  <2> QED BY <2>1, <2>2
<1>4. Count(emitted[s], {k})
        = Count(items[s], {k}) + Count(InBuffer(s), {k})
            + Count(wire, {[s |-> s, kind |-> k]})
  BY DEF NothingLost
<1> HIDE DEF new
<1>5. new \in Nat
  BY DEF new
<1>6. /\ Count(items[s], {k}) \in Nat /\ Count(InBuffer(s), {k}) \in Nat
      /\ Count(wire, {[s |-> s, kind |-> k]}) \in Nat
  BY CountTypes
<1> QED BY <1>1, <1>2, <1>3, <1>4, <1>5, <1>6

LEMMA ArriveLoss ==
  ASSUME TypeOK, TypeOK', NothingLost, wire # <<>>, wire' = Tail(wire),
         emitted' = emitted,
         \A s \in Sessions, k \in Item :
           Shown(s, k)' =
             Shown(s, k) + (IF Head(wire) = [s |-> s, kind |-> k] THEN 1 ELSE 0)
  PROVE  NothingLost'
<1> SUFFICES ASSUME NEW s \in Sessions, NEW k \in Item
             PROVE  Count(emitted[s], {k})
                      = Shown(s, k)' + Count(Tail(wire), {[s |-> s, kind |-> k]})
  BY DEF NothingLost, Shown
<1> DEFINE f == [s |-> s, kind |-> k]
           one == IF Head(wire) = f THEN 1 ELSE 0
<1>1. Count(emitted[s], {k}) = Shown(s, k) + Count(wire, {f})
  BY DEF NothingLost, Shown
<1>2. Count(wire, {f}) = Count(Tail(wire), {f}) + one
  <2>1. wire \in Seq([s : Sessions, kind : Kinds])
    BY StreamTypes
  <2>2. Count(wire, {f})
          = Count(Tail(wire), {f}) + (IF Head(wire) \in {f} THEN 1 ELSE 0)
    BY <2>1, CountTail
  <2> QED BY <2>2
<1>3. Shown(s, k)' = Shown(s, k) + one
  OBVIOUS
<1>4. Shown(s, k) \in Nat /\ one \in Nat /\ Count(Tail(wire), {f}) \in Nat
  <2>1. Shown(s, k) \in Nat
    BY CountTypes DEF Shown
  <2>2. Tail(wire) \in Seq([s : Sessions, kind : Kinds])
    BY DEF TypeOK
  <2>3. Len(Tail(wire)) \in Nat
    BY <2>2
  <2>4. Count(Tail(wire), {f}) \in Nat
    BY <2>2, <2>3, UptoType DEF Count
  <2> QED BY <2>1, <2>4
<1> HIDE DEF f, one
<1> QED BY <1>1, <1>2, <1>3, <1>4 DEF f

\* The counts shown follow what has arrived.
LEMMA ShownArrived ==
  ASSUME TypeOK, TypeOK', NEW s \in Sessions, NEW k
  PROVE  /\ Shown(s, k) = Count(Arrived(s), {k}) /\ Shown(s, k) \in Nat
         /\ Shown(s, k)' = Count(Arrived(s)', {k})
         /\ \A m \in Item : Count(Append(Arrived(s), m), {k})
                             = Shown(s, k) + (IF m = k THEN 1 ELSE 0)
<1>1. ASSUME NEW q \in Seq(Item), NEW r \in Seq(Item)
      PROVE  Count(q \o r, {k}) = Count(q, {k}) + Count(r, {k})
  BY CountConcat
<1>2. Shown(s, k) = Count(Arrived(s), {k})
  BY <1>1, StreamTypes DEF Shown, Arrived
<1>3. items'[s] \in Seq(Item) /\ InBuffer(s)' \in Seq(Item)
  <2>1. items'[s] \in Seq(Item)
    BY DEF TypeOK
  <2>2. buf'.text \in Seq({"text"}) /\ {"text"} \subseteq Item
    BY DEF TypeOK, Item
  <2>3. buf'.text \in Seq(Item)
    BY <2>2
  <2> QED BY <2>1, <2>3 DEF InBuffer
<1>4. Shown(s, k)' = Count(Arrived(s)', {k})
  BY <1>1, <1>3 DEF Shown, Arrived
<1>5. ASSUME NEW m \in Item
      PROVE  Count(Append(Arrived(s), m), {k}) = Shown(s, k) + (IF m = k THEN 1 ELSE 0)
  <2>1. Arrived(s) \in Seq(Item)
    BY StreamTypes
  <2>2. Count(Append(Arrived(s), m), {k})
          = Count(Arrived(s), {k}) + (IF m \in {k} THEN 1 ELSE 0)
    BY <2>1, CountAppend
  <2> QED BY <1>2, <2>2
<1>6. Shown(s, k) \in Nat
  BY CountTypes DEF Shown
<1> QED BY <1>2, <1>4, <1>5, <1>6

\* No step loses anything.
LEMMA LossStep ==
  TypeOK /\ TypeOK' /\ Kept /\ NothingLost /\ [Next]_vars => NothingLost'
<1> SUFFICES ASSUME TypeOK, TypeOK', Kept, NothingLost, [Next]_vars
             PROVE  NothingLost'
  OBVIOUS
<1>1. /\ Kinds = {"text", "card", "text_done", "start", "end", "answer", "refusal"}
      /\ Item = {"text", "card"}
  BY DEF Kinds, Item
<1>2. ASSUME NEW s \in Sessions, AgentStart(s) PROVE NothingLost'
  BY <1>1, <1>2, SendLoss DEF AgentStart
<1>3. ASSUME NEW s \in Sessions, Refuse(s) PROVE NothingLost'
  BY <1>1, <1>3, SendLoss DEF Refuse
<1>4. ASSUME NEW s \in Sessions, TextDelta(s) PROVE NothingLost'
  BY <1>1, <1>4, SendLoss DEF TextDelta, Emit
<1>5. ASSUME NEW s \in Sessions, TextEnd(s) PROVE NothingLost'
  BY <1>1, <1>5, SendLoss DEF TextEnd
<1>6. ASSUME NEW s \in Sessions, OtherItem(s) PROVE NothingLost'
  BY <1>1, <1>6, SendLoss DEF OtherItem, Emit
<1>7. ASSUME NEW s \in Sessions, AgentEnd(s) PROVE NothingLost'
  BY <1>1, <1>7, SendLoss DEF AgentEnd
<1>8. ASSUME NEW s \in Sessions, Answer(s) PROVE NothingLost'
  BY <1>1, <1>8, SendLoss DEF Answer
\* Neither the wire nor the counts shown change.
<1>9. ASSUME UNCHANGED <<emitted, wire>>,
             \A s \in Sessions, k \in Item : Shown(s, k)' = Shown(s, k)
      PROVE  NothingLost'
  BY <1>9 DEF NothingLost, Shown
<1>10. ASSUME \A s \in Sessions : Arrived(s)' = Arrived(s)
       PROVE  \A s \in Sessions, k \in Item :
                Shown(s, k)' = Shown(s, k) /\ Shown(s, k) \in Nat
  <2> SUFFICES ASSUME NEW s \in Sessions, NEW k \in Item
               PROVE  Shown(s, k)' = Shown(s, k) /\ Shown(s, k) \in Nat
    OBVIOUS
  <2>1. /\ Shown(s, k) = Count(Arrived(s), {k}) /\ Shown(s, k) \in Nat
        /\ Shown(s, k)' = Count(Arrived(s)', {k})
    BY ShownArrived
  <2> QED BY <1>10, <2>1
<1>11. UNCHANGED <<items, buf>> => \A s \in Sessions : Arrived(s)' = Arrived(s)
  BY DEF Arrived, InBuffer
<1>12. ASSUME NEW s \in Sessions, Prompt(s) PROVE NothingLost'
  BY <1>9, <1>10, <1>11, <1>12 DEF Prompt
<1>13. ASSUME NEW s \in Sessions, Activate(s) PROVE NothingLost'
  BY <1>9, <1>10, <1>11, <1>13 DEF Activate, agent
<1>14. ASSUME NEW s \in Sessions, Timeout(s) PROVE NothingLost'
  BY <1>9, <1>10, <1>11, <1>14 DEF Timeout, PromptFails, agent
<1>15. Emptied.text = <<>>
  BY DEF Emptied, TypeOK
<1>16. CASE Frame
  <2>1. \A s \in Sessions : Arrived(s)' = Arrived(s)
    BY <1>15, <1>16, FlushArrives DEF Frame
  <2> QED BY <1>9, <1>10, <1>16, <2>1 DEF Frame, agent
\* A frame arrives that is neither text nor a card.
<1>17. ASSUME NEW m \in Kinds \ Item, Arrives(m),
              \A s \in Sessions : Arrived(s)' = Arrived(s)
       PROVE  NothingLost'
  <2>1. \A s \in Sessions, k \in Item : Head(wire) # [s |-> s, kind |-> k]
    BY <1>17 DEF Arrives
  <2>2. \A s \in Sessions, k \in Item :
          Shown(s, k)' =
            Shown(s, k) + (IF Head(wire) = [s |-> s, kind |-> k] THEN 1 ELSE 0)
    <3>1. \A s \in Sessions, k \in Item :
            Shown(s, k)' = Shown(s, k) /\ Shown(s, k) \in Nat
      BY <1>10, <1>17
    <3> QED BY <2>1, <3>1
  <2> QED BY <1>17, <2>2, ArriveLoss DEF Arrives, agent
<1>18. CASE HandleDone
  <2>1. \A s \in Sessions : Arrived(s)' = Arrived(s)
    BY <1>15, <1>18, FlushArrives DEF HandleDone, ForceFlush
  <2> QED BY <1>1, <1>17, <1>18, <2>1 DEF HandleDone
<1>19. CASE HandleStart
  BY <1>1, <1>11, <1>17, <1>19 DEF HandleStart
<1>20. CASE HandleEnd
  <2>1. \A s \in Sessions : Arrived(s)' = Arrived(s)
    BY <1>15, <1>20, FlushArrives DEF HandleEnd, ForceFlush
  <2> QED BY <1>1, <1>17, <1>20, <2>1 DEF HandleEnd
<1>21. CASE HandleAnswer
  BY <1>1, <1>11, <1>17, <1>21 DEF HandleAnswer
<1>22. CASE HandleRefusal
  BY <1>1, <1>11, <1>17, <1>22 DEF HandleRefusal, PromptFails
<1>23. CASE HandleDelta
  <2>1. Arrives("text") /\ "text" \in Item
    BY <1>1, <1>23 DEF HandleDelta
  <2>2. ASSUME NEW s \in Sessions, NEW k \in Item
        PROVE  Shown(s, k)' =
                 Shown(s, k) + (IF Head(wire) = [s |-> s, kind |-> k] THEN 1 ELSE 0)
    <3>1. Head(wire) = [s |-> s, kind |-> k] <=> Head(wire).s = s /\ k = "text"
      BY <2>1, HeadFrame DEF Arrives
    <3>2. Arrived(s)' = IF Head(wire).s = s THEN Append(Arrived(s), "text")
                        ELSE Arrived(s)
      BY <1>23, DeltaArrives
    <3>3. /\ Shown(s, k) = Count(Arrived(s), {k}) /\ Shown(s, k) \in Nat
          /\ Shown(s, k)' = Count(Arrived(s)', {k})
          /\ Count(Append(Arrived(s), "text"), {k})
               = Shown(s, k) + (IF "text" = k THEN 1 ELSE 0)
      BY <2>1, ShownArrived
    <3> QED BY <3>1, <3>2, <3>3
  <2> QED BY <2>1, <2>2, ArriveLoss DEF Arrives, agent
<1>24. CASE HandleItem
  <2>1. /\ Arrives("card") /\ "card" \in Item /\ buf' = buf
        /\ items' = [items EXCEPT ![Head(wire).s] = Append(@, "card")]
    BY <1>1, <1>24 DEF HandleItem
  <2>2. ASSUME NEW s \in Sessions, NEW k \in Item
        PROVE  Shown(s, k)' =
                 Shown(s, k) + (IF Head(wire) = [s |-> s, kind |-> k] THEN 1 ELSE 0)
    <3>1. Head(wire) = [s |-> s, kind |-> k] <=> Head(wire).s = s /\ k = "card"
      BY <2>1, HeadFrame DEF Arrives
    <3>2. InBuffer(s)' = InBuffer(s)
      BY <2>1 DEF InBuffer
    <3>3. Count(Append(items[s], "card"), {k})
            = Count(items[s], {k}) + (IF "card" \in {k} THEN 1 ELSE 0)
      BY <2>1, StreamTypes, CountAppend
    <3>4. items'[s] = IF Head(wire).s = s THEN Append(items[s], "card") ELSE items[s]
      BY <2>1 DEF TypeOK
    <3>5. Count(items[s], {k}) \in Nat /\ Count(InBuffer(s), {k}) \in Nat
      BY CountTypes
    <3> QED BY <3>1, <3>2, <3>3, <3>4, <3>5 DEF Shown
  <2> QED BY <2>1, <2>2, ArriveLoss DEF Arrives, agent
<1>25. CASE UNCHANGED vars
  BY <1>9, <1>10, <1>11, <1>25 DEF vars, agent, tab
<1> QED
  BY <1>2, <1>3, <1>4, <1>5, <1>6, <1>7, <1>8, <1>12, <1>13, <1>14, <1>16, <1>18,
     <1>19, <1>20, <1>21, <1>22, <1>23, <1>24, <1>25
  DEF Next, EngineStep, UserStep, Handle

------------------------------------------------------------------------------
LEMMA OutputInit == Init => OutputInv
<1> SUFFICES ASSUME Init PROVE OutputInv
  OBVIOUS
<1>1. TypeOK
  <2>1. buf \in [s : Sessions, text : Seq({"text"}), raf : Rafs]
    BY DEF Init, Rafs
  <2>2. wire \in Seq([s : Sessions, kind : Kinds])
    BY DEF Init
  <2> QED BY <2>1, <2>2 DEF Init, TypeOK
<1>2. /\ wire = <<>> /\ buf.text = <<>> /\ Places = {0} /\ ~IsText(0)
      /\ \A s \in Sessions : items[s] = <<>> /\ emitted[s] = <<>>
      /\ \A s \in Sessions : InBuffer(s) = <<>> /\ Arrived(s) = <<>>
  <2>1. wire = <<>> /\ buf.text = <<>>
    BY DEF Init
  <2>2. Places = {0} /\ ~IsText(0)
    BY <2>1 DEF Places, IsText, At
  <2>3. \A s \in Sessions : items[s] = <<>> /\ emitted[s] = <<>>
    BY DEF Init
  <2>4. \A s \in Sessions : InBuffer(s) = <<>>
    BY <2>1 DEF InBuffer
  <2>5. \A s \in Sessions : Arrived(s) = <<>>
    BY <2>3, <2>4 DEF Arrived
  <2> QED BY <2>1, <2>2, <2>3, <2>4, <2>5
<1>3. Kept
  BY <1>2 DEF Kept, Apart, Open, Settled
<1>4. NothingLost
  BY <1>2, CountEmpty DEF NothingLost
<1>5. InOrder
  <2>1. DOMAIN <<>> = {} /\ Len(<<>>) = 0
    OBVIOUS
  <2> QED BY <1>2, <2>1, CountEmpty DEF InOrder
<1> QED BY <1>1, <1>3, <1>4, <1>5 DEF OutputInv

\* When blocks of different sessions do not overlap, OutputInv is inductive.
THEOREM OutputCorrect ==
  ASSUME ~Overlap
  PROVE  Spec => []OutputInv
<1>1. OutputInv /\ [Next]_vars => OutputInv'
  <2> SUFFICES ASSUME OutputInv, [Next]_vars PROVE OutputInv'
    OBVIOUS
  <2>1. TypeOK' /\ Kept'
    BY TypeStep, KeptStep DEF OutputInv
  <2>2. NothingLost'
    BY <2>1, LossStep DEF OutputInv
  <2>3. InOrder'
    BY OrderStep DEF OutputInv
  <2> QED BY <2>1, <2>2, <2>3 DEF OutputInv
<1> QED BY <1>1, OutputInit, PTL DEF Spec

\* Every delta and card is shown or on its way, in its own session's timeline.
THEOREM NothingEverLost ==
  ASSUME ~Overlap
  PROVE  Spec => []NothingLost
<1>1. OutputInv => NothingLost
  BY DEF OutputInv
<1> QED BY <1>1, OutputCorrect, PTL

\* A timeline keeps the order of its agent's output.
THEOREM AlwaysInOrder ==
  ASSUME ~Overlap
  PROVE  Spec => []InOrder
<1>1. OutputInv => InOrder
  BY DEF OutputInv
<1> QED BY <1>1, OutputCorrect, PTL

------------------------------------------------------------------------------
(***************************************************************************)
(* Turns                                                                   *)
(***************************************************************************)

LEMMA SendWire ==
  ASSUME TypeOK, NEW t \in Sessions, NEW k \in Kinds, Send(t, k),
         NEW n \in Nat, n = Len(wire)
  PROVE  /\ DOMAIN wire = 1 .. n
         /\ DOMAIN wire' = DOMAIN wire \cup {n + 1}
         /\ \A i \in DOMAIN wire : wire'[i] = wire[i]
         /\ wire'[n + 1] = [s |-> t, kind |-> k]
<1> DEFINE F == [s : Sessions, kind : Kinds]
           f == [s |-> t, kind |-> k]
<1>1. wire \in Seq(F) /\ wire' = Append(wire, f)
  BY StreamTypes DEF Send
<1> HIDE DEF F
<1> QED BY <1>1

LEMMA SendFrames ==
  ASSUME TypeOK, NEW t \in Sessions, NEW k \in Kinds, Send(t, k),
         NEW n \in Nat, n = Len(wire), NEW S
  PROVE  /\ [s |-> t, kind |-> k] \in S =>
              ~NoFrame(S)' /\ \A i \in DOMAIN wire' : Last(i, S)' => i = n + 1
         /\ [s |-> t, kind |-> k] \notin S =>
              /\ NoFrame(S)' <=> NoFrame(S)
              /\ \A i \in DOMAIN wire' :
                   Last(i, S)' => i \in DOMAIN wire /\ Last(i, S)
<1> DEFINE f == [s |-> t, kind |-> k]
<1>1. /\ DOMAIN wire = 1 .. n
      /\ DOMAIN wire' = DOMAIN wire \cup {n + 1}
      /\ \A i \in DOMAIN wire : wire'[i] = wire[i]
      /\ wire'[n + 1] = f
  BY SendWire
<1> HIDE DEF f
<1>2. ASSUME f \in S
      PROVE  ~NoFrame(S)' /\ \A i \in DOMAIN wire' : Last(i, S)' => i = n + 1
  BY <1>1, <1>2 DEF NoFrame, Last
<1>3. ASSUME f \notin S
      PROVE  /\ NoFrame(S)' <=> NoFrame(S)
             /\ \A i \in DOMAIN wire' :
                  Last(i, S)' => i \in DOMAIN wire /\ Last(i, S)
  BY <1>1, <1>3 DEF NoFrame, Last
<1> QED BY <1>2, <1>3 DEF f

LEMMA ArriveFrames ==
  ASSUME TypeOK, wire # <<>>, wire' = Tail(wire), NEW S
  PROVE  /\ 1 \in DOMAIN wire /\ wire[1] = Head(wire)
         /\ \A i \in DOMAIN wire' : i + 1 \in DOMAIN wire /\ wire'[i] = wire[i + 1]
         /\ \A i \in DOMAIN wire : i # 1 => i - 1 \in DOMAIN wire'
                                         /\ wire'[i - 1] = wire[i]
         /\ \A i \in DOMAIN wire' : Last(i, S)' => Last(i + 1, S)
         /\ NoFrame(S) => NoFrame(S)'
         /\ NoFrame(S)' => IF Head(wire) \in S THEN Last(1, S) ELSE NoFrame(S)
<1> DEFINE F == [s : Sessions, kind : Kinds]
<1>1. wire \in Seq(F)
  BY DEF TypeOK
<1> HIDE DEF F
<1>2. /\ 1 \in DOMAIN wire /\ wire[1] = Head(wire) /\ DOMAIN wire \subseteq Nat
      /\ \A i \in DOMAIN wire' : i + 1 \in DOMAIN wire /\ wire'[i] = wire[i + 1]
      /\ \A i \in DOMAIN wire : i # 1 => i - 1 \in DOMAIN wire'
                                      /\ wire'[i - 1] = wire[i]
      /\ DOMAIN wire' \subseteq Nat /\ \A i \in DOMAIN wire : 1 <= i
  BY <1>1
<1>3. NoFrame(S) => NoFrame(S)'
  BY <1>2 DEF NoFrame
<1>4. NoFrame(S)' => \A i \in DOMAIN wire : i # 1 => wire[i] \notin S
  BY <1>2 DEF NoFrame
<1>5. NoFrame(S)' => IF Head(wire) \in S THEN Last(1, S) ELSE NoFrame(S)
  BY <1>2, <1>4 DEF NoFrame, Last
<1>6. ASSUME NEW i \in DOMAIN wire', Last(i, S)' PROVE Last(i + 1, S)
  <2>1. wire[i + 1] \in S
    BY <1>2, <1>6 DEF Last
  <2>2. ASSUME NEW j \in DOMAIN wire, i + 1 < j PROVE wire[j] \notin S
    <3>1. j # 1 /\ i < j - 1
      BY <1>2, <2>2
    <3> QED BY <1>2, <1>6, <3>1 DEF Last
  <2> QED BY <2>1, <2>2 DEF Last
<1> QED BY <1>2, <1>3, <1>5, <1>6

\* What is sent for one session leaves the turns of the others alone.
LEMMA SendOthers ==
  ASSUME TypeOK, TurnInv, NEW t \in Sessions, NEW k \in Kinds, Send(t, k),
         NEW s \in Sessions, prompt'[s] = prompt[s], s \in running' <=> s \in running,
         s # t \/ k \in {"text", "card", "text_done"}
  PROVE  Framed(s)' /\ Told(s)' /\ Stays(s)'
<1> PICK n \in Nat : n = Len(wire)
  BY DEF TypeOK
<1> DEFINE f == [s |-> t, kind |-> k]
           Refusal == {[s |-> s, kind |-> "refusal"]}
<1>0. Framed(s) /\ Told(s) /\ Stays(s) /\ UNCHANGED <<waiting, active, busy>>
  BY DEF TurnInv, Send, tab
<1>1. f \notin Turn(s) /\ f \notin Reply(s) /\ f \notin Refusal
  BY DEF Turn, Reply
<1>2. /\ \A i \in DOMAIN wire : i \in DOMAIN wire' /\ wire'[i] = wire[i]
      /\ \A i \in DOMAIN wire' : i \in DOMAIN wire \/ wire'[i] = f
  <2>1. /\ DOMAIN wire' = DOMAIN wire \cup {n + 1}
        /\ \A i \in DOMAIN wire : wire'[i] = wire[i]
        /\ wire'[n + 1] = f
    BY SendWire
  <2> QED BY <2>1
<1>3. /\ NoFrame(Turn(s))' <=> NoFrame(Turn(s))
      /\ NoFrame(Reply(s))' <=> NoFrame(Reply(s))
      /\ NoFrame(Refusal)' <=> NoFrame(Refusal)
  BY <1>1, SendFrames
<1>4. \A i \in DOMAIN wire' :
        Last(i, Turn(s))' => i \in DOMAIN wire /\ Last(i, Turn(s))
  BY <1>1, SendFrames
<1> HIDE DEF f
<1>5. Framed(s)'
  BY <1>0, <1>1, <1>2, <1>3 DEF Framed, Turn, Reply
<1>6. Told(s)'
  BY <1>0, <1>2, <1>3, <1>4 DEF Told, Turn
<1>7. Stays(s)'
  BY <1>0, <1>3 DEF Stays, Turn
<1> QED BY <1>5, <1>6, <1>7

\* Each frame about a turn keeps the turns of its own session framed and told.
LEMMA TurnSent ==
  ASSUME TypeOK, TurnInv, NEW s \in Sessions,
         AgentStart(s) \/ Refuse(s) \/ AgentEnd(s) \/ Answer(s)
  PROVE  Framed(s)' /\ Told(s)' /\ Stays(s)'
<1> PICK n \in Nat : n = Len(wire)
  BY DEF TypeOK
<1> DEFINE Refusal == {[s |-> s, kind |-> "refusal"]}
<1>0. Framed(s) /\ Told(s) /\ Stays(s)
  BY DEF TurnInv
<1>1. ASSUME NEW k \in Kinds, Send(s, k)
      PROVE  /\ UNCHANGED <<waiting, active, busy>>
             /\ DOMAIN wire = 1 .. n /\ DOMAIN wire' = DOMAIN wire \cup {n + 1}
             /\ \A i \in DOMAIN wire : wire'[i] = wire[i]
             /\ wire'[n + 1] = [s |-> s, kind |-> k]
  BY <1>1, SendWire DEF Send, tab
<1>2. ASSUME NEW k \in Kinds, Send(s, k), NEW S
      PROVE  /\ [s |-> s, kind |-> k] \in S =>
                  ~NoFrame(S)' /\ \A i \in DOMAIN wire' : Last(i, S)' => i = n + 1
             /\ [s |-> s, kind |-> k] \notin S =>
                  /\ NoFrame(S)' <=> NoFrame(S)
                  /\ \A i \in DOMAIN wire' :
                       Last(i, S)' => i \in DOMAIN wire /\ Last(i, S)
  BY <1>2, SendFrames
<1>3. {"start", "end", "answer", "refusal"} \subseteq Kinds
  BY DEF Kinds
<1>4. NoFrame(Reply(s)) => NoFrame(Refusal)
  BY DEF NoFrame, Reply
<1>5. CASE AgentStart(s)
  <2>1. /\ Send(s, "start") /\ prompt'[s] = "taken" /\ s \in running'
        /\ prompt[s] = "sent"
    BY <1>5 DEF AgentStart, TypeOK
  <2>2. NoFrame(Reply(s))' /\ NoFrame(Refusal)'
    BY <1>0, <1>2, <1>3, <1>4, <2>1 DEF Framed, Reply
  <2>3. Framed(s)'
    BY <2>1, <2>2 DEF Framed, Reply
  <2>4. Told(s)'
    <3>1. ~NoFrame(Turn(s))' /\ \A i \in DOMAIN wire' : Last(i, Turn(s))' => i = n + 1
      BY <1>2, <1>3, <2>1 DEF Turn
    <3>2. wire'[n + 1] = [s |-> s, kind |-> "start"]
      BY <1>1, <1>3, <2>1
    <3>3. wire'[n + 1].kind = "start"
      BY <3>2
    <3>4. \A i \in DOMAIN wire' :
            Last(i, Turn(s))' => (wire'[i].kind = "start" <=> s \in running')
      BY <2>1, <3>1, <3>3
    <3> QED BY <3>1, <3>4 DEF Told, Turn
  <2> QED BY <2>1, <2>2, <2>3, <2>4 DEF Stays
<1>6. CASE Refuse(s)
  <2>1. /\ Send(s, "refusal") /\ prompt'[s] = "none" /\ running' = running
        /\ prompt[s] = "sent" /\ s \notin running
    BY <1>0, <1>6 DEF Refuse, TypeOK, Framed
  <2>2. NoFrame(Turn(s))' <=> NoFrame(Turn(s))
    BY <1>2, <1>3, <2>1 DEF Turn
  <2>3. Framed(s)'
    <3>0. /\ DOMAIN wire = 1 .. n /\ DOMAIN wire' = DOMAIN wire \cup {n + 1}
          /\ wire'[n + 1] = [s |-> s, kind |-> "refusal"]
      BY <1>1, <1>3, <2>1
    <3>1. n + 1 \in DOMAIN wire' /\ wire'[n + 1] \in Reply(s)
      BY <3>0 DEF Reply
    <3>2. \A i \in DOMAIN wire' : wire'[i] \in Turn(s) => i < n + 1
      BY <3>0 DEF Turn
    <3> QED BY <2>1, <3>1, <3>2 DEF Framed, Reply, Turn
  <2>4. Told(s)'
    BY <1>0, <1>1, <1>2, <1>3, <2>1, <2>2 DEF Told, Turn
  <2>5. Stays(s)'
    BY <1>0, <1>1, <1>3, <2>1, <2>2 DEF Stays, Turn
  <2> QED BY <2>3, <2>4, <2>5
<1>7. CASE AgentEnd(s)
  <2>1. /\ Send(s, "end") /\ prompt' = prompt /\ s \notin running'
        /\ prompt[s] = "taken"
    BY <1>0, <1>7 DEF AgentEnd, TypeOK, Framed
  <2>2. NoFrame(Reply(s))' /\ NoFrame(Refusal)'
    BY <1>0, <1>2, <1>3, <1>4, <2>1 DEF Framed, Reply
  <2>3. Framed(s)'
    BY <2>1, <2>2 DEF Framed, Reply
  <2>4. Told(s)'
    <3>1. ~NoFrame(Turn(s))' /\ \A i \in DOMAIN wire' : Last(i, Turn(s))' => i = n + 1
      BY <1>2, <1>3, <2>1 DEF Turn
    <3>2. wire'[n + 1] = [s |-> s, kind |-> "end"]
      BY <1>1, <1>3, <2>1
    <3>3. wire'[n + 1].kind = "end"
      BY <3>2
    <3>4. \A i \in DOMAIN wire' :
            Last(i, Turn(s))' => (wire'[i].kind = "start" <=> s \in running')
      BY <2>1, <3>1, <3>3
    <3> QED BY <3>1, <3>4 DEF Told, Turn
  <2> QED BY <2>1, <2>2, <2>3, <2>4 DEF Stays
<1>8. CASE Answer(s)
  <2>1. /\ Send(s, "answer") /\ prompt'[s] = "none" /\ running' = running
        /\ prompt[s] = "taken" /\ s \notin running
    BY <1>8 DEF Answer, TypeOK
  <2>2. NoFrame(Turn(s))' <=> NoFrame(Turn(s))
    BY <1>2, <1>3, <2>1 DEF Turn
  <2>3. NoFrame(Refusal)'
    BY <1>0, <1>2, <1>3, <1>4, <2>1 DEF Framed
  <2>4. Framed(s)'
    <3>0. /\ DOMAIN wire = 1 .. n /\ DOMAIN wire' = DOMAIN wire \cup {n + 1}
          /\ wire'[n + 1] = [s |-> s, kind |-> "answer"]
      BY <1>1, <1>3, <2>1
    <3>1. n + 1 \in DOMAIN wire' /\ wire'[n + 1] \in Reply(s)
      BY <3>0 DEF Reply
    <3>2. \A i \in DOMAIN wire' : wire'[i] \in Turn(s) => i < n + 1
      BY <3>0 DEF Turn
    <3> QED BY <2>1, <3>1, <3>2 DEF Framed, Reply, Turn
  <2>5. Told(s)'
    <3>1. [s |-> s, kind |-> "answer"] \notin Turn(s)
      BY DEF Turn
    <3>2. \A i \in DOMAIN wire' :
            Last(i, Turn(s))' => i \in DOMAIN wire /\ Last(i, Turn(s))
      BY <1>2, <1>3, <2>1, <3>1
    <3>3. UNCHANGED busy /\ \A i \in DOMAIN wire : wire'[i] = wire[i]
      BY <1>1, <1>3, <2>1
    <3> QED BY <1>0, <2>1, <2>2, <3>2, <3>3 DEF Told
  <2> QED BY <2>1, <2>3, <2>4, <2>5 DEF Stays
<1> QED BY <1>5, <1>6, <1>7, <1>8

\* What arrives keeps the turns: the first frame of a turn tells the slot.
LEMMA TurnArrives ==
  ASSUME TypeOK, TurnInv, wire # <<>>, wire' = Tail(wire),
         UNCHANGED <<prompt, running, active>>, waiting' \subseteq waiting,
         NEW s \in Sessions,
         \/ Head(wire) \notin Turn(s) /\ (s \in busy' <=> s \in busy)
         \/ Head(wire) \in Turn(s) /\ (s \in busy' <=> Head(wire).kind = "start")
         \/ s \notin busy' /\ s \notin running
  PROVE  Framed(s)' /\ Told(s)' /\ Stays(s)'
<1> DEFINE Refusal == {[s |-> s, kind |-> "refusal"]}
<1>0. Framed(s) /\ Told(s) /\ Stays(s)
  BY DEF TurnInv
<1>1. /\ 1 \in DOMAIN wire /\ wire[1] = Head(wire)
      /\ \A i \in DOMAIN wire' : i + 1 \in DOMAIN wire /\ wire'[i] = wire[i + 1]
      /\ \A i \in DOMAIN wire : i # 1 => i - 1 \in DOMAIN wire'
                                      /\ wire'[i - 1] = wire[i]
      /\ \A i \in DOMAIN wire' : Last(i, Turn(s))' => Last(i + 1, Turn(s))
  BY ArriveFrames
<1>2. /\ NoFrame(Turn(s)) => NoFrame(Turn(s))'
      /\ NoFrame(Reply(s)) => NoFrame(Reply(s))'
      /\ NoFrame(Refusal) => NoFrame(Refusal)'
      /\ NoFrame(Turn(s))' => IF Head(wire) \in Turn(s) THEN Last(1, Turn(s))
                              ELSE NoFrame(Turn(s))
  BY ArriveFrames
<1>6. DOMAIN wire \subseteq Nat /\ DOMAIN wire' \subseteq Nat
  <2> DEFINE F == [s : Sessions, kind : Kinds]
  <2>1. wire \in Seq(F)
    BY DEF TypeOK
  <2> HIDE DEF F
  <2> QED BY <2>1
<1>3. Framed(s)'
  <2>1. ASSUME NEW i \in DOMAIN wire', wire'[i] \in Turn(s), prompt[s] # "taken"
        PROVE  \E j \in DOMAIN wire' : i < j /\ wire'[j] \in Reply(s)
    <3>1. i + 1 \in DOMAIN wire /\ wire[i + 1] \in Turn(s) /\ i \in Nat
      BY <1>1, <1>6, <2>1
    <3>2. PICK j \in DOMAIN wire : i + 1 < j /\ wire[j] \in Reply(s)
      BY <1>0, <2>1, <3>1 DEF Framed
    <3>3. j \in Nat /\ j # 1 /\ i < j - 1
      BY <1>6, <3>1, <3>2
    <3> QED BY <1>1, <3>2, <3>3
  <2> QED BY <1>0, <1>2, <2>1 DEF Framed, Turn, Reply
<1>4. Told(s)'
  <2>1. \A i \in DOMAIN wire' :
          Last(i, Turn(s))' => (wire'[i].kind = "start" <=> s \in running)
    BY <1>0, <1>1 DEF Told
  <2>2. NoFrame(Turn(s))' => (s \in busy' <=> s \in running)
    BY <1>0, <1>1, <1>2 DEF Told
  <2> QED BY <2>1, <2>2 DEF Told, Turn
<1>5. Stays(s)'
  <2> SUFFICES ASSUME s \in waiting', prompt[s] = "sent" \/ ~NoFrame(Refusal)'
               PROVE  s = active /\ s \notin busy' /\ NoFrame(Turn(s))'
    BY DEF Stays, Turn
  <2>1. s = active /\ s \notin busy /\ NoFrame(Turn(s))
    BY <1>0, <1>2 DEF Stays
  <2>2. Head(wire) \notin Turn(s)
    BY <1>1, <2>1 DEF NoFrame
  <2> QED BY <1>2, <2>1, <2>2
<1> QED BY <1>3, <1>4, <1>5

\* Every step keeps the turns framed and told, as long as users are patient.
LEMMA TurnStep == Patient /\ TypeOK /\ TurnInv /\ [Next]_vars => TurnInv'
<1> SUFFICES ASSUME Patient, TypeOK, TurnInv, [Next]_vars PROVE TurnInv'
  OBVIOUS
<1>1. Kinds = {"text", "card", "text_done", "start", "end", "answer", "refusal"}
  BY DEF Kinds, Item
\* One session's turn moves on.
<1>2. ASSUME NEW t \in Sessions, NEW k \in Kinds, Send(t, k),
             AgentStart(t) \/ Refuse(t) \/ AgentEnd(t) \/ Answer(t)
      PROVE  TurnInv'
  <2> SUFFICES ASSUME NEW s \in Sessions PROVE Framed(s)' /\ Told(s)' /\ Stays(s)'
    BY DEF TurnInv
  <2>1. CASE s = t
    BY <1>2, <2>1, TurnSent
  <2>2. CASE s # t
    <3>1. prompt'[s] = prompt[s] /\ (s \in running' <=> s \in running)
      BY <1>2, <2>2 DEF AgentStart, Refuse, AgentEnd, Answer, TypeOK
    <3> QED BY <1>2, <2>2, <3>1, SendOthers
  <2> QED BY <2>1, <2>2
<1>3. ASSUME NEW t \in Sessions, AgentStart(t) \/ Refuse(t) \/ AgentEnd(t) \/ Answer(t)
      PROVE  TurnInv'
  BY <1>1, <1>2, <1>3 DEF AgentStart, Refuse, AgentEnd, Answer
\* The agent puts out an item, or ends a block.
<1>4. ASSUME NEW t \in Sessions, NEW k \in {"text", "card", "text_done"}, Send(t, k),
             UNCHANGED <<prompt, running>>
      PROVE  TurnInv'
  BY <1>1, <1>4, SendOthers DEF TurnInv
<1>5. ASSUME NEW t \in Sessions, TextDelta(t) \/ TextEnd(t) \/ OtherItem(t) PROVE TurnInv'
  BY <1>4, <1>5 DEF TextDelta, TextEnd, OtherItem, Emit
<1>6. ASSUME NEW t \in Sessions, Prompt(t) PROVE TurnInv'
  <2> SUFFICES ASSUME NEW s \in Sessions PROVE Framed(s)' /\ Told(s)' /\ Stays(s)'
    BY DEF TurnInv
  <2>0. Framed(s) /\ Told(s) /\ Stays(s)
    BY DEF TurnInv
  <2>1. /\ UNCHANGED <<wire, running, busy, active>> /\ waiting' = waiting \cup {t}
        /\ prompt' = [prompt EXCEPT ![t] = "sent"] /\ prompt[t] = "none" /\ t = active
        /\ \A i \in DOMAIN wire :
             ~(wire[i].s = t /\ wire[i].kind \in {"answer", "refusal"})
    BY <1>6 DEF Prompt
  <2>2. \A S : NoFrame(S)' <=> NoFrame(S)
    BY <2>1 DEF NoFrame
  <2>3. Told(s)'
    BY <2>0, <2>1 DEF Told, NoFrame, Last, Turn
  <2>4. CASE s # t
    <3>1. prompt'[s] = prompt[s] /\ (s \in waiting' <=> s \in waiting)
      BY <2>1, <2>4 DEF TypeOK
    <3>2. Framed(s)'
      BY <2>0, <2>1, <3>1 DEF Framed, NoFrame, Turn, Reply
    <3>3. Stays(s)'
      BY <2>0, <2>1, <3>1 DEF Stays, NoFrame, Turn
    <3> QED BY <2>3, <3>2, <3>3
  <2>5. CASE s = t
    <3>1. \A i \in DOMAIN wire : wire[i] \notin Reply(s)
      BY <2>1, <2>5 DEF Reply
    <3>2. NoFrame(Turn(s)) /\ s \notin running
      BY <2>0, <2>1, <2>5, <3>1 DEF Framed, NoFrame
    <3>3. s \notin busy
      BY <2>0, <3>2 DEF Told
    <3>4. NoFrame(Turn(s))' /\ NoFrame(Reply(s))'
      BY <2>1, <3>1, <3>2 DEF NoFrame, Turn, Reply
    <3>5. Framed(s)'
      BY <2>1, <3>2, <3>4 DEF Framed, NoFrame, Turn, Reply
    <3>6. Stays(s)'
      BY <2>1, <2>5, <3>3, <3>4 DEF Stays, Turn
    <3> QED BY <2>3, <3>5, <3>6
  <2> QED BY <2>4, <2>5
<1>7. ASSUME NEW t \in Sessions, Activate(t) PROVE TurnInv'
  <2> SUFFICES ASSUME NEW s \in Sessions PROVE Framed(s)' /\ Told(s)' /\ Stays(s)'
    BY DEF TurnInv
  <2>0. Framed(s) /\ Told(s) /\ Stays(s)
    BY DEF TurnInv
  <2>1. UNCHANGED <<prompt, running, wire, waiting, busy>> /\ waiting \subseteq busy
    BY <1>7 DEF Activate, agent
  <2>2. Framed(s)'
    BY <2>0, <2>1 DEF Framed, NoFrame, Turn, Reply
  <2>3. Told(s)'
    BY <2>0, <2>1 DEF Told, NoFrame, Last, Turn
  <2>4. Stays(s)'
    BY <2>0, <2>1 DEF Stays, NoFrame
  <2> QED BY <2>2, <2>3, <2>4
<1>8. ASSUME NEW t \in Sessions, Timeout(t) PROVE TurnInv'
  <2> SUFFICES ASSUME NEW s \in Sessions PROVE Framed(s)' /\ Told(s)' /\ Stays(s)'
    BY DEF TurnInv
  <2>0. Framed(s) /\ Told(s) /\ Stays(s)
    BY DEF TurnInv
  <2>1. /\ UNCHANGED <<prompt, running, wire, active>> /\ waiting' = waiting \ {t}
        /\ busy' = busy \ {t} /\ prompt[t] = "none"
    BY <1>8 DEF Timeout, PromptFails, agent
  <2>2. Framed(s)'
    BY <2>0, <2>1 DEF Framed, NoFrame, Turn, Reply
  <2>3. t \notin running
    BY <2>1 DEF TurnInv, Framed
  <2>4. Told(s)'
    BY <2>0, <2>1, <2>3 DEF Told, NoFrame, Last, Turn
  <2>5. Stays(s)'
    BY <2>0, <2>1 DEF Stays, NoFrame, Turn
  <2> QED BY <2>2, <2>4, <2>5
<1>9. CASE Frame \/ UNCHANGED vars
  <2>1. UNCHANGED <<prompt, running, wire, waiting, busy, active>>
    BY <1>9 DEF Frame, vars, agent, tab
  <2> SUFFICES ASSUME NEW s \in Sessions PROVE Framed(s)' /\ Told(s)' /\ Stays(s)'
    BY DEF TurnInv
  <2>0. Framed(s) /\ Told(s) /\ Stays(s)
    BY DEF TurnInv
  <2>2. Framed(s)'
    BY <2>0, <2>1 DEF Framed, NoFrame, Turn, Reply
  <2>3. Told(s)'
    BY <2>0, <2>1 DEF Told, NoFrame, Last, Turn
  <2>4. Stays(s)'
    BY <2>0, <2>1 DEF Stays, NoFrame, Turn
  <2> QED BY <2>2, <2>3, <2>4
\* A frame arrives.
<1>10. ASSUME wire # <<>>, wire' = Tail(wire), UNCHANGED <<prompt, running, active>>,
              waiting' \subseteq waiting,
              \A s \in Sessions :
                \/ Head(wire) \notin Turn(s) /\ (s \in busy' <=> s \in busy)
                \/ Head(wire) \in Turn(s) /\ (s \in busy' <=> Head(wire).kind = "start")
                \/ s \notin busy' /\ s \notin running
       PROVE  TurnInv'
  BY <1>10, TurnArrives DEF TurnInv
<1>11. wire # <<>> => /\ Head(wire) \in [s : Sessions, kind : Kinds]
                     /\ \A s \in Sessions :
                          Head(wire) \in Turn(s) <=>
                            Head(wire).s = s /\ Head(wire).kind \in {"start", "end"}
  BY HeadFrame DEF Turn
<1>12. CASE HandleDelta \/ HandleDone \/ HandleItem
  <2>1. /\ wire # <<>> /\ wire' = Tail(wire) /\ UNCHANGED <<prompt, running, active>>
        /\ UNCHANGED <<waiting, busy>> /\ Head(wire).kind \notin {"start", "end"}
    BY <1>12 DEF HandleDelta, HandleDone, HandleItem, Arrives, agent
  <2> QED BY <1>10, <1>11, <2>1
<1>13. CASE HandleAnswer
  <2>1. /\ wire # <<>> /\ wire' = Tail(wire) /\ UNCHANGED <<prompt, running, active>>
        /\ waiting' \subseteq waiting /\ busy' = busy
        /\ Head(wire).kind \notin {"start", "end"}
    BY <1>13 DEF HandleAnswer, Arrives, agent
  <2> QED BY <1>10, <1>11, <2>1
<1>14. CASE HandleStart
  <2>1. /\ wire # <<>> /\ wire' = Tail(wire) /\ UNCHANGED <<prompt, running, active>>
        /\ waiting' = waiting /\ busy' = busy \cup {Head(wire).s}
        /\ Head(wire).kind = "start"
    BY <1>14 DEF HandleStart, Arrives, agent
  <2> QED BY <1>10, <1>11, <2>1
<1>15. CASE HandleEnd
  <2>1. /\ wire # <<>> /\ wire' = Tail(wire) /\ UNCHANGED <<prompt, running, active>>
        /\ waiting' = waiting /\ busy' = busy \ {Head(wire).s}
        /\ Head(wire).kind = "end"
    BY <1>15 DEF HandleEnd, Arrives, agent
  <2> QED BY <1>10, <1>11, <2>1
<1>16. CASE HandleRefusal
  <2> DEFINE t == Head(wire).s
  <2>1. /\ wire # <<>> /\ wire' = Tail(wire) /\ UNCHANGED <<prompt, running, active>>
        /\ waiting' \subseteq waiting /\ Head(wire).kind = "refusal"
        /\ busy' = IF t \in waiting THEN busy \ {active} ELSE busy
    BY <1>16 DEF HandleRefusal, PromptFails, Arrives, agent
  <2>2. t \in Sessions /\ Head(wire) = [s |-> t, kind |-> "refusal"]
    BY <1>11, <2>1
  <2>3. ~NoFrame({[s |-> t, kind |-> "refusal"]}) /\ ~NoFrame(Reply(t))
    <3>1. 1 \in DOMAIN wire /\ wire[1] = Head(wire)
      BY <2>1 DEF TypeOK
    <3>2. Head(wire) \in Reply(t)
      BY <2>2 DEF Reply
    <3> QED BY <2>2, <3>1, <3>2 DEF NoFrame
  <2>4. t \notin running
    BY <2>2, <2>3 DEF TurnInv, Framed
  <2>5. t \in waiting => t = active
    BY <2>2, <2>3 DEF TurnInv, Stays
  <2> QED BY <1>10, <1>11, <2>1, <2>2, <2>4, <2>5
<1> QED
  BY <1>3, <1>5, <1>6, <1>7, <1>8, <1>9, <1>12, <1>13, <1>14, <1>15, <1>16
  DEF Next, EngineStep, UserStep, Handle

\* A slot is busy exactly when its session works, once all frames have arrived.
THEOREM BusyAlwaysTrue ==
  ASSUME Patient
  PROVE  Spec => []BusyTrue
<1>1. Init => TurnInv
  BY DEF Init, TurnInv, Framed, Told, Stays, NoFrame
<1>2. TypeOK /\ TurnInv /\ [Next]_vars => TurnInv'
  BY TurnStep
<1>3. TypeOK /\ TurnInv => BusyTrue
  <2> SUFFICES ASSUME TypeOK, TurnInv, wire = <<>> PROVE busy = running
    BY DEF BusyTrue
  <2>1. \A s \in Sessions : NoFrame(Turn(s))
    BY DEF NoFrame
  <2>2. \A s \in Sessions : s \in busy <=> s \in running
    BY <2>1 DEF TurnInv, Told
  <2> QED BY <2>2 DEF TypeOK
<1> QED BY <1>1, <1>2, <1>3, TypeCorrect, PTL DEF Spec

==============================================================================
