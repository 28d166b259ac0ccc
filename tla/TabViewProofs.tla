---------------------------- MODULE TabViewProofs ----------------------------
(***************************************************************************)
(* The properties of TabView for any sessions, page size, lengths of       *)
(* conversations and numbers of requests, for a calm user.                 *)
(*                                                                         *)
(* The timeline: what is loaded of a session is all of it from its start   *)
(* index on.  A session that opens has nothing in its slot and no turn, so *)
(* its history leaves out no half of a message; a page under way ends      *)
(* where its slot still starts.                                            *)
(*                                                                         *)
(* The choice: unless the latest session.open is still under way or has    *)
(* failed, the session chosen is on screen, and the last session.info      *)
(* under way that moves the highlight moves it there.                      *)
(***************************************************************************)
EXTENDS TabView, FiniteSetTheorems, SequenceTheorems, TLAPS

\* Sessions under way have agents, those with agents have files, and only
\* these are listed.  Nothing is known of sessions not created yet, and of
\* sessions without an agent nothing is loaded.
Hosted ==
  /\ running \subseteq live /\ live \subseteq exists /\ list \subseteq exists
  /\ exists \cap fresh = {} /\ active \notin fresh
  /\ \A s \in fresh : slots[s] = EmptySlot /\ said[s] = 0
  /\ \A s \in exists \ live : ~HasItems(s) /\ s # active
  /\ \A s \in exists \ running : said[s] % 2 = 0
  /\ \A i \in DOMAIN infos : infos[i].s \in live

\* A slot holds its conversation from its start index to now: the halves
\* after the first k messages, as far as the n-th.
Halves(s, k, n) == [i \in 1 .. n - 2 * k |-> <<s, 2 * k + i>>]
Complete(s) ==
  /\ slots[s].items = Halves(s, slots[s].start, said[s])
  /\ slots[s].more <=> slots[s].start > 0
  /\ slots[s].start = 0 \/ 2 * slots[s].start < said[s]
Told ==
  \A s \in exists : HasItems(s) \/ s = active \/ s \in running => Complete(s)

\* What opens is empty and quiet, and opens once.
Opens ==
  /\ \A o \in opening : /\ o.seq <= seq /\ (o.seq = seq => o.s = chosen)
                        /\ o.s \notin running /\ slots[o.s].items = <<>>
  /\ \A o, p \in opening : o.s = p.s => o = p
  /\ task # None => opening = {}
  /\ IsFiniteSet(opening)

\* The page under way ends where the slot starts.
Pages ==
  paging # None =>
    /\ paging.file = paging.s /\ paging.s \notin fresh
    /\ paging.s \in exists =>
         /\ paging.s \in live /\ slots[paging.s].items # <<>>
         /\ slots[paging.s].start = paging.before /\ paging.before > 0

\* The latest click is still under way.
Pending == \E o \in opening : o.seq = seq

\* Where the highlight is once all answers are in.
LandsOn(v) ==
  \/ path = v /\ \A i \in DOMAIN infos : ~infos[i].follow
  \/ \E i \in DOMAIN infos : /\ infos[i].follow /\ infos[i].s = v
                             /\ \A j \in DOMAIN infos : j > i => ~infos[j].follow

Choice ==
  /\ stored = path
  /\ ~failed /\ ~Pending => active = chosen /\ LandsOn(chosen)

TabInv == TypeOK /\ Hosted /\ Told /\ Opens /\ Pages /\ Choice

SlotRec == [items : Seq(Sessions \X (1 .. MaxSaid)), noted : BOOLEAN,
            start : Nat, more : BOOLEAN]
OpenRec == [seq : 1 .. MaxClicks, s : Sessions]
InfoRec == [s : Sessions, follow : BOOLEAN]
PageRec == [s : Sessions, file : Sessions, before : Nat]
TaskRec == [kind : {"create", "fork", "remove"}, s : Views, path : Views]

\* TypeOK, the records by their names.
Typed ==
  /\ {exists, fresh, live, running, list, known} \subseteq SUBSET Sessions
  /\ said \in [Sessions -> 0 .. MaxSaid] /\ slots \in [Views -> SlotRec]
  /\ {active, path, stored, chosen} \subseteq Views
  /\ seq \in 0 .. MaxClicks
  /\ opening \subseteq OpenRec /\ spinner = Cardinality(opening)
  /\ infos \in Seq(InfoRec)
  /\ paging = None \/ paging \in PageRec
  /\ task = None \/ task \in TaskRec
  /\ failed \in BOOLEAN

LEMMA TypesNamed == TypeOK <=> Typed
  BY DEF TypeOK, Typed, SlotRec, OpenRec, InfoRec, PageRec, TaskRec

LEMMA TypesNamedNext == TypeOK' <=> Typed'
  BY DEF TypeOK, Typed, SlotRec, OpenRec, InfoRec, PageRec, TaskRec

------------------------------------------------------------------------------
(***************************************************************************)
(* Windows of a conversation                                               *)
(***************************************************************************)

\* A window ends before the given message, and begins there only if that is
\* the first one.
LEMMA WindowShape ==
  ASSUME TabAssumption, NEW s, NEW before \in Nat
  PROVE  \E first \in Nat :
           /\ first = 0 \/ first < before
           /\ first <= before
           /\ Window(s, before).items = Halves(s, first, 2 * before)
           /\ Window(s, before).start = first
           /\ Window(s, before).more <=> first > 0
           /\ ~Window(s, before).noted
<1> DEFINE first == IF before > Limit THEN before - Limit ELSE 0
<1>1. first \in Nat /\ (first = 0 \/ first < before) /\ first <= before
  BY DEF TabAssumption
<1>2. /\ Window(s, before).items =
           [i \in 1 .. 2 * (before - first) |-> <<s, 2 * first + i>>]
      /\ Window(s, before).start = first
      /\ ~Window(s, before).noted
  BY DEF Window
<1>4. Window(s, before).items = Halves(s, first, 2 * before)
  <2>1. 2 * (before - first) = 2 * before - 2 * first
    BY <1>1
  <2> QED BY <1>2, <2>1 DEF Halves
<1>3. Window(s, before).more <=> first > 0
  BY Zenon DEF Window
<1> HIDE DEF first
<1> QED BY <1>1, <1>2, <1>3, <1>4

LEMMA WindowType ==
  ASSUME TabAssumption, NEW s \in Sessions, NEW before \in Nat, 2 * before <= MaxSaid
  PROVE  Window(s, before) \in SlotRec
<1> DEFINE first == IF before > Limit THEN before - Limit ELSE 0
           n == 2 * (before - first)
           half == [i \in 1 .. n |-> <<s, 2 * first + i>>]
<1>1. first \in Nat /\ first <= before
  BY DEF TabAssumption
<1>2. n \in Nat /\ MaxSaid \in Nat
  BY <1>1 DEF TabAssumption
<1>3. \A i \in 1 .. n : <<s, 2 * first + i>> \in Sessions \X (1 .. MaxSaid)
  <2> SUFFICES ASSUME NEW i \in 1 .. n PROVE 2 * first + i \in 1 .. MaxSaid
    OBVIOUS
  <2> QED BY <1>1, <1>2
<1>4. half \in [1 .. n -> Sessions \X (1 .. MaxSaid)]
  BY <1>3
<1>5. half \in Seq(Sessions \X (1 .. MaxSaid))
  <2> HIDE DEF half, n
  <2> QED BY <1>2, <1>4
<1>6. Window(s, before) =
        [items |-> half, noted |-> FALSE, start |-> first, more |-> first > 0]
  BY DEF Window
<1>7. (first > 0) \in BOOLEAN
  OBVIOUS
<1> HIDE DEF half, first
<1> QED BY <1>1, <1>5, <1>6, <1>7 DEF SlotRec

\* What a whole conversation has to say, and where its history ends.
LEMMA SaidType ==
  ASSUME TypeOK, TabAssumption, NEW s \in Sessions
  PROVE  /\ said[s] \in Nat /\ said[s] <= MaxSaid
         /\ Messages(s) \in Nat /\ 2 * Messages(s) <= said[s]
         /\ said[s] % 2 = 0 => 2 * Messages(s) = said[s]
<1>1. said[s] \in Nat /\ said[s] <= MaxSaid
  BY DEF TypeOK, TabAssumption
<1>2. \A n \in Nat : /\ n \div 2 \in Nat /\ 2 * (n \div 2) <= n
                     /\ n % 2 = 0 => 2 * (n \div 2) = n
  OBVIOUS
<1> QED BY <1>1, <1>2 DEF Messages

LEMMA SlotTypes ==
  ASSUME TypeOK
  PROVE  /\ slots \in [Views -> SlotRec]
         /\ \A v \in Views : slots[v] \in SlotRec
         /\ Sessions \subseteq Views /\ Welcome \in Views
  BY DEF TypeOK, SlotRec, Views

\* What loadHistory and prependHistory make of the slots.
LEMMA Loads ==
  ASSUME TypeOK, NEW s \in Sessions, slots' = LoadHistory(s)
  PROVE  /\ slots'[s] = Window(s, Messages(s))
         /\ \A v \in Views : v # s => slots'[v] = slots[v]
         /\ DOMAIN slots' = Views
  BY SlotTypes DEF LoadHistory

LEMMA Prepends ==
  ASSUME TypeOK, NEW s \in Sessions, NEW page \in SlotRec, PrependHistory(s, page)
  PROVE  /\ slots'[s].items = page.items \o slots[s].items
         /\ slots'[s].start = page.start /\ slots'[s].more = page.more
         /\ \A v \in Views : v # s => slots'[v] = slots[v]
         /\ slots' \in [Views -> SlotRec]
<1> DEFINE r == [items |-> page.items \o slots[s].items, noted |-> slots[s].noted,
                 start |-> page.start, more |-> page.more]
<1>1. slots[s] \in SlotRec /\ s \in Views /\ slots \in [Views -> SlotRec]
  BY SlotTypes
<1>2. r \in SlotRec
  <2>1. page.items \o slots[s].items \in Seq(Sessions \X (1 .. MaxSaid))
    BY <1>1 DEF SlotRec
  <2> QED BY <1>1, <2>1 DEF SlotRec
<1>3. slots' = [slots EXCEPT ![s] = r]
  BY DEF PrependHistory
<1>4. /\ r.items = page.items \o slots[s].items
      /\ r.start = page.start /\ r.more = page.more
  OBVIOUS
<1> HIDE DEF r
<1>5. slots'[s] = r /\ \A v \in Views : v # s => slots'[v] = slots[v]
  BY <1>1, <1>3
<1> QED BY <1>1, <1>2, <1>3, <1>4, <1>5

\* The requests under way: one more, or one answered.
LEMMA Asked ==
  ASSUME TypeOK, TabAssumption, Opens, NEW s \in Sessions, RequestOpen(s)
  PROVE  /\ seq' \in 0 .. MaxClicks /\ seq' = seq + 1
         /\ opening' = opening \cup {[seq |-> seq', s |-> s]}
         /\ opening' \subseteq OpenRec
         /\ IsFiniteSet(opening') /\ spinner' = Cardinality(opening')
<1>1. /\ seq' = seq + 1 /\ seq < MaxClicks /\ seq \in 0 .. MaxClicks
      /\ MaxClicks \in Nat /\ opening' = opening \cup {[seq |-> seq', s |-> s]}
      /\ spinner' = spinner + 1
  BY DEF RequestOpen, TypeOK, TabAssumption
<1>2. [seq |-> seq', s |-> s] \notin opening
  BY <1>1 DEF Opens
<1>3. IsFiniteSet(opening') /\ Cardinality(opening') = Cardinality(opening) + 1
  BY <1>1, <1>2, FS_AddElement DEF Opens
<1>4. opening' \subseteq OpenRec
  <2>1. [seq |-> seq', s |-> s] \in OpenRec
    BY <1>1 DEF OpenRec
  <2> QED BY <1>1, <2>1, TypesNamed DEF Typed
<1> QED BY <1>1, <1>3, <1>4 DEF TypeOK

LEMMA Answered ==
  ASSUME TypeOK, Opens, NEW o \in opening,
         opening' = opening \ {o}, spinner' = spinner - 1
  PROVE  /\ o.s \in Sessions /\ o.seq \in 1 .. MaxClicks
         /\ opening' \subseteq OpenRec
         /\ IsFiniteSet(opening') /\ spinner' = Cardinality(opening')
<1>1. o \in OpenRec /\ opening' \subseteq OpenRec /\ spinner = Cardinality(opening)
  BY TypesNamed DEF Typed
<1>2. IsFiniteSet(opening') /\ Cardinality(opening') = Cardinality(opening) - 1
  BY FS_RemoveElement DEF Opens
<1> QED BY <1>1, <1>2 DEF OpenRec

LEMMA ArriveTypes ==
  ASSUME TypeOK, TabAssumption, Opens, NEW o \in opening, Arrive(o)
  PROVE  /\ o.s \in Sessions /\ slots' \in [Views -> SlotRec]
         /\ slots'[o.s] = Window(o.s, Messages(o.s))
         /\ \A v \in Views : v # o.s => slots'[v] = slots[v]
         /\ opening' = opening \ {o}
         /\ opening' \subseteq OpenRec
         /\ IsFiniteSet(opening') /\ spinner' = Cardinality(opening')
<1>1. /\ o.s \in Sessions /\ opening' = opening \ {o}
      /\ opening' \subseteq OpenRec
      /\ IsFiniteSet(opening') /\ spinner' = Cardinality(opening')
      /\ slots' = LoadHistory(o.s)
  BY Answered DEF Arrive
<1>2. /\ slots'[o.s] = Window(o.s, Messages(o.s))
      /\ \A v \in Views : v # o.s => slots'[v] = slots[v]
  BY <1>1, Loads
<1>3. Window(o.s, Messages(o.s)) \in SlotRec
  <2>1. Messages(o.s) \in Nat /\ 2 * Messages(o.s) <= MaxSaid
    BY <1>1, SaidType DEF TabAssumption
  <2> QED BY <1>1, <2>1, WindowType
<1>4. slots' \in [Views -> SlotRec]
  BY <1>1, <1>3, SlotTypes DEF LoadHistory
<1> QED BY <1>1, <1>2, <1>4

\* A page and what follows it.
LEMMA Joined ==
  ASSUME NEW s, NEW f \in Nat, NEW b \in Nat, NEW n \in Nat, f <= b, 2 * b < n
  PROVE  /\ Halves(s, f, 2 * b) \o Halves(s, b, n) = Halves(s, f, n)
         /\ Halves(s, f, n) # <<>>
         /\ f = 0 \/ 2 * f < n
<1> DEFINE k == 2 * b - 2 * f
           m == n - 2 * b
           A == [i \in 1 .. k |-> <<s, 2 * f + i>>]
           B == [i \in 1 .. m |-> <<s, 2 * b + i>>]
           C == [i \in 1 .. n - 2 * f |-> <<s, 2 * f + i>>]
<1>1. k \in Nat /\ m \in Nat /\ n - 2 * f = k + m /\ m > 0 /\ 2 * b = k + 2 * f
  OBVIOUS
<1>2. \A i \in 1 .. k + m : /\ i <= k => i \in 1 .. k
                            /\ i > k => i - k \in 1 .. m /\ 2 * b + (i - k) = 2 * f + i
  BY <1>1
<1> HIDE DEF k, m
<1> DEFINE S == {s} \X Nat
<1>3. /\ A \in [1 .. k -> S] /\ B \in [1 .. m -> S]
      /\ C \in [1 .. k + m -> S]
  BY <1>1
<1>4. /\ A \in Seq(S) /\ Len(A) = k /\ B \in Seq(S) /\ Len(B) = m
      /\ C \in Seq(S) /\ Len(C) = k + m
  <2> HIDE DEF A, B, C, S
  <2>1. k + m \in Nat
    BY <1>1
  <2> QED BY <1>1, <1>3, <2>1
<1>5. A \o B = C
  <2>1. ASSUME NEW i \in 1 .. k + m
        PROVE  (IF i <= k THEN A[i] ELSE B[i - k]) = C[i]
    <3>1. C[i] = <<s, 2 * f + i>>
      BY <1>1
    <3>2. CASE i <= k
      <4>1. A[i] = <<s, 2 * f + i>>
        BY <1>2, <3>2
      <4> QED BY <3>1, <3>2, <4>1
    <3>3. CASE ~(i <= k)
      <4>1. i \in Int /\ k \in Int /\ i > k
        BY <1>1, <3>3
      <4>2. i - k \in 1 .. m /\ 2 * b + (i - k) = 2 * f + i
        BY <1>2, <4>1
      <4>3. B[i - k] = <<s, 2 * b + (i - k)>>
        BY <4>2
      <4> QED BY <3>1, <3>3, <4>2, <4>3
    <3> QED BY <3>2, <3>3
  <2> HIDE DEF A, B, C, S
  <2>2. /\ A \o B \in Seq(S) /\ Len(A \o B) = k + m
        /\ \A i \in 1 .. k + m : (A \o B)[i] = IF i <= k THEN A[i] ELSE B[i - k]
    BY <1>1, <1>4, ConcatProperties
  <2> QED BY <1>4, <2>1, <2>2, SeqEqual
<1>6. 1 \in DOMAIN C
  BY <1>1
<1>7. f = 0 \/ 2 * f < n
  OBVIOUS
<1>8. C # <<>>
  <2> HIDE DEF C
  <2> QED BY <1>6
<1> QED BY <1>5, <1>7, <1>8 DEF k, m, Halves

\* The page that arrives ends where its slot starts.
LEMMA PageLoads ==
  ASSUME TabAssumption, TabInv, PageArrives
  PROVE  \/ slots' = slots
         \/ /\ paging # None /\ paging.s \in exists /\ paging.s \in Sessions
            /\ slots' \in [Views -> SlotRec]
            /\ \A v \in Views : v # paging.s => slots'[v] = slots[v]
            /\ slots'[paging.s].items =
                 Halves(paging.s, slots'[paging.s].start, said[paging.s])
            /\ slots'[paging.s].more <=> slots'[paging.s].start > 0
            /\ slots'[paging.s].start = 0 \/ 2 * slots'[paging.s].start < said[paging.s]
            /\ HasItems(paging.s) /\ slots'[paging.s].items # <<>>
<1> DEFINE s == paging.s
           b == paging.before
<1> SUFFICES ASSUME slots' # slots
             PROVE  /\ paging # None /\ s \in exists /\ s \in Sessions
                    /\ slots' \in [Views -> SlotRec]
                    /\ \A v \in Views : v # s => slots'[v] = slots[v]
                    /\ slots'[s].items = Halves(s, slots'[s].start, said[s])
                    /\ slots'[s].more <=> slots'[s].start > 0
                    /\ slots'[s].start = 0 \/ 2 * slots'[s].start < said[s]
                    /\ HasItems(s) /\ slots'[s].items # <<>>
  OBVIOUS
<1>1. /\ paging # None /\ s \in exists /\ s \in Sessions /\ b \in Nat
      /\ slots[s].items # <<>> /\ slots[s].start = b /\ b > 0 /\ HasItems(s)
      /\ PrependHistory(s, Window(s, b))
  BY DEF PageArrives, TabInv, Pages, TypeOK, HasItems
<1>2. Complete(s)
  BY <1>1 DEF TabInv, Told
<1>3. /\ 2 * b < said[s] /\ said[s] \in Nat /\ said[s] <= MaxSaid /\ MaxSaid \in Nat
      /\ slots[s].items = Halves(s, b, said[s])
  BY <1>1, <1>2, SaidType DEF Complete, TabInv, TabAssumption
<1>4. Window(s, b) \in SlotRec
  BY <1>1, <1>3, WindowType
<1>5. PICK f \in Nat :
        /\ f = 0 \/ f < b
        /\ f <= b
        /\ Window(s, b).items = Halves(s, f, 2 * b)
        /\ Window(s, b).start = f /\ (Window(s, b).more <=> f > 0)
  BY <1>1, WindowShape
<1> HIDE DEF s, b
<1>6. /\ slots'[s].items = Window(s, b).items \o slots[s].items
      /\ slots'[s].start = Window(s, b).start /\ slots'[s].more = Window(s, b).more
      /\ \A v \in Views : v # s => slots'[v] = slots[v]
      /\ slots' \in [Views -> SlotRec]
  BY <1>1, <1>4, Prepends DEF TabInv
<1>7. slots'[s].start = f /\ (slots'[s].more <=> f > 0)
  BY Zenon, <1>5, <1>6
<1>8. /\ slots'[s].items = Halves(s, f, said[s])
      /\ slots'[s].items # <<>>
      /\ f = 0 \/ 2 * f < said[s]
  <2> DEFINE n == said[s]
  <2>1. n \in Nat /\ 2 * b < n /\ b \in Nat /\ f \in Nat /\ f <= b
    BY <1>1, <1>3, <1>5
  <2>2. /\ slots'[s].items = Halves(s, f, 2 * b) \o Halves(s, b, n)
        /\ n = said[s]
    BY Zenon, <1>3, <1>5, <1>6
  <2> HIDE DEF n
  <2>3. /\ Halves(s, f, 2 * b) \o Halves(s, b, n) = Halves(s, f, n)
        /\ Halves(s, f, n) # <<>>
        /\ f = 0 \/ 2 * f < n
    BY ZenonT(30), <2>1, Joined
  <2> QED BY Zenon, <2>2, <2>3
<1> QED BY Zenon, <1>1, <1>6, <1>7, <1>8

------------------------------------------------------------------------------
(***************************************************************************)
(* The invariant, part by part                                             *)
(***************************************************************************)

LEMMA TypeStep ==
  ASSUME TabAssumption, Calm, TabInv, Next
  PROVE  TypeOK'
<1> USE DEF daemon, screen
<1>1. /\ TypeOK /\ Typed /\ Opens /\ Hosted /\ None \in Views /\ Welcome \in Views
      /\ Sessions \subseteq Views
      /\ {MaxSaid, MaxClicks, MaxInfos} \subseteq Nat /\ MaxSaid >= 4
      /\ slots \in [Views -> SlotRec]
  BY TypesNamed, SlotTypes DEF TabInv, TabAssumption, None, Views
\* A request for session.info is one more of them.
<1>2. \A s \in Sessions, b \in BOOLEAN :
        FetchInfo(s, b) => infos' \in Seq(InfoRec)
  <2> SUFFICES ASSUME NEW s \in Sessions, NEW b \in BOOLEAN, FetchInfo(s, b)
               PROVE  infos' \in Seq(InfoRec)
    OBVIOUS
  <2>1. [s |-> s, follow |-> b] \in InfoRec
    BY DEF InfoRec
  <2> QED BY <1>1, <2>1 DEF FetchInfo, Typed
<1>3. ASSUME NEW s \in Sessions, SwitchTo(s) PROVE Typed'
  <2>1. infos' \in Seq(InfoRec) /\ s \in Views
    BY <1>1, <1>2, <1>3 DEF SwitchTo
  <2>2. seq' \in 0 .. MaxClicks
    BY <1>1, <1>3 DEF SwitchTo, Typed
  <2>3. {active', path', stored', chosen'} \subseteq Views
    BY <1>3, <2>1 DEF SwitchTo, SetPath
  <2> QED BY <1>1, <1>3, <2>1, <2>2, <2>3 DEF SwitchTo, Typed
<1>4. ASSUME NEW s \in Sessions, OpenSession(s) PROVE Typed'
  <2>1. RequestOpen(s)
    BY <1>4 DEF OpenSession
  <2> QED BY <1>1, <1>4, <2>1, Asked DEF OpenSession, RequestOpen, SetPath, Typed
<1>5. ASSUME NEW o \in opening, Resume(o) PROVE Typed'
  <2>1. o.s \in Sessions
    BY <1>1 DEF Typed, OpenRec
  <2> QED BY <1>1, <1>2, <1>5, <2>1 DEF Resume, CreatedFollows, Typed
<1>6. ASSUME NEW o \in opening, OpenedLate(o) PROVE Typed'
  <2>1. Arrive(o)
    BY <1>6 DEF OpenedLate
  <2> QED BY <1>1, <1>6, <2>1, ArriveTypes DEF OpenedLate, Typed
<1>7. ASSUME NEW o \in opening, Opened(o) PROVE Typed'
  <2>1. Arrive(o)
    BY <1>7 DEF Opened
  <2>2. /\ o.s \in Sessions /\ slots' \in [Views -> SlotRec]
        /\ opening' \subseteq OpenRec /\ spinner' = Cardinality(opening')
    BY <1>1, <2>1, ArriveTypes
  <2>3. infos' \in Seq(InfoRec) /\ {active', path', stored', chosen'} \subseteq Views
    BY <1>1, <1>2, <1>7, <2>2 DEF Opened, SetPath, Typed
  <2> QED BY <1>1, <1>7, <2>2, <2>3 DEF Opened, Typed
<1>8. ASSUME NEW o \in opening, OpenFails(o) PROVE Typed'
  <2>1. slots' \in [Views -> SlotRec]
    BY <1>1, <1>8 DEF OpenFails, SlotRec
  <2> QED BY <1>1, <1>8, <2>1, Answered DEF OpenFails, IsLatest, Typed
<1>9. ASSUME InfoArrives PROVE Typed'
  <2>1. Head(infos).s \in Sessions /\ infos' \in Seq(InfoRec)
    <3>1. infos \in Seq(InfoRec) /\ infos # <<>> /\ infos' = Tail(infos)
      BY <1>1, <1>9 DEF InfoArrives, Typed
    <3>2. Head(infos) \in InfoRec /\ infos' \in Seq(InfoRec)
      BY <3>1
    <3> QED BY <3>2 DEF InfoRec
  <2> QED BY <1>1, <1>9, <2>1 DEF InfoArrives, SetPath, Typed
<1>10. ASSUME RefreshHistory PROVE Typed'
  BY <1>1, <1>10 DEF RefreshHistory, Typed
<1>11. ASSUME LoadMoreHistory PROVE Typed'
  <2>1. /\ active \in Sessions /\ active \in known /\ slots[active].start \in Nat
        /\ paging' = [s |-> active, file |-> active, before |-> slots[active].start]
    BY <1>1, <1>11 DEF LoadMoreHistory, PageFile, Typed, Views, SlotRec
  <2>2. paging' \in PageRec
    BY <2>1 DEF PageRec
  <2> QED BY <1>1, <1>11, <2>2 DEF LoadMoreHistory, Typed
<1>12. ASSUME PageArrives PROVE Typed'
  <2>1. slots' \in [Views -> SlotRec]
    BY <1>1, <1>12, PageLoads
  <2> QED BY <1>1, <1>12, <2>1 DEF PageArrives, Typed
<1>13. ASSUME NewSession PROVE Typed'
  BY <1>1, <1>13 DEF NewSession, SetPath, Typed
<1>14. ASSUME NEW kind \in {"create", "fork", "remove"}, NEW s \in Views, Start(kind, s)
       PROVE  Typed'
  <2>1. task' \in TaskRec
    BY <1>1, <1>14 DEF Start, Typed, TaskRec
  <2> QED BY <1>1, <1>14, <2>1 DEF Start, Typed
<1>15. ASSUME NEW n \in Sessions, Created(n) PROVE Typed'
  <2>1. slots' \in [Views -> SlotRec]
    <3>1. EmptySlot \in SlotRec
      BY DEF EmptySlot, SlotRec
    <3>2. [slots[n] EXCEPT !.noted = slots[n].noted \/ slots[Welcome].noted] \in SlotRec
      BY <1>1 DEF SlotRec
    <3>3. slots' = [slots EXCEPT ![n] = [slots[n] EXCEPT !.noted =
                                           slots[n].noted \/ slots[Welcome].noted],
                                 ![Welcome] = EmptySlot]
      BY <1>15 DEF Created
    <3> QED BY <1>1, <3>1, <3>2, <3>3
  <2> QED BY <1>1, <1>2, <1>15, <2>1 DEF Created, Typed
<1>16. ASSUME NEW n \in Sessions, Forked(n) PROVE Typed'
  <2>1. task.s \in Sessions
    BY <1>1, <1>16 DEF Forked, Typed
  <2>2. PICK k \in 1 .. Messages(task.s) :
          said' = [said EXCEPT ![n] = 2 * k] /\ slots' = [slots EXCEPT ![n] = Window(n, k)]
    BY <1>16 DEF Forked
  <2>3. k \in Nat /\ 2 * k <= MaxSaid /\ 2 * k \in 0 .. MaxSaid
    BY <1>1, <2>1, <2>2, SaidType
  <2>4. Window(n, k) \in SlotRec
    BY <2>3, WindowType
  <2>5. slots' \in [Views -> SlotRec] /\ said' \in [Sessions -> 0 .. MaxSaid]
    BY <1>1, <2>2, <2>3, <2>4 DEF Typed
  <2>6. {active', path', stored', chosen'} \subseteq Views
    BY <1>1, <1>16 DEF Forked, SetPath
  <2>7. {exists', fresh', live'} \subseteq SUBSET Sessions
    BY <1>1, <1>16 DEF Forked, Typed
  <2>8. /\ UNCHANGED <<running, list, known, seq, opening, spinner, infos, paging>>
        /\ task' = None /\ failed' = FALSE
    BY <1>16 DEF Forked
  <2> QED BY <1>1, <2>5, <2>6, <2>7, <2>8 DEF Typed
<1>17. ASSUME Removed PROVE Typed'
  BY <1>1, <1>17 DEF Removed, SetPath, Typed
<1>18. ASSUME Prompt PROVE Typed'
  BY <1>1, <1>18 DEF Prompt, Typed
<1>19. ASSUME NEW s \in Sessions, Delta(s) PROVE Typed'
  <2>1. said[s] + 1 \in 1 .. MaxSaid /\ said' = [said EXCEPT ![s] = said[s] + 1]
    BY <1>1, <1>19, SaidType DEF Delta
  <2>2. said' \in [Sessions -> 0 .. MaxSaid] /\ said'[s] \in 1 .. MaxSaid
    BY <1>1, <2>1 DEF Typed
  <2>3. slots' \in [Views -> SlotRec]
    <3>1. Append(slots[s].items, <<s, said'[s]>>) \in Seq(Sessions \X (1 .. MaxSaid))
      BY <1>1, <2>2 DEF SlotRec
    <3> QED BY <1>1, <1>19, <3>1 DEF Delta, SlotRec
  <2> QED BY <1>1, <1>19, <2>2, <2>3 DEF Delta, Typed
<1>20. ASSUME NEW s \in Sessions, TurnEnd(s) PROVE Typed'
  BY <1>1, <1>2, <1>20 DEF TurnEnd, Typed
<1>21. ASSUME Reload PROVE Typed'
  <2>1. slots' \in [Views -> SlotRec]
    BY <1>21 DEF Reload, EmptySlot, SlotRec
  <2>2. CASE stored = None
    <3>1. opening' = {} /\ spinner' = Cardinality(opening')
      BY <1>21, <2>2, FS_EmptySet DEF Reload
    <3> QED BY <1>1, <1>21, <2>1, <2>2, <3>1 DEF Reload, Typed
  <2>3. CASE stored # None
    <3>1. /\ stored \in Sessions /\ seq' \in 1 .. MaxClicks
          /\ opening' = {[seq |-> seq', s |-> stored]} /\ spinner' = 1
      BY <1>1, <1>21, <2>3 DEF Reload, Typed, Views, None
    <3>2. spinner' = Cardinality(opening')
      BY <3>1, FS_Singleton
    <3>3. opening' \subseteq OpenRec
      BY <3>1 DEF OpenRec
    <3>4. infos' \in Seq(InfoRec) /\ seq' \in 0 .. MaxClicks
      BY <1>1, <1>21, <3>1 DEF Reload
    <3>5. {active', path', stored', chosen'} \subseteq Views
      BY <1>1, <1>21, <2>3 DEF Reload, Typed
    <3> QED BY <1>1, <1>21, <2>1, <2>3, <3>2, <3>3, <3>4, <3>5 DEF Reload, Typed
  <2> QED BY <2>2, <2>3
<1> QED
  <2> SUFFICES Typed'
    BY TypesNamedNext
  <2>1. Create \/ Fork \/ (\E s \in Sessions : DeleteSession(s)) => Typed'
    BY <1>1, <1>14 DEF Create, Fork, DeleteSession, Typed
  <2> QED BY <1>3, <1>4, <1>5, <1>6, <1>7, <1>8, <1>9, <1>10, <1>11, <1>12, <1>13,
             <1>15, <1>16, <1>17, <1>18, <1>19, <1>20, <1>21, <2>1 DEF Next

\* The requests for session.info: one more at the end, the first answered.
LEMMA Fetched ==
  ASSUME Typed, NEW s \in Sessions, NEW b \in BOOLEAN, FetchInfo(s, b)
  PROVE  /\ DOMAIN infos = 1 .. Len(infos) /\ Len(infos) \in Nat
         /\ DOMAIN infos' = 1 .. Len(infos) + 1
         /\ infos'[Len(infos) + 1].s = s /\ infos'[Len(infos) + 1].follow = b
         /\ \A i \in 1 .. Len(infos) : infos'[i] = infos[i]
<1>1. infos \in Seq(InfoRec) /\ infos' = Append(infos, [s |-> s, follow |-> b])
  BY DEF FetchInfo, Typed
<1>2. [s |-> s, follow |-> b] \in InfoRec
  BY DEF InfoRec
<1>3. /\ DOMAIN infos' = 1 .. Len(infos) + 1
      /\ infos'[Len(infos) + 1] = [s |-> s, follow |-> b]
      /\ \A i \in 1 .. Len(infos) : infos'[i] = infos[i]
  BY <1>1, <1>2
<1> QED BY <1>1, <1>3

LEMMA FirstAnswered ==
  ASSUME Typed, infos # <<>>, infos' = Tail(infos)
  PROVE  /\ DOMAIN infos = 1 .. Len(infos) /\ Len(infos) \in Nat \ {0}
         /\ DOMAIN infos' = 1 .. Len(infos) - 1
         /\ Head(infos) = infos[1] /\ infos[1] \in InfoRec
         /\ \A i \in 1 .. Len(infos) - 1 : infos'[i] = infos[i + 1]
  BY DEF Typed

LEMMA HostedStep ==
  ASSUME TabAssumption, Calm, TabInv, Next
  PROVE  Hosted'
<1> USE DEF daemon, screen
<1>1. /\ TypeOK /\ Typed /\ Opens /\ Hosted /\ Pages /\ None = Welcome
      /\ Welcome \notin Sessions /\ Sessions \subseteq Views
      /\ slots \in [Views -> SlotRec] /\ \A s \in exists : s \in Sessions
      /\ \A s \in fresh : s \in Sessions
  BY TypesNamed, SlotTypes DEF TabInv, TabAssumption, None, Typed
<1>2. \A s \in live, b \in BOOLEAN :
        FetchInfo(s, b) => \A i \in DOMAIN infos' : infos'[i].s \in live \cup {s}
  <2> SUFFICES ASSUME NEW s \in live, NEW b \in BOOLEAN, FetchInfo(s, b),
                      NEW i \in DOMAIN infos'
               PROVE  infos'[i].s \in live \cup {s}
    OBVIOUS
  <2>1. s \in Sessions
    BY <1>1 DEF Hosted
  <2>2. CASE i \in 1 .. Len(infos)
    BY <1>1, <2>1, <2>2, Fetched DEF Hosted
  <2>3. CASE i = Len(infos) + 1
    BY <1>1, <2>1, <2>3, Fetched
  <2>4. i \in 1 .. Len(infos) + 1 /\ Len(infos) \in Nat
    BY <1>1, <2>1, Fetched
  <2> QED BY <2>2, <2>3, <2>4
<1>3. ASSUME NEW s \in Sessions, SwitchTo(s) PROVE Hosted'
  <2>1. s \in live /\ HasItems(s)
    BY <1>1, <1>3 DEF SwitchTo, Loaded, Hosted
  <2>2. UNCHANGED <<running, live, list, exists, fresh, slots, said>> /\ active' = s
    BY <1>3 DEF SwitchTo
  <2>3. \A i \in DOMAIN infos' : infos'[i].s \in live
    BY <1>2, <1>3, <2>1 DEF SwitchTo
  <2> QED BY <1>1, <2>1, <2>2, <2>3 DEF Hosted, HasItems
<1>4. ASSUME NEW s \in Sessions, OpenSession(s) PROVE Hosted'
  BY <1>1, <1>4 DEF OpenSession, Hosted, HasItems
<1>5. ASSUME NEW o \in opening, Resume(o) PROVE Hosted'
  <2>1. o.s \in exists /\ live' = live \cup {o.s}
    BY <1>1, <1>5 DEF Resume
  <2>2. \A i \in DOMAIN infos' : infos'[i].s \in live'
    <3> SUFFICES ASSUME NEW i \in DOMAIN infos' PROVE infos'[i].s \in live'
      OBVIOUS
    <3>1. FetchInfo(o.s, FALSE) /\ o.s \in Sessions
      BY <1>1, <1>5, <2>1 DEF Resume, CreatedFollows
    <3>2. i \in 1 .. Len(infos) + 1 /\ Len(infos) \in Nat
      BY <1>1, <3>1, Fetched
    <3>3. CASE i \in 1 .. Len(infos)
      BY <1>1, <2>1, <3>1, <3>3, Fetched DEF Hosted
    <3>4. CASE i = Len(infos) + 1
      BY <1>1, <2>1, <3>1, <3>4, Fetched
    <3> QED BY <3>2, <3>3, <3>4
  <2> QED BY <1>1, <1>5, <2>1, <2>2 DEF Resume, Hosted, HasItems
\* What arrives belongs to a session with an agent.
<1>6. ASSUME NEW o \in opening, Arrive(o)
      PROVE  /\ o.s \in live /\ o.s \notin fresh /\ o.s \in Sessions
             /\ \A v \in Sessions : v # o.s => slots'[v] = slots[v]
  BY <1>1, <1>6, ArriveTypes DEF Arrive, Hosted, TabInv
<1>7. ASSUME NEW o \in opening, OpenedLate(o) PROVE Hosted'
  <2>1. Arrive(o)
    BY <1>7 DEF OpenedLate
  <2> QED BY <1>1, <1>6, <1>7, <2>1 DEF OpenedLate, Hosted, HasItems
<1>8. ASSUME NEW o \in opening, Opened(o) PROVE Hosted'
  <2>1. Arrive(o) /\ FetchInfo(o.s, TRUE)
    BY <1>8 DEF Opened
  <2>2. \A i \in DOMAIN infos' : infos'[i].s \in live
    <3>1. o.s \in live /\ TRUE \in BOOLEAN
      BY <1>6, <2>1
    <3>2. \A i \in DOMAIN infos' : infos'[i].s \in live \cup {o.s}
      BY Zenon, <1>2, <2>1, <3>1
    <3> QED BY <3>1, <3>2
  <2>3. o.s \in live /\ o.s \notin fresh /\ \A v \in Sessions : v # o.s => slots'[v] = slots[v]
    BY <1>6, <2>1
  <2> QED BY <1>1, <1>8, <2>2, <2>3 DEF Opened, Hosted, HasItems
<1>9. ASSUME NEW o \in opening, OpenFails(o) PROVE Hosted'
  <2>1. \A v \in Sessions : v # active => slots'[v] = slots[v]
    BY <1>1, <1>9 DEF OpenFails
  <2> QED BY <1>1, <1>9, <2>1 DEF OpenFails, Hosted, HasItems
<1>10. ASSUME InfoArrives PROVE Hosted'
  <2>1. \A i \in DOMAIN infos' : infos'[i].s \in live
    BY <1>1, <1>10, FirstAnswered DEF InfoArrives, Hosted
  <2> QED BY <1>1, <1>10, <2>1 DEF InfoArrives, Hosted, HasItems
<1>11. ASSUME RefreshHistory PROVE Hosted'
  BY <1>1, <1>11 DEF RefreshHistory, Hosted, HasItems
<1>12. ASSUME LoadMoreHistory PROVE Hosted'
  BY <1>1, <1>12 DEF LoadMoreHistory, Hosted, HasItems
<1>13. ASSUME PageArrives PROVE Hosted'
  <2>1. \/ slots' = slots
        \/ /\ paging # None /\ paging.s \in live /\ paging.s \notin fresh
           /\ \A v \in Sessions : v # paging.s => slots'[v] = slots[v]
    BY <1>1, <1>13, PageLoads DEF Pages
  <2> QED BY <1>1, <1>13, <2>1 DEF PageArrives, Hosted, HasItems
<1>14. ASSUME NewSession PROVE Hosted'
  BY <1>1, <1>14 DEF NewSession, Hosted, HasItems
<1>15. ASSUME NEW kind, NEW s, Start(kind, s) PROVE Hosted'
  BY <1>1, <1>15 DEF Start, Hosted, HasItems
<1>16. ASSUME NEW n \in Sessions, Created(n) PROVE Hosted'
  <2>1. /\ \A v \in Sessions : v # n => slots'[v] = slots[v]
        /\ said' = said /\ said[n] = 0 /\ n \in fresh /\ running' = running
        /\ FetchInfo(n, TRUE) /\ live' = live \cup {n}
    BY <1>1, <1>16 DEF Created, Hosted
  <2>2. \A i \in DOMAIN infos' : infos'[i].s \in live'
    <3> SUFFICES ASSUME NEW i \in DOMAIN infos' PROVE infos'[i].s \in live'
      OBVIOUS
    <3>2. i \in 1 .. Len(infos) + 1 /\ Len(infos) \in Nat
      BY <1>1, <2>1, Fetched
    <3>3. CASE i \in 1 .. Len(infos)
      BY <1>1, <2>1, <3>3, Fetched DEF Hosted
    <3>4. CASE i = Len(infos) + 1
      BY <1>1, <2>1, <3>4, Fetched
    <3> QED BY <3>2, <3>3, <3>4
  <2> QED BY <1>1, <1>16, <2>1, <2>2 DEF Created, Hosted, HasItems
<1>17. ASSUME NEW n \in Sessions, Forked(n) PROVE Hosted'
  <2>1. /\ \A v \in Sessions : v # n => slots'[v] = slots[v] /\ said'[v] = said[v]
        /\ said'[n] % 2 = 0
    <3>1. PICK k \in 1 .. Messages(task.s) :
            said' = [said EXCEPT ![n] = 2 * k] /\ slots' = [slots EXCEPT ![n] = Window(n, k)]
      BY <1>17 DEF Forked
    <3>2. said'[n] = 2 * k /\ k \in Int
      BY <1>1, <3>1 DEF Typed
    <3> QED BY <1>1, <3>1, <3>2 DEF Typed
  <2> QED BY <1>1, <1>17, <2>1 DEF Forked, Hosted, HasItems
<1>18. ASSUME Removed PROVE Hosted'
  BY <1>1, <1>18 DEF Removed, Hosted, HasItems
<1>19. ASSUME Prompt PROVE Hosted'
  BY <1>1, <1>19 DEF Prompt, Hosted, HasItems
<1>20. ASSUME NEW s \in Sessions, Delta(s) PROVE Hosted'
  <2>1. /\ \A v \in Sessions : v # s => slots'[v] = slots[v] /\ said'[v] = said[v]
        /\ s \in running /\ s \in live /\ s \notin fresh
    BY <1>1, <1>20 DEF Delta, Hosted, Typed
  <2> QED BY <1>1, <1>20, <2>1 DEF Delta, Hosted, HasItems
<1>21. ASSUME NEW s \in Sessions, TurnEnd(s) PROVE Hosted'
  <2>1. s \in live /\ said[s] % 2 = 0
    BY <1>1, <1>21 DEF TurnEnd, Hosted
  <2>2. \A i \in DOMAIN infos' : infos'[i].s \in live
    BY <1>1, <1>2, <1>21, <2>1 DEF TurnEnd, Hosted
  <2> QED BY <1>1, <1>21, <2>1, <2>2 DEF TurnEnd, Hosted, HasItems
<1>22. ASSUME Reload PROVE Hosted'
  <2>1. \A v \in Sessions : slots'[v] = EmptySlot
    BY <1>1, <1>22 DEF Reload
  <2> QED BY <1>1, <1>22, <2>1 DEF Reload, Hosted, HasItems, EmptySlot
<1> QED
  <2>1. Create \/ Fork \/ (\E s \in Sessions : DeleteSession(s)) => Hosted'
    BY <1>15 DEF Create, Fork, DeleteSession
  <2> QED BY <1>3, <1>4, <1>5, <1>7, <1>8, <1>9, <1>10, <1>11, <1>12, <1>13, <1>14,
             <1>16, <1>17, <1>18, <1>19, <1>20, <1>21, <1>22, <2>1 DEF Next

\* What loads says all there is to say.
LEMMA LoadedComplete ==
  ASSUME TabAssumption, NEW s, NEW k \in Nat, NEW n, n = 2 * k
  PROVE  /\ Window(s, k).items = Halves(s, Window(s, k).start, n)
         /\ Window(s, k).more <=> Window(s, k).start > 0
         /\ Window(s, k).start = 0 \/ 2 * Window(s, k).start < n
<1>1. PICK f \in Nat : /\ f = 0 \/ f < k
                      /\ Window(s, k).items = Halves(s, f, 2 * k)
                      /\ Window(s, k).start = f /\ (Window(s, k).more <=> f > 0)
  BY WindowShape
<1>2. f = 0 \/ 2 * f < n
  BY <1>1
<1> QED BY <1>1, <1>2

LEMMA SomeHalves ==
  ASSUME NEW s, NEW k \in Nat, NEW n \in Nat, 2 * k < n
  PROVE  Halves(s, k, n) # <<>>
<1>1. 1 \in DOMAIN Halves(s, k, n)
  BY DEF Halves
<1> QED BY <1>1

\* One half more.
LEMMA OneMore ==
  ASSUME NEW s, NEW k \in Nat, NEW n \in Nat, 2 * k <= n
  PROVE  Append(Halves(s, k, n), <<s, n + 1>>) = Halves(s, k, n + 1)
<1> DEFINE m == n - 2 * k
           A == Halves(s, k, n)
           B == Halves(s, k, n + 1)
           S == {s} \X Nat
<1>1. m \in Nat /\ n + 1 - 2 * k = m + 1 /\ 2 * k + (m + 1) = n + 1
  OBVIOUS
<1>2. A \in [1 .. m -> S] /\ B \in [1 .. m + 1 -> S]
  BY <1>1 DEF Halves
<1>3. /\ \A i \in 1 .. m : A[i] = B[i]
      /\ B[m + 1] = <<s, n + 1>>
  BY <1>1 DEF Halves
<1>4. <<s, n + 1>> \in S
  OBVIOUS
<1> HIDE DEF A, B, S, m
<1>5. A \in Seq(S) /\ Len(A) = m /\ B \in Seq(S) /\ Len(B) = m + 1
  BY <1>1, <1>2
<1>6. /\ Append(A, <<s, n + 1>>) \in Seq(S) /\ Len(Append(A, <<s, n + 1>>)) = m + 1
      /\ \A i \in 1 .. m : Append(A, <<s, n + 1>>)[i] = A[i]
      /\ Append(A, <<s, n + 1>>)[m + 1] = <<s, n + 1>>
  BY <1>1, <1>4, <1>5, AppendProperties
<1>7. \A i \in 1 .. m + 1 : Append(A, <<s, n + 1>>)[i] = B[i]
  BY SMTT(20), <1>1, <1>3, <1>6
<1>8. Append(A, <<s, n + 1>>) = B
  BY <1>5, <1>6, <1>7, SeqEqual
<1> QED BY <1>8 DEF A, B

LEMMA ToldStep ==
  ASSUME TabAssumption, Calm, TabInv, Next
  PROVE  Told'
<1> USE DEF daemon, screen
<1>1. /\ TypeOK /\ Typed /\ Opens /\ Hosted /\ Pages /\ Told /\ None = Welcome
      /\ Welcome \notin Sessions /\ Sessions \subseteq Views
      /\ slots \in [Views -> SlotRec] /\ \A s \in exists : s \in Sessions
  BY TypesNamed, SlotTypes DEF TabInv, TabAssumption, None, Typed
<1>2. ASSUME NEW s \in Sessions, slots'[s] = slots[s], said'[s] = said[s], Complete(s)
      PROVE  Complete(s)'
  BY <1>2 DEF Complete
\* Nothing is loaded, streamed or shown that was not.
<1>3. ASSUME UNCHANGED <<slots, said>>, exists' \subseteq exists,
             \A s \in exists' : s = active' \/ s \in running' =>
               HasItems(s) \/ s = active \/ s \in running
      PROVE  Told'
  BY <1>1, <1>2, <1>3 DEF Told, HasItems
<1>4. ASSUME NEW s \in Sessions, SwitchTo(s) PROVE Told'
  BY <1>1, <1>3, <1>4 DEF SwitchTo, Loaded
<1>5. ASSUME NEW s \in Sessions, OpenSession(s) PROVE Told'
  BY <1>1, <1>3, <1>5 DEF OpenSession
<1>6. ASSUME NEW o \in opening, Resume(o) PROVE Told'
  BY <1>1, <1>3, <1>6 DEF Resume
\* What arrives is in no turn, so its history has all of it.
<1>7. ASSUME NEW o \in opening, Arrive(o), exists' = exists, running' = running,
             said' = said, active' \in {active, o.s}
      PROVE  Told'
  <2>1. /\ o.s \in Sessions /\ o.s \in exists /\ o.s \notin running
        /\ slots'[o.s] = Window(o.s, Messages(o.s))
        /\ \A v \in Views : v # o.s => slots'[v] = slots[v]
    BY <1>1, <1>7, ArriveTypes DEF Arrive, Hosted, Opens
  <2>2. Messages(o.s) \in Nat /\ said[o.s] = 2 * Messages(o.s)
    BY <1>1, <2>1, SaidType DEF Hosted
  <2>3. Complete(o.s)'
    BY <1>7, <2>1, <2>2, LoadedComplete DEF Complete
  <2> QED BY <1>1, <1>2, <1>7, <2>1, <2>3 DEF Told, HasItems
<1>8. ASSUME NEW o \in opening, OpenedLate(o) PROVE Told'
  BY <1>1, <1>7, <1>8 DEF OpenedLate
<1>9. ASSUME NEW o \in opening, Opened(o) PROVE Told'
  BY <1>1, <1>7, <1>9 DEF Opened
<1>10. ASSUME NEW o \in opening, OpenFails(o) PROVE Told'
  <2>1. slots' = [slots EXCEPT ![active].noted = TRUE] /\ active' = active
        /\ said' = said /\ exists' = exists /\ running' = running
    BY <1>10 DEF OpenFails
  <2>2. \A v \in Views : /\ slots'[v].items = slots[v].items
                         /\ slots'[v].start = slots[v].start
                         /\ slots'[v].more = slots[v].more
                         /\ v # active => slots'[v] = slots[v]
    BY <1>1, <2>1 DEF SlotRec
  <2> QED BY <1>1, <2>1, <2>2 DEF Told, Complete, HasItems
<1>11. ASSUME InfoArrives PROVE Told'
  BY <1>1, <1>3, <1>11 DEF InfoArrives
<1>12. ASSUME RefreshHistory PROVE Told'
  BY <1>1, <1>3, <1>12 DEF RefreshHistory
<1>13. ASSUME LoadMoreHistory PROVE Told'
  BY <1>1, <1>3, <1>13 DEF LoadMoreHistory
<1>14. ASSUME PageArrives PROVE Told'
  <2>1. UNCHANGED <<exists, active, running, said>>
    BY <1>14 DEF PageArrives
  <2>2. CASE slots' = slots
    BY <1>3, <2>1, <2>2
  <2>3. CASE slots' # slots
    <3>1. /\ paging.s \in exists /\ paging.s \in Sessions
          /\ \A v \in Views : v # paging.s => slots'[v] = slots[v]
      BY <1>14, <2>3, PageLoads
    <3>2. /\ slots'[paging.s].items = Halves(paging.s, slots'[paging.s].start, said[paging.s])
          /\ slots'[paging.s].more <=> slots'[paging.s].start > 0
          /\ slots'[paging.s].start = 0 \/ 2 * slots'[paging.s].start < said[paging.s]
      BY Zenon, <1>14, <2>3, PageLoads
    <3>3. \A v \in Sessions : v = paging.s => Complete(v)'
      BY <2>1, <3>2 DEF Complete
    <3> QED BY <1>1, <1>2, <2>1, <3>1, <3>3 DEF Told, HasItems
  <2> QED BY <2>2, <2>3
<1>15. ASSUME NewSession PROVE Told'
  BY <1>1, <1>3, <1>15 DEF NewSession
<1>16. ASSUME NEW kind, NEW s, Start(kind, s) PROVE Told'
  BY <1>1, <1>3, <1>16 DEF Start
<1>17. ASSUME NEW n \in Sessions, Created(n) PROVE Told'
  <2>1. /\ slots[n] = EmptySlot /\ said[n] = 0 /\ exists' = exists \cup {n}
        /\ UNCHANGED <<said, running>> /\ active' = n
        /\ \A v \in Sessions : v # n => slots'[v] = slots[v]
    BY <1>1, <1>17 DEF Created, Hosted
  <2>2. slots'[n].items = <<>> /\ slots'[n].start = 0 /\ slots'[n].more = FALSE
    BY <1>1, <1>17, <2>1 DEF Created, EmptySlot
  <2>3. Halves(n, 0, 0) = <<>>
    BY DEF Halves
  <2>4. Complete(n)'
    BY <2>1, <2>2, <2>3 DEF Complete
  <2> QED BY <1>1, <1>2, <2>1, <2>4 DEF Told, HasItems
<1>18. ASSUME NEW n \in Sessions, Forked(n) PROVE Told'
  <2>1. PICK k \in 1 .. Messages(task.s) :
          said' = [said EXCEPT ![n] = 2 * k] /\ slots' = [slots EXCEPT ![n] = Window(n, k)]
    BY <1>18 DEF Forked
  <2>2. /\ said'[n] = 2 * k /\ slots'[n] = Window(n, k) /\ k \in Nat
        /\ \A v \in Sessions : v # n => slots'[v] = slots[v] /\ said'[v] = said[v]
    BY <1>1, <2>1 DEF Typed
  <2>3. Complete(n)'
    BY <2>2, LoadedComplete DEF Complete
  <2>4. exists' = exists \cup {n} /\ running' = running /\ active' = n
    BY <1>18 DEF Forked
  <2> QED BY <1>1, <1>2, <2>2, <2>3, <2>4 DEF Told, HasItems
<1>19. ASSUME Removed PROVE Told'
  BY <1>1, <1>3, <1>19 DEF Removed
<1>20. ASSUME Prompt PROVE Told'
  BY <1>1, <1>3, <1>20 DEF Prompt
<1>21. ASSUME NEW s \in Sessions, Delta(s) PROVE Told'
  <2>1. /\ \A v \in Sessions : v # s => slots'[v] = slots[v] /\ said'[v] = said[v]
        /\ s \in running /\ s \in exists /\ said'[s] = said[s] + 1
        /\ UNCHANGED <<exists, running, active>>
    BY <1>1, <1>21 DEF Delta, Hosted, Typed
  <2>2. /\ slots'[s].items = Append(slots[s].items, <<s, said[s] + 1>>)
        /\ slots'[s].start = slots[s].start /\ slots'[s].more = slots[s].more
        /\ slots[s].start \in Nat /\ said[s] \in Nat
    BY SMTT(20), <1>1, <1>21, <2>1, SaidType DEF Delta, SlotRec
  <2>3. Complete(s)
    BY <1>1, <2>1 DEF Told
  <2>4. slots'[s].items = Halves(s, slots[s].start, said[s] + 1)
    <3>1. 2 * slots[s].start <= said[s]
      BY <2>2, <2>3 DEF Complete
    <3>2. Append(Halves(s, slots[s].start, said[s]), <<s, said[s] + 1>>) =
            Halves(s, slots[s].start, said[s] + 1)
      BY <2>2, <3>1, OneMore
    <3> QED BY <2>2, <2>3, <3>2 DEF Complete
  <2>5. Complete(s)'
    BY SMTT(20), <2>1, <2>2, <2>3, <2>4 DEF Complete
  <2> QED BY <1>1, <1>2, <2>1, <2>5 DEF Told, HasItems
<1>22. ASSUME NEW s \in Sessions, TurnEnd(s) PROVE Told'
  BY <1>1, <1>3, <1>22 DEF TurnEnd
<1>23. ASSUME Reload PROVE Told'
  <2>1. /\ running' = {} /\ active' = Welcome /\ exists' = exists
        /\ \A v \in Sessions : slots'[v] = EmptySlot
    BY <1>1, <1>23 DEF Reload
  <2> QED BY <1>1, <2>1 DEF Told, HasItems, EmptySlot
<1> QED
  <2>1. Create \/ Fork \/ (\E s \in Sessions : DeleteSession(s)) => Told'
    BY <1>16 DEF Create, Fork, DeleteSession
  <2> QED BY <1>4, <1>5, <1>6, <1>8, <1>9, <1>10, <1>11, <1>12, <1>13, <1>14, <1>15,
             <1>17, <1>18, <1>19, <1>20, <1>21, <1>22, <1>23, <2>1 DEF Next

LEMMA OpensStep ==
  ASSUME TabAssumption, Calm, TabInv, Next
  PROVE  Opens'
<1> USE DEF daemon, screen
<1>1. /\ TypeOK /\ Typed /\ Opens /\ Hosted /\ Pages /\ Choice /\ None = Welcome
      /\ Welcome \notin Sessions /\ Sessions \subseteq Views
      /\ slots \in [Views -> SlotRec] /\ \A o \in opening : o.s \in Sessions
      /\ \A o \in opening : o.seq \in Nat
      /\ seq \in Nat /\ MaxClicks \in Nat
  BY TypesNamed, SlotTypes DEF TabInv, TabAssumption, None, Typed, OpenRec
\* Nothing that opens is touched.
<1>2. ASSUME opening' = opening, seq' = seq, chosen' = chosen \/ opening = {},
             task' # None => opening = {},
             \A o \in opening : o.s \notin running' /\ slots'[o.s].items = slots[o.s].items
      PROVE  Opens'
  BY <1>1, <1>2 DEF Opens
<1>3. ASSUME NEW s \in Sessions, SwitchTo(s) PROVE Opens'
  <2>1. \A o \in opening : o.seq < seq + 1
    BY <1>1 DEF Opens
  <2> QED BY <1>1, <1>3, <2>1 DEF SwitchTo, Opens
<1>4. ASSUME NEW s \in Sessions, OpenSession(s) PROVE Opens'
  <2>1. /\ RequestOpen(s) /\ task' = task /\ slots' = slots /\ running' = running
        /\ s \notin running /\ slots[s].items = <<>> /\ \A o \in opening : o.s # s
        /\ task = None
    BY <1>4 DEF OpenSession, Loaded, HasItems, Free
  <2>2. /\ seq' = seq + 1 /\ opening' = opening \cup {[seq |-> seq + 1, s |-> s]}
        /\ IsFiniteSet(opening') /\ chosen' = s
    BY <1>1, <2>1, Asked DEF RequestOpen
  <2>3. \A o \in opening : o.seq <= seq + 1 /\ o.seq # seq + 1
    BY <1>1 DEF Opens
  <2>4. \A o \in opening' : o \in opening \/ (o.seq = seq + 1 /\ o.s = s /\ o = [seq |-> seq + 1, s |-> s])
    BY <2>2
  <2>5. ASSUME NEW o \in opening'
        PROVE  /\ o.seq <= seq' /\ (o.seq = seq' => o.s = chosen')
               /\ o.s \notin running' /\ slots'[o.s].items = <<>>
    <3>1. CASE o \in opening
      BY <1>1, <2>1, <2>2, <2>3, <3>1 DEF Opens
    <3>2. CASE o.seq = seq + 1 /\ o.s = s
      BY <1>1, <2>1, <2>2, <3>2
    <3> QED BY <2>4, <2>5, <3>1, <3>2
  <2>6. \A o, p \in opening' : o.s = p.s => o = p
    BY <1>1, <2>1, <2>4 DEF Opens
  <2> QED BY <2>1, <2>2, <2>5, <2>6 DEF Opens
<1>5. ASSUME NEW o \in opening, Resume(o) PROVE Opens'
  BY <1>1, <1>2, <1>5 DEF Resume, Opens
\* The other requests are for other sessions.
<1>6. ASSUME NEW o \in opening, Arrive(o), running' = running, seq' = seq,
             chosen' = chosen, task' = task
      PROVE  Opens'
  <2>1. /\ opening' = opening \ {o} /\ IsFiniteSet(opening')
        /\ \A v \in Views : v # o.s => slots'[v] = slots[v]
    BY <1>1, <1>6, ArriveTypes
  <2>2. \A p \in opening' : p \in opening /\ p.s # o.s
    BY <1>1, <2>1 DEF Opens
  <2> QED BY <1>1, <1>6, <2>1, <2>2 DEF Opens
<1>7. ASSUME NEW o \in opening, OpenedLate(o) PROVE Opens'
  BY <1>6, <1>7 DEF OpenedLate
<1>8. ASSUME NEW o \in opening, Opened(o) PROVE Opens'
  BY <1>6, <1>8 DEF Opened
<1>9. ASSUME NEW o \in opening, OpenFails(o) PROVE Opens'
  <2>1. /\ opening' = opening \ {o} /\ IsFiniteSet(opening')
        /\ UNCHANGED <<running, seq, chosen, task>>
    BY <1>1, <1>9, Answered DEF OpenFails
  <2>2. \A v \in Views : slots'[v].items = slots[v].items
    BY <1>1, <1>9 DEF OpenFails, SlotRec
  <2> QED BY <1>1, <2>1, <2>2 DEF Opens
<1>10. ASSUME InfoArrives PROVE Opens'
  BY <1>1, <1>2, <1>10 DEF InfoArrives, Opens
<1>11. ASSUME RefreshHistory PROVE Opens'
  BY <1>1, <1>2, <1>11 DEF RefreshHistory, Opens
<1>12. ASSUME LoadMoreHistory PROVE Opens'
  BY <1>1, <1>2, <1>12 DEF LoadMoreHistory, Opens
<1>13. ASSUME PageArrives PROVE Opens'
  <2>1. \A o \in opening : slots'[o.s] = slots[o.s]
    <3>1. CASE slots' = slots
      BY <3>1
    <3>2. CASE slots' # slots
      <4>1. /\ paging # None /\ paging.s \in exists /\ paging.s \in Sessions
            /\ \A v \in Views : v # paging.s => slots'[v] = slots[v]
        BY <1>13, <3>2, PageLoads
      <4>2. slots[paging.s].items # <<>>
        BY <1>1, <4>1 DEF Pages
      <4> QED BY <1>1, <4>1, <4>2 DEF Opens
    <3> QED BY <3>1, <3>2
  <2> QED BY <1>1, <1>2, <1>13, <2>1 DEF PageArrives, Opens
<1>14. ASSUME NewSession PROVE Opens'
  BY <1>1, <1>2, <1>14 DEF NewSession, Opens
<1>15. ASSUME NEW kind, NEW s, Start(kind, s) PROVE Opens'
  BY <1>1, <1>2, <1>15 DEF Start, Opens
<1>16. ASSUME NEW n \in Sessions, Created(n) PROVE Opens'
  <2>1. opening = {} /\ opening' = opening /\ seq' = seq /\ task' = None
    BY <1>1, <1>16 DEF Created, Opens
  <2> QED BY <1>1, <2>1 DEF Opens
<1>17. ASSUME NEW n \in Sessions, Forked(n) PROVE Opens'
  <2>1. opening = {} /\ opening' = opening /\ seq' = seq /\ task' = None
    BY <1>1, <1>17 DEF Forked, Opens
  <2> QED BY <1>1, <2>1 DEF Opens
<1>18. ASSUME Removed PROVE Opens'
  <2>1. opening = {} /\ opening' = opening /\ seq' = seq /\ task' = None
    BY <1>1, <1>18 DEF Removed, Opens
  <2> QED BY <1>1, <2>1 DEF Opens
<1>19. ASSUME Prompt PROVE Opens'
  BY <1>1, <1>2, <1>19 DEF Prompt, Opens
<1>20. ASSUME NEW s \in Sessions, Delta(s) PROVE Opens'
  <2>1. \A v \in Sessions : v # s => slots'[v] = slots[v]
    BY <1>1, <1>20 DEF Delta
  <2>2. \A o \in opening : o.s # s /\ o.s \notin running
    BY <1>1, <1>20 DEF Delta, Opens
  <2> QED BY <1>1, <1>2, <1>20, <2>1, <2>2 DEF Delta, Opens
<1>21. ASSUME NEW s \in Sessions, TurnEnd(s) PROVE Opens'
  BY <1>1, <1>2, <1>21 DEF TurnEnd, Opens
<1>22. ASSUME Reload PROVE Opens'
  <2>1. running' = {} /\ task' = None /\ \A v \in Views : slots'[v] = EmptySlot
    BY <1>1, <1>22 DEF Reload
  <2>2. CASE stored = None
    <3>1. opening' = {} /\ IsFiniteSet(opening')
      BY <1>22, <2>2, FS_EmptySet DEF Reload
    <3> QED BY <2>1, <3>1 DEF Opens
  <2>3. CASE stored # None
    <3>1. /\ opening' = {[seq |-> seq', s |-> stored]} /\ chosen' = stored
          /\ stored \in Views /\ seq' = seq + 1
      BY <1>1, <1>22, <2>3 DEF Reload, Typed
    <3>2. IsFiniteSet(opening')
      BY <3>1, FS_Singleton
    <3>3. slots'[stored].items = <<>> /\ seq' \in Nat
      BY <1>1, <2>1, <3>1 DEF EmptySlot
    <3>4. \A o \in opening' : o.s = stored /\ o.seq = seq' /\ o = [seq |-> seq', s |-> stored]
      BY <3>1
    <3>5. \A o \in opening' : /\ o.seq <= seq' /\ (o.seq = seq' => o.s = chosen')
                             /\ o.s \notin running' /\ slots'[o.s].items = <<>>
      BY <2>1, <3>1, <3>3, <3>4
    <3> QED BY <2>1, <3>2, <3>4, <3>5 DEF Opens
  <2> QED BY <2>2, <2>3
<1> QED
  <2>1. Create \/ Fork \/ (\E s \in Sessions : DeleteSession(s)) => Opens'
    BY <1>15 DEF Create, Fork, DeleteSession
  <2> QED BY <1>3, <1>4, <1>5, <1>7, <1>8, <1>9, <1>10, <1>11, <1>12, <1>13, <1>14,
             <1>16, <1>17, <1>18, <1>19, <1>20, <1>21, <1>22, <2>1 DEF Next

LEMMA PagesStep ==
  ASSUME TabAssumption, Calm, TabInv, Next
  PROVE  Pages'
<1> USE DEF daemon, screen
<1>1. /\ TypeOK /\ Typed /\ Opens /\ Hosted /\ Pages /\ Told /\ None = Welcome
      /\ Welcome \notin Sessions /\ Sessions \subseteq Views
      /\ slots \in [Views -> SlotRec]
      /\ paging # None => paging.s \in Sessions
      /\ \A s \in exists : s \in Sessions
  BY TypesNamed, SlotTypes DEF TabInv, TabAssumption, None, Typed, PageRec
\* The slot the page is for keeps its start and its messages.
<1>2. ASSUME paging' = paging, fresh' \subseteq fresh, live' \cap exists' = live \cap exists',
             paging # None /\ paging.s \in exists' /\ paging.s \notin fresh =>
               /\ paging.s \in exists /\ slots'[paging.s].start = slots[paging.s].start
               /\ slots[paging.s].items # <<>> => slots'[paging.s].items # <<>>
      PROVE  Pages'
  BY <1>1, <1>2 DEF Pages
<1>3. ASSUME NEW s \in Sessions, SwitchTo(s) PROVE Pages'
  BY <1>1, <1>2, <1>3 DEF SwitchTo
<1>4. ASSUME NEW s \in Sessions, OpenSession(s) PROVE Pages'
  BY <1>1, <1>2, <1>4 DEF OpenSession
<1>5. ASSUME NEW o \in opening, Resume(o) PROVE Pages'
  BY <1>1, <1>5 DEF Resume, Pages
\* What opens had nothing to page from.
<1>6. ASSUME NEW o \in opening, Arrive(o), UNCHANGED daemon, paging' = paging
      PROVE  Pages'
  <2>1. /\ o.s \in exists /\ slots[o.s].items = <<>>
        /\ \A v \in Views : v # o.s => slots'[v] = slots[v]
    BY <1>1, <1>6, ArriveTypes DEF Arrive, Hosted, Opens
  <2> QED BY <1>1, <1>6, <2>1 DEF Pages
<1>7. ASSUME NEW o \in opening, OpenedLate(o) PROVE Pages'
  BY <1>6, <1>7 DEF OpenedLate
<1>8. ASSUME NEW o \in opening, Opened(o) PROVE Pages'
  BY <1>6, <1>8 DEF Opened
<1>9. ASSUME NEW o \in opening, OpenFails(o) PROVE Pages'
  <2>1. \A v \in Views : slots'[v].items = slots[v].items /\ slots'[v].start = slots[v].start
    BY <1>1, <1>9 DEF OpenFails, SlotRec
  <2> QED BY <1>1, <1>2, <1>9, <2>1 DEF OpenFails
<1>10. ASSUME InfoArrives PROVE Pages'
  BY <1>1, <1>2, <1>10 DEF InfoArrives
<1>11. ASSUME RefreshHistory PROVE Pages'
  BY <1>1, <1>2, <1>11 DEF RefreshHistory
\* A slot with earlier messages to get has some itself.
<1>12. ASSUME LoadMoreHistory PROVE Pages'
  <2>1. /\ active \in Sessions /\ active \notin fresh
        /\ paging' = [s |-> active, file |-> active, before |-> slots[active].start]
        /\ UNCHANGED <<exists, fresh, live, slots>> /\ CanPage(active)
        /\ slots[active].start \in Nat
    BY <1>1, <1>12 DEF LoadMoreHistory, PageFile, Typed, Views, SlotRec, Hosted
  <2>2. paging'.s = active /\ paging'.file = active /\ paging'.before = slots[active].start
    BY <2>1
  <2>3. active \in exists => active \in live /\ Complete(active)
    BY <1>1 DEF Hosted, Told
  <2>4. active \in exists => slots[active].items # <<>>
    <3> SUFFICES ASSUME active \in exists PROVE slots[active].items # <<>>
      OBVIOUS
    <3> DEFINE f == slots[active].start
               n == said[active]
    <3>1. /\ f \in Nat /\ f > 0 /\ n \in Nat /\ 2 * f < n
          /\ slots[active].items = Halves(active, f, n)
      BY <1>1, <2>1, <2>3, SaidType DEF Complete, CanPage
    <3> HIDE DEF f, n
    <3> QED BY <3>1, SomeHalves
  <2>5. slots[active].start > 0
    BY <2>1 DEF CanPage
  <2> QED BY <2>1, <2>2, <2>3, <2>4, <2>5 DEF Pages
<1>13. ASSUME PageArrives PROVE Pages'
  BY <1>13 DEF PageArrives, Pages
<1>14. ASSUME NewSession PROVE Pages'
  BY <1>1, <1>2, <1>14 DEF NewSession
<1>15. ASSUME NEW kind, NEW s, Start(kind, s) PROVE Pages'
  BY <1>1, <1>2, <1>15 DEF Start
<1>16. ASSUME NEW n \in Sessions, Created(n) PROVE Pages'
  <2>1. \A v \in Sessions : v # n => slots'[v] = slots[v]
    <3>1. n \in fresh /\ n # Welcome /\ n \in Views /\ Welcome \in Views
      BY <1>1, <1>16 DEF Created, Views
    <3> QED BY <1>1, <1>16, <3>1 DEF Created
  <2> QED BY <1>1, <1>16, <2>1 DEF Created, Pages
<1>17. ASSUME NEW n \in Sessions, Forked(n) PROVE Pages'
  <2>1. \A v \in Sessions : v # n => slots'[v] = slots[v]
    BY <1>1, <1>17 DEF Forked
  <2> QED BY <1>1, <1>17, <2>1 DEF Forked, Pages
<1>18. ASSUME Removed PROVE Pages'
  BY <1>1, <1>18 DEF Removed, Pages
<1>19. ASSUME Prompt PROVE Pages'
  BY <1>1, <1>2, <1>19 DEF Prompt
<1>20. ASSUME NEW s \in Sessions, Delta(s) PROVE Pages'
  <2>1. /\ \A v \in Sessions : v # s => slots'[v] = slots[v]
        /\ slots'[s].items = Append(slots[s].items, <<s, said'[s]>>)
        /\ slots'[s].start = slots[s].start
    BY <1>1, <1>20 DEF Delta, SlotRec
  <2>2. slots'[s].items # <<>>
    <3> DEFINE h == <<s, said'[s]>>
    <3>1. slots[s].items \in Seq(Sessions \X (1 .. MaxSaid))
      BY <1>1 DEF SlotRec
    <3>2. PICK q \in Seq(Sessions \X (1 .. MaxSaid)) : slots'[s].items = Append(q, h)
      BY <2>1, <3>1
    <3> HIDE DEF h
    <3>3. Len(Append(q, h)) = Len(q) + 1 /\ Len(q) \in Nat
      OBVIOUS
    <3> QED BY <3>2, <3>3
  <2> QED BY <1>1, <1>2, <1>20, <2>1, <2>2 DEF Delta
<1>21. ASSUME NEW s \in Sessions, TurnEnd(s) PROVE Pages'
  BY <1>1, <1>2, <1>21 DEF TurnEnd
<1>22. ASSUME Reload PROVE Pages'
  BY <1>22 DEF Reload, Pages
<1> QED
  <2>1. Create \/ Fork \/ (\E s \in Sessions : DeleteSession(s)) => Pages'
    BY <1>15 DEF Create, Fork, DeleteSession
  <2> QED BY <1>3, <1>4, <1>5, <1>7, <1>8, <1>9, <1>10, <1>11, <1>12, <1>13, <1>14,
             <1>16, <1>17, <1>18, <1>19, <1>20, <1>21, <1>22, <2>1 DEF Next

\* Where the highlight lands: where the last request moves it, or where the
\* first was going to anyway.
LEMMA LandsWithFetch ==
  ASSUME Typed, NEW s \in Sessions, FetchInfo(s, TRUE)
  PROVE  LandsOn(s)'
<1>1. /\ Len(infos) \in Nat /\ DOMAIN infos' = 1 .. Len(infos) + 1
      /\ infos'[Len(infos) + 1].s = s /\ infos'[Len(infos) + 1].follow
  BY Fetched
<1> QED BY <1>1 DEF LandsOn

LEMMA StillLands ==
  ASSUME Typed, NEW s \in Sessions, FetchInfo(s, FALSE), path' = path,
         NEW v \in Views, LandsOn(v)
  PROVE  LandsOn(v)'
<1>1. /\ Len(infos) \in Nat /\ DOMAIN infos' = 1 .. Len(infos) + 1
      /\ DOMAIN infos = 1 .. Len(infos)
      /\ ~infos'[Len(infos) + 1].follow
      /\ \A i \in 1 .. Len(infos) : infos'[i] = infos[i]
  BY Fetched
<1> PICK n \in Nat : n = Len(infos)
  BY <1>1
<1>2. \A i \in DOMAIN infos' : i \in 1 .. n \/ i = n + 1
  BY <1>1
<1>3. \A i \in DOMAIN infos : i \in 1 .. n /\ i < n + 1 /\ i \in DOMAIN infos'
  BY <1>1
<1>4. CASE path = v /\ \A i \in DOMAIN infos : ~infos[i].follow
  BY <1>1, <1>2, <1>4 DEF LandsOn
<1>5. CASE \E i \in DOMAIN infos : /\ infos[i].follow /\ infos[i].s = v
                                  /\ \A j \in DOMAIN infos : j > i => ~infos[j].follow
  BY <1>1, <1>2, <1>3, <1>5 DEF LandsOn
<1> QED BY <1>4, <1>5 DEF LandsOn

LEMMA LandsWithAnswer ==
  ASSUME TypeOK, Typed, Hosted, InfoArrives, NEW v \in Views, LandsOn(v)
  PROVE  LandsOn(v)'
<1>1. /\ infos # <<>> /\ infos' = Tail(infos)
      /\ Head(infos).s \in live => IF Head(infos).follow THEN path' = Head(infos).s
                                   ELSE path' = path
  BY DEF InfoArrives, SetPath
<1>2. /\ DOMAIN infos = 1 .. Len(infos) /\ Len(infos) \in Nat \ {0}
      /\ DOMAIN infos' = 1 .. Len(infos) - 1
      /\ Head(infos) = infos[1]
      /\ \A i \in 1 .. Len(infos) - 1 : infos'[i] = infos[i + 1]
  BY <1>1, FirstAnswered
<1> PICK n \in Nat \ {0} : n = Len(infos)
  BY <1>2
<1>3. IF infos[1].follow THEN path' = infos[1].s ELSE path' = path
  BY <1>1, <1>2 DEF Hosted
<1>4. \A i \in DOMAIN infos' : i \in 1 .. n - 1 /\ i + 1 \in DOMAIN infos /\ i + 1 > 1
  BY <1>2
<1>5. CASE path = v /\ \A i \in DOMAIN infos : ~infos[i].follow
  <2>1. path' = v
    BY <1>2, <1>3, <1>5
  <2> QED BY <1>2, <1>4, <1>5, <2>1 DEF LandsOn
<1>6. ASSUME NEW i \in DOMAIN infos, infos[i].follow, infos[i].s = v,
             \A j \in DOMAIN infos : j > i => ~infos[j].follow
      PROVE  LandsOn(v)'
  <2>1. CASE i = 1
    <3>1. path' = v
      BY <1>3, <1>6, <2>1
    <3> QED BY <1>2, <1>4, <1>6, <2>1, <3>1 DEF LandsOn
  <2>2. CASE i # 1
    <3>1. i - 1 \in 1 .. n - 1 /\ i - 1 \in DOMAIN infos' /\ (i - 1) + 1 = i
      BY <1>2, <2>2
    <3>2. infos'[i - 1] = infos[i]
      BY <1>2, <3>1
    <3>3. \A j \in DOMAIN infos' : j > i - 1 => ~infos'[j].follow
      <4> SUFFICES ASSUME NEW j \in DOMAIN infos', j > i - 1 PROVE ~infos'[j].follow
        OBVIOUS
      <4>1. j \in 1 .. n - 1 /\ j + 1 \in DOMAIN infos /\ i \in Nat
        BY <1>2, <1>4
      <4>2. j + 1 > i
        BY <4>1
      <4> QED BY <1>2, <1>6, <4>1, <4>2
    <3> QED BY <1>6, <3>1, <3>2, <3>3 DEF LandsOn
  <2> QED BY <2>1, <2>2
<1> QED BY <1>5, <1>6 DEF LandsOn

LEMMA ChoiceStep ==
  ASSUME TabAssumption, Calm, TabInv, Next
  PROVE  Choice'
<1> USE DEF daemon, screen
<1>1. /\ TypeOK /\ Typed /\ Opens /\ Hosted /\ Choice /\ None = Welcome
      /\ Welcome \notin Sessions /\ Sessions \subseteq Views
      /\ seq \in Nat /\ active \in Views /\ chosen \in Views
      /\ \A o \in opening : o.s \in Sessions
  BY TypesNamed, SlotTypes DEF TabInv, TabAssumption, None, Typed, OpenRec
\* Neither the choice nor where the highlight lands changes.
<1>2. ASSUME UNCHANGED <<active, path, stored, infos, chosen, failed, seq, opening>>
      PROVE  Choice'
  BY <1>1, <1>2 DEF Choice, Pending, LandsOn
\* The user is where the choice was made.
<1>3. ASSUME stored' = path', active' = chosen', LandsOn(chosen)' PROVE Choice'
  BY <1>3 DEF Choice
\* A choice waits for its answer.
<1>4. ASSUME stored' = path', Pending' PROVE Choice'
  BY <1>4 DEF Choice
<1>5. ASSUME NEW v, path' = v, infos' = <<>> PROVE LandsOn(v)'
  BY <1>5 DEF LandsOn
<1>6. ASSUME NEW s \in Sessions, SwitchTo(s) PROVE Choice'
  <2>1. FetchInfo(s, TRUE) /\ stored' = path' /\ active' = s /\ chosen' = s
    BY <1>6 DEF SwitchTo, SetPath
  <2> QED BY <1>1, <1>3, <2>1, LandsWithFetch
<1>7. ASSUME NEW s \in Sessions, OpenSession(s) PROVE Choice'
  <2>1. /\ opening' = opening \cup {[seq |-> seq', s |-> s]} /\ stored' = path'
    BY <1>7 DEF OpenSession, RequestOpen, SetPath
  <2> DEFINE o == [seq |-> seq', s |-> s]
  <2>2. o \in opening' /\ o.seq = seq'
    BY <2>1
  <2> HIDE DEF o
  <2>3. Pending'
    BY <2>2 DEF Pending
  <2> QED BY <1>4, <2>1, <2>3
<1>8. ASSUME NEW o \in opening, Resume(o) PROVE Choice'
  <2>1. /\ FetchInfo(o.s, FALSE)
        /\ UNCHANGED <<active, path, stored, chosen, failed, seq, opening>>
    BY <1>8 DEF Resume, CreatedFollows
  <2>2. LandsOn(chosen) => LandsOn(chosen)'
    <3> PICK v \in Views : v = chosen
      BY <1>1
    <3>1. LandsOn(v) => LandsOn(v)'
      BY <1>1, <2>1, StillLands
    <3> QED BY <2>1, <3>1 DEF LandsOn
  <2> QED BY <1>1, <2>1, <2>2 DEF Choice, Pending
<1>9. ASSUME NEW o \in opening, OpenedLate(o) PROVE Choice'
  <2>1. /\ opening' = opening \ {o} /\ o.seq # seq
        /\ UNCHANGED <<active, path, stored, infos, chosen, failed, seq>>
    BY <1>9 DEF OpenedLate, Arrive
  <2> QED BY <1>1, <2>1 DEF Choice, Pending, LandsOn
<1>10. ASSUME NEW o \in opening, Opened(o) PROVE Choice'
  <2>1. /\ FetchInfo(o.s, TRUE) /\ stored' = path' /\ active' = o.s /\ chosen' = o.s
    BY <1>1, <1>10 DEF Opened, SetPath, IsLatest, Opens
  <2> QED BY <1>1, <1>3, <2>1, LandsWithFetch
<1>11. ASSUME NEW o \in opening, OpenFails(o) PROVE Choice'
  <2>1. /\ opening' = opening \ {o} /\ failed' = (failed \/ o.seq = seq)
        /\ UNCHANGED <<active, path, stored, infos, chosen, seq>>
    BY <1>11 DEF OpenFails, IsLatest
  <2> QED BY <1>1, <2>1 DEF Choice, Pending, LandsOn
<1>12. ASSUME InfoArrives PROVE Choice'
  <2>1. UNCHANGED <<active, chosen, failed, seq, opening>> /\ stored' = path'
    BY <1>1, <1>12 DEF InfoArrives, SetPath, Choice
  <2>2. LandsOn(chosen) => LandsOn(chosen)'
    <3> PICK v \in Views : v = chosen
      BY <1>1
    <3>1. LandsOn(v) => LandsOn(v)'
      BY <1>1, <1>12, <2>1, LandsWithAnswer
    <3> QED BY <2>1, <3>1 DEF LandsOn
  <2> QED BY <1>1, <2>1, <2>2 DEF Choice, Pending
<1>13. ASSUME RefreshHistory PROVE Choice'
  BY <1>2, <1>13 DEF RefreshHistory
<1>14. ASSUME LoadMoreHistory PROVE Choice'
  BY <1>2, <1>14 DEF LoadMoreHistory
<1>15. ASSUME PageArrives PROVE Choice'
  BY <1>2, <1>15 DEF PageArrives
<1>16. ASSUME NewSession PROVE Choice'
  <2>1. /\ infos' = <<>> /\ path' = Welcome /\ stored' = path'
        /\ active' = Welcome /\ chosen' = Welcome
    BY <1>1, <1>16 DEF NewSession, SetPath
  <2> QED BY <1>3, <1>5, <2>1 DEF LandsOn
<1>17. ASSUME NEW kind, NEW s, Start(kind, s) PROVE Choice'
  BY <1>2, <1>17 DEF Start
<1>18. ASSUME NEW n \in Sessions, Created(n) PROVE Choice'
  <2>1. FetchInfo(n, TRUE) /\ stored' = path' /\ active' = n /\ chosen' = n
    BY <1>1, <1>18 DEF Created, Choice
  <2> QED BY <1>1, <1>3, <2>1, LandsWithFetch
<1>19. ASSUME NEW n \in Sessions, Forked(n) PROVE Choice'
  <2>1. infos' = <<>> /\ path' = n /\ stored' = n /\ active' = n /\ chosen' = n
    BY <1>19 DEF Forked, SetPath
  <2> QED BY <1>3, <1>5, <2>1 DEF LandsOn
<1>20. ASSUME Removed PROVE Choice'
  <2>1. infos = <<>> /\ UNCHANGED <<infos, failed, seq, opening>> /\ opening = {}
    BY <1>1, <1>20 DEF Removed, Opens
  <2>2. CASE task.path = task.s
    BY <1>1, <1>3, <1>5, <1>20, <2>1, <2>2 DEF Removed, SetPath, LandsOn
  <2>3. CASE task.path # task.s
    BY <1>2, <1>20, <2>1, <2>3 DEF Removed
  <2> QED BY <2>2, <2>3
<1>21. ASSUME Prompt PROVE Choice'
  BY <1>2, <1>21 DEF Prompt
<1>22. ASSUME NEW s \in Sessions, Delta(s) PROVE Choice'
  BY <1>2, <1>22 DEF Delta
<1>23. ASSUME NEW s \in Sessions, TurnEnd(s) PROVE Choice'
  <2>1. UNCHANGED <<active, path, stored, chosen, failed, seq, opening>>
    BY <1>23 DEF TurnEnd
  <2>2. CASE s = active
    <3>1. LandsOn(s)'
      BY <1>1, <1>23, <2>2, LandsWithFetch DEF TurnEnd
    <3> QED BY <1>1, <2>1, <2>2, <3>1 DEF Choice, Pending, LandsOn
  <2>3. CASE s # active
    BY <1>2, <1>23, <2>1, <2>3 DEF TurnEnd
  <2> QED BY <2>2, <2>3
<1>24. ASSUME Reload PROVE Choice'
  <2>1. CASE stored = None
    BY <1>1, <1>3, <1>5, <1>24, <2>1 DEF Reload, LandsOn
  <2>2. CASE stored # None
    <3>1. opening' = {[seq |-> seq', s |-> stored]} /\ stored' = path'
      BY <1>24, <2>2 DEF Reload
    <3> DEFINE o == [seq |-> seq', s |-> stored]
    <3>2. o \in opening' /\ o.seq = seq'
      BY <3>1
    <3> HIDE DEF o
    <3>3. Pending'
      BY <3>2 DEF Pending
    <3> QED BY <1>4, <3>1, <3>3
  <2> QED BY <2>1, <2>2
<1> QED
  <2>1. Create \/ Fork \/ (\E s \in Sessions : DeleteSession(s)) => Choice'
    BY <1>17 DEF Create, Fork, DeleteSession
  <2> QED BY <1>6, <1>7, <1>8, <1>9, <1>10, <1>11, <1>12, <1>13, <1>14, <1>15,
             <1>16, <1>18, <1>19, <1>20, <1>21, <1>22, <1>23, <1>24, <2>1 DEF Next

------------------------------------------------------------------------------
LEMMA TabInit == TabAssumption /\ Init => TabInv
<1> SUFFICES ASSUME TabAssumption, Init PROVE TabInv
  OBVIOUS
<1>1. \A v \in Views : slots[v] = EmptySlot
  BY DEF Init
<1>2. Typed
  <2>1. EmptySlot \in SlotRec
    BY DEF EmptySlot, SlotRec
  <2>2. slots \in [Views -> SlotRec]
    BY <2>1 DEF Init
  <2>3. {0, 4} \subseteq 0 .. MaxSaid /\ MaxClicks \in Nat
    BY DEF TabAssumption
  <2>4. said \in [Sessions -> 0 .. MaxSaid]
    BY <2>3 DEF Init
  <2>5. spinner = Cardinality(opening)
    BY FS_EmptySet DEF Init
  <2>6. /\ {exists, fresh, live, running, list, known} \subseteq SUBSET Sessions
        /\ paging = None /\ task = None /\ failed \in BOOLEAN
    BY DEF Init
  <2>7. {active, path, stored, chosen} \subseteq Views
    BY DEF Init, Views, None
  <2>8. seq \in 0 .. MaxClicks /\ opening \subseteq OpenRec /\ infos \in Seq(InfoRec)
    BY <2>3 DEF Init
  <2> QED BY <2>2, <2>4, <2>5, <2>6, <2>7, <2>8 DEF Typed
<1>3. Hosted
  <2>1. \A s \in Sessions : said[s] % 2 = 0
    BY DEF Init
  <2>2. Welcome \notin Sessions /\ Sessions \subseteq Views
    BY DEF TabAssumption, Views
  <2> QED BY <1>1, <2>1, <2>2 DEF Init, Hosted, HasItems, EmptySlot
<1>4. Told
  <2>1. \A s \in exists : s \in Views /\ s # active
    BY DEF Init, TabAssumption, Views
  <2> QED BY <1>1, <2>1 DEF Init, Told, HasItems, EmptySlot
<1>5. Opens
  BY FS_EmptySet DEF Init, Opens
<1>6. Pages
  BY DEF Init, Pages
<1>7. Choice
  BY DEF Init, Choice, LandsOn, None
<1> QED BY <1>2, <1>3, <1>4, <1>5, <1>6, <1>7, TypesNamed DEF TabInv

LEMMA TabStep == TabAssumption /\ Calm /\ TabInv /\ [Next]_vars => TabInv'
<1> SUFFICES ASSUME TabAssumption, Calm, TabInv, [Next]_vars PROVE TabInv'
  OBVIOUS
<1>1. CASE Next
  BY <1>1, TypeStep, HostedStep, ToldStep, OpensStep, PagesStep, ChoiceStep DEF TabInv
<1>2. CASE UNCHANGED vars
  <2>1. Typed'
    BY <1>2, TypesNamed DEF TabInv, Typed, vars, daemon, screen
  <2>2. Hosted' /\ Told'
    BY <1>2 DEF TabInv, Hosted, Told, Complete, HasItems, vars, daemon, screen
  <2>3. Opens' /\ Pages' /\ Choice'
    BY <1>2 DEF TabInv, Opens, Pages, Choice, Pending, LandsOn, vars, daemon, screen
  <2> QED BY <2>1, <2>2, <2>3, TypesNamedNext DEF TabInv
<1> QED BY <1>1, <1>2

LEMMA TabSound ==
  ASSUME TabAssumption, Calm
  PROVE  Spec => []TabInv
<1> QED BY TabInit, TabStep, PTL DEF Spec

\* The tab stays in its types; its spinner counts the requests under way.
THEOREM TypeCorrect ==
  ASSUME TabAssumption, Calm
  PROVE  Spec => []TypeOK
<1>1. TabInv => TypeOK
  BY DEF TabInv
<1> QED BY <1>1, TabSound, PTL

\* A timeline is its conversation from its start index to now, without a gap
\* or a repetition, and offers earlier messages exactly when there are some.
THEOREM AlwaysGapless ==
  ASSUME TabAssumption, Calm
  PROVE  Spec => []Gapless
<1>1. TabInv => Gapless
  BY DEF TabInv, Told, Complete, Halves, Gapless
<1> QED BY <1>1, TabSound, PTL

\* Once all is answered, the session on screen is the user's last choice.
THEOREM LastChoiceAlwaysShown ==
  ASSUME TabAssumption, Calm
  PROVE  Spec => []LastChoiceShown
<1>1. TabInv => LastChoiceShown
  BY DEF TabInv, Choice, Pending, Settled, LastChoiceShown
<1> QED BY <1>1, TabSound, PTL

\* Then the sidebar highlights it, and a reload comes back to it.
THEOREM HighlightAlwaysTrue ==
  ASSUME TabAssumption, Calm
  PROVE  Spec => []HighlightTrue
<1>1. TabInv => HighlightTrue
  BY DEF TabInv, Choice, Pending, LandsOn, Settled, HighlightTrue
<1> QED BY <1>1, TabSound, PTL

\* A session keeps what its slot holds, whatever a page adds before it.
KeepsItems(s) ==
  \A i \in DOMAIN slots[s].items :
    \E j \in DOMAIN slots'[s].items : slots'[s].items[j] = slots[s].items[i]

LEMMA ItemsStay ==
  ASSUME TabAssumption, Calm, TabInv, Next, list' # {}, NEW s \in Sessions
  PROVE  KeepsItems(s)
<1> USE DEF daemon, screen
<1>1. /\ TypeOK /\ Typed /\ Opens /\ Hosted /\ Pages /\ Told
      /\ Welcome \notin Sessions /\ s \in Views /\ s # Welcome
      /\ slots \in [Views -> SlotRec] /\ slots[s].items \in Seq(Sessions \X (1 .. MaxSaid))
  BY TypesNamed, SlotTypes DEF TabInv, TabAssumption, Typed, SlotRec
<1>2. slots'[s].items = slots[s].items => KeepsItems(s)
  BY DEF KeepsItems
<1>3. slots[s].items = <<>> => KeepsItems(s)
  BY DEF KeepsItems
<1>4. ASSUME NEW o \in opening, Arrive(o) PROVE KeepsItems(s)
  BY <1>1, <1>2, <1>3, <1>4, ArriveTypes DEF Opens
<1>5. ASSUME NEW o \in opening, OpenFails(o) PROVE KeepsItems(s)
  BY <1>1, <1>2, <1>5 DEF OpenFails
<1>6. ASSUME PageArrives PROVE KeepsItems(s)
  <2>1. CASE slots' = slots
    BY <1>2, <2>1
  <2>2. CASE slots' # slots
    <3>1. /\ paging # None /\ paging.s \in exists /\ paging.s \in Sessions
          /\ PrependHistory(paging.s, Window(paging.file, paging.before))
          /\ \A v \in Views : v # paging.s => slots'[v] = slots[v]
      BY <1>6, <2>2, PageLoads DEF PageArrives
    <3>2. CASE s # paging.s
      BY <1>1, <1>2, <3>1, <3>2
    <3>3. CASE s = paging.s
      <4> DEFINE page == Window(paging.file, paging.before)
      <4>1. page.items \in Seq(Sessions \X (1 .. MaxSaid))
        <5>1. /\ paging.file = s /\ paging.before \in Nat /\ slots[s].start = paging.before
              /\ paging.before > 0 /\ Complete(s)
          BY <1>1, <3>1, <3>3 DEF Pages, Typed, PageRec, Told, HasItems
        <5>2. 2 * paging.before <= MaxSaid
          BY <1>1, <5>1, SaidType DEF Complete, TabAssumption
        <5> QED BY <5>1, <5>2, WindowType DEF SlotRec
      <4>2. slots'[s].items = page.items \o slots[s].items
        BY <1>1, <3>1, <3>3 DEF PrependHistory
      <4> HIDE DEF page
      <4>3. PICK a, b \in Seq(Sessions \X (1 .. MaxSaid)) :
              slots'[s].items = a \o b /\ slots[s].items = b
        BY <1>1, <4>1, <4>2
      <4>4. ASSUME NEW i \in DOMAIN b
            PROVE  Len(a) + i \in DOMAIN (a \o b) /\ (a \o b)[Len(a) + i] = b[i]
        BY SMTT(20), ConcatProperties
      <4> QED BY <4>3, <4>4 DEF KeepsItems
    <3> QED BY <3>2, <3>3
  <2> QED BY <2>1, <2>2
<1>7. ASSUME NEW n \in Sessions, Created(n) PROVE KeepsItems(s)
  <2>1. slots'[s].items = slots[s].items
    BY <1>1, <1>7 DEF Created, SlotRec
  <2> QED BY <1>2, <2>1
<1>8. ASSUME NEW n \in Sessions, Forked(n) PROVE KeepsItems(s)
  <2>1. slots[n].items = <<>> /\ (s # n => slots'[s] = slots[s])
    BY <1>1, <1>8 DEF Forked, Hosted, EmptySlot
  <2> QED BY <1>2, <1>3, <2>1
<1>9. ASSUME NEW v \in Sessions, Delta(v) PROVE KeepsItems(s)
  <2>1. CASE s # v
    BY <1>1, <1>2, <1>9, <2>1 DEF Delta
  <2>2. CASE s = v
    <3> DEFINE h == <<s, said'[s]>>
    <3>1. slots'[s].items = Append(slots[s].items, h)
      BY <1>1, <1>9, <2>2 DEF Delta
    <3> HIDE DEF h
    <3>2. PICK q \in Seq(Sessions \X (1 .. MaxSaid)) :
            slots'[s].items = Append(q, h) /\ slots[s].items = q
      BY <1>1, <3>1
    <3>3. \A i \in DOMAIN q : i \in DOMAIN Append(q, h) /\ Append(q, h)[i] = q[i]
      OBVIOUS
    <3> QED BY <3>2, <3>3 DEF KeepsItems
  <2> QED BY <2>1, <2>2
<1>10. UNCHANGED slots => KeepsItems(s)
  BY DEF KeepsItems
<1> QED
  <2>1. Create \/ Fork \/ (\E v \in Sessions : DeleteSession(v)) => UNCHANGED slots
    BY DEF Create, Fork, DeleteSession, Start
  <2>2. (\E v \in Sessions : SwitchTo(v) \/ OpenSession(v) \/ TurnEnd(v)) => UNCHANGED slots
    BY DEF SwitchTo, OpenSession, TurnEnd
  <2>3. \/ \E o \in opening : Resume(o)
        \/ InfoArrives \/ RefreshHistory \/ LoadMoreHistory \/ NewSession \/ Removed \/ Prompt
        => UNCHANGED slots
    BY DEF Resume, InfoArrives, RefreshHistory, LoadMoreHistory, NewSession, Removed, Prompt
  <2>4. (\E o \in opening : OpenedLate(o) \/ Opened(o)) => KeepsItems(s)
    BY <1>4 DEF OpenedLate, Opened
  <2>5. ~Reload
    BY DEF Reload
  <2> QED BY <1>5, <1>6, <1>7, <1>8, <1>9, <1>10, <2>1, <2>2, <2>3, <2>4, <2>5 DEF Next

\* No answer takes away what has streamed in.
THEOREM StreamAlwaysKept ==
  ASSUME TabAssumption, Calm
  PROVE  Spec => StreamKept
<1>1. TabInv /\ [Next]_vars =>
        [\A s \in Sessions : s \in live' /\ list' # {} =>
           \A i \in DOMAIN slots[s].items :
             slots[s].items[i][2] > 2 * Messages(s) =>
               \E j \in DOMAIN slots'[s].items :
                 slots'[s].items[j] = slots[s].items[i]]_vars
  <2>1. CASE TabInv /\ Next
    BY <2>1, ItemsStay DEF KeepsItems
  <2> QED BY <2>1
<1> QED BY <1>1, TabSound, PTL DEF Spec, StreamKept
==============================================================================
