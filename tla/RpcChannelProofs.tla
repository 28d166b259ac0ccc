-------------------------- MODULE RpcChannelProofs ---------------------------
(***************************************************************************)
(* Proofs about RpcChannel, for any set of requests and any number of      *)
(* connections.                                                            *)
(*                                                                         *)
(* OwnAnswer is not inductive alone: that a response names its own request *)
(* must be known of its frame all the way, from the queue to the response. *)
(* A frame of the current connection has an id the client has used, and no *)
(* other pending request has that id; frames of older connections may have *)
(* any, which is why a response must not leave its connection.             *)
(***************************************************************************)
EXTENDS RpcChannel, TLAPS

UnderWay == ToSet(queue) \cup ToSet(up) \cup ToSet(serving) \cup ToSet(down)

\* What holds of a frame wherever it is.
Sound(f) ==
  /\ f.conn <= conn
  /\ f.conn = conn =>
       f.id < nextId /\ \A q \in pending : idOf[q] = f.id => q = f.q

FramesSound    == \A f \in UnderWay : Sound(f)
DownIsCurrent  == \A f \in ToSet(down) : f.conn = conn
PendingIds     == \A q \in pending : idOf[q] < nextId
GoneIsEmpty    == link = "gone" => pending = {} /\ down = <<>>
UnmadeIsFresh  == \A q \in Reqs \ Made : outcome[q] = "none"

IInv ==
  /\ TypeOK
  /\ FramesSound
  /\ DownIsCurrent
  /\ PendingIds
  /\ GoneIsEmpty
  /\ UnmadeIsFresh
  /\ PendingIsUnsettled
  /\ OwnAnswer

------------------------------------------------------------------------------
(***************************************************************************)
(* Elements of sequences                                                   *)
(***************************************************************************)

LEMMA SetOfSeq ==
  ASSUME NEW S, NEW s \in Seq(S) PROVE ToSet(s) \subseteq S
  BY DEF ToSet

LEMMA AppendElements ==
  ASSUME NEW S, NEW s \in Seq(S), NEW e \in S
  PROVE  /\ Append(s, e) \in Seq(S)
         /\ ToSet(Append(s, e)) \subseteq ToSet(s) \cup {e}
  BY DEF ToSet

LEMMA TailElements ==
  ASSUME NEW S, NEW s \in Seq(S), s # <<>>
  PROVE  /\ Tail(s) \in Seq(S)
         /\ ToSet(Tail(s)) \subseteq ToSet(s)
         /\ Head(s) \in ToSet(s) \cap S
  <1>1. Tail(s) \in Seq(S) /\ Head(s) = s[1] /\ 1 \in DOMAIN s
    OBVIOUS
  <1>2. ASSUME NEW i \in DOMAIN Tail(s) PROVE Tail(s)[i] \in ToSet(s)
    <2>1. i + 1 \in DOMAIN s /\ Tail(s)[i] = s[i + 1]
      OBVIOUS
    <2> QED BY <2>1 DEF ToSet
  <1>3. ToSet(Tail(s)) \subseteq ToSet(s)
    BY <1>2 DEF ToSet
  <1> QED BY <1>1, <1>3 DEF ToSet

LEMMA ConcatElements ==
  ASSUME NEW S, NEW s \in Seq(S), NEW t \in Seq(S)
  PROVE  /\ s \o t \in Seq(S)
         /\ ToSet(s \o t) \subseteq ToSet(s) \cup ToSet(t)
  <1>1. ASSUME NEW i \in DOMAIN (s \o t)
        PROVE  (s \o t)[i] \in ToSet(s) \cup ToSet(t)
    <2>1. CASE i <= Len(s)
      <3>1. i \in DOMAIN s /\ (s \o t)[i] = s[i]
        BY <2>1
      <3> QED BY <3>1 DEF ToSet
    <2>2. CASE ~(i <= Len(s))
      <3>1. i - Len(s) \in DOMAIN t /\ (s \o t)[i] = t[i - Len(s)]
        BY <2>2
      <3> QED BY <3>1 DEF ToSet
    <2> QED BY <2>1, <2>2
  <1>2. ToSet(s \o t) \subseteq ToSet(s) \cup ToSet(t)
    BY <1>1 DEF ToSet
  <1> QED BY <1>2

LEMMA SubSeqElements ==
  ASSUME NEW S, NEW s \in Seq(S), NEW a \in Nat \ {0}, NEW b \in Nat,
         b <= Len(s)
  PROVE  /\ SubSeq(s, a, b) \in Seq(S)
         /\ ToSet(SubSeq(s, a, b)) \subseteq ToSet(s)
  <1>1. ASSUME NEW i \in DOMAIN SubSeq(s, a, b)
        PROVE  SubSeq(s, a, b)[i] \in ToSet(s)
    <2>1. a + i - 1 \in DOMAIN s /\ SubSeq(s, a, b)[i] = s[a + i - 1]
      OBVIOUS
    <2> QED BY <2>1 DEF ToSet
  <1>2. SubSeq(s, a, b) \in Seq(S)
    <2>1. \A i \in a..b : s[i] \in S
      OBVIOUS
    <2> QED BY <2>1
  <1> QED BY <1>1, <1>2 DEF ToSet

LEMMA RemoveElements ==
  ASSUME NEW S, NEW s \in Seq(S), NEW i \in DOMAIN s
  PROVE  /\ RemoveAt(s, i) \in Seq(S)
         /\ ToSet(RemoveAt(s, i)) \subseteq ToSet(s)
  <1> DEFINE a == SubSeq(s, 1, i - 1)
             b == SubSeq(s, i + 1, Len(s))
  <1>0. i \in Nat /\ i >= 1 /\ i <= Len(s) /\ Len(s) \in Nat
    OBVIOUS
  <1>1. a \in Seq(S) /\ ToSet(a) \subseteq ToSet(s)
    BY <1>0, SubSeqElements
  <1>2. b \in Seq(S) /\ ToSet(b) \subseteq ToSet(s)
    BY <1>0, SubSeqElements
  <1>3. RemoveAt(s, i) = a \o b
    BY DEF RemoveAt
  <1> HIDE DEF a, b
  <1> QED BY <1>1, <1>2, <1>3, ConcatElements

------------------------------------------------------------------------------
(***************************************************************************)
(* IInv is an inductive invariant                                          *)
(***************************************************************************)

LEMMA InitIInv == Init => IInv
  <1> SUFFICES ASSUME Init PROVE IInv
    OBVIOUS
  <1>1. TypeOK
    BY MaxConnsAssumption DEF Init, TypeOK, Unmade, Links, Conns, Outcomes
  <1>2. UnderWay = {} /\ ToSet(down) = {}
    BY DEF Init, UnderWay, ToSet
  <1>3. PendingIds /\ GoneIsEmpty /\ UnmadeIsFresh
    BY DEF Init, PendingIds, GoneIsEmpty, UnmadeIsFresh
  <1>4. PendingIsUnsettled /\ OwnAnswer
    BY ReqsAssumption DEF Init, PendingIsUnsettled, OwnAnswer, Made, Unmade
  <1> QED BY <1>1, <1>2, <1>3, <1>4 DEF IInv, FramesSound, DownIsCurrent

\* Frames stay sound while the client is the same one, no frame is new, and
\* no request is made.
LEMMA StillSound ==
  ASSUME IInv, conn' = conn, nextId' = nextId, pending' \subseteq pending,
         \A q \in pending : idOf'[q] = idOf[q], UnderWay' \subseteq UnderWay
  PROVE  FramesSound' /\ PendingIds'
  <1>1. ASSUME NEW f \in UnderWay' PROVE Sound(f)'
    BY DEF IInv, FramesSound, Sound
  <1> QED BY <1>1 DEF IInv, FramesSound, PendingIds

\* Settling pending requests, none with the result of another.
LEMMA SettleKeeps ==
  ASSUME IInv, NEW qs \in SUBSET pending, NEW how \in Outcomes \ {"none"},
         Settle(qs, how), idOf' = idOf,
         \A q \in qs : how \in Reqs => how = q
  PROVE  /\ outcome' \in [Reqs -> Outcomes] /\ pending' \in SUBSET Reqs
         /\ PendingIsUnsettled' /\ UnmadeIsFresh' /\ OwnAnswer'
  <1> USE DEF IInv, Settle
  <1>1. outcome' \in [Reqs -> Outcomes] /\ pending' \in SUBSET Reqs
    BY DEF TypeOK
  <1>2. PendingIsUnsettled'
    BY DEF PendingIsUnsettled, Made, TypeOK
  <1>3. UnmadeIsFresh'
    BY DEF UnmadeIsFresh, PendingIsUnsettled, Made, TypeOK
  <1>4. OwnAnswer'
    BY DEF OwnAnswer, TypeOK
  <1> QED BY <1>1, <1>2, <1>3, <1>4

\* A request is made: on a live client, its frame is sent with a fresh id.
LEMMA RequestKeeps ==
  ASSUME IInv, NEW q \in Reqs, Request(q) PROVE IInv'
  <1> DEFINE frame == [q |-> q, id |-> nextId, conn |-> conn]
  <1> USE DEF IInv, Request
  <1>1. frame \in Frames
    BY DEF TypeOK, Frames
  <1>2. /\ queue' \in Seq(Frames) /\ ToSet(queue') \subseteq ToSet(queue) \cup {frame}
        /\ up' \in Seq(Frames) /\ ToSet(up') \subseteq ToSet(up) \cup {frame}
    BY <1>1, AppendElements DEF TypeOK, Transmit
  <1>3. TypeOK'
    BY <1>2 DEF TypeOK
  <1>4. FramesSound'
    <2>1. UnderWay' \subseteq UnderWay \cup {frame}
      BY <1>2 DEF UnderWay
    <2>2. /\ pending' = pending \cup {q} /\ idOf'[q] = nextId
          /\ \A p \in pending : p # q /\ idOf'[p] = idOf[p] /\ idOf[p] < nextId
          /\ nextId \in Nat /\ nextId' = nextId + 1
          /\ conn \in Int /\ conn' = conn
      BY MaxConnsAssumption
      DEF TypeOK, PendingIds, PendingIsUnsettled, Made, Conns
    <2>3. ASSUME NEW f \in UnderWay PROVE Sound(f)'
      <3>1. f \in Frames
        BY SetOfSeq DEF UnderWay, TypeOK
      <3>2. f.id \in Nat /\ Sound(f)
        BY <3>1 DEF FramesSound, Frames
      <3> HIDE DEF IInv, Request
      <3> QED BY <2>2, <3>2 DEF Sound
    <2>4. ASSUME NEW f, f = frame PROVE Sound(f)'
      <3>1. f.q = q /\ f.id = nextId /\ f.conn = conn
        BY <2>4
      <3> HIDE DEF IInv, Request, frame
      <3> QED BY <2>2, <3>1 DEF Sound
    <2> QED BY <2>1, <2>3, <2>4 DEF FramesSound
  <1>5. PendingIds' /\ DownIsCurrent' /\ GoneIsEmpty'
    BY DEF PendingIds, DownIsCurrent, GoneIsEmpty, TypeOK, PendingIsUnsettled, Made
  <1>6. PendingIsUnsettled' /\ UnmadeIsFresh'
    BY DEF PendingIsUnsettled, UnmadeIsFresh, Made, Unmade, TypeOK
  <1>7. OwnAnswer'
    BY DEF OwnAnswer
  <1> QED BY <1>3, <1>4, <1>5, <1>6, <1>7

LEMMA RequestClosedKeeps ==
  ASSUME IInv, NEW q \in Reqs, RequestClosed(q) PROVE IInv'
  <1> USE DEF IInv, RequestClosed
  <1>1. TypeOK'
    BY DEF TypeOK, Outcomes
  <1>2. UnderWay' = UnderWay /\ q \notin pending
    BY DEF UnderWay, PendingIsUnsettled
  <1>3. FramesSound' /\ PendingIds'
    BY <1>2, StillSound DEF TypeOK
  <1>4. DownIsCurrent' /\ GoneIsEmpty'
    BY DEF DownIsCurrent, GoneIsEmpty
  <1>5. PendingIsUnsettled' /\ UnmadeIsFresh'
    BY DEF PendingIsUnsettled, UnmadeIsFresh, Made, Unmade, TypeOK
  <1>6. OwnAnswer'
    BY ReqsAssumption DEF OwnAnswer, TypeOK
  <1> QED BY <1>1, <1>3, <1>4, <1>5, <1>6

\* The response is of this connection, so the pending request of its id, if
\* there is one, is its own.
LEMMA RespondKeeps ==
  ASSUME IInv, Respond PROVE IInv'
  <1> DEFINE f == Head(down)
             qs == {q \in pending : idOf[q] = f.id}
  <1> USE DEF IInv, Respond
  <1>1. down' \in Seq(Frames) /\ ToSet(down') \subseteq ToSet(down)
        /\ f \in ToSet(down) /\ f \in Frames
    BY TailElements DEF TypeOK
  <1>2. Sound(f) /\ f.conn = conn
    BY <1>1 DEF FramesSound, DownIsCurrent, UnderWay
  <1>3. \A q \in qs : q = f.q
    BY <1>2 DEF Sound
  <1>4. f.q \in Reqs /\ f.q \in Outcomes \ {"none"}
    BY <1>1, ReqsAssumption DEF Frames, Outcomes
  <1>5. /\ outcome' \in [Reqs -> Outcomes] /\ pending' \in SUBSET Reqs
        /\ PendingIsUnsettled' /\ UnmadeIsFresh' /\ OwnAnswer'
    <2>1. qs \in SUBSET pending /\ Settle(qs, f.q)
      OBVIOUS
    <2> HIDE DEF qs
    <2> QED BY <1>3, <1>4, <2>1, SettleKeeps
  <1>6. TypeOK'
    BY <1>1, <1>5 DEF TypeOK
  <1>7. FramesSound' /\ PendingIds'
    BY <1>1, StillSound DEF UnderWay, Settle
  <1>8. DownIsCurrent' /\ GoneIsEmpty'
    BY <1>1 DEF DownIsCurrent, GoneIsEmpty
  <1> QED BY <1>5, <1>6, <1>7, <1>8

LEMMA TimeoutKeeps ==
  ASSUME IInv, NEW q \in Reqs, Timeout(q) PROVE IInv'
  <1> USE DEF IInv, Timeout
  <1>1. /\ outcome' \in [Reqs -> Outcomes] /\ pending' \in SUBSET Reqs
        /\ PendingIsUnsettled' /\ UnmadeIsFresh' /\ OwnAnswer'
    BY SettleKeeps, ReqsAssumption DEF Outcomes
  <1>2. FramesSound' /\ PendingIds'
    BY StillSound DEF UnderWay, Settle
  <1>3. TypeOK' /\ DownIsCurrent' /\ GoneIsEmpty'
    BY <1>1 DEF TypeOK, DownIsCurrent, GoneIsEmpty, Settle
  <1> QED BY <1>1, <1>2, <1>3

LEMMA OpenKeeps ==
  ASSUME IInv, Open PROVE IInv'
  <1> USE DEF IInv, Open, client
  <1>1. up' \in Seq(Frames) /\ ToSet(up') \subseteq ToSet(up) \cup ToSet(queue)
    BY ConcatElements DEF TypeOK
  <1>2. ToSet(queue') = {}
    BY DEF ToSet
  <1>3. FramesSound' /\ PendingIds'
    BY <1>1, <1>2, StillSound DEF UnderWay
  <1>4. TypeOK' /\ DownIsCurrent' /\ GoneIsEmpty'
    BY <1>1 DEF TypeOK, DownIsCurrent, GoneIsEmpty, Links
  <1>5. PendingIsUnsettled' /\ UnmadeIsFresh' /\ OwnAnswer'
    BY DEF PendingIsUnsettled, UnmadeIsFresh, OwnAnswer, Made
  <1> QED BY <1>3, <1>4, <1>5

LEMMA CutElements ==
  ASSUME IInv, Cut
  PROVE  /\ up' \in Seq(Frames) /\ ToSet(up') \subseteq ToSet(up)
         /\ down' = <<>> /\ ToSet(down') = {}
  <1>1. PICK n \in 0..Len(up) : up' = SubSeq(up, 1, n)
    BY DEF Cut
  <1>2. up \in Seq(Frames) /\ n \in Nat /\ n <= Len(up)
    BY DEF IInv, TypeOK
  <1>3. up' \in Seq(Frames) /\ ToSet(up') \subseteq ToSet(up)
    BY <1>1, <1>2, SubSeqElements
  <1> QED BY <1>3 DEF Cut, ToSet

LEMMA CloseKeeps ==
  ASSUME IInv, Close PROVE IInv'
  <1> USE DEF IInv, Close
  <1>1. /\ outcome' \in [Reqs -> Outcomes] /\ pending' \in SUBSET Reqs
        /\ PendingIsUnsettled' /\ UnmadeIsFresh' /\ OwnAnswer'
    BY SettleKeeps, ReqsAssumption DEF Outcomes
  <1>2. FramesSound' /\ PendingIds'
    <2>1. ToSet(queue') = {}
      BY DEF ToSet
    <2> QED BY <2>1, CutElements, StillSound DEF UnderWay, Settle
  <1>3. TypeOK'
    <2>1. up' \in Seq(Frames) /\ down' \in Seq(Frames) /\ queue' \in Seq(Frames)
      BY CutElements
    <2> QED BY <1>1, <2>1 DEF TypeOK, Links
  <1>4. DownIsCurrent' /\ GoneIsEmpty'
    BY CutElements DEF DownIsCurrent, GoneIsEmpty, Settle
  <1> QED BY <1>1, <1>2, <1>3, <1>4

LEMMA SeverKeeps ==
  ASSUME IInv, Sever PROVE IInv'
  <1> USE DEF IInv, Sever, client
  <1>1. FramesSound' /\ PendingIds'
    BY CutElements, StillSound DEF UnderWay
  <1>2. TypeOK'
    <2>1. up' \in Seq(Frames) /\ down' \in Seq(Frames)
      BY CutElements
    <2> QED BY <2>1 DEF TypeOK, Links
  <1>3. DownIsCurrent' /\ GoneIsEmpty'
    BY CutElements DEF DownIsCurrent, GoneIsEmpty
  <1>4. PendingIsUnsettled' /\ UnmadeIsFresh' /\ OwnAnswer'
    BY DEF PendingIsUnsettled, UnmadeIsFresh, OwnAnswer, Made
  <1> QED BY <1>1, <1>2, <1>3, <1>4

\* A new connection has no frames under way: those there are, are older.
LEMMA ReconnectKeeps ==
  ASSUME IInv, Reconnect PROVE IInv'
  <1> USE DEF IInv, Reconnect
  <1>1. TypeOK'
    BY MaxConnsAssumption DEF TypeOK, Conns, Links
  <1>2. FramesSound'
    <2>1. ASSUME NEW f \in UnderWay PROVE Sound(f)'
      <3>1. f \in Frames /\ Sound(f)
        BY SetOfSeq DEF UnderWay, TypeOK, FramesSound
      <3>2. f.conn \in Int /\ conn \in Int
        BY <3>1, MaxConnsAssumption DEF Frames, Conns, TypeOK
      <3> QED BY <3>1, <3>2 DEF Sound
    <2> QED BY <2>1 DEF FramesSound, UnderWay
  <1>3. PendingIds' /\ DownIsCurrent' /\ GoneIsEmpty'
    BY DEF PendingIds, DownIsCurrent, GoneIsEmpty, ToSet
  <1>4. PendingIsUnsettled' /\ UnmadeIsFresh' /\ OwnAnswer'
    BY DEF PendingIsUnsettled, UnmadeIsFresh, OwnAnswer, Made
  <1> QED BY <1>1, <1>2, <1>3, <1>4

LEMMA ReceiveKeeps ==
  ASSUME IInv, Receive PROVE IInv'
  <1> USE DEF IInv, Receive, client
  <1>1. /\ up' \in Seq(Frames) /\ ToSet(up') \subseteq ToSet(up)
        /\ Head(up) \in ToSet(up) /\ Head(up) \in Frames
    BY TailElements DEF TypeOK
  <1>2. /\ serving' \in Seq(Frames)
        /\ ToSet(serving') \subseteq ToSet(serving) \cup {Head(up)}
    BY <1>1, AppendElements DEF TypeOK
  <1>3. FramesSound' /\ PendingIds'
    BY <1>1, <1>2, StillSound DEF UnderWay
  <1>4. TypeOK' /\ DownIsCurrent' /\ GoneIsEmpty'
    BY <1>1, <1>2 DEF TypeOK, DownIsCurrent, GoneIsEmpty
  <1>5. PendingIsUnsettled' /\ UnmadeIsFresh' /\ OwnAnswer'
    BY DEF PendingIsUnsettled, UnmadeIsFresh, OwnAnswer, Made
  <1> QED BY <1>3, <1>4, <1>5

\* A response goes out only on the connection its request came in by.
LEMMA FinishKeeps ==
  ASSUME IInv, NEW i \in DOMAIN serving, Finish(i) PROVE IInv'
  <1> USE DEF IInv, Finish, client
  <1>1. serving[i] \in ToSet(serving) /\ serving[i] \in Frames
    BY DEF TypeOK, ToSet
  <1>2. serving' \in Seq(Frames) /\ ToSet(serving') \subseteq ToSet(serving)
    BY RemoveElements DEF TypeOK
  <1>3. /\ down' \in Seq(Frames)
        /\ ToSet(down') \subseteq ToSet(down) \cup {serving[i]}
        /\ \/ ToSet(down') \subseteq ToSet(down) /\ down' = down
           \/ link = "open" /\ serving[i].conn = conn
    BY <1>1, AppendElements DEF TypeOK
  <1>4. FramesSound' /\ PendingIds'
    BY <1>1, <1>2, <1>3, StillSound DEF UnderWay
  <1>5. TypeOK' /\ DownIsCurrent' /\ GoneIsEmpty'
    BY <1>2, <1>3 DEF TypeOK, DownIsCurrent, GoneIsEmpty
  <1>6. PendingIsUnsettled' /\ UnmadeIsFresh' /\ OwnAnswer'
    BY DEF PendingIsUnsettled, UnmadeIsFresh, OwnAnswer, Made
  <1> QED BY <1>4, <1>5, <1>6

LEMMA NextIInv == IInv /\ [Next]_vars => IInv'
  <1> SUFFICES ASSUME IInv, [Next]_vars PROVE IInv'
    OBVIOUS
  <1>1. CASE \E q \in Reqs : Request(q)
    BY <1>1, RequestKeeps
  <1>2. CASE \E q \in Reqs : RequestClosed(q)
    BY <1>2, RequestClosedKeeps
  <1>3. CASE \E q \in Reqs : Timeout(q)
    BY <1>3, TimeoutKeeps
  <1>4. CASE Respond
    BY <1>4, RespondKeeps
  <1>5. CASE Open
    BY <1>5, OpenKeeps
  <1>6. CASE Drop \/ HeartbeatTimeout
    BY <1>6, CloseKeeps DEF Drop, HeartbeatTimeout
  <1>7. CASE Sever
    BY <1>7, SeverKeeps
  <1>8. CASE Reconnect
    BY <1>8, ReconnectKeeps
  <1>9. CASE Receive
    BY <1>9, ReceiveKeeps
  <1>10. CASE \E i \in DOMAIN serving : Finish(i)
    BY <1>10, FinishKeeps
  <1>11. CASE UNCHANGED vars
    BY <1>11 DEF vars, client, IInv, TypeOK, FramesSound, UnderWay, Sound,
       DownIsCurrent, PendingIds, GoneIsEmpty, UnmadeIsFresh,
       PendingIsUnsettled, OwnAnswer, Made
  <1> QED
    BY <1>1, <1>2, <1>3, <1>4, <1>5, <1>6, <1>7, <1>8, <1>9, <1>10, <1>11
    DEF Next

LEMMA AlwaysIInv == Spec => []IInv
  BY InitIInv, NextIInv, PTL DEF Spec

------------------------------------------------------------------------------
\* The types of the channel's state: JsonRpcClient, WebSocketTransport.
THEOREM TypeCorrect == Spec => []TypeOK
  <1>1. IInv => TypeOK
    BY DEF IInv
  <1> QED BY <1>1, AlwaysIInv, PTL

\* A promise that is not settled is in the pending map of the client in use,
\* and nothing else is: no reconnection forgets one.
THEOREM PendingAlwaysUnsettled == Spec => []PendingIsUnsettled
  <1>1. IInv => PendingIsUnsettled
    BY DEF IInv
  <1> QED BY <1>1, AlwaysIInv, PTL

\* A promise gets the result of its own request, although ids start again
\* with each client and handlers outlive their connection.
THEOREM AlwaysOwnAnswer == Spec => []OwnAnswer
  <1>1. IInv => OwnAnswer
    BY DEF IInv
  <1> QED BY <1>1, AlwaysIInv, PTL
==============================================================================
