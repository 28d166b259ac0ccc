----------------------------- MODULE RpcChannel ------------------------------
(***************************************************************************)
(* The JSON-RPC channel between one browser tab and the daemon: the        *)
(* JsonRpcClient and WebSocketTransport that useVagusClient makes, and     *)
(* makes again after each loss of the link; and the JsonRpcServer the      *)
(* daemon makes for each connection.                                       *)
(*                                                                         *)
(* Every client counts its request ids from 0, so an id names a request    *)
(* only within its connection.                                             *)
(***************************************************************************)
EXTENDS Integers, SequencesExt

CONSTANTS
  Reqs,      \* the requests the tab makes, each once
  MaxConns   \* bound on the connections

ASSUME MaxConnsAssumption == MaxConns \in Nat \ {0}
ASSUME ReqsAssumption == Reqs \cap {"none", "closed", "timeout"} = {}

VARIABLES
  conn,    \* the number of the current connection, the tab's newest
  link,    \* its state
  nextId,  \* the current client's
  idOf,    \* the id of each request, once it is made
  pending, \* the current client's pending requests
  queue,   \* the current transport's pendingFrames
  outcome, \* how each request's promise was settled
  up,      \* request frames under way
  serving, \* requests whose handlers run, in order of arrival
  down     \* response frames under way to the current client

client == <<nextId, idOf, pending, outcome>>
vars == <<conn, link, client, queue, up, serving, down>>

\* "dead": severed, while readyState stays OPEN; "gone": closed, and the
\* reconnect timer runs.
Links   == {"connecting", "open", "dead", "gone"}
Conns   == 1..MaxConns
Unmade  == -1
Frames  == [q : Reqs, id : Nat, conn : Conns]
Outcomes == Reqs \cup {"none", "closed", "timeout"}

TypeOK ==
  /\ conn \in Conns
  /\ link \in Links
  /\ nextId \in Nat
  /\ idOf \in [Reqs -> Nat \cup {Unmade}]
  /\ pending \in SUBSET Reqs
  /\ queue \in Seq(Frames)
  /\ outcome \in [Reqs -> Outcomes]
  /\ up \in Seq(Frames)
  /\ serving \in Seq(Frames)
  /\ down \in Seq(Frames)

Init ==
  /\ conn = 1
  /\ link = "connecting"
  /\ nextId = 0
  /\ idOf = [q \in Reqs |-> Unmade]
  /\ pending = {}
  /\ queue = <<>>
  /\ outcome = [q \in Reqs |-> "none"]
  /\ up = <<>>
  /\ serving = <<>>
  /\ down = <<>>

Made == {q \in Reqs : idOf[q] # Unmade}

------------------------------------------------------------------------------
(***************************************************************************)
(* The client: JsonRpcClient                                               *)
(***************************************************************************)

Settle(qs, how) ==
  /\ outcome' = [q \in Reqs |-> IF q \in qs THEN how ELSE outcome[q]]
  /\ pending' = pending \ qs

\* WebSocketTransport.send: queued before the socket opens; into a dead
\* socket it vanishes.
Transmit(frame) ==
  /\ queue' = IF link = "connecting" THEN Append(queue, frame) ELSE queue
  /\ up' = IF link = "open" THEN Append(up, frame) ELSE up

Request(q) ==
  /\ q \notin Made
  /\ link # "gone"
  /\ idOf' = [idOf EXCEPT ![q] = nextId]
  /\ nextId' = nextId + 1
  /\ pending' = pending \cup {q}
  /\ Transmit([q |-> q, id |-> nextId, conn |-> conn])
  /\ UNCHANGED <<conn, link, outcome, serving, down>>

\* A closed client rejects at once: while the link is gone, or later from a
\* callback that still holds an older client.  (The id only marks it as made.)
RequestClosed(q) ==
  /\ q \notin Made
  /\ link = "gone" \/ conn > 1
  /\ idOf' = [idOf EXCEPT ![q] = nextId]
  /\ outcome' = [outcome EXCEPT ![q] = "closed"]
  /\ UNCHANGED <<conn, link, nextId, pending, queue, up, serving, down>>

\* handleFrame: the response goes to the pending request of that id, if any.
Respond ==
  /\ link = "open" /\ down # <<>>
  /\ down' = Tail(down)
  /\ Settle({q \in pending : idOf[q] = Head(down).id}, Head(down).q)
  /\ UNCHANGED <<conn, link, nextId, idOf, queue, up, serving>>

TimeoutResolves(q) ==
  /\ q \in pending
  /\ Settle({q}, "undefined")
  /\ UNCHANGED <<conn, link, nextId, idOf, queue, up, serving, down>>
Timeout(q) ==
  /\ q \in pending
  /\ Settle({q}, "timeout")
  /\ UNCHANGED <<conn, link, nextId, idOf, queue, up, serving, down>>

------------------------------------------------------------------------------
(***************************************************************************)
(* The link: WebSocketTransport and useVagusClient                         *)
(***************************************************************************)

OpenDropsQueue ==
  /\ link = "connecting"
  /\ link' = "open"
  /\ queue' = <<>>
  /\ UNCHANGED <<conn, client, up, serving, down>>
Open ==
  /\ link = "connecting"
  /\ link' = "open"
  /\ up' = up \o queue
  /\ queue' = <<>>
  /\ UNCHANGED <<conn, client, serving, down>>

\* Of the frames under way on the link, the network delivers some first part.
Cut ==
  /\ down' = <<>>
  /\ \E n \in 0..Len(up) : up' = SubSeq(up, 1, n)

\* notifyClosed, by which useVagusClient closes the client, which rejects
\* what is pending, and starts the reconnect timer.
CloseForgets ==
  /\ link' = "gone"
  /\ queue' = <<>>
  /\ Cut
  /\ pending' = {}
  /\ UNCHANGED <<conn, nextId, idOf, outcome, serving>>
Close ==
  /\ link' = "gone"
  /\ queue' = <<>>
  /\ Cut
  /\ Settle(pending, "closed")
  /\ UNCHANGED <<conn, nextId, idOf, serving>>

\* The socket's close event: refused, dropped by the network, or shut down
\* by the daemon.
Drop ==
  /\ link \in {"connecting", "open"}
  /\ Close

Sever ==
  /\ link = "open"
  /\ link' = "dead"
  /\ Cut
  /\ UNCHANGED <<conn, client, queue, serving>>

\* No pong within 10 s: the link is dead, or the daemon is slow.  Of the
\* socket's own close event, which comes later, closedNotified takes care.
HeartbeatTimeout ==
  /\ link \in {"open", "dead"}
  /\ Close

Reconnect ==
  /\ link = "gone"
  /\ conn < MaxConns
  /\ conn' = conn + 1
  /\ link' = "connecting"
  /\ nextId' = 0
  /\ UNCHANGED <<idOf, pending, outcome, queue, up, serving, down>>

------------------------------------------------------------------------------
(***************************************************************************)
(* The daemon: WsServerHost and JsonRpcServer                              *)
(***************************************************************************)

\* The message listener starts the handler and does not await it.
Receive ==
  /\ up # <<>>
  /\ up' = Tail(up)
  /\ serving' = Append(serving, Head(up))
  /\ UNCHANGED <<conn, link, client, queue, down>>

\* A handler ends: the response, or the error, goes to the socket the
\* request came from, if that is still open.
FinishOnNewest(i) ==
  /\ serving' = RemoveAt(serving, i)
  /\ down' = IF link = "open" THEN Append(down, serving[i]) ELSE down
  /\ UNCHANGED <<conn, link, client, queue, up>>
Finish(i) ==
  /\ serving' = RemoveAt(serving, i)
  /\ down' = IF link = "open" /\ serving[i].conn = conn
               THEN Append(down, serving[i]) ELSE down
  /\ UNCHANGED <<conn, link, client, queue, up>>

------------------------------------------------------------------------------
Next ==
  \/ \E q \in Reqs : Request(q)
  \/ \E q \in Reqs : RequestClosed(q)
  \/ \E q \in Reqs : Timeout(q)
  \/ Respond
  \/ Open
  \/ Drop
  \/ Sever
  \/ HeartbeatTimeout
  \/ Reconnect
  \/ Receive
  \/ \E i \in DOMAIN serving : Finish(i)

\* A socket opens or fails; frames are delivered; handlers end; a dead link
\* gets no pong.  Nothing is asked of the request timers.
Fairness ==
  /\ WF_vars(Open)
  /\ WF_vars(Receive)
  /\ WF_vars(Respond)
  /\ WF_vars(Len(serving) > 0 /\ Finish(1))
  /\ WF_vars(link = "dead" /\ HeartbeatTimeout)

Spec == Init /\ [][Next]_vars /\ Fairness

------------------------------------------------------------------------------
(***************************************************************************)
(* Properties                                                              *)
(***************************************************************************)

\* A promise that is not settled is in the pending map of the client in use,
\* where a response, a close or a timer will find it; nothing else is there:
\* JsonRpcClient across reconnections.
PendingIsUnsettled == pending = {q \in Made : outcome[q] = "none"}

\* A promise gets the result of its own request, although handlers end in
\* any order, outlive their connection, and ids start again with each client.
OwnAnswer == \A q \in Reqs : outcome[q] \in Reqs => outcome[q] = q

\* Every request is settled, without waiting for its timer ("fail in-flight
\* requests fast instead of hanging 5min"): the heartbeat, close.
FailFast == \A q \in Reqs : q \in pending ~> outcome[q] # "none"
==============================================================================
