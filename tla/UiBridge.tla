------------------------------ MODULE UiBridge -------------------------------
(***************************************************************************)
(* ExtensionUiBridge and the cards the browser shows for it.  An extension *)
(* asks through ctx.ui and waits; the daemon keeps the question in         *)
(* uiPending and pushes it to every open browser tab, where it becomes a   *)
(* card.  A tab answers with the ui.respond request; answered questions go *)
(* to ui-history on disk.  A tab that connects asks for what is pending    *)
(* and for the history.                                                    *)
(*                                                                         *)
(* One WebSocket per tab carries both directions in order; when it breaks, *)
(* what is under way in it is lost.  The module is about one conversation. *)
(***************************************************************************)
EXTENDS Naturals, Sequences, FiniteSets

CONSTANTS
  Dialogs,   \* questions, each with its UUID
  Timed,     \* those asked with a timeout
  Tabs,      \* browser tabs
  Answers,   \* what a user can answer
  Cancelled, \* the answer of a dialog that is dismissed or times out
  MaxRuns    \* bound on the agent runs of the conversation

ASSUME BridgeAssumption ==
  /\ Timed \subseteq Dialogs
  /\ Cancelled \in Answers
  /\ MaxRuns \in Nat

VARIABLES
  asked,    \* what became of each question
  outcome,  \* what ctx.ui resolved to
  pending,  \* uiPending
  history,  \* the lines of ui-history
  counter,  \* turnCounters: 0 when the daemon has no entry
  runs,     \* observation: agent runs of the conversation so far
  turnOf,   \* the turn stamped on each question
  runOf,    \* observation: the agent run each question was asked in
  link,     \* state of each tab's WebSocket
  up, down, \* requests to the daemon, and messages from it
  cards     \* the cards each tab shows

dialog == <<asked, outcome, pending, history>>
turns  == <<counter, runs, turnOf, runOf>>
vars   == <<dialog, turns, link, up, down, cards>>

Line == [d : Dialogs, r : Answers]
Card == [d : Dialogs, status : {"pending"}] \cup [d : Dialogs, status : {"answered"}, r : Answers]
Request == [kind : {"ui.pending", "ui.history"}] \cup [kind : {"ui.respond"}, d : Dialogs, r : Answers]
Message == [kind : {"ui.request"}, d : Dialogs] \cup [kind : {"pending"}, ds : SUBSET Dialogs]
             \cup [kind : {"history"}, lines : SUBSET Line]

TypeOK ==
  /\ asked \in [Dialogs -> {"new", "open", "answered", "expired", "lost"}]
  /\ outcome \in [Dialogs -> Answers]
  /\ pending \in SUBSET Dialogs
  /\ history \in SUBSET Line
  /\ counter \in Nat /\ runs \in Nat
  /\ turnOf \in [Dialogs -> Nat] /\ runOf \in [Dialogs -> Nat]
  /\ link \in [Tabs -> {"up", "down"}]
  /\ up \in [Tabs -> Seq(Request)]
  /\ down \in [Tabs -> Seq(Message)]
  /\ cards \in [Tabs -> SUBSET Card]

Init ==
  /\ asked = [d \in Dialogs |-> "new"]
  /\ outcome = [d \in Dialogs |-> Cancelled]
  /\ pending = {}
  /\ history = {}
  /\ counter = 0 /\ runs = 0
  /\ turnOf = [d \in Dialogs |-> 0]
  /\ runOf = [d \in Dialogs |-> 0]
  /\ link = [t \in Tabs |-> "down"]
  /\ up = [t \in Tabs |-> <<>>]
  /\ down = [t \in Tabs |-> <<>>]
  /\ cards = [t \in Tabs |-> {}]

AskCard(d) == [d |-> d, status |-> "pending"]
AnsweredCard(d, r) == [d |-> d, status |-> "answered", r |-> r]

\* broadcast: every tab whose socket is open.
Broadcast(m) == down' = [t \in Tabs |-> IF link[t] = "up" THEN Append(down[t], m) ELSE down[t]]

------------------------------------------------------------------------------
(***************************************************************************)
(* The daemon                                                              *)
(***************************************************************************)

\* nextTurn, at agent_start.  Without an entry the counter starts from the
\* highest turn that an answered question recorded.
NextTurn ==
  /\ runs < MaxRuns
  /\ runs' = runs + 1
  /\ \E base \in {0} \cup {turnOf[l.d] : l \in history} :
       /\ \A l \in history : turnOf[l.d] <= base
       /\ counter' = IF counter # 0 THEN counter + 1 ELSE IF base > 0 THEN base ELSE 1
  /\ UNCHANGED <<dialog, turnOf, runOf, link, up, down, cards>>

\* request: the extension's promise waits in uiPending.
Ask(d) ==
  /\ runs > 0
  /\ asked[d] = "new"
  /\ asked' = [asked EXCEPT ![d] = "open"]
  /\ pending' = pending \cup {d}
  /\ turnOf' = [turnOf EXCEPT ![d] = counter]
  /\ runOf' = [runOf EXCEPT ![d] = runs]
  /\ Broadcast([kind |-> "ui.request", d |-> d])
  /\ UNCHANGED <<outcome, history, counter, runs, link, up, cards>>

\* The timeout resolves the promise; nobody is told.
TimeoutKeepsEntry(d) ==
  /\ d \in Timed \cap pending
  /\ asked' = [asked EXCEPT ![d] = "expired"]
  /\ outcome' = [outcome EXCEPT ![d] = Cancelled]
  /\ UNCHANGED <<pending, history, turns, link, up, down, cards>>
Timeout(d) ==
  /\ d \in Timed \cap pending
  /\ pending' = pending \ {d}
  /\ asked' = [asked EXCEPT ![d] = "expired"]
  /\ outcome' = [outcome EXCEPT ![d] = Cancelled]
  /\ UNCHANGED <<history, turns, link, up, down, cards>>

\* resolveUi: only the first answer counts.
ResolveAgain(d, r) ==
  /\ asked' = [asked EXCEPT ![d] = IF d \in pending THEN "answered" ELSE @]
  /\ outcome' = [outcome EXCEPT ![d] = IF d \in pending THEN r ELSE @]
  /\ history' = history \cup {[d |-> d, r |-> r]}
  /\ pending' = pending \ {d}
ResolveUi(d, r) ==
  IF d \in pending
    THEN /\ pending' = pending \ {d}
         /\ history' = history \cup {[d |-> d, r |-> r]}
         /\ asked' = [asked EXCEPT ![d] = "answered"]
         /\ outcome' = [outcome EXCEPT ![d] = r]
    ELSE UNCHANGED dialog

\* The handlers of the three requests run to their end at once, and the
\* answers leave in the order of the requests.
HandleQuery(t) ==
  /\ up[t] # <<>>
  /\ Head(up[t]).kind # "ui.respond"
  /\ up' = [up EXCEPT ![t] = Tail(@)]
  /\ down' = [down EXCEPT ![t] = Append(@,
                IF Head(up[t]).kind = "ui.pending" THEN [kind |-> "pending", ds |-> pending]
                ELSE [kind |-> "history", lines |-> history])]
  /\ UNCHANGED <<dialog, turns, link, cards>>

HandleRespond(t) ==
  /\ up[t] # <<>>
  /\ Head(up[t]).kind = "ui.respond"
  /\ up' = [up EXCEPT ![t] = Tail(@)]
  /\ ResolveUi(Head(up[t]).d, Head(up[t]).r)
  /\ UNCHANGED <<turns, link, down, cards>>

\* ui.respond from elsewhere: the client on the daemon's stdin.
StdioRespond(d, r) ==
  /\ asked[d] # "new"
  /\ ResolveUi(d, r)
  /\ UNCHANGED <<turns, link, up, down, cards>>

\* The daemon is restarted: memory goes, with the extensions that wait and
\* every socket; ui-history stays.
Restart ==
  /\ counter # 0
  /\ asked' = [d \in Dialogs |-> IF asked[d] = "open" THEN "lost" ELSE asked[d]]
  /\ pending' = {}
  /\ counter' = 0
  /\ link' = [t \in Tabs |-> "down"]
  /\ up' = [t \in Tabs |-> <<>>]
  /\ down' = [t \in Tabs |-> <<>>]
  /\ UNCHANGED <<outcome, history, runs, turnOf, runOf, cards>>

------------------------------------------------------------------------------
(***************************************************************************)
(* A tab                                                                   *)
(***************************************************************************)

\* A fresh client: the effect on [client] asks for both lists.
Connect(t) ==
  /\ link[t] = "down"
  /\ link' = [link EXCEPT ![t] = "up"]
  /\ up' = [up EXCEPT ![t] = <<[kind |-> "ui.pending"], [kind |-> "ui.history"]>>]
  /\ UNCHANGED <<dialog, turns, down, cards>>

\* The socket breaks; the cards stay on the screen.
Disconnect(t) ==
  /\ link[t] = "up"
  /\ link' = [link EXCEPT ![t] = "down"]
  /\ up' = [up EXCEPT ![t] = <<>>]
  /\ down' = [down EXCEPT ![t] = <<>>]
  /\ UNCHANGED <<dialog, turns, cards>>

\* The page is closed or reloaded while it has no socket.
Reload(t) ==
  /\ link[t] = "down"
  /\ cards[t] # {}
  /\ cards' = [cards EXCEPT ![t] = {}]
  /\ UNCHANGED <<dialog, turns, link, up, down>>

\* handleUiRequest appends a card.
ShowRequest(t, m) == cards' = [cards EXCEPT ![t] = @ \cup {AskCard(m.d)}]

\* The answer to ui.pending replaces all cards, unless it is empty.
KeepCards(t, m) == UNCHANGED cards
ShowPending(t, m) ==
  cards' = [cards EXCEPT ![t] = IF m.ds = {} THEN @ ELSE {AskCard(d) : d \in m.ds}]

\* The answer to ui.history is appended.
ShowLines(t, m) == cards' = [cards EXCEPT ![t] = @ \cup m.lines]
ShowHistory(t, m) ==
  cards' = [cards EXCEPT ![t] = @ \cup {AnsweredCard(l.d, l.r) : l \in m.lines}]

Deliver(t) ==
  /\ down[t] # <<>>
  /\ down' = [down EXCEPT ![t] = Tail(@)]
  /\ LET m == Head(down[t])
     IN \/ m.kind = "ui.request" /\ ShowRequest(t, m)
        \/ m.kind = "pending" /\ ShowPending(t, m)
        \/ m.kind = "history" /\ ShowHistory(t, m)
  /\ UNCHANGED <<dialog, turns, link, up>>

\* onUiCardRespond: the card is answered at once; the request is dropped
\* when there is no socket, and nobody looks at its result.
Respond(t, d, r) ==
  /\ AskCard(d) \in cards[t]
  /\ cards' = [cards EXCEPT ![t] =
                 {c \in @ : c.d # d} \cup {AnsweredCard(d, r)}]
  /\ up' = IF link[t] = "up"
             THEN [up EXCEPT ![t] = Append(@, [kind |-> "ui.respond", d |-> d, r |-> r])]
             ELSE up
  /\ UNCHANGED <<dialog, turns, link, down>>

------------------------------------------------------------------------------
DaemonStep ==
  \/ NextTurn
  \/ \E d \in Dialogs : Ask(d)
  \/ \E d \in Dialogs : Timeout(d)
  \/ \E t \in Tabs : HandleQuery(t)
  \/ \E t \in Tabs : HandleRespond(t)
  \/ \E d \in Dialogs, r \in Answers : StdioRespond(d, r)
  \/ Restart

TabStep ==
  \/ \E t \in Tabs : Connect(t)
  \/ \E t \in Tabs : Disconnect(t)
  \/ \E t \in Tabs : Reload(t)
  \/ \E t \in Tabs : Deliver(t)
  \/ \E t \in Tabs, d \in Dialogs, r \in Answers : Respond(t, d, r)

Next == DaemonStep \/ TabStep

Spec == Init /\ [][Next]_vars

------------------------------------------------------------------------------
(***************************************************************************)
(* Properties                                                              *)
(***************************************************************************)

Settled(t) == link[t] = "up" /\ up[t] = <<>> /\ down[t] = <<>>

\* No extension waits for an answer that nobody is asked for: a connected
\* tab that has nothing under way shows a card for every pending question,
\* whatever was answered, lost or timed out before.
PendingShown ==
  \A t \in Tabs : Settled(t) => \A d \in pending : AskCard(d) \in cards[t]

\* A question of a later agent run never gets an earlier turn than one that
\* was answered, also when the daemon restarted in between and counts on from
\* the history.  (It may get the same one, and one asked before the first
\* run since the restart gets none, 0.)
TurnsRise ==
  \A d, e \in Dialogs :
    asked[d] = "answered" /\ asked[e] # "new" /\ runOf[d] < runOf[e] =>
      turnOf[e] = 0 \/ turnOf[d] <= turnOf[e]

\* The cards of a tab: every pending question has one, in its place.
CardsTrue == PendingShown /\ TurnsRise

\* The history on disk tells for each answered question what the extension
\* was told, and tells nothing of the others: late and double answers,
\* from any number of tabs, leave no trace.
HistoryTrue ==
  \A d \in Dialogs, r \in Answers :
    [d |-> d, r |-> r] \in history <=> asked[d] = "answered" /\ outcome[d] = r

\* The bridge keeps the promise of AskOnce: whatever tabs, timeouts and
\* restarts do, a question is settled once and the history agrees.
Promise == INSTANCE AskOnce WITH
  asked <- asked, outcome <- outcome, history <- history
KeepsPromise == Promise!Spec
==============================================================================
