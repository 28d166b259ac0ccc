------------------------------ MODULE SteerQueue ------------------------------
(***************************************************************************)
(* Messages sent while the agent works wait in pi's steering queue and are *)
(* shown above the input of every tab until they are taken or cancelled.   *)
(* pi keeps two lists, the texts it displays and the messages the agent    *)
(* loop takes; they drain at different moments, and cancelQueuedMessage    *)
(* (vagus-engine.ts) edits both.                                           *)
(***************************************************************************)
EXTENDS Naturals, Sequences, FiniteSets, SequencesExt

CONSTANTS Tabs, Texts,
          MaxSent    \* bound on messages sent

\* Assumed of the constants, where a module gives them values.
SteerAssumption == MaxSent \in Nat

VARIABLES
  display,  \* AgentSession._steeringMessages
  agent,    \* Agent.steeringQueue.messages
  taken,    \* the message the loop has taken and not announced yet
  busy,     \* a turn runs
  wire,     \* session.queue_update events on the way to each tab
  rail,     \* slot.queued of each tab
  cancels,  \* session.cancelQueued on the way
  sent,     \* messages sent so far
  reset,    \* observation: tabs that loaded the session since their last event
  crossed   \* observation: a message was cancelled that the loop had taken

engineVars == <<display, agent, taken, busy>>
vars == <<engineVars, wire, rail, cancels, sent, reset, crossed>>

TypeOK ==
  /\ {display, agent} \subseteq Seq(Texts) /\ busy \in BOOLEAN
  /\ \A t \in Tabs : wire[t] \in Seq(Seq(Texts)) /\ rail[t] \in Seq(Texts)
  /\ cancels \in Seq(Texts) /\ sent \in 0..MaxSent
  /\ taken \in {<<>>} \cup {<<x>> : x \in Texts}
  /\ reset \subseteq Tabs /\ crossed \in BOOLEAN

Init ==
  /\ display = <<>> /\ agent = <<>> /\ busy = FALSE
  /\ wire = [t \in Tabs |-> <<>>] /\ rail = [t \in Tabs |-> <<>>]
  /\ cancels = <<>> /\ sent = 0 /\ taken = <<>>
  /\ reset = {} /\ crossed = FALSE

\* session.queue_update, to every tab
Emit == wire' = [t \in Tabs |-> Append(wire[t], display')]

\* A prompt starts a turn, or is queued in the one that runs.
Send(x) ==
  /\ sent < MaxSent /\ sent' = sent + 1
  /\ IF busy
     THEN /\ display' = Append(display, x) /\ agent' = Append(agent, x)
          /\ Emit /\ UNCHANGED busy
     ELSE busy' = TRUE /\ UNCHANGED <<display, agent, wire>>
  /\ UNCHANGED <<taken, rail, cancels, reset, crossed>>

\* The loop takes the next message.
Take ==
  /\ busy /\ taken = <<>> /\ agent # <<>>
  /\ taken' = <<Head(agent)>> /\ agent' = Tail(agent)
  /\ UNCHANGED <<display, busy, wire, rail, cancels, sent, reset, crossed>>

\* And announces it (message_start): pi drops the first such text it displays.
Announce ==
  /\ taken # <<>> /\ taken' = <<>>
  /\ display' = RemoveFirst(display, Head(taken))
  /\ IF display' = display THEN UNCHANGED wire ELSE Emit
  /\ UNCHANGED <<agent, busy, rail, cancels, sent, reset, crossed>>

EndTurn ==
  /\ busy /\ agent = <<>> /\ taken = <<>> /\ busy' = FALSE
  /\ UNCHANGED <<display, agent, taken, wire, rail, cancels, sent, reset, crossed>>

OnRail(t, x) == Contains(rail[t], x)  \* each line of the rail has a button
\* The tab drops every message of that text at once (queueRemove), the daemon
\* one of them, from both lists (cancelQueuedMessage).
AskCancel(t, x) ==
  /\ OnRail(t, x) /\ Len(cancels) < MaxSent
  /\ rail' = [rail EXCEPT ![t] = SelectSeq(@, LAMBDA y : y # x)]
  /\ cancels' = Append(cancels, x)
  /\ UNCHANGED <<engineVars, wire, sent, reset, crossed>>

NoEmit == UNCHANGED wire
CancelledEmits == Emit
Cancel ==
  /\ cancels # <<>> /\ cancels' = Tail(cancels)
  /\ display' = RemoveFirst(display, Head(cancels))
  /\ agent' = RemoveFirst(agent, Head(cancels))
  /\ IF <<display', agent'>> = <<display, agent>> THEN UNCHANGED wire
     ELSE CancelledEmits
  /\ crossed' = (crossed \/ taken = <<Head(cancels)>>)
  /\ UNCHANGED <<taken, busy, rail, sent, reset>>

\* The rail is rebuilt from the event.
Update(t) ==
  /\ wire[t] # <<>>
  /\ rail' = [rail EXCEPT ![t] = Head(wire[t])]
  /\ wire' = [wire EXCEPT ![t] = Tail(@)] /\ reset' = reset \ {t}
  /\ UNCHANGED <<engineVars, cancels, sent, crossed>>

\* A tab loads the session it has nothing of: loadHistory starts its slot
\* anew, whatever waits.
Load(t) ==
  /\ rail' = [rail EXCEPT ![t] = <<>>] /\ reset' = reset \cup {t}
  /\ UNCHANGED <<engineVars, wire, cancels, sent, crossed>>

Next ==
  \/ \E x \in Texts : Send(x) \/ \E t \in Tabs : AskCancel(t, x)
  \/ Take \/ Announce \/ EndTurn \/ Cancel
  \/ \E t \in Tabs : Update(t) \/ Load(t)

Spec == Init /\ [][Next]_vars

------------------------------------------------------------------------------
\* When nothing is on the way, every tab shows the messages that wait in pi's
\* queue, equal ones as often as they wait and none that was cancelled, save a
\* tab that loaded the session since: it shows none until the next event.  And
\* what pi displays is what its loop has taken and not announced, then what it
\* will take, until a message is cancelled that the loop has taken: that one
\* is still delivered, and takes an equal one off the display.
QueueShown ==
  /\ cancels = <<>> =>
       \A t \in Tabs : wire[t] = <<>> =>
         rail[t] = display \/ (t \in reset /\ rail[t] = <<>>)
  /\ ~crossed => display = taken \o agent
==============================================================================
