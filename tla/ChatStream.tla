----------------------------- MODULE ChatStream ------------------------------
(***************************************************************************)
(* The way of streamed output from the agents to the chat timelines of one *)
(* browser tab: the engine turns agent events into domain events, one      *)
(* socket carries them in order, and useDaemonEvents dispatches them into  *)
(* the session's slot.  Text deltas do not go there at once: they gather   *)
(* in one buffer, shared by all sessions, until the next animation frame.  *)
(*                                                                         *)
(* A timeline is a sequence of "text", one for each delta, and "card", one *)
(* for each tool call, thinking block, injected user message or error.     *)
(* Deltas next to each other are the text of one message bubble.           *)
(***************************************************************************)
EXTENDS Naturals, Sequences, FiniteSets

CONSTANTS
  Sessions,
  Overlap,   \* TRUE: text blocks of different sessions may overlap in time
  Patient,   \* TRUE: no turn outlasts requestTimeoutMs but for the time its
             \* answer is under way, and the user stays with a session
             \* until the turn asked for shows
  MaxItems,  \* bound on the items an agent emits
  MaxWire    \* bound on the frames under way

ASSUME StreamAssumption ==
  /\ Overlap \in BOOLEAN /\ Patient \in BOOLEAN
  /\ MaxItems \in Nat /\ MaxWire \in Nat

VARIABLES
  prompt,  \* the engine's view of each session's prompt request
  running, \* sessions whose agent is in a turn
  block,   \* sessions with a text block that text_done has not closed
  emitted, \* observation: what each agent has put out
  cut,     \* observation: sessions whose stream broke off inside a block
  wire,    \* frames under way to the tab
  waiting, \* sessions whose prompt request is pending in the tab
  active,  \* the session on screen: activeId
  buf,     \* deltaBuf: its session, its text, and its frame request
  items,   \* the timeline of each slot
  busy     \* the slots that show a turn in progress

agent == <<prompt, running, block, emitted, cut>>
tab   == <<waiting, active, buf, items, busy>>
vars  == <<agent, wire, tab>>

\* A frame request is "none" (null), "asked", or "stale": cancelled, but
\* not null.
Rafs  == {"none", "asked", "stale"}
Item  == {"text", "card"}
Kinds == Item \cup {"text_done", "start", "end", "answer", "refusal"}

TypeOK ==
  /\ prompt \in [Sessions -> {"none", "sent", "taken"}]
  /\ running \in SUBSET Sessions
  /\ block \in SUBSET running
  /\ emitted \in [Sessions -> Seq(Item)]
  /\ cut \in SUBSET Sessions
  /\ wire \in Seq([s : Sessions, kind : Kinds])
  /\ waiting \in SUBSET Sessions
  /\ active \in Sessions
  /\ buf \in [s : Sessions, text : Seq({"text"}), raf : Rafs]
  /\ items \in [Sessions -> Seq(Item)]
  /\ busy \in SUBSET Sessions

Init ==
  /\ prompt = [s \in Sessions |-> "none"]
  /\ running = {}
  /\ block = {}
  /\ emitted = [s \in Sessions |-> <<>>]
  /\ cut = {}
  /\ wire = <<>>
  /\ waiting = {}
  /\ active \in Sessions
  /\ buf = [s |-> active, text |-> <<>>, raf |-> "none"]
  /\ items = [s \in Sessions |-> <<>>]
  /\ busy = {}

------------------------------------------------------------------------------
(***************************************************************************)
(* The engine: prompt and forwardSessionMessages                           *)
(***************************************************************************)

Send(s, kind) ==
  /\ Len(wire) < MaxWire
  /\ wire' = Append(wire, [s |-> s, kind |-> kind])
  /\ UNCHANGED tab

Emit(s, kind) ==
  /\ s \in running
  /\ Len(emitted[s]) < MaxItems
  /\ emitted' = [emitted EXCEPT ![s] = Append(@, kind)]
  /\ Send(s, kind)
  /\ UNCHANGED <<prompt, running>>

AgentStart(s) ==
  /\ prompt[s] = "sent"
  /\ prompt' = [prompt EXCEPT ![s] = "taken"]
  /\ running' = running \cup {s}
  /\ Send(s, "start")
  /\ UNCHANGED <<block, emitted, cut>>

\* No model, no such session: the prompt fails before a turn begins.
Refuse(s) ==
  /\ prompt[s] = "sent"
  /\ prompt' = [prompt EXCEPT ![s] = "none"]
  /\ Send(s, "refusal")
  /\ UNCHANGED <<running, block, emitted, cut>>

TextDelta(s) ==
  /\ ~Overlap => block \subseteq {s}
  /\ block' = block \cup {s}
  /\ Emit(s, "text")
  /\ UNCHANGED cut

TextEnd(s) ==
  /\ s \in block
  /\ block' = block \ {s}
  /\ Send(s, "text_done")
  /\ UNCHANGED <<prompt, running, emitted, cut>>

\* A tool call, thinking or an injected user message, between blocks; or
\* the error a stream breaks off with, inside one.
OtherItem(s) ==
  /\ cut' = cut \cup (block \cap {s})
  /\ Emit(s, "card")
  /\ UNCHANGED block

AgentEnd(s) ==
  /\ s \in running
  /\ running' = running \ {s}
  /\ block' = block \ {s}
  /\ Send(s, "end")
  /\ UNCHANGED <<prompt, emitted, cut>>

\* The prompt handler awaits the whole turn before it answers.
Answer(s) ==
  /\ prompt[s] = "taken" /\ s \notin running
  /\ prompt' = [prompt EXCEPT ![s] = "none"]
  /\ Send(s, "answer")
  /\ UNCHANGED <<running, block, emitted, cut>>

------------------------------------------------------------------------------
(***************************************************************************)
(* The tab: sendMessage and activate                                       *)
(***************************************************************************)

\* A prompt that begins a turn; the answers to earlier ones have arrived.
Prompt(s) ==
  /\ s = active /\ s \notin waiting /\ prompt[s] = "none"
  /\ \A i \in DOMAIN wire : ~(wire[i].s = s /\ wire[i].kind \in {"answer", "refusal"})
  /\ waiting' = waiting \cup {s}
  /\ prompt' = [prompt EXCEPT ![s] = "sent"]
  /\ UNCHANGED <<running, block, emitted, cut, wire, active, buf, items, busy>>

Activate(s) ==
  /\ s # active
  /\ Patient => waiting \subseteq busy
  /\ active' = s
  /\ UNCHANGED <<agent, wire, waiting, buf, items, busy>>

\* The catch of sendMessage: forceIdle, on the slot that is on screen by
\* then.  (The error text it adds to that timeline is left out.)
PromptFails(s) ==
  /\ waiting' = waiting \ {s}
  /\ busy' = busy \ {active}
  /\ UNCHANGED <<buf, items>>

\* The timer of the request fires: at any time, or when users are patient,
\* only while the answer is on its way.
Timeout(s) ==
  /\ s \in waiting
  /\ Patient => s = active /\ prompt[s] = "none"
  /\ PromptFails(s)
  /\ UNCHANGED <<agent, wire, active>>

------------------------------------------------------------------------------
(***************************************************************************)
(* The tab: useDaemonEvents                                                *)
(***************************************************************************)

\* The timelines after flushDelta, and the buffer it leaves.
Flushed == [items EXCEPT ![buf.s] = @ \o buf.text]
Emptied == [buf EXCEPT !.text = <<>>, !.raf = "none"]

\* The animation frame runs flushDelta.
FrameKeepsRequest ==
  /\ buf.raf = "asked"
  /\ items' = Flushed
  /\ buf' = [buf EXCEPT !.text = <<>>, !.raf = "stale"]
  /\ UNCHANGED <<agent, wire, waiting, active, busy>>
Frame ==
  /\ buf.raf = "asked"
  /\ items' = Flushed
  /\ buf' = Emptied
  /\ UNCHANGED <<agent, wire, waiting, active, busy>>

\* scheduleFlush: a delta of another session than the last one cancels the
\* frame request and drops the text that waits for it.
ScheduleFlush(s) ==
  LET switched == buf.s # s
      raf == IF switched /\ buf.raf # "none" THEN "stale" ELSE buf.raf
      text == IF switched THEN <<>> ELSE buf.text
  IN /\ buf' = [s |-> s, text |-> Append(text, "text"),
                raf |-> IF raf = "none" THEN "asked" ELSE raf]
     /\ UNCHANGED items

\* forceFlush
NoFlush == UNCHANGED <<items, buf>>
ForceFlush ==
  /\ items' = Flushed
  /\ buf' = Emptied

Arrives(kind) ==
  /\ wire # <<>> /\ Head(wire).kind = kind
  /\ wire' = Tail(wire)
  /\ UNCHANGED <<agent, active>>

HandleDelta ==
  /\ Arrives("text")
  /\ ScheduleFlush(Head(wire).s)
  /\ UNCHANGED <<waiting, busy>>

DoneShowsText ==
  /\ Arrives("text_done")
  /\ items' = [items EXCEPT ![Head(wire).s] = Append(@, "text_done")]
  /\ UNCHANGED <<waiting, buf, busy>>
HandleDone ==
  /\ Arrives("text_done")
  /\ ForceFlush
  /\ UNCHANGED <<waiting, busy>>

\* Everything else goes to the slot at once.
HandleItem ==
  /\ Arrives("card")
  /\ items' = [items EXCEPT ![Head(wire).s] = Append(@, "card")]
  /\ UNCHANGED <<waiting, buf, busy>>

HandleStart ==
  /\ Arrives("start")
  /\ busy' = busy \cup {Head(wire).s}
  /\ UNCHANGED <<waiting, buf, items>>

EndKeepsBusy ==
  /\ Arrives("end")
  /\ ForceFlush
  /\ UNCHANGED <<waiting, busy>>
HandleEnd ==
  /\ Arrives("end")
  /\ ForceFlush
  /\ busy' = busy \ {Head(wire).s}
  /\ UNCHANGED waiting

HandleAnswer ==
  /\ Arrives("answer")
  /\ waiting' = waiting \ {Head(wire).s}
  /\ UNCHANGED <<buf, items, busy>>

HandleRefusal ==
  /\ Arrives("refusal")
  /\ IF Head(wire).s \in waiting THEN PromptFails(Head(wire).s)
       ELSE UNCHANGED <<waiting, buf, items, busy>>

------------------------------------------------------------------------------
EngineStep ==
  \/ \E s \in Sessions : AgentStart(s)
  \/ \E s \in Sessions : Refuse(s)
  \/ \E s \in Sessions : TextDelta(s)
  \/ \E s \in Sessions : TextEnd(s)
  \/ \E s \in Sessions : OtherItem(s)
  \/ \E s \in Sessions : AgentEnd(s)
  \/ \E s \in Sessions : Answer(s)

UserStep ==
  \/ \E s \in Sessions : Prompt(s)
  \/ \E s \in Sessions : Activate(s)

Handle ==
  \/ HandleDelta
  \/ HandleDone
  \/ HandleItem
  \/ HandleStart
  \/ HandleEnd
  \/ HandleAnswer
  \/ HandleRefusal

Next ==
  \/ EngineStep
  \/ UserStep
  \/ Handle
  \/ Frame
  \/ \E s \in Sessions : Timeout(s)

\* The browser delivers frames and, for a tab in view, runs animation frames.
Fairness == WF_vars(Handle) /\ WF_vars(Frame)

Spec == Init /\ [][Next]_vars /\ Fairness

------------------------------------------------------------------------------
(***************************************************************************)
(* Properties                                                              *)
(***************************************************************************)

\* What has arrived of agent s's output: its timeline, and the part that waits
\* in deltaBuf.  The rest is on its way, in frames of its own.
InBuffer(s) == IF buf.s = s THEN buf.text ELSE <<>>
Arrived(s)  == items[s] \o InBuffer(s)
Frames(s)   == [s : {s}, kind : Item]

\* How many of the first n elements of q, and of all, are in the set S.
Upto(q, n, S) == Cardinality({i \in DOMAIN q : i <= n /\ q[i] \in S})
Count(q, S)   == Upto(q, Len(q), S)

\* Every delta and every card of an agent's turn is shown or still on its
\* way, in the timeline of that agent's session ("Session switch - flush any
\* stale buffer first"): scheduleFlush, forceFlush.
NothingLost ==
  \A s \in Sessions, k \in Item :
    Count(emitted[s], {k}) =
      Count(items[s], {k}) + Count(InBuffer(s), {k})
        + Count(wire, {[s |-> s, kind |-> k]})

\* Unless its stream broke off inside a block, a timeline keeps the order of
\* the agent's output, although text goes through the buffer and cards do
\* not (handleEvent): the output begins with what has arrived, and goes on
\* with what is on its way, frame by frame.
InOrder ==
  \A s \in Sessions \ cut :
    /\ Len(emitted[s]) = Len(Arrived(s)) + Count(wire, Frames(s))
    /\ \A i \in DOMAIN Arrived(s) : Arrived(s)[i] = emitted[s][i]
    /\ \A i \in DOMAIN wire : wire[i] \in Frames(s) =>
         wire[i].kind = emitted[s][Len(Arrived(s)) + Upto(wire, i, Frames(s))]

\* Text that waits for a frame gets to the screen: scheduleFlush, flushDelta.
TextShows == buf.text # <<>> ~> buf.text = <<>>

\* A slot is busy "while this session's agent is working (turn start ->
\* end)", once the frames under way have arrived: session.turn, forceIdle.
BusyTrue == wire = <<>> => busy = running
==============================================================================
