------------------------------ MODULE Transcript ------------------------------
(***************************************************************************)
(* One conversation shown twice: the timeline a tab builds from the live   *)
(* events (chat.ts, session-store.ts), and the one it rebuilds from the    *)
(* session file after a reload, whole or page by page (readSessionPage,    *)
(* buildMessageViews, historyLoaded, prependHistory).  Both are cut into   *)
(* turns and grouped for display (messages.tsx, file-edits.ts).            *)
(*                                                                         *)
(* Numbers stand for pieces of text and for tool calls.                    *)
(***************************************************************************)
EXTENDS Naturals, FiniteSets, SequencesExt

CONSTANTS
  MaxN,    \* bound on the pieces and calls of a conversation
  MaxPage  \* page sizes tried: 1 .. MaxPage

\* Assumed of the constants, where a module gives them values.
TranscriptAssumption == MaxN \in Nat /\ MaxPage \in Nat \ {0}

VARIABLES
  entries,  \* the branch in the session file
  diffs,    \* saveToolDiff: calls whose diff the engine keeps itself
  items,    \* the tab's timeline
  open,     \* <<message>> while the model streams one, else <<>>
  todo,     \* declared calls not started yet
  busy, n

vars == <<entries, diffs, items, open, todo, busy, n>>

Blank == [role |-> "assistant", think |-> <<>>, text |-> <<>>, calls |-> <<>>,
          failed |-> FALSE]
Outcomes == {"edit", "own", "plain", "bad", "mute"}
Item(kind, what) == [kind |-> kind, what |-> what, st |-> "none", diff |-> FALSE]
Tool(c, st, diff) == [kind |-> "tool", what |-> <<c>>, st |-> st, diff |-> diff]

TypeOK ==
  /\ \A e \in ToSet(entries) : e.role \in {"user", "assistant", "result"}
  /\ diffs \subseteq 1..MaxN /\ busy \in BOOLEAN /\ n \in 0..MaxN
  /\ Len(open) <= 1 /\ (open # <<>> => busy /\ todo = <<>>)
  /\ \A i \in ToSet(items) :
       /\ i.kind \in {"user", "thinking", "assistant", "tool", "system"}
       /\ i.st \in {"none", "running", "succeeded", "failed"}

-----------------------------------------------------------------------------
(* The live timeline. *)

\* thinkingDelta, assistantDelta: a delta joins the last item of its kind.
Delta(kind, what) ==
  IF items # <<>> /\ Last(items).kind = kind
  THEN [items EXCEPT ![Len(items)].what = @ \o what]
  ELSE Append(items, Item(kind, what))

\* toolCallFinished: the last card of the call.
Finished(c, out) ==
  LET at == CHOOSE i \in DOMAIN items : items[i].kind = "tool" /\ items[i].what = <<c>>
      st == IF out = "bad" THEN "failed" ELSE "succeeded"
  IN [items EXCEPT ![at] = Tool(c, st, out \in {"edit", "own"})]

Running == {i.what[1] : i \in {x \in ToSet(items) : x.st = "running"}}
Answered == {e.call : e \in {x \in ToSet(entries) : x.role = "result"}}
Working == {c \in Running : c \notin Answered}

\* The last message asks for nothing more.
Concluded ==
  LET e == Last(entries)
  IN e.role = "assistant" /\ e.calls = <<>> /\ ~e.failed

Init ==
  /\ entries = <<>> /\ diffs = {} /\ items = <<>> /\ open = <<>> /\ todo = <<>>
  /\ busy = FALSE /\ n = 0

\* A prompt, or a steering message between two rounds: message_start.
Say ==
  /\ n < MaxN /\ open = <<>> /\ todo = <<>> /\ Working = {}
  /\ n' = n + 1 /\ busy' = TRUE
  /\ entries' = Append(entries, [role |-> "user", text |-> <<n'>>])
  /\ items' = Append(items, Item("user", <<n'>>))
  /\ UNCHANGED <<diffs, open, todo>>

\* The model begins or goes on with a message: thinking, text, then calls.
Begin ==
  /\ busy /\ open = <<>> /\ todo = <<>> /\ Working = {} /\ ~Concluded
  /\ open' = <<Blank>>
  /\ UNCHANGED <<entries, diffs, items, todo, busy, n>>

Think ==
  /\ open # <<>> /\ open[1].text = <<>> /\ open[1].calls = <<>> /\ n < MaxN
  /\ n' = n + 1 /\ open' = [open EXCEPT ![1].think = Append(@, n')]
  /\ items' = Delta("thinking", <<n'>>)
  /\ UNCHANGED <<entries, diffs, todo, busy>>

\* After a failure the retry may think the same thoughts again.
Replay ==
  LET e == Last(entries) IN
  /\ open = <<Blank>> /\ e.role = "assistant" /\ e.failed /\ e.think # <<>>
  /\ open' = <<[Blank EXCEPT !.think = e.think]>>
  /\ items' = Delta("thinking", e.think)
  /\ UNCHANGED <<entries, diffs, todo, busy, n>>

Text ==
  /\ open # <<>> /\ open[1].calls = <<>> /\ n < MaxN
  /\ n' = n + 1 /\ open' = [open EXCEPT ![1].text = Append(@, n')]
  /\ items' = Delta("assistant", <<n'>>)
  /\ UNCHANGED <<entries, diffs, todo, busy>>

Declare ==
  /\ open # <<>> /\ n < MaxN
  /\ n' = n + 1 /\ open' = [open EXCEPT ![1].calls = Append(@, n')]
  /\ UNCHANGED <<entries, diffs, items, todo, busy>>

MessageEnd ==
  /\ open # <<>> /\ open # <<Blank>>
  /\ entries' = Append(entries, open[1]) /\ todo' = open[1].calls
  /\ open' = <<>>
  /\ UNCHANGED <<diffs, items, busy, n>>

\* The stream breaks off: the message is kept, its calls never start.
MessageFails ==
  /\ open # <<>> /\ n < MaxN /\ n' = n + 1
  /\ entries' = Append(entries, [open[1] EXCEPT !.failed = TRUE])
  /\ items' = Append(items, Item("system", <<>>))
  /\ open' = <<>>
  /\ UNCHANGED <<diffs, todo, busy>>

ToolStart ==
  /\ todo # <<>>
  /\ todo' = Tail(todo) /\ items' = Append(items, Tool(Head(todo), "running", FALSE))
  /\ UNCHANGED <<entries, diffs, open, busy, n>>

\* "edit": pi's result has a diff; "own": the engine computes one; "mute": a
\* call on a path whose text did not change, which ends without an event.
ToolEnd(c, out) ==
  /\ c \in Working
  /\ entries' = Append(entries, [role |-> "result", call |-> c,
                                bad |-> out = "bad", diff |-> out = "edit"])
  /\ diffs' = IF out \in {"edit", "own"} THEN diffs \cup {c} ELSE diffs
  /\ items' = IF out = "mute" THEN items ELSE Finished(c, out)
  /\ UNCHANGED <<open, todo, busy, n>>

TurnEnd ==
  /\ busy /\ open = <<>> /\ todo = <<>> /\ Working = {}
  /\ Concluded \/ (Last(entries).role = "assistant" /\ Last(entries).failed)
  /\ busy' = FALSE
  /\ UNCHANGED <<entries, diffs, items, open, todo, n>>

Next ==
  \/ Say \/ Begin \/ Think \/ Replay \/ Text \/ Declare
  \/ MessageEnd \/ MessageFails \/ ToolStart \/ TurnEnd
  \/ \E c \in Working, out \in Outcomes : ToolEnd(c, out)

Spec == Init /\ [][Next]_vars

-----------------------------------------------------------------------------
(* The rebuilt timeline. *)

\* resultsById, with the diff of the result or the one kept by the engine.
Result(es, c) == {e \in ToSet(es) : e.role = "result" /\ e.call = c}
Card(es, c) ==
  LET r == Result(es, c)
  IN Tool(c, IF \E e \in r : e.bad THEN "failed" ELSE "succeeded",
          r # {} /\ ((\E e \in r : e.diff) \/ c \in diffs))

Positions(s, Test(_)) == SelectSeq([i \in DOMAIN s |-> i], Test)
Visible == Positions(entries, LAMBDA i : entries[i].role # "result")

\* buildMessageViews and historyLoaded: what one entry of a slice becomes.
Rebuilt(es, e) ==
  CASE e.role = "user" -> <<Item("user", e.text)>>
    [] e.role = "result" -> <<>>
    [] OTHER -> (IF e.think = <<>> THEN <<>> ELSE <<Item("thinking", e.think)>>)
                \o [c \in DOMAIN e.calls |-> Card(es, e.calls[c])]
                \o <<Item("assistant", e.text)>>

HistoryItems(es) == FlattenSeq([i \in DOMAIN es |-> Rebuilt(es, es[i])])

\* readSessionPage: `limit` visible entries before the view `before`, with
\* the results that follow them.
CutsResults(before) ==
  IF before = 0 THEN 0 ELSE Visible[before]
EndEntry(before) ==
  IF before < Len(Visible) THEN Visible[before + 1] - 1 ELSE Len(entries)
Page(before, limit) ==
  LET start == IF before > limit THEN before - limit ELSE 0
      first == IF start < Len(Visible) THEN Visible[start + 1] ELSE 1
  IN SubSeq(entries, first, EndEntry(before))

\* loadMoreHistory and prependHistory, until nothing is left.
Scrolled(limit) ==
  LET total == Len(Visible)
      pages == (total + limit - 1) \div limit
      before(k) == total - limit * (pages - k)
  IN FlattenSeq([k \in 1..pages |-> HistoryItems(Page(before(k), limit))])

-----------------------------------------------------------------------------
(* Grouping for display. *)

Of(s, kind) == SelectSeq(s, LAMBDA x : x.kind = kind)
Work(x) == x.kind \in {"thinking", "tool"}

\* The items of each turn, without a thought that the turn repeats.
Turns(s) ==
  LET u == Positions(s, LAMBDA i : s[i].kind = "user")
      end(k) == IF k = Len(u) THEN Len(s) ELSE u[k + 1] - 1
      whole(k) == SubSeq(s, u[k], end(k))
      new(t, i) == t[i].kind # "thinking" \/ \A j \in 1..(i - 1) : t[j] # t[i]
      first(t) == Positions(t, LAMBDA i : new(t, i))
  IN [k \in DOMAIN u |-> [i \in DOMAIN first(whole(k)) |->
                            whole(k)[first(whole(k))[i]]]]

\* groupChatItems: the texts that stand below the work block as the answer.
Answers(s) ==
  LET after(i) == {j \in DOMAIN s : j > i /\ s[j].kind # "system"}
      next(i) == s[Min(after(i))]
      worked(i) == (\E j \in 2..(i - 1) : s[j].kind # "assistant") \/ Work(next(i))
      final(i) == s[i].kind = "assistant" /\ (after(i) = {} \/ ~worked(i))
      at == Positions(s, final)
  IN [i \in DOMAIN at |-> s[at[i]]]

\* collectEdits and turnToolCallId: the turn's last edit, its fingerprint.
Fingerprint(s) ==
  LET edits == SelectSeq(s, LAMBDA x : x.diff)
  IN IF edits = <<>> THEN <<>> ELSE Last(edits).what

-----------------------------------------------------------------------------
Started(s) == {x.what : x \in ToSet(Of(s, "tool"))}
Said(s) == SelectSeq(Of(s, "assistant"), LAMBDA x : x.what # <<>>)
\* The turn ran to its end: no failure, and no steering message after a tool.
Settled(s) == Of(s, "system") = <<>> /\ Last(s).kind # "tool"

\* A turn as the tab showed it and as it is rebuilt.  A call of a message that
\* broke off is rebuilt although it never ran; a mute call's card still runs.
SameTurn(live, old) ==
  LET cards == SelectSeq(Of(old, "tool"), LAMBDA x : x.what \in Started(live))
      same(a, b) == a.what = b.what /\ (a.st \in {"running", b.st}) /\ a.diff = b.diff
  IN /\ Of(live, "thinking") = Of(old, "thinking")
     /\ Len(Of(live, "tool")) = Len(cards)
     /\ \A i \in DOMAIN cards : same(Of(live, "tool")[i], cards[i])
     /\ Said(live) = Said(old) /\ Fingerprint(live) = Fingerprint(old)
     /\ Settled(live) => Said(Answers(live)) = Said(Answers(old))

\* "so a reloaded session looks identical to the live conversation" (chat.ts),
\* turn by turn and up to the exceptions named above, and scrolling up page by
\* page shows the same items as loading the whole session: no result is cut
\* off from its call, no message shown twice or left out.
RebuildAgrees ==
  LET live == Turns(items)
      old == Turns(HistoryItems(entries))
  IN ~busy => /\ Len(live) = Len(old)
              /\ \A k \in DOMAIN live : SameTurn(live[k], old[k])
              /\ \A limit \in 1..MaxPage : Scrolled(limit) = HistoryItems(entries)
=============================================================================
