------------------------------- MODULE Browser -------------------------------
(***************************************************************************)
(* What one tab keeps beside its session slots: the queued messages above  *)
(* the input, the input bar, the sidebar's lists, the panel on the right,  *)
(* the scroll position, the timeline with its rebuilt form, the choice of  *)
(* a model, compactions and the extensions' widgets.  They share no state  *)
(* that matters to the properties, so a behaviour is one of those that     *)
(* take part in it, interleaved; the others stay where they begin.         *)
(*                                                                         *)
(* The next change of the sidebar's lists waits until they are read again, *)
(* and the user does not scroll while the code does: without that the      *)
(* promises below do not hold (SessionLists, Autoscroll).                  *)
(***************************************************************************)
EXTENDS Naturals, FiniteSets, Sequences

CONSTANTS
  None, Sessions,
  Together,                          \* who may take part in a behaviour
  Tabs, Messages, MaxSent,                                     \* SteerQueue
  Picked, Images, Drafts, Empty, Commands,                     \* InputBar
  Names, Projects, Cwd,                                        \* SessionLists
  Reviewed, Changed, Widths, DefaultWidth,                     \* ReviewPane
  MaxTop, Near, PageTop,                                       \* Autoscroll
  MaxN, MaxPage,                                               \* Transcript
  Models, Enabled, First, Auth, Reachable, Reasoning, Default,
  MaxChoices,                                                  \* ModelChoice
  MaxCompacts,                                                 \* Compaction
  Keys, Lines, MaxWire                                         \* WidgetBoard

VARIABLES
  moves,  \* who takes part in this behaviour
  display, agent, taken, busy, wire, rail, cancels, sent, reset, crossed,
  text, open, index, attached, reading, picked, handed, removed,
  place, name, pins, shown, archived, pinned, menu, jobs, scans, hidden,
  active, edits, pane, tab, review, rows, config, saved, left,
  max, top, last, near, locked, program, target, event, away, pulled,
  entries, diffs, items, message, todo, turn, n,
  chosenIn, pending, info, level, model, thinking, choices, told, asked, raced,
  seen, marks, compacting, override, known, runs, calls, answers, steps, strayed,
  registry, look, cache, status, online, asking, sends, viewed, widgets,
  statuses, panel, id, missed

queueVars ==
  <<display, agent, taken, busy, wire, rail, cancels, sent, reset, crossed>>
barVars == <<text, open, index, attached, reading, picked, handed, removed>>
listsVars ==
  <<place, name, pins, shown, archived, pinned, menu, jobs, scans, hidden>>
paneVars == <<active, edits, pane, tab, review, rows, config, saved, left>>
scrollVars ==
  <<max, top, last, near, locked, program, target, event, away, pulled>>
timelineVars == <<entries, diffs, items, message, todo, turn, n>>
choiceVars == <<chosenIn, pending, info, level, model, thinking, choices, told,
                asked, raced>>
compactVars == <<seen, marks, compacting, override, known, runs, calls, answers,
                 steps, strayed>>
boardVars == <<registry, look, cache, status, online, asking, sends, viewed,
               widgets, statuses, panel, id, missed>>
vars == <<moves, queueVars, barVars, listsVars, paneVars, scrollVars,
          timelineVars, choiceVars, compactVars, boardVars>>

Queue == INSTANCE SteerQueue WITH Texts <- Messages
Bar == INSTANCE InputBar WITH Files <- Picked, Texts <- Drafts
Lists == INSTANCE SessionLists WITH Alone <- TRUE
Pane == INSTANCE ReviewPane WITH Turns <- Reviewed, Files <- Changed
Scroll == INSTANCE Autoscroll WITH Page <- PageTop, Patient <- TRUE
Timeline == INSTANCE Transcript WITH open <- message, busy <- turn
Choice == INSTANCE ModelChoice WITH
  Offered <- Enabled, MaxAsked <- MaxChoices,
  active <- chosenIn, wire <- choices, answers <- told
Compact == INSTANCE Compaction WITH
  MaxAsked <- MaxCompacts, active <- seen, wire <- calls, asked <- steps
Board == INSTANCE WidgetBoard WITH
  Empty <- None, wire <- sends, active <- viewed

\* Assumed of the constants, where a module gives them values.
BrowserAssumption ==
  /\ Queue!SteerAssumption /\ Bar!InputAssumption /\ Lists!ListsAssumption
  /\ Pane!PaneAssumption /\ Scroll!ScrollAssumption
  /\ Timeline!TranscriptAssumption /\ Choice!ChoiceAssumption
  /\ Compact!CompactAssumption /\ Board!WidgetAssumption

Init ==
  /\ moves \in Together
  /\ Queue!Init /\ Bar!Init /\ Pane!Init /\ Scroll!Init /\ Timeline!Init
  /\ Choice!Init /\ Compact!Init /\ Board!Init /\ Lists!Init
  /\ "lists" \in moves \/ \A s \in Sessions :
       place[s] = "active" /\ name[s] = CHOOSE x \in Names : TRUE
  /\ "compact" \in moves \/ seen = CHOOSE s \in Sessions : TRUE

QueueNext ==
  /\ "queue" \in moves /\ Queue!Next
  /\ UNCHANGED <<barVars, listsVars, paneVars, scrollVars, timelineVars,
                 choiceVars, compactVars, boardVars>>
BarNext ==
  /\ "bar" \in moves /\ Bar!Next
  /\ UNCHANGED <<queueVars, listsVars, paneVars, scrollVars, timelineVars,
                 choiceVars, compactVars, boardVars>>
ListsNext ==
  /\ "lists" \in moves /\ Lists!Next
  /\ UNCHANGED <<queueVars, barVars, paneVars, scrollVars, timelineVars,
                 choiceVars, compactVars, boardVars>>
PaneNext ==
  /\ "pane" \in moves /\ Pane!Next
  /\ UNCHANGED <<queueVars, barVars, listsVars, scrollVars, timelineVars,
                 choiceVars, compactVars, boardVars>>
ScrollNext ==
  /\ "scroll" \in moves /\ Scroll!Next
  /\ UNCHANGED <<queueVars, barVars, listsVars, paneVars, timelineVars,
                 choiceVars, compactVars, boardVars>>
TimelineNext ==
  /\ "timeline" \in moves /\ Timeline!Next
  /\ UNCHANGED <<queueVars, barVars, listsVars, paneVars, scrollVars,
                 choiceVars, compactVars, boardVars>>
ChoiceNext ==
  /\ "choice" \in moves /\ Choice!Next
  /\ UNCHANGED <<queueVars, barVars, listsVars, paneVars, scrollVars,
                 timelineVars, compactVars, boardVars>>
CompactNext ==
  /\ "compact" \in moves /\ Compact!Next
  /\ UNCHANGED <<queueVars, barVars, listsVars, paneVars, scrollVars,
                 timelineVars, choiceVars, boardVars>>
BoardNext ==
  /\ "board" \in moves /\ Board!Next
  /\ UNCHANGED <<queueVars, barVars, listsVars, paneVars, scrollVars,
                 timelineVars, choiceVars, compactVars>>

Next ==
  /\ UNCHANGED moves
  /\ \/ QueueNext \/ BarNext \/ ListsNext \/ PaneNext \/ ScrollNext
     \/ TimelineNext \/ ChoiceNext \/ CompactNext \/ BoardNext

Spec == Init /\ [][Next]_vars

\* Who takes part stays in its types.
TypeOK ==
  /\ "queue" \in moves => Queue!TypeOK
  /\ "bar" \in moves => Bar!TypeOK
  /\ "lists" \in moves => Lists!TypeOK
  /\ "pane" \in moves => Pane!TypeOK
  /\ "scroll" \in moves => Scroll!TypeOK
  /\ "timeline" \in moves => Timeline!TypeOK
  /\ "choice" \in moves => Choice!TypeOK
  /\ "compact" \in moves => Compact!TypeOK
  /\ "board" \in moves => Board!TypeOK

\* What the user typed or queued is shown as it is kept (SteerQueue), and no
\* file is lost or doubled on its way into a message (InputBar).
InputKept == Queue!QueueShown /\ Bar!FilesKept

\* What the tab shows of the daemon's state is true once nothing is on the
\* way: the sidebar's lists (SessionLists), the model and the thinking level
\* (ModelChoice), the extensions' widgets and statuses (WidgetBoard).
DaemonShown == Lists!ListsTrue /\ Choice!ChoiceShown /\ Board!BoardTrue

\* A session's panel comes back as it was left (ReviewPane), the view stays
\* where the user scrolled it (Autoscroll), and the marks of a compaction go
\* with it (Compaction).
ViewKept == Pane!PaneKept /\ Scroll!LockKept /\ Compact!MarksEnd

\* A reloaded session shows the conversation the tab saw live (Transcript).
RebuildAgrees == Timeline!RebuildAgrees
===============================================================================
