------------------------------ MODULE Compaction -------------------------------
(***************************************************************************)
(* Compacting the context by hand: the loading marker, the stop button and *)
(* the estimate the tab shows (App.tsx), around the engine's compaction    *)
(* (vagus-engine.ts).  The tab's flag and its estimate serve all sessions. *)
(***************************************************************************)
EXTENDS Naturals, Sequences, FiniteSets, Functions

CONSTANTS Sessions, None,
          MaxAsked     \* bound on what the user does

\* Assumed of the constants, where a module gives them values.
CompactAssumption == MaxAsked \in Nat /\ None \notin Sessions

VARIABLES
  active,      \* activeId
  marks,       \* loading markers in each slot
  compacting,  \* the tab's flag
  override,    \* contextOverride: the session it was taken from
  known,       \* pi knows the occupancy of the context (tokens is a number)
  runs,        \* sessions the engine compacts
  wire,        \* requests on the way
  answers,     \* answers on the way
  asked,       \* what the user did so far
  strayed      \* observation: not on screen when their compaction ended

vars == <<active, marks, compacting, override, known, runs, wire, answers,
          asked, strayed>>

Requests == [op : {"info", "compact", "abort"}, s : Sessions]
Answers == [op : {"info", "compacted", "failed"}, s : Sessions, known : BOOLEAN]
TypeOK ==
  /\ active \in Sessions /\ marks \in [Sessions -> 0..MaxAsked]
  /\ compacting \in BOOLEAN /\ override \in Sessions \cup {None}
  /\ known \in [Sessions -> BOOLEAN] /\ runs \cup strayed \subseteq Sessions
  /\ wire \in Seq(Requests) /\ answers \in Seq(Answers) /\ asked \in 0..MaxAsked

Init ==
  /\ active \in Sessions /\ marks = [s \in Sessions |-> 0]
  /\ compacting = FALSE /\ override = None /\ runs = {} /\ strayed = {}
  /\ known = [s \in Sessions |-> TRUE] /\ wire = <<>> /\ answers = <<>>
  /\ asked = 0

Asks == asked < MaxAsked /\ asked' = asked + 1
Ask(op) == wire' = Append(wire, [op |-> op, s |-> active'])
Reply(op, s) ==
  answers' = Append(answers, [op |-> op, s |-> s, known |-> known'[s]])

\* openSession: the info of the session is asked.
Activate(s) ==
  /\ s # active /\ Asks /\ active' = s /\ Ask("info")
  /\ UNCHANGED <<marks, compacting, override, known, runs, answers, strayed>>

\* A turn ends: the tab that shows its session asks for the info.
Turn(s) ==
  /\ s \notin runs /\ Asks /\ known' = [known EXCEPT ![s] = TRUE]
  /\ UNCHANGED active /\ IF s = active THEN Ask("info") ELSE UNCHANGED wire
  /\ UNCHANGED <<marks, compacting, override, runs, answers, strayed>>

\* compact: the marker goes to the slot on screen.
Compact ==
  /\ Asks /\ UNCHANGED active /\ Ask("compact")
  /\ active \notin runs /\ [op |-> "compact", s |-> active] \notin Range(wire)
  /\ marks' = [marks EXCEPT ![active] = @ + 1] /\ compacting' = TRUE
  /\ UNCHANGED <<override, known, runs, answers, strayed>>

\* onStop, for the session on screen, whichever is compacted.
StopButton == compacting
AbortCompaction ==
  /\ StopButton /\ Asks /\ UNCHANGED active /\ Ask("abort")
  /\ UNCHANGED <<marks, compacting, override, known, runs, answers, strayed>>

\* The daemon takes the next request.
Handle ==
  LET r == Head(wire) IN
  /\ wire # <<>> /\ wire' = Tail(wire) /\ UNCHANGED known
  /\ \/ r.op = "info" /\ Reply("info", r.s) /\ UNCHANGED runs
     \/ r.op = "compact" /\ runs' = runs \cup {r.s} /\ UNCHANGED answers
     \/ /\ r.op = "abort" /\ runs' = runs \ {r.s}
        /\ IF r.s \in runs THEN Reply("failed", r.s) ELSE UNCHANGED answers
  /\ UNCHANGED <<active, marks, compacting, override, asked, strayed>>

\* compactSession ends: pi forgets the occupancy, or finds nothing to do.
Compacted(s) ==
  /\ s \in runs /\ runs' = runs \ {s}
  /\ \/ known' = [known EXCEPT ![s] = FALSE] /\ Reply("compacted", s)
     \/ UNCHANGED known /\ Reply("failed", s)
  /\ UNCHANGED <<active, marks, compacting, override, wire, asked, strayed>>

\* The answer to compact: its marker is looked for in the slot on screen.
KeepsMark(s) == marks
WithoutMark(s) == IF s = active THEN [marks EXCEPT ![s] = @ - 1] ELSE marks
CompactEnds(a) ==
  /\ a.op \in {"compacted", "failed"} /\ compacting' = FALSE
  /\ marks' = WithoutMark(a.s)
  /\ strayed' = IF a.s = active THEN strayed ELSE strayed \cup {a.s}
  /\ IF a.op = "failed" THEN UNCHANGED <<override, wire>>
     ELSE override' = a.s /\ wire' = Append(wire, [op |-> "info", s |-> a.s])

\* fetchSessionInfo's answer: a number of pi's own ends the estimate.
InfoArrives(a) ==
  /\ a.op = "info" /\ override' = IF a.known THEN None ELSE override
  /\ UNCHANGED <<marks, compacting, wire, strayed>>

Arrive ==
  /\ answers # <<>> /\ answers' = Tail(answers)
  /\ CompactEnds(Head(answers)) \/ InfoArrives(Head(answers))
  /\ UNCHANGED <<active, known, runs, asked>>

Next ==
  \/ \E s \in Sessions : Activate(s) \/ Turn(s) \/ Compacted(s)
  \/ Compact \/ AbortCompaction \/ Handle \/ Arrive

Spec == Init /\ [][Next]_vars

------------------------------------------------------------------------------
OnTheWay(s) == \E a \in Range(wire) \cup Range(answers) : a.s = s
Compacts(s) == s \in runs \/ \E a \in Range(wire) \cup Range(answers) :
                 a.s = s /\ a.op \in {"compact", "compacted", "failed"}

\* A loading marker goes with its compaction, the stop button with the last
\* one, and the estimate stays only while the occupancy of the session on
\* screen is not known; unless the user looked at another session when a
\* compaction ended.
MarksEnd ==
  /\ \A s \in Sessions \ strayed : ~Compacts(s) => marks[s] = 0
  /\ compacting => \E s \in Sessions : Compacts(s)
  /\ override # None /\ strayed = {} /\ ~OnTheWay(active) => ~known[active]
==============================================================================
