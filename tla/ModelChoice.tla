------------------------------ MODULE ModelChoice ------------------------------
(***************************************************************************)
(* Choosing a model and a thinking level: what the tab shows before the    *)
(* daemon has answered (App.tsx), and what the engine does                 *)
(* (vagus-engine.ts).  Requests and answers keep their order on the one    *)
(* connection; but the daemon awaits no handler, and one that sets a model *)
(* has awaits of its own: requests that come later may pass it.            *)
(***************************************************************************)
EXTENDS Naturals, Sequences, FiniteSets, SequencesExt

CONSTANTS
  Sessions, None, Models,
  Offered,     \* models of enabledProviders; the welcome screen takes First
  First,
  Auth,        \* models whose provider has credentials
  Reachable,   \* models whose base URL answers
  Reasoning,   \* models that reason
  Default,     \* the model of settings.json, or None
  MaxAsked     \* bound on what the user does

\* Assumed of the constants, where a module gives them values.
ChoiceAssumption ==
  /\ Offered \cup Auth \cup Reachable \cup Reasoning \subseteq Models
  /\ First \in Offered /\ Default \in Models \cup {None}
  /\ MaxAsked \in Nat /\ None \notin Models \cup Sessions

VARIABLES
  active,    \* activeId, None on the welcome screen
  pending,   \* pendingModel
  info,      \* slot.info.model of each session, None before its first info
  level,     \* slot.thinkingLevel, "low" is shown for None
  model, thinking,  \* the engine's, None while there is no session
  wire,      \* requests on the way or being handled
  answers,   \* answers on the way
  asked,     \* what the user did so far
  raced      \* observation: a choice was refused, or passed by an answer or
             \* by a later choice

engineVars == <<model, thinking>>
vars ==
  <<active, pending, info, level, engineVars, wire, answers, asked, raced>>

Levels == {"off", "high"}
Existing == {s \in Sessions : model[s] # None}
TypeOK ==
  /\ active \in Existing \cup {None} /\ pending \in Models \cup {None}
  /\ {info, model} \subseteq [Sessions -> Models \cup {None}]
  /\ {level, thinking} \subseteq [Sessions -> Levels \cup {None}]
  /\ asked \in 0..MaxAsked /\ raced \subseteq Existing
  /\ \A a \in Range(wire) \cup Range(answers) : a.s \in Existing

Nowhere == [s \in Sessions |-> None]
Init ==
  /\ active = None /\ pending = First /\ info = Nowhere /\ level = Nowhere
  /\ model = Nowhere /\ thinking = Nowhere /\ wire = <<>> /\ answers = <<>>
  /\ asked = 0 /\ raced = {}

Asks == asked < MaxAsked /\ asked' = asked + 1
Ask(op, s, v) == [op |-> op, s |-> s, v |-> v, late |-> FALSE]

\* A choice makes the answers late that its session has on the way already.
Late(q, s) ==
  [i \in DOMAIN q |-> IF q[i].op = "info" /\ q[i].s = s
                      THEN [q[i] EXCEPT !.late = TRUE] ELSE q[i]]

\* The effect of the welcome screen: never without a choice.
AutoSelected(a, p) == IF a = None /\ p = None THEN First ELSE p

Reached == Auth \cap Reachable  \* filterReachableProviders
\* ensureConfiguredModel: the session's own model if it can be used, else the
\* default of settings.json, else one that answers, reasoning ones first.
Configured(own) ==
  IF own \in Auth \/ Auth = {} THEN {own}
  ELSE IF Default \in Auth THEN {Default}
  ELSE IF Reached = {} THEN {own}
  ELSE IF Reached \cap Reasoning # {} THEN Reached \cap Reasoning ELSE Reached

\* A first message: session.create, then its info and the chosen model.  The
\* info is asked before the choice is sent.
Create(s) ==
  /\ active = None /\ s \notin Existing /\ Asks
  /\ \E own \in Models, m \in Models :
       m \in Configured(own) /\ model' = [model EXCEPT ![s] = m]
  /\ thinking' = [thinking EXCEPT ![s] = "high"] /\ active' = s
  /\ wire' = wire \o <<[Ask("info", s, None) EXCEPT !.late = TRUE],
                       Ask("first", s, pending)>>
  /\ UNCHANGED <<pending, info, level, answers, raced>>

\* openSession, or a turn's end in the session on screen: its info is asked.
FetchInfo(s) ==
  /\ s \in Existing /\ Asks /\ active' = s
  /\ wire' = Append(wire, Ask("info", s, None))
  /\ UNCHANGED <<pending, info, level, engineVars, answers, raced>>

\* newSession
Welcome ==
  /\ active # None /\ active' = None
  /\ pending' = AutoSelected(None, pending)
  /\ UNCHANGED <<info, level, engineVars, wire, answers, asked, raced>>

Picker(m) == m \in Offered  \* the list of models under the input
\* switchModel: remembered, shown at once, then sent.
SwitchModel(m) ==
  /\ Picker(m) /\ Asks /\ pending' = m
  /\ IF active = None THEN UNCHANGED <<info, wire, answers>>
     ELSE /\ info' = [info EXCEPT ![active] = IF @ = None THEN None ELSE m]
          /\ wire' = Append(Late(wire, active), Ask("model", active, m))
          /\ answers' = Late(answers, active)
  /\ UNCHANGED <<active, level, engineVars, raced>>

\* setThinking: the button switches between two levels.
Toggled(l) == IF l = "off" THEN "high" ELSE "off"
SetThinking ==
  LET l == Toggled(level[active]) IN
  /\ active # None /\ Asks /\ level' = [level EXCEPT ![active] = l]
  /\ wire' = Append(Late(wire, active), Ask("level", active, l))
  /\ answers' = Late(answers, active)
  /\ UNCHANGED <<active, pending, info, engineVars, raced>>

\* setActiveModel: without credentials it is refused.  pi may take a thinking
\* level back that the model has not.
SetModel(r, passed) ==
  IF r.v \in Auth
  THEN /\ model' = [model EXCEPT ![r.s] = r.v]
       /\ \E l \in {thinking[r.s], "off"} :
            /\ thinking' = [thinking EXCEPT ![r.s] = l]
            /\ raced' = IF l = thinking[r.s] THEN passed ELSE passed \cup {r.s}
  ELSE raced' = passed \cup {r.s} /\ UNCHANGED engineVars
SetLevel(r) ==
  \E l \in {r.v, "off"} :
    /\ thinking' = [thinking EXCEPT ![r.s] = l] /\ UNCHANGED model
    /\ raced' = IF l = r.v THEN raced ELSE raced \cup {r.s}

\* getSessionInfo.  An answer given while a choice is being handled is late.
Reply(r, late) ==
  answers' = Append(answers, [op |-> r.op, s |-> r.s, v |-> model[r.s],
                              level |-> thinking[r.s], late |-> late])

\* Requests that were taken before the i-th of this session and still await.
Awaits(r) == r.op \in {"model", "first"}
Before(i) == {j \in 1..i - 1 : wire[j].s = wire[i].s}

\* The daemon ends a handler.  All that came before are under way, each at an
\* await of setActiveModel; the other handlers have none.
Handle(i) ==
  LET r == wire[i] IN
  /\ \A j \in 1..i - 1 : Awaits(wire[j])
  /\ wire' = RemoveAt(wire, i)
  /\ \/ /\ r.op = "info" /\ Reply(r, r.late \/ Before(i) # {})
        /\ UNCHANGED <<engineVars, raced>>
     \/ /\ Awaits(r)
        /\ SetModel(r, IF Before(i) = {} THEN raced ELSE raced \cup {r.s})
        /\ IF r.op = "first" THEN Reply(r, r.late) ELSE UNCHANGED answers
     \/ r.op = "level" /\ SetLevel(r) /\ UNCHANGED answers
  /\ UNCHANGED <<active, pending, info, level, asked>>

\* fetchSessionInfo's answer replaces what the slot shows.
InfoArrives(a) ==
  /\ a.op = "info" /\ info' = [info EXCEPT ![a.s] = a.v]
  /\ level' = [level EXCEPT ![a.s] = a.level]
  /\ raced' = IF a.late THEN raced \cup {a.s} ELSE raced \ {a.s}
  /\ UNCHANGED pending
\* The first choice was applied, or refused.
FirstApplied(a) ==
  /\ a.op = "first" /\ pending' = AutoSelected(active, None)
  /\ UNCHANGED <<info, level, raced>>
Arrive ==
  /\ answers # <<>> /\ answers' = Tail(answers)
  /\ InfoArrives(Head(answers)) \/ FirstApplied(Head(answers))
  /\ UNCHANGED <<active, engineVars, wire, asked>>

Next ==
  \/ \E s \in Sessions : Create(s) \/ FetchInfo(s)
  \/ \E m \in Models : SwitchModel(m)
  \/ Welcome \/ SetThinking \/ Arrive
  \/ \E i \in DOMAIN wire : Handle(i)

Spec == Init /\ [][Next]_vars

------------------------------------------------------------------------------
\* When nothing of a session is on the way, it shows the model and the level
\* the engine uses, unless a choice was refused, or an answer from before it or
\* a later choice passed it, and then until the next answer; and the user is
\* never left without a model.
ChoiceShown ==
  /\ \A s \in Existing \ raced :
       (\A a \in Range(wire) \cup Range(answers) : a.s # s) =>
          info[s] \in {None, model[s]} /\ level[s] \in {None, thinking[s]}
  /\ active = None => pending # None
==============================================================================
