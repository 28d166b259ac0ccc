------------------------------ MODULE WidgetBoard ------------------------------
(***************************************************************************)
(* Extensions' widgets and statuses: the daemon's registry and cache of    *)
(* lines (ui-bridge.ts), what a tab keeps of them, and the widget tab of   *)
(* the right panel (App.tsx).  Events sent while no connection is open are *)
(* lost; each new connection asks for the cache.                           *)
(***************************************************************************)
EXTENDS Naturals, Sequences, FiniteSets

CONSTANTS
  Keys, Sessions, None,
  Lines, Empty,  \* what a widget may show; Empty is no line
  MaxWire        \* bound on events on the way when an extension acts

\* Assumed of the constants, where a module gives them values.
WidgetAssumption ==
  /\ Empty \in Lines /\ None \notin Sessions \cup {"widget", "diff"}
  /\ MaxWire \in Nat

VARIABLES
  registry,  \* widgetRegistry: the session of each widget that renders
  look,      \* what each of them would render now
  cache,     \* widgetLinesCache
  status,    \* the last setStatus of each key: TRUE is a text
  online,    \* the tab is connected
  asking,    \* ui.widgets is on the way
  wire,      \* events and the answer on the way to the tab
  active,    \* activeId
  widgets,   \* uiWidgets
  statuses,  \* keys of uiStatuses
  panel, id, \* rightTabs holds WIDGET_TAB; rightTabId
  missed     \* observation: statuses set while nobody listened

daemonVars == <<registry, look, cache, status>>
tabVars == <<active, widgets, statuses, panel, id>>
vars == <<daemonVars, online, asking, wire, tabVars, missed>>

Boards == [Keys -> [lines : Lines \ {Empty}, s : Sessions] \cup {None}]
TypeOK ==
  /\ registry \in [Keys -> Sessions \cup {None}] /\ look \in [Keys -> Lines]
  /\ cache \in Boards /\ widgets \in Boards
  /\ statuses \cup status \cup missed \subseteq Keys
  /\ {online, asking, panel} \subseteq BOOLEAN
  /\ active \in Sessions \cup {None} /\ id \in {None, "widget", "diff"}

Blank == [k \in Keys |-> None]
Init ==
  /\ registry = Blank /\ look = [k \in Keys |-> Empty] /\ cache = Blank
  /\ status = {} /\ online = FALSE /\ asking = FALSE /\ wire = <<>>
  /\ active = None /\ widgets = Blank /\ statuses = {} /\ panel = FALSE
  /\ id = None /\ missed = {}

Board(x, s) == IF x = Empty THEN None ELSE [lines |-> x, s |-> s]
Sent(events) == wire' = IF online THEN wire \o events ELSE wire

\* emitWidgetLines: cached, then told to the tab.
NotCached(k, x, s) == [cache EXCEPT ![k] = IF x = Empty THEN @ ELSE Board(x, s)]
Cached(k, x, s) == [cache EXCEPT ![k] = Board(x, s)]
EmitWidgetLines(k, x, s) ==
  /\ Len(wire) < MaxWire /\ cache' = Cached(k, x, s)
  /\ Sent(<<[op |-> "widget", key |-> k, board |-> Board(x, s)]>>)
  /\ UNCHANGED <<status, online, asking, tabVars, missed>>

\* setWidget: a factory is registered, lines or nothing end a registration.
SetFactory(k, s, x) ==
  /\ registry' = [registry EXCEPT ![k] = s]
  /\ look' = [look EXCEPT ![k] = x] /\ EmitWidgetLines(k, x, s)
SetLines(k, s, x) ==
  /\ registry' = [registry EXCEPT ![k] = None]
  /\ EmitWidgetLines(k, x, s) /\ UNCHANGED look

\* What a widget would show changes, or its session ends: nobody is told.
Changes(k, x) ==
  /\ registry[k] # None /\ look' = [look EXCEPT ![k] = x]
  /\ UNCHANGED
       <<registry, cache, status, online, asking, wire, tabVars, missed>>

\* requestRender: every registered widget is told anew.
RequestRender ==
  LET ks == {k \in Keys : registry[k] # None} IN
  /\ Len(wire) < MaxWire
  /\ cache' = [k \in Keys |-> IF k \in ks THEN Board(look[k], registry[k])
                              ELSE cache[k]]
  /\ \E order \in [1..Cardinality(ks) -> ks] :
       /\ \A k \in ks : \E i \in DOMAIN order : order[i] = k
       /\ Sent([i \in DOMAIN order |-> [op |-> "widget", key |-> order[i],
                                        board |-> cache'[order[i]]]])
  /\ UNCHANGED <<registry, look, status, online, asking, tabVars, missed>>

\* setStatus is not kept by the daemon.
SetStatus(k, on) ==
  /\ Len(wire) < MaxWire /\ Sent(<<[op |-> "status", key |-> k, on |-> on]>>)
  /\ status' = IF on THEN status \cup {k} ELSE status \ {k}
  /\ missed' = IF online THEN missed \ {k} ELSE missed \cup {k}
  /\ UNCHANGED <<registry, look, cache, online, asking, tabVars>>

\* The effect over activeWidgets, after each change of the widgets or of the
\* session on screen: the tab comes or goes.
Visible(a, w) == {k \in Keys : w[k] # None /\ w[k].s = a}
StaysOpen(a, w) == panel' = (panel \/ Visible(a, w) # {})
OpensWith(a, w) == panel' = (Visible(a, w) # {})
PanelFollows(a, w) ==
  /\ OpensWith(a, w)
  /\ id' = IF Visible(a, w) # {} THEN IF id = None THEN "widget" ELSE id
           ELSE IF id = "widget" THEN None ELSE id

Activate(s) ==
  /\ s # active /\ active' = s /\ PanelFollows(s, widgets)
  /\ UNCHANGED <<daemonVars, online, asking, wire, widgets, statuses, missed>>

\* closeRightTab, and the review tab in front of the widgets or gone again
CloseTab ==
  /\ panel /\ panel' = FALSE /\ id' = IF id = "widget" THEN None ELSE id
  /\ UNCHANGED <<daemonVars, online, asking, wire, active, widgets, statuses,
                 missed>>
FrontTab ==
  /\ id' = IF id = "diff" THEN None ELSE "diff"
  /\ UNCHANGED <<daemonVars, online, asking, wire, active, widgets, statuses,
                 panel, missed>>

\* The client's effect on a new connection; the daemon answers ui.widgets.
Connect ==
  /\ ~online /\ online' = TRUE /\ asking' = TRUE
  /\ UNCHANGED <<daemonVars, wire, tabVars, missed>>
GetWidgets ==
  /\ asking /\ asking' = FALSE
  /\ wire' = Append(wire, [op |-> "all", board |-> cache])
  /\ UNCHANGED <<daemonVars, online, tabVars, missed>>
Disconnect ==
  /\ online /\ online' = FALSE /\ asking' = FALSE /\ wire' = <<>>
  /\ missed' = missed \cup {wire[i].key : i \in {j \in DOMAIN wire :
                                              wire[j].op = "status"}}
  /\ UNCHANGED <<daemonVars, tabVars>>
Reload ==
  /\ online' = FALSE /\ asking' = FALSE /\ wire' = <<>> /\ active' = None
  /\ widgets' = Blank /\ statuses' = {} /\ missed' = Keys
  /\ panel' = FALSE /\ id' = None /\ UNCHANGED daemonVars

\* handleUiRequest, and the answer to ui.widgets
Arrive ==
  LET e == Head(wire) IN
  /\ wire # <<>> /\ wire' = Tail(wire)
  /\ \/ /\ e.op = "widget" /\ UNCHANGED statuses
        /\ widgets' = [widgets EXCEPT ![e.key] = e.board]
        /\ PanelFollows(active, widgets')
     \/ /\ e.op = "all" /\ widgets' = e.board /\ UNCHANGED statuses
        /\ PanelFollows(active, widgets')
     \/ /\ e.op = "status" /\ UNCHANGED <<widgets, panel, id>>
        /\ statuses' = IF e.on THEN statuses \cup {e.key} ELSE statuses \ {e.key}
  /\ UNCHANGED <<daemonVars, online, asking, active, missed>>

Next ==
  \/ \E k \in Keys, s \in Sessions, x \in Lines :
       SetFactory(k, s, x) \/ SetLines(k, s, x)
  \/ \E k \in Keys, x \in Lines : Changes(k, x)
  \/ \E k \in Keys, on \in BOOLEAN : SetStatus(k, on)
  \/ \E s \in Sessions : Activate(s)
  \/ RequestRender \/ CloseTab \/ FrontTab \/ Connect \/ GetWidgets
  \/ Disconnect \/ Reload \/ Arrive

Spec == Init /\ [][Next]_vars

------------------------------------------------------------------------------
\* What the dock under the input shows, and the widget tab when it is in front.
Dock == [statuses |-> statuses, widgets |-> Visible(active, widgets)]
Panel == IF panel THEN Visible(active, widgets) ELSE {}

\* A connected tab with nothing on the way shows the widgets the daemon keeps,
\* whatever it missed before, and the statuses it did not miss; the widget tab
\* is there only for a widget of the session on screen; and a widget that is
\* registered is kept for the session that registered it.
BoardTrue ==
  /\ online /\ ~asking /\ wire = <<>> =>
       /\ Dock.widgets = Visible(active, cache)
       /\ Dock.statuses \ missed = status \ missed
  /\ panel \/ id = "widget" => Panel # {}
  /\ \A k \in Keys : registry[k] # None /\ cache[k] # None =>
       cache[k].s = registry[k]
==============================================================================
