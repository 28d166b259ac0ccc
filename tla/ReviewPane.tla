------------------------------ MODULE ReviewPane ------------------------------
(***************************************************************************)
(* The panel on the right: what it remembers of each session               *)
(* (use-right-panel.ts), its frame (right-panel.tsx) and the review of one *)
(* turn's files (diff-tab.tsx, opened from turn-diff-summary.tsx).         *)
(*                                                                         *)
(* One set of React states serves whatever session is on screen.  When     *)
(* the session changes, the layout effect reads what is stored for the new *)
(* one; then the effects of the render before it run, which store the old  *)
(* values under the new name; then those of the render after it.           *)
(***************************************************************************)
EXTENDS Naturals, FiniteSets

CONSTANTS Sessions, Turns, Files, None,
  Widths, DefaultWidth

Panes == [collapsed : BOOLEAN, width : Widths, id : {"diff", None},
          closed : BOOLEAN]

\* Assumed of the constants, where a module gives them values.
PaneAssumption ==
  /\ DefaultWidth \in Widths
  /\ None \notin Sessions \cup Turns \cup Files \cup Panes

VARIABLES
  active,  \* activeId, None on the welcome screen
  edits,   \* sessions whose loaded items carry diffs
  pane,    \* rightCollapsed, rightPanelWidth, rightTabId, diffClosed
  tab,     \* rightTabs holds DIFF_TAB
  review,  \* reviewTurnId, diffSelection, reviewOpen
  rows,    \* expanded of the mounted DiffTabContent
  config,  \* localStorage: the pane of each session, or None
  saved,   \* localStorage: the review of each session, or None
  left     \* observation: the pane as the user left it, for each session

vars == <<active, edits, pane, tab, review, rows, config, saved, left>>

Opens == (SUBSET Files) \cup {None}
Reviews == [turn : Turns \cup {None}, sel : Files \cup {None}, open : Opens]
TypeOK ==
  /\ active \in Sessions \cup {None} /\ edits \subseteq Sessions
  /\ pane \in Panes /\ tab \in BOOLEAN /\ review \in Reviews
  /\ rows \subseteq Files /\ config \in [Sessions -> Panes \cup {None}]
  /\ saved \in [Sessions -> Reviews \cup {None}]
  /\ left \in [Sessions -> Panes]

Fresh == [collapsed |-> FALSE, width |-> DefaultWidth, id |-> None,
          closed |-> FALSE]
Blank == [Fresh EXCEPT !.collapsed = TRUE]  \* a session without a record
NoReview == [turn |-> None, sel |-> None, open |-> None]
Init ==
  /\ active = None /\ edits = {} /\ pane = Fresh /\ tab = FALSE
  /\ review = NoReview /\ rows = {}
  /\ config = [s \in Sessions |-> None] /\ saved = [s \in Sessions |-> None]
  /\ left = [s \in Sessions |-> Blank]

\* The effect over hasEdits and diffClosed: has puts the tab in or out.
WithTab(has, closed, on) == has /\ (on \/ ~closed)
WithId(has, closed, id) ==
  IF has THEN IF ~closed /\ id = None THEN "diff" ELSE id
  ELSE IF id = "diff" THEN None ELSE id

\* The effect that stores the pane; what the user did counts as left so.
Stored(p) ==
  /\ config' = IF active = None THEN config ELSE [config EXCEPT ![active] = p]
  /\ left' = IF active = None THEN left
             ELSE [left EXCEPT ![active] = [p EXCEPT !.id = None]]

\* DiffTabContent: its rows when it mounts or its items change.
Entries(s, r) == IF s \in edits' /\ r.turn # None THEN Files ELSE {}
Followed(r, es, old) ==
  IF r.sel \in es THEN {r.sel}
  ELSE IF r.open # None THEN r.open \cap es ELSE old \cap es
Mounted(r, es) ==
  IF r.sel \in es THEN {r.sel}
  ELSE IF r.open # None THEN r.open \cap es
  ELSE IF es = {} THEN {} ELSE {CHOOSE f \in es : TRUE}

PaneStays(s) == pane
\* The layout effect of another session: read before anything is stored.
Restored(s) ==
  LET c == IF config[s] = None THEN Blank ELSE config[s] IN
  [c EXCEPT !.id = IF c.id = None THEN pane.id ELSE c.id]
RestoredReview(s) ==
  IF saved[s] = None THEN [NoReview EXCEPT !.sel = review.sel]
  ELSE [saved[s] EXCEPT !.sel = IF @ = None THEN review.sel ELSE @]

Activate(s) ==
  LET p == Restored(s)   has == s \in edits
      first == has # (active \in edits)  \* the effect of the first render
      again == p.closed # pane.closed
      on == IF first THEN WithTab(has, pane.closed, tab) ELSE tab
      id == IF first THEN WithId(has, pane.closed, p.id) ELSE p.id IN
  /\ s # active /\ active' = s
  /\ tab' = IF again THEN WithTab(has, p.closed, on) ELSE on
  /\ pane' = [p EXCEPT !.id = IF again THEN WithId(has, p.closed, id) ELSE id]
  /\ config' = [config EXCEPT ![s] = pane']
  /\ review' = RestoredReview(s) /\ UNCHANGED edits
  /\ rows' = Mounted(review', Entries(s, review'))
  /\ UNCHANGED <<saved, left>>

\* The welcome screen keeps the states and stores nothing.
Welcome ==
  /\ active # None /\ active' = None
  /\ tab' = FALSE
  /\ pane' = [pane EXCEPT !.id = WithId(FALSE, pane.closed, @)]
  /\ rows' = {} /\ UNCHANGED <<edits, review, config, saved, left>>

\* History is loaded, or a tool call brings a diff.
EditsArrive(s) ==
  /\ s \notin edits /\ edits' = edits \cup {s}
  /\ IF s = active
     THEN /\ tab' = WithTab(TRUE, pane.closed, tab)
          /\ pane' = [pane EXCEPT !.id = WithId(TRUE, pane.closed, @)]
          /\ config' = [config EXCEPT ![s] = pane']
          /\ rows' = Mounted(review, Entries(s, review))
     ELSE UNCHANGED <<tab, pane, config, rows>>
  /\ UNCHANGED <<active, review, saved, left>>

\* Any other change of the items: the entries are built anew.
ItemsChange ==
  /\ active \in edits /\ UNCHANGED edits
  /\ rows' = Followed(review, Entries(active, review), rows)
  /\ UNCHANGED <<active, pane, tab, review, config, saved, left>>

Reload ==
  /\ active' = None /\ edits' = {} /\ pane' = Fresh /\ tab' = FALSE
  /\ review' = NoReview /\ rows' = {} /\ UNCHANGED <<config, saved, left>>

ToggleCollapse ==
  /\ active # None
  /\ pane' = [pane EXCEPT !.collapsed = ~@] /\ Stored(pane') /\ UNCHANGED edits
  /\ rows' = IF pane.collapsed THEN Mounted(review, Entries(active, review))
             ELSE rows
  /\ UNCHANGED <<active, tab, review, saved>>

Drag(w) ==
  /\ active # None /\ ~pane.collapsed /\ w # pane.width
  /\ pane' = [pane EXCEPT !.width = w] /\ Stored(pane')
  /\ UNCHANGED <<active, edits, tab, review, rows, saved>>

\* The panel is unfolded with the review in it.
PanelShown == active # None /\ tab /\ ~pane.collapsed
CloseTab ==
  /\ PanelShown /\ tab' = FALSE
  /\ pane' = [pane EXCEPT !.closed = TRUE, !.id = None] /\ Stored(pane')
  /\ rows' = {} /\ UNCHANGED <<active, edits, review, saved>>

\* The files of a turn's summary, shown under a turn that has edits.
Summary == IF active \in edits THEN Files ELSE {}
\* One of them is clicked.
OpenFileDiff(t, f) ==
  /\ f \in Summary /\ UNCHANGED <<active, edits>> /\ tab' = TRUE
  /\ pane' = [pane EXCEPT !.collapsed = FALSE, !.closed = FALSE, !.id = "diff"]
  /\ review' = [turn |-> t, sel |-> f, open |-> {f}]
  /\ saved' = [saved EXCEPT ![active] = review']
  /\ Stored(pane') /\ rows' = {f}

\* A row is clicked: it alone is open, or none is.
ToggleRow(f) ==
  /\ PanelShown /\ active \in edits /\ review.turn # None
  /\ rows' = IF f \in rows THEN {} ELSE {f}
  /\ review' = [review EXCEPT !.open = IF rows' = {} THEN None ELSE rows']
  /\ saved' = [saved EXCEPT ![active] = [review EXCEPT !.open = rows']]
  /\ UNCHANGED <<active, edits, pane, tab, config, left>>

Next ==
  \/ \E s \in Sessions : Activate(s) \/ EditsArrive(s)
  \/ Welcome \/ ItemsChange \/ Reload \/ ToggleCollapse \/ CloseTab
  \/ \E w \in Widths : Drag(w)
  \/ \E f \in Files : ToggleRow(f) \/ \E t \in Turns : OpenFileDiff(t, f)

Spec == Init /\ [][Next]_vars

-----------------------------------------------------------------------------
\* A session comes back with the panel as it was left: folded or not, as
\* wide, its review tab closed or not, whatever sessions were shown and
\* reloads made in between; and at most one file is open in the review.
PaneKept ==
  /\ active # None => [pane EXCEPT !.id = None] = left[active]
  /\ Cardinality(rows) <= 1
===============================================================================
