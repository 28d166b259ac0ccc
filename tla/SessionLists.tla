----------------------------- MODULE SessionLists -----------------------------
(***************************************************************************)
(* The sidebar's two lists (App.tsx, useArchiving.ts, sidebar.tsx,         *)
(* archive-section.tsx) over the session files the daemon keeps.           *)
(*                                                                         *)
(* A change is asked from a context menu; its answer removes rows at once  *)
(* and starts the scans that read every session file again.  A scan reads  *)
(* directory by directory and file by file, and replaces the list.         *)
(***************************************************************************)
EXTENDS Naturals, FiniteSets

CONSTANTS
  Sessions, Names, Projects, Cwd,  \* Cwd: session |-> its project
  None,
  Alone    \* TRUE: the next change waits until the lists are read again

\* Assumed of the constants, where a module gives them values.
ListsAssumption ==
  /\ Cwd \in [Sessions -> Projects] /\ Alone \in BOOLEAN
  /\ None \notin Sessions \cup Projects

VARIABLES
  place,     \* where each session's file is
  name,      \* the last session_info row of each file
  pins,      \* `pins` of config.json
  shown,     \* sessions: the rows of the project tree
  archived,  \* archivedProjects: the rows of the archive section
  pinned,    \* pinnedSessions
  menu,      \* the open context menu, rename input or confirm dialog
  jobs,      \* changes asked for
  scans,     \* listHistory and listArchivedProjects under way
  hidden     \* observation: sessions a failed archiving took off the list

disk == <<place, name, pins>>
lists == <<shown, archived, pinned>>
vars == <<disk, lists, menu, jobs, scans, hidden>>

Rows == Sessions \X Names
SessionOps == {"rename", "pin", "archive"}
ArchivedOps == {"restore", "deleteArchived"}
ProjectOps == {"unarchive", "deleteProject"}
Ops == SessionOps \cup ArchivedOps \cup ProjectOps \cup {"archiveProject", "clear"}
Asked == {"deleteArchived", "deleteProject", "clear"}  \* confirm dialog first
Jobs == [op : Ops, on : Sessions \cup Projects \cup {None},
         name : Names \cup {None}, pin : BOOLEAN]
Scans == [of : {"active", "archived"}, dirs : SUBSET Projects,
          files : SUBSET Sessions, got : SUBSET Rows, started : BOOLEAN]
Closed == [kind |-> "none", on |-> None]

TypeOK ==
  /\ place \in [Sessions -> {"active", "archived", "gone"}]
  /\ name \in [Sessions -> Names] /\ pins \subseteq Sessions
  /\ shown \subseteq Rows /\ archived \subseteq Rows /\ pinned \subseteq Sessions
  /\ menu \in [kind : {"none", "session", "archivedSession", "project",
                       "archived", "archivedAll", "renaming"} \cup Asked,
               on : Sessions \cup Projects \cup {None}]
  /\ jobs \subseteq Jobs /\ scans \subseteq Scans /\ hidden \subseteq Sessions

At(w) == {s \in Sessions : place[s] = w}
RowsAt(w) == {<<s, name[s]>> : s \in At(w)}
Of(p) == {s \in Sessions : Cwd[s] = p}
Without(list, ss) == {r \in list : r[1] \notin ss}

Init ==
  /\ place \in [Sessions -> {"active", "archived"}]
  /\ name \in [Sessions -> Names] /\ pins = {} /\ pinned = {}
  /\ shown = RowsAt("active") /\ archived = RowsAt("archived")
  /\ menu = Closed /\ jobs = {} /\ scans = {} /\ hidden = {}

\* What a menu of each kind can be opened on.
Targets(kind) ==
  CASE kind = "session" -> {r[1] : r \in shown}
    [] kind = "archivedSession" -> {r[1] : r \in archived}
    [] kind = "project" -> {Cwd[r[1]] : r \in shown}
    [] kind = "archived" -> {Cwd[r[1]] : r \in archived}
    [] OTHER -> IF archived = {} THEN {} ELSE {None}

OpenMenu(kind, on) ==
  /\ menu.kind \notin Asked /\ on \in Targets(kind)
  /\ menu' = [kind |-> kind, on |-> on]
  /\ UNCHANGED <<disk, lists, jobs, scans, hidden>>

CloseMenu ==
  /\ menu # Closed /\ menu' = Closed
  /\ UNCHANGED <<disk, lists, jobs, scans, hidden>>

\* The items that open the rename input or the confirm dialog.
AskFirst(op) ==
  /\ <<menu.kind, op>> \in {<<"session", "renaming">>,
       <<"archivedSession", "deleteArchived">>, <<"archived", "deleteProject">>,
       <<"archivedAll", "clear">>}
  /\ menu' = [menu EXCEPT !.kind = op]
  /\ UNCHANGED <<disk, lists, jobs, scans, hidden>>

Offered ==
  CASE menu.kind = "session" -> {"pin", "archive"}
    [] menu.kind = "renaming" -> {"rename"}
    [] menu.kind = "archivedSession" -> {"restore"}
    [] menu.kind = "project" -> {"archiveProject"}
    [] menu.kind = "archived" -> {"unarchive"}
    [] OTHER -> {menu.kind} \cap Asked

\* An item is clicked; the two project moves empty their list at once.
Ask(op, n) ==
  LET on == menu.on IN
  /\ op \in Offered /\ (n = None) = (op # "rename")
  /\ Alone => jobs = {} /\ scans = {}
  /\ jobs' = jobs \cup {[op |-> op, on |-> on, name |-> n,
                         pin |-> on \notin pinned]}
  /\ menu' = Closed
  /\ shown' = IF op = "archiveProject" THEN Without(shown, Of(on)) ELSE shown
  /\ archived' = IF op = "unarchive" THEN Without(archived, Of(on)) ELSE archived
  /\ UNCHANGED <<disk, pinned, scans, hidden>>

\* renameSync of a directory fails on one that holds files.
Fails(j) == j.op = "archiveProject" /\ Of(j.on) \cap At("active") # {}
            /\ Of(j.on) \cap At("archived") # {}

\* The files a change moves from one place, and where they go.
Moved(j) ==
  CASE j.op = "archive" -> {j.on} \cap At("active")
    [] j.op = "archiveProject" -> Of(j.on) \cap At("active")
    [] j.op \in ArchivedOps -> {j.on} \cap At("archived")
    [] j.op \in ProjectOps -> Of(j.on) \cap At("archived")
    [] j.op = "clear" -> {s \in At("archived") :
                            \E r \in archived : Cwd[r[1]] = Cwd[s]}
    [] OTHER -> {}
Goal(op) == CASE op \in {"archive", "archiveProject"} -> "archived"
              [] op \in {"restore", "unarchive"} -> "active"
              [] OTHER -> "gone"

\* The rows the answer removes without waiting for a scan.
DropsShown(j) == IF j.op = "archive" THEN {j.on} ELSE {}
DropsArchived(j) == CASE j.op \in ArchivedOps -> {j.on}
                      [] j.op \in ProjectOps -> Of(j.on)
                      [] j.op = "clear" -> Sessions
                      [] OTHER -> {}
OneList(op) ==
  IF op \in {"deleteArchived", "clear"} THEN {"archived"} ELSE {"active"}
\* The lists it reads again.
Rescans(op) == CASE op \in {"pin", "rename", "deleteProject"} -> {"active"}
                 [] op \in {"deleteArchived", "clear"} -> {"archived"}
                 [] OTHER -> {"active", "archived"}
Scan(w) == [of |-> w, dirs |-> {}, files |-> {}, got |-> {}, started |-> FALSE]

\* The daemon makes the change and the tab handles its answer.
Done(j) ==
  /\ j \in jobs /\ jobs' = jobs \ {j} /\ ~Fails(j)
  /\ place' = [s \in Sessions |->
                 IF s \in Moved(j) THEN Goal(j.op) ELSE place[s]]
  /\ name' = IF j.op = "rename" /\ place[j.on] = "active"
             THEN [name EXCEPT ![j.on] = j.name] ELSE name
  /\ IF j.op = "pin"
     THEN /\ pins' = IF j.pin THEN pins \cup {j.on} ELSE pins \ {j.on}
          /\ pinned' = IF j.pin THEN pinned \cup {j.on} ELSE pinned \ {j.on}
     ELSE UNCHANGED <<pins, pinned>>
  /\ shown' = Without(shown, DropsShown(j))
  /\ archived' = Without(archived, DropsArchived(j))
  /\ scans' = scans \cup {Scan(w) : w \in Rescans(j.op)}
  /\ UNCHANGED <<menu, hidden>>

\* An error is swallowed: nothing is put back and nothing is read again.
Failed(j) ==
  /\ j \in jobs /\ Fails(j) /\ jobs' = jobs \ {j}
  /\ hidden' = hidden \cup (Of(j.on) \cap At("active"))
  /\ UNCHANGED <<disk, lists, menu, scans>>

Becomes(c, d) == scans' = (scans \ {c}) \cup {d}

\* The project directories are listed (one without files may be left over).
StartScan(c) ==
  /\ c \in scans /\ ~c.started
  /\ Becomes(c, [c EXCEPT !.started = TRUE,
                          !.dirs = {Cwd[s] : s \in At(c.of)}])
  /\ UNCHANGED <<disk, lists, menu, jobs, hidden>>

ReadDir(c, p) ==
  /\ c \in scans /\ c.files = {} /\ p \in c.dirs
  /\ Becomes(c, [c EXCEPT !.dirs = @ \ {p}, !.files = Of(p) \cap At(c.of)])
  /\ UNCHANGED <<disk, lists, menu, jobs, hidden>>

\* A file that went away meanwhile is skipped.
ReadFile(c, s) ==
  /\ c \in scans /\ s \in c.files
  /\ Becomes(c, [c EXCEPT !.files = @ \ {s},
                          !.got = IF place[s] = c.of
                                  THEN @ \cup {<<s, name[s]>>} ELSE @])
  /\ UNCHANGED <<disk, lists, menu, jobs, hidden>>

\* The answer replaces the list.
Listed(c) ==
  /\ c \in scans /\ c.started /\ c.dirs = {} /\ c.files = {}
  /\ scans' = scans \ {c}
  /\ shown' = IF c.of = "active" THEN c.got ELSE shown
  /\ archived' = IF c.of = "archived" THEN c.got ELSE archived
  /\ hidden' = IF c.of = "active" THEN {} ELSE hidden
  /\ UNCHANGED <<disk, pinned, menu, jobs>>

Next ==
  \/ \E kind \in {"session", "archivedSession", "project", "archived",
                  "archivedAll"}, on \in Sessions \cup Projects \cup {None} :
       OpenMenu(kind, on)
  \/ CloseMenu
  \/ \E op \in Asked \cup {"renaming"} : AskFirst(op)
  \/ \E op \in Ops, n \in Names \cup {None} : Ask(op, n)
  \/ \E j \in jobs : Done(j) \/ Failed(j)
  \/ \E c \in scans :
       \/ StartScan(c) \/ Listed(c)
       \/ \E p \in c.dirs : ReadDir(c, p)
       \/ \E s \in c.files : ReadFile(c, s)

Spec == Init /\ [][Next]_vars

-----------------------------------------------------------------------------
\* "Optimistic removals [...]; the background sync reconciles": when nothing
\* is under way the two lists show the files of the two places under their
\* names, and the pins are those of config.json; only an archiving that failed
\* leaves its sessions off the list, until the next time it is read.
ListsTrue ==
  jobs = {} /\ scans = {} =>
    /\ shown = Without(RowsAt("active"), hidden)
    /\ archived = RowsAt("archived") /\ pinned = pins
===============================================================================
