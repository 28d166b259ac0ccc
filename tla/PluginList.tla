------------------------------ MODULE PluginList ------------------------------
(***************************************************************************)
(* The packages page (plugins-view.tsx) over pi's settings.json            *)
(* (PiPackageManager and the plugin.* methods).                            *)
(*                                                                         *)
(* Installing and removing take as long as npm does.  plugin.list notes    *)
(* the configured packages when it is asked and resolves them afterwards,  *)
(* so the answers of two lists may come in either order.  That a list      *)
(* itself fails, when the socket is lost, is left out.                     *)
(***************************************************************************)
EXTENDS FiniteSets

CONSTANTS
  Packages, None,
  Overlap    \* TRUE: a button may be pressed while a job is under way

\* Assumed of the constants, where a module gives them values.
PluginAssumption == Overlap \in BOOLEAN /\ None \notin Packages

VARIABLES
  settings,  \* the packages configured in settings.json
  cache,     \* memoryCache: the list kept for the next visit, or None
  page,      \* what the page shows while it is open
  jobs       \* requests under way

vars == <<settings, cache, page, jobs>>

Lists == SUBSET Packages
Blank == [open |-> FALSE, loading |-> FALSE, list |-> {}, error |-> FALSE,
          installing |-> FALSE, busy |-> None]
Jobs == [op : {"load", "install", "uninstall"}, source : Packages \cup {None},
         list : Lists \cup {None}, at : {"asked", "listing", "listed"},
         mine : BOOLEAN]  \* whether the page that asked is still open

TypeOK ==
  /\ settings \in Lists /\ cache \in Lists \cup {None} /\ jobs \subseteq Jobs
  /\ page \in [open : BOOLEAN, loading : BOOLEAN, list : Lists,
               error : BOOLEAN, installing : BOOLEAN,
               busy : Packages \cup {None}]

Init == settings \in Lists /\ cache = None /\ page = Blank /\ jobs = {}

Job(op, s, at) == [op |-> op, source |-> s, list |-> None, at |-> at,
                   mine |-> TRUE]
Start(j) == /\ Overlap \/ jobs = {}
            /\ \A k \in jobs : <<k.op, k.source>> # <<j.op, j.source>>
            /\ jobs' = jobs \cup {j}
Becomes(j, k) == jobs' = (jobs \ {j}) \cup {k}
Ends(j) == jobs' = jobs \ {j}

Open ==
  /\ ~page.open /\ Start(Job("load", None, "listing"))
  /\ page' = [Blank EXCEPT !.open = TRUE, !.loading = cache = None,
                           !.list = IF cache = None THEN {} ELSE cache]
  /\ UNCHANGED <<settings, cache>>

\* The load under way is cancelled; a job goes on without its page.
Close ==
  /\ page.open /\ page' = Blank
  /\ jobs' = {[j EXCEPT !.mine = FALSE] : j \in {k \in jobs : k.op # "load"}}
  /\ UNCHANGED <<settings, cache>>

\* The bar's button waits for the last install, its Enter key does not.
InstallBar == page.open
Install(s) ==
  /\ InstallBar /\ Start(Job("install", s, "asked"))
  /\ page' = [page EXCEPT !.installing = TRUE, !.error = FALSE]
  /\ UNCHANGED <<settings, cache>>

\* The row of a package; its button waits for its own job only.
Row(s) == page.open /\ ~page.loading /\ s \in page.list
Uninstall(s) ==
  /\ Row(s) /\ page.busy # s
  /\ Start(Job("uninstall", s, "asked"))
  /\ page' = [page EXCEPT !.busy = s, !.error = FALSE]
  /\ UNCHANGED <<settings, cache>>

\* installAndPersist and removeAndPersist; only a change is followed by a list.
Finished(j) ==
  IF ~j.mine THEN page
  ELSE IF j.op = "install" THEN [page EXCEPT !.installing = FALSE]
  ELSE IF j.op = "uninstall" THEN [page EXCEPT !.busy = None]
  ELSE [page EXCEPT !.loading = FALSE]
Persist(j) ==
  /\ j \in jobs /\ j.at = "asked"
  /\ \/ /\ j.op = "install" \/ j.source \in settings
        /\ settings' = IF j.op = "install" THEN settings \cup {j.source}
                       ELSE settings \ {j.source}
        /\ Becomes(j, [j EXCEPT !.at = "listing"]) /\ UNCHANGED page
     \/ /\ Ends(j) /\ UNCHANGED settings
        /\ page' = [Finished(j) EXCEPT !.error = j.mine \/ @]
  /\ UNCHANGED cache

\* plugin.list: listConfiguredPackages, then resolve.
List(j) ==
  /\ j \in jobs /\ j.at = "listing"
  /\ Becomes(j, [j EXCEPT !.at = "listed", !.list = settings])
  /\ UNCHANGED <<settings, cache, page>>

\* applyList
Apply(j) ==
  /\ j \in jobs /\ j.at = "listed" /\ Ends(j)
  /\ cache' = j.list
  /\ page' = IF j.mine THEN [Finished(j) EXCEPT !.list = j.list,
                                                !.error = FALSE]
             ELSE page
  /\ UNCHANGED settings

Next ==
  \/ Open \/ Close
  \/ \E s \in Packages : Install(s) \/ Uninstall(s)
  \/ \E j \in jobs : Persist(j) \/ List(j) \/ Apply(j)

Spec == Init /\ [][Next]_vars

------------------------------------------------------------------------------
\* When no job is under way the page lists what is configured, and no button
\* still waits; what is kept for the next visit is not older than the page.
ListTrue ==
  jobs = {} /\ page.open =>
    /\ page.list = settings /\ cache = settings
    /\ ~page.loading /\ ~page.installing /\ page.busy = None
==============================================================================
