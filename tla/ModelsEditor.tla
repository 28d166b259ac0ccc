----------------------------- MODULE ModelsEditor -----------------------------
(***************************************************************************)
(* The model providers page (models-view.tsx, its dialogs and useModels)   *)
(* over models.json (VagModelsStore and the models.* methods).             *)
(*                                                                         *)
(* Every edit sends the whole list, made from the list the page shows; the *)
(* inputs of the selected provider save themselves 700 ms after the last   *)
(* key, from the list of that moment.  The socket is in order and the      *)
(* methods synchronous, so calls are a queue.  A provider keeps one value  *)
(* for what its inputs say (url), and the flag that disables it.  What the *)
(* inputs of a model hold, which a probe may fill in too, is chosen when   *)
(* they are saved; the form under a model's row opens and closes freely.   *)
(***************************************************************************)
EXTENDS Naturals, Sequences, FiniteSets, Functions

CONSTANTS
  Ids, Urls, Models, None,
  Hasty,     \* a bound if FALSE: after edits that overlap the user waits
  MaxCalls    \* bound on calls under way

\* Assumed of the constants, where a module gives them values.
ModelsAssumption ==
  /\ MaxCalls \in Nat /\ Hasty \in BOOLEAN
  /\ None \notin Ids \cup Urls \cup Models

VARIABLES
  file,    \* models.json
  shown,   \* modelsConfig: the list the page was last given
  page,    \* selectedId, adding, detail, lastSavedSig, confirmDeleteId
  timer,   \* the 700 ms timer: what its closure holds
  modal,   \* the dialog for a new model
  calls,   \* models.save and models.config under way
  want     \* history: the file with every edit the user made; None once
           \* one was made while another was under way

vars == <<file, shown, page, timer, modal, calls, want>>

Settings == {"plain", "probed"}  \* whether a model has a probe's settings
Providers == [url : Urls, on : BOOLEAN,
              models : UNION {[M -> Settings] : M \in SUBSET Models}]
Files == UNION {[I -> Providers] : I \in SUBSET Ids}
Details == [id : Ids \cup {None}, url : Urls \cup {None}]
NoDetail == [id |-> None, url |-> None]
Pages == [sel : Ids \cup {None}, adding : BOOLEAN, detail : Details,
          sig : Details, delete : Ids \cup {None}]

TypeOK ==
  /\ {file, shown} \subseteq Files /\ want \in Files \cup {None}
  /\ page \in Pages
  /\ timer \in [with : Files, detail : Details, sel : Ids] \cup {None}
  /\ modal \in [id : Models \cup {None}, probing : BOOLEAN] \cup {None}
  /\ calls \in Seq([op : {"config"}]
                   \cup [op : {"save"}, with : Files,
                         rename : Ids \cup {None}, on : Ids \cup {None}])

\* selectProvider: the inputs show what the list holds, and count as saved.
Selected(p, id) ==
  LET d == [id |-> id, url |-> shown'[id].url] IN
  [p EXCEPT !.sel = id, !.adding = FALSE, !.detail = d, !.sig = d]

\* The first effect: with nothing selected the first provider is.
Settled(p) ==
  IF ~p.adding /\ p.sel = None /\ DOMAIN shown' # {}
  THEN {Selected(p, id) : id \in DOMAIN shown'} ELSE {p}

\* The second effect, when the inputs or the selection change: the old timer
\* goes; if the inputs are not saved a new one holds this render's list.
Armed(p) ==
  IF p.sel \in DOMAIN shown' /\ p.detail # p.sig
  THEN [with |-> shown', detail |-> p.detail, sel |-> p.sel] ELSE None
Show(p) ==
  /\ page' \in Settled(p)
  /\ timer' = IF <<page'.detail, page'.sel>> # <<page.detail, page.sel>>
              THEN Armed(page') ELSE timer

NoPage == [sel |-> None, adding |-> FALSE, detail |-> NoDetail,
           sig |-> NoDetail, delete |-> None]
Init ==
  /\ file \in Files /\ want = file /\ shown = [i \in {} |-> TRUE]
  /\ page = NoPage /\ timer = None /\ modal = None
  /\ calls = <<[op |-> "config"]>>

\* write: the file holds exactly the providers of the list that is sent, each
\* merged with what the file has of its name.  `enabled` is sent of one that
\* is disabled, and of the one that is just switched on; of any other it
\* stays as it is in the file.
MergeFlags(ps, old, on) ==
  [i \in DOMAIN ps |-> IF i # on /\ i \in DOMAIN old
                       THEN [ps[i] EXCEPT !.on = @ /\ old[i].on] ELSE ps[i]]
DropFlags(ps, old, on) == ps
Merged(ps, old, on) == MergeFlags(ps, old, on)

\* onSave: saveModels sends the list E makes of the one it is given.
Quiet == calls = <<>> /\ timer = None
Send(call) == Len(calls) < MaxCalls /\ calls' = Append(calls, call)
Edits(E(_), with, rename, on, alone) ==
  /\ Send([op |-> "save", with |-> E(with), rename |-> rename, on |-> on])
  /\ want' = IF alone /\ want # None THEN MergeFlags(E(want), want, on) ELSE None
Put(ps, id, p) == [i \in DOMAIN ps \cup {id} |-> IF i = id THEN p ELSE ps[i]]
Change(F(_), id, on) ==
  Edits(LAMBDA ps : IF id \in DOMAIN ps THEN Put(ps, id, F(ps[id])) ELSE ps,
        shown, None, on, Quiet)

Acts == Hasty \/ want # None
Free == Acts /\ page.delete = None /\ modal = None
Active == ~page.adding /\ page.sel \in DOMAIN shown  \* ProviderDetail shows
AddForm == ~Active                                  \* or the form for a new one
Row(m) == Active /\ m \in DOMAIN shown[page.sel].models
Dialog == Acts /\ modal # None /\ Active     \* the dialog for a new model

------------------------------------------------------------------------------
(***************************************************************************)
(* Providers                                                               *)
(***************************************************************************)
SelectProvider(id) ==
  /\ Free /\ id \in DOMAIN shown
  /\ UNCHANGED <<file, shown, modal, calls, want>>
  /\ Show(Selected(page, id))

StartAdd ==
  /\ Free
  /\ UNCHANGED <<file, shown, modal, calls, want>>
  /\ Show([page EXCEPT !.adding = TRUE, !.sel = None])

AddProvider(id, url) ==
  /\ Free /\ AddForm
  /\ Edits(LAMBDA ps : Put(ps, id, [url |-> url, on |-> TRUE,
                                    models |-> [m \in {} |-> "plain"]]),
           shown, None, None, Quiet)
  /\ UNCHANGED <<file, shown, modal>>
  /\ LET d == [id |-> id, url |-> url] IN
     Show([page EXCEPT !.adding = FALSE, !.sel = id, !.detail = d, !.sig = d])

AskDelete ==
  /\ Free /\ Active /\ page' = [page EXCEPT !.delete = page.sel]
  /\ UNCHANGED <<file, shown, timer, modal, calls, want>>

\* removeProvider of the one asked about, or the dialog is closed.
Without(ps, id) == Restrict(ps, DOMAIN ps \ {id})
AnswerDelete ==
  /\ Acts /\ page.delete # None
  /\ UNCHANGED <<file, shown, modal>>
  /\ \/ /\ Edits(LAMBDA ps : Without(ps, page.delete), shown, None, None,
              Quiet)
        /\ Show(IF page.delete = page.sel THEN NoPage
                ELSE [page EXCEPT !.delete = None])
     \/ /\ Show([page EXCEPT !.delete = None]) /\ UNCHANGED <<calls, want>>

ToggleEnabled ==
  /\ Free /\ Active
  /\ Change(LAMBDA p : [p EXCEPT !.on = ~@], page.sel,
            IF shown[page.sel].on THEN None ELSE page.sel)
  /\ UNCHANGED <<file, shown, page, timer, modal>>

\* A key in an input of the selected provider.
Type(d) ==
  /\ Active /\ Free
  /\ want' = IF calls = <<>> THEN want ELSE None
  /\ UNCHANGED <<file, shown, modal, calls>>
  /\ Show([page EXCEPT !.detail = d])

\* Of two providers with one name the file keeps the later.
Renamed(ps, old, d, last) ==
  IF old \notin DOMAIN ps THEN ps
  ELSE LET p == [ps[old] EXCEPT !.url = IF d.url = None THEN @ ELSE d.url]
           rest == Without(ps, old) IN
       IF d.id \in DOMAIN rest /\ ~last THEN rest ELSE Put(rest, d.id, p)

\* 700 ms after the last key; an input without a name is not saved.
TimerFires ==
  /\ timer # None /\ timer' = None
  /\ UNCHANGED <<file, shown, modal>>
  /\ \/ timer.detail.id = None /\ UNCHANGED <<page, calls, want>>
     \/ /\ timer.detail.id # None
        /\ page' = [page EXCEPT !.sig = timer.detail]
        /\ \E last \in BOOLEAN :
             Edits(LAMBDA ps : Renamed(ps, timer.sel, timer.detail, last),
                   timer.with,
                   IF timer.detail.id = timer.sel THEN None
                   ELSE timer.detail.id,
                   None, calls = <<>>)

\* onRefresh, the button above the list.
RefreshModels ==
  /\ Free /\ Send([op |-> "config"])
  /\ UNCHANGED <<file, shown, page, timer, modal, want>>

------------------------------------------------------------------------------
(***************************************************************************)
(* Models of the selected provider                                         *)
(***************************************************************************)
OpenAddModel ==
  /\ Free /\ Active
  /\ modal' = [id |-> None, probing |-> FALSE]
  /\ UNCHANGED <<file, shown, page, timer, calls, want>>

\* A key starts the 600 ms timer of the probe anew; emptying the input ends
\* the probing.
TypeModel(id) ==
  /\ Dialog
  /\ modal' = [id |-> id, probing |-> id # None]
  /\ UNCHANGED <<file, shown, page, timer, calls, want>>

\* An answer ends it too, also one for a name typed before.
ProbeAnswer ==
  /\ modal # None /\ modal.probing
  /\ modal' = [modal EXCEPT !.probing = FALSE]
  /\ UNCHANGED <<file, shown, page, timer, calls, want>>

AddModel(set) ==
  /\ Dialog /\ modal.id # None /\ ~modal.probing
  /\ Change(LAMBDA p : [p EXCEPT !.models = Put(@, modal.id, set)],
            page.sel, None)
  /\ modal' = None
  /\ UNCHANGED <<file, shown, page, timer>>

CloseModal ==
  /\ Dialog /\ modal' = None
  /\ UNCHANGED <<file, shown, page, timer, calls, want>>

RemoveModel(m) ==
  /\ Free /\ Row(m)
  /\ Change(LAMBDA p : [p EXCEPT !.models = Without(@, m)], page.sel, None)
  /\ UNCHANGED <<file, shown, page, timer, modal>>

SaveModelEdit(m, set) ==
  /\ Free /\ Row(m)
  /\ Change(LAMBDA p : IF m \in DOMAIN p.models
                       THEN [p EXCEPT !.models[m] = set] ELSE p,
            page.sel, None)
  /\ UNCHANGED <<file, shown, page, timer, modal>>

------------------------------------------------------------------------------
(***************************************************************************)
(* The daemon                                                              *)
(***************************************************************************)
\* models.save, then models.config; a rename then moves the selection.
Saved ==
  /\ calls # <<>> /\ Head(calls).op = "save"
  /\ file' = Merged(Head(calls).with, file, Head(calls).on)
  /\ calls' = Append(Tail(calls), [op |-> "config"])
  /\ UNCHANGED <<shown, modal, want>>
  /\ Show(IF Head(calls).rename = None THEN page
          ELSE [page EXCEPT !.sel = Head(calls).rename])

Configured ==
  /\ calls # <<>> /\ Head(calls).op = "config"
  /\ shown' = file /\ calls' = Tail(calls)
  /\ UNCHANGED <<file, modal, want>>
  /\ Show(page)

Next ==
  \/ StartAdd \/ AskDelete \/ AnswerDelete \/ ToggleEnabled \/ TimerFires
  \/ \E id \in Ids : SelectProvider(id) \/ \E u \in Urls : AddProvider(id, u)
  \/ \E d \in Details : Type(d)
  \/ OpenAddModel \/ ProbeAnswer \/ CloseModal \/ RefreshModels
  \/ \E m \in Models \cup {None} : TypeModel(m)
  \/ \E m \in Models : RemoveModel(m)
  \/ \E set \in Settings :
       AddModel(set) \/ \E m \in Models : SaveModelEdit(m, set)
  \/ Saved \/ Configured

Spec == Init /\ [][Next]_vars

------------------------------------------------------------------------------
\* When nothing is under way the page shows what models.json holds, and that
\* is every edit the user made, unless one was made while another was under
\* way: then the later list, made before the earlier edit, undoes that one.
\* (A provider added or renamed to the name of a disabled one is disabled.)
EditsKept == calls = <<>> => shown = file /\ want \in {file, None}
==============================================================================
