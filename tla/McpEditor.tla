------------------------------ MODULE McpEditor ------------------------------
(***************************************************************************)
(* The MCP settings page (mcp-view.tsx) over mcp.json (plugin-manager.ts   *)
(* and the mcp.* methods of daemon.ts).                                    *)
(*                                                                         *)
(* The handlers are synchronous and the socket is in order, so the calls   *)
(* of the page are a queue; handling a call and going on after its answer  *)
(* is one step.  No button waits for the calls under way.  Of a server's   *)
(* configuration the model keeps what tells two saves apart and the fields *)
(* the form has no input for (enabled, cwd, headers).  What the inputs and *)
(* the JSON text hold is chosen when it is saved; error texts are left     *)
(* out.                                                                    *)
(***************************************************************************)
EXTENDS Naturals, Sequences, FiniteSets, Functions

CONSTANTS
  Names,
  Texts,     \* what the inputs of the form can say
  MaxCalls   \* bound on calls under way

\* Assumed of the constants, where a module gives them values.
EditorAssumption == MaxCalls \in Nat /\ Names # {} /\ Texts # {}

VARIABLES
  file,      \* mcp.json: the configured servers
  list,      \* servers: what the page lists
  page,      \* adding, editing and removingId (a set)
  calls,     \* requests under way and what follows them
  reloaded,  \* mcp.json as of the last session.reload
  partial    \* history: what saves that failed half way stored since then

vars == <<file, list, page, calls, reloaded, partial>>

Configs == [text : Texts, extra : BOOLEAN]
Files == UNION {[N -> Configs] : N \in SUBSET Names}
Nothing == [n \in {} |-> TRUE]
Closed == [adding |-> FALSE, editing |-> FALSE, removing |-> {}]
Puts == [op : {"mcp.add", "mcp.update"}, left : SUBSET Names, with : Files,
         json : BOOLEAN]
Calls == Puts \cup [op : {"mcp.list"}, reload : BOOLEAN, removed : BOOLEAN]
              \cup [op : {"mcp.remove"}, name : Names]

TypeOK ==
  /\ {file, list, reloaded} \subseteq Files
  /\ page \in [adding : BOOLEAN, editing : BOOLEAN, removing : SUBSET Names]
  /\ calls \in Seq(Calls) /\ partial \subseteq Names

Refresh(reload, removed) ==
  [op |-> "mcp.list", reload |-> reload, removed |-> removed]
Put(op, cs, isJson) ==
  [op |-> op, left |-> DOMAIN cs, with |-> cs, json |-> isJson]

Init ==
  /\ file \in Files /\ list = Nothing /\ page = Closed
  /\ calls = <<Refresh(FALSE, FALSE)>> /\ reloaded = file
  /\ partial = {}

Loading == \E i \in DOMAIN calls : calls[i].op = "mcp.list"
Toolbar == ~Loading /\ ~page.adding     \* the list shows, with its toolbar
Card(n) == Toolbar /\ n \in DOMAIN list  \* and a card for each server
EditorShown == ~Loading /\ page.adding
Send(call) == Len(calls) < MaxCalls /\ calls' = Append(calls, call)

------------------------------------------------------------------------------
(***************************************************************************)
(* Clicks; while the list is loading there is nothing to click             *)
(***************************************************************************)

NewServer ==
  /\ Toolbar
  /\ page' = [page EXCEPT !.adding = TRUE]
  /\ UNCHANGED <<file, list, calls, reloaded, partial>>

\* startEdit prefills both editors with what the list shows.
StartEdit(n) ==
  /\ Card(n)
  /\ page' = [page EXCEPT !.adding = TRUE, !.editing = TRUE]
  /\ UNCHANGED <<file, list, calls, reloaded, partial>>

CloseEditor ==
  /\ EditorShown
  /\ page' = [page EXCEPT !.adding = FALSE, !.editing = FALSE]
  /\ UNCHANGED <<file, list, calls, reloaded, partial>>

Method == IF page.editing THEN "mcp.update" ELSE "mcp.add"

\* saveServer of the form, whose configuration has only what the form shows,
\* or of the JSON text, which may have any servers.
SaveServer ==
  /\ EditorShown
  /\ \/ \E n \in Names, t \in Texts :
          Send(Put(Method, [m \in {n} |-> [text |-> t, extra |-> FALSE]], FALSE))
     \/ \E cs \in Files \ {Nothing} : Send(Put(Method, cs, TRUE))
  /\ UNCHANGED <<file, list, page, reloaded, partial>>

\* removeServer; only the last server it was pressed for is disabled.
RemoveServer(n) ==
  /\ Card(n) /\ n \notin page.removing
  /\ page' = [page EXCEPT !.removing = {n}]
  /\ Send([op |-> "mcp.remove", name |-> n])
  /\ UNCHANGED <<file, list, reloaded, partial>>

------------------------------------------------------------------------------
(***************************************************************************)
(* Answers                                                                 *)
(***************************************************************************)

Call == Head(calls)
Then(more) == calls' = Tail(calls) \o more

\* mcp.list; after a change all sessions are told to reload, and the finally
\* of removeServer clears removingId.
Listed ==
  /\ calls # <<>> /\ Call.op = "mcp.list"
  /\ list' = file
  /\ page' = [page EXCEPT !.removing = IF Call.removed THEN {} ELSE @]
  /\ reloaded' = IF Call.reload THEN file ELSE reloaded
  /\ partial' = IF Call.reload THEN {} ELSE partial
  /\ Then(<<>>)
  /\ UNCHANGED file

\* mcpAdd, mcpUpdate: the file is read, one server is set, the file written.
\* A JSON text has its servers in any order, and the page asks for the next
\* one after each answer.
Stored(n, c) == [m \in DOMAIN file \cup {n} |-> IF m = n THEN c ELSE file[m]]
AfterSave(removed) == <<Refresh(TRUE, removed)>>
Store(n) ==
  /\ file' = Stored(n, Call.with[n])
  /\ IF Call.left # {n}
     THEN /\ Then(<<[Call EXCEPT !.left = @ \ {n}]>>)
          /\ UNCHANGED page
     ELSE /\ Then(AfterSave(FALSE))
          /\ page' = [page EXCEPT !.adding = FALSE, !.editing = FALSE]
  /\ UNCHANGED partial

\* An update of a server that is gone fails, and so does one without a name,
\* which a JSON text may have anywhere among its servers; what it has after
\* that is not saved, and the list is not asked for.
Refuse ==
  /\ Then(<<>>)
  /\ partial' = partial \cup (DOMAIN Call.with \ Call.left)
  /\ UNCHANGED <<file, page>>

Saved ==
  /\ calls # <<>> /\ Call.op \in {"mcp.add", "mcp.update"}
  /\ \E n \in Call.left :
       LET gone == Call.op = "mcp.update" /\ n \notin DOMAIN file IN
       (~gone /\ Store(n)) \/ ((gone \/ Call.json) /\ Refuse)
  /\ UNCHANGED <<list, reloaded>>

\* mcpRemove
Removed ==
  /\ calls # <<>> /\ Call.op = "mcp.remove"
  /\ IF Call.name \in DOMAIN file
     THEN /\ file' = Restrict(file, DOMAIN file \ {Call.name})
          /\ Then(AfterSave(TRUE)) /\ UNCHANGED page
     ELSE /\ page' = [page EXCEPT !.removing = {}]
          /\ Then(<<>>)
          /\ UNCHANGED file
  /\ UNCHANGED <<list, reloaded, partial>>

Next ==
  \/ NewServer \/ CloseEditor \/ SaveServer
  \/ \E n \in Names : StartEdit(n) \/ RemoveServer(n)
  \/ Listed \/ Saved \/ Removed

Spec == Init /\ [][Next]_vars

------------------------------------------------------------------------------
\* When all is answered the page lists the servers that are configured, each
\* as it is configured, and the sessions have been told of them, whatever was
\* clicked twice.  Exempt are the servers that a JSON text stored before one
\* of its servers was refused: it leaves them unlisted, and the sessions
\* unaware of them, until the next change.
ListTrue ==
  calls = <<>> => \A n \in Names \ partial :
    /\ n \in DOMAIN file <=> n \in DOMAIN list
    /\ n \in DOMAIN file <=> n \in DOMAIN reloaded
    /\ n \in DOMAIN file => list[n] = file[n] /\ reloaded[n] = file[n]
==============================================================================
