------------------------------ MODULE McpPool --------------------------------
(***************************************************************************)
(* The MCP extension (mcp-extension/src/index.ts) in the sessions of one   *)
(* daemon: clients of MCP servers are shared by all sessions, connected on *)
(* demand by whoever comes first, and closed only by "/mcp reconnect".     *)
(*                                                                         *)
(* A run of connectAll or reconnectAll is a task; it belongs to one load   *)
(* of the extension by one session.  Tasks interleave at their awaits: the *)
(* connection of a client, its close, another task's connection.           *)
(***************************************************************************)
EXTENDS Naturals, Sequences, FiniteSets, SequencesExt

CONSTANTS
  Servers, Loaders, Tasks,
  Clients,   \* client objects; a closed one is used again for a new one
  NoClient,
  Alone,     \* TRUE: "/mcp reconnect" is typed when no task is under way
  MaxEdits   \* bound on changes of a server in mcp.json

\* Assumed of the constants, where a module gives them values.
PoolAssumption ==
  /\ IsFiniteSet(Servers)
  /\ NoClient \notin Clients /\ Alone \in BOOLEAN /\ MaxEdits \in Nat \ {0}

VARIABLES
  config,      \* mcp.json: the version of each server's entry; even versions
               \* are absent or `enabled: false`
  pool,        \* sharedClients (and sharedToolCache)
  connecting,  \* connecting: the client its promise is about
  made,        \* the version a client was made from; 0 for one not in use
  open,        \* clients connected and not closed that somebody holds
  lost,        \* the servers a client of which nobody holds or closes any more
  task,        \* what each task does next
  tools,       \* the servers whose tools each session's runner has
  due          \* observation: config as of the last reconnect

vars == <<config, pool, connecting, made, open, lost, task, tools, due>>

Idle == [at |-> "idle", todo |-> <<>>, who |-> {}, client |-> NoClient]

TypeOK ==
  /\ config \in [Servers -> 0 .. MaxEdits] /\ due \in [Servers -> 0 .. MaxEdits]
  /\ {pool, connecting} \subseteq [Servers -> Clients \cup {NoClient}]
  /\ made \in [Clients -> 0 .. MaxEdits]
  /\ open \in SUBSET Clients /\ lost \in SUBSET Servers
  /\ tools \in [Loaders -> SUBSET Servers]
  /\ task \in [Tasks ->
       [at : {"idle", "next", "connects", "lists", "waits", "woken", "closes"},
        todo : Seq([srv : Servers, config : 1 .. MaxEdits]),
        who : SUBSET Loaders, client : Clients \cup {NoClient}]]
  /\ \A t \in Tasks : task[t].at = "idle" \/ task[t].todo # <<>>

Init ==
  /\ config \in [Servers -> {0, 1}]
  /\ pool = [v \in Servers |-> NoClient] /\ connecting = pool
  /\ made = [c \in Clients |-> 0] /\ open = {} /\ lost = {}
  /\ task = [t \in Tasks |-> Idle]
  /\ tools = [l \in Loaders |-> {}]
  /\ due = [v \in Servers |-> 0]

\* mcp.json is edited, in the settings or by hand: a server is added,
\* changed, removed or disabled.
Edit(v, n) ==
  /\ n \in {config[v] + 1, config[v] + 2} /\ n <= MaxEdits
  /\ config' = [config EXCEPT ![v] = n]
  /\ UNCHANGED <<pool, connecting, made, open, lost, task, tools, due>>

\* loadServers: the enabled ones.
LoadServers ==
  SetToSeq({[srv |-> v, config |-> config[v]] :
              v \in {u \in Servers : config[u] % 2 = 1}})
NeverDone(who, servers) ==
  [Idle EXCEPT !.at = "next", !.todo = servers, !.who = who]
ConnectAll(who, servers) ==
  IF servers = <<>> THEN Idle
  ELSE [Idle EXCEPT !.at = "next", !.todo = servers, !.who = who]

\* session_start, when a session starts and after each reload: the runner is
\* fresh, and what older tasks register goes to the runner of before.
SessionStart(l, t) ==
  /\ task[t] = Idle
  /\ tools' = [tools EXCEPT ![l] = {}]
  /\ task' = [u \in Tasks |-> IF u = t THEN ConnectAll({l}, LoadServers)
                              ELSE [task[u] EXCEPT !.who = @ \ {l}]]
  /\ UNCHANGED <<config, pool, connecting, made, open, lost, due>>

Server(t) == Head(task[t].todo).srv

\* registerServerTools, then the next server.
After(t) == ConnectAll(task[t].who, Tail(task[t].todo))
Register(t, found) ==
  tools' = [l \in Loaders |-> IF found /\ l \in task[t].who
                              THEN tools[l] \cup {Server(t)} ELSE tools[l]]

\* ensureClient: a pooled client, a connection under way, or one of our own.
NeverShare(t) == FALSE
MayShare(t) == connecting[Server(t)] # NoClient

UsePooled(t) ==
  /\ task[t].at = "next" /\ pool[Server(t)] # NoClient
  /\ Register(t, TRUE)
  /\ task' = [task EXCEPT ![t] = After(t)]
  /\ UNCHANGED <<config, pool, connecting, made, open, lost, due>>

AwaitOther(t) ==
  /\ task[t].at = "next" /\ pool[Server(t)] = NoClient /\ MayShare(t)
  /\ task' = [task EXCEPT ![t].at = "waits"]
  /\ UNCHANGED <<config, pool, connecting, made, open, lost, tools, due>>

Connect(t, c) ==
  /\ task[t].at = "next" /\ pool[Server(t)] = NoClient /\ ~MayShare(t)
  /\ made[c] = 0
  /\ made' = [made EXCEPT ![c] = Head(task[t].todo).config]
  /\ connecting' = [connecting EXCEPT ![Server(t)] = c]
  /\ task' = [task EXCEPT ![t].at = "connects", ![t].client = c]
  /\ UNCHANGED <<config, pool, open, lost, tools, due>>

\* The connection stands, and the server is asked for its tools.
Stands(t) ==
  /\ task[t].at = "connects"
  /\ open' = open \cup {task[t].client}
  /\ task' = [task EXCEPT ![t].at = "lists"]
  /\ UNCHANGED <<config, pool, connecting, made, lost, tools, due>>

\* The promise is kept, and who awaits it goes on; or it is rejected, and
\* that ends the others' loops over their servers.
LeaveWaiting(t, stands) == [task EXCEPT ![t] = After(t)]
Settle(t, stands) == [u \in Tasks |->
  IF u = t THEN After(t)
  ELSE IF task[u].at = "waits" /\ Server(u) = Server(t)
  THEN IF stands THEN [task[u] EXCEPT !.at = "woken"] ELSE Idle
  ELSE task[u]]

Connected(t) ==
  /\ task[t].at = "lists"
  /\ pool' = [pool EXCEPT ![Server(t)] = task[t].client]
  /\ connecting' = [connecting EXCEPT ![Server(t)] = NoClient]
  /\ Register(t, TRUE) /\ task' = Settle(t, TRUE)
  /\ UNCHANGED <<config, made, open, lost, due>>

Fails(t) ==
  /\ task[t].at = "connects"
  /\ connecting' = [connecting EXCEPT ![Server(t)] = NoClient]
  /\ made' = [made EXCEPT ![task[t].client] = 0]
  /\ task' = Settle(t, FALSE)
  /\ UNCHANGED <<config, pool, open, lost, tools, due>>

\* listTools throws: the client stays connected, neither pooled nor closed.
ListFails(t) ==
  /\ task[t].at = "lists"
  /\ lost' = lost \cup {Server(t)} /\ open' = open \ {task[t].client}
  /\ connecting' = [connecting EXCEPT ![Server(t)] = NoClient]
  /\ made' = [made EXCEPT ![task[t].client] = 0]
  /\ task' = Settle(t, FALSE)
  /\ UNCHANGED <<config, pool, tools, due>>

Woken(t) ==
  /\ task[t].at = "woken"
  /\ Register(t, pool[Server(t)] # NoClient)
  /\ task' = [task EXCEPT ![t] = After(t)]
  /\ UNCHANGED <<config, pool, connecting, made, open, lost, due>>

\* reconnectAll: the loop over the pool goes from close to close until no
\* entry is left, then connects anew.
ToClose(p) == {v \in Servers : p[v] # NoClient}
NextClose(t, l, p) ==
  IF ToClose(p) = {} THEN task' = [task EXCEPT ![t] = ConnectAll(l, LoadServers)]
  ELSE \E v \in ToClose(p) : task' = [task EXCEPT ![t] =
         [at |-> "closes", who |-> l, client |-> p[v],
          todo |-> <<[srv |-> v, config |-> made[p[v]]]>>]]

Reconnect(l, t) ==
  /\ task[t] = Idle
  /\ Alone => \A u \in Tasks : task[u] = Idle
  /\ NextClose(t, {l}, pool)
  /\ due' = config
  /\ UNCHANGED <<config, pool, connecting, made, open, lost, tools>>

\* After its await the entry goes, whichever client it holds by then.
Closed(t) ==
  /\ task[t].at = "closes"
  /\ open' = open \ {task[t].client}
  /\ made' = [made EXCEPT ![task[t].client] = 0]
  /\ pool' = [pool EXCEPT ![Server(t)] = NoClient]
  /\ NextClose(t, task[t].who, pool')
  /\ UNCHANGED <<config, connecting, lost, tools, due>>

Steps(t) ==
  \/ UsePooled(t) \/ AwaitOther(t) \/ Stands(t) \/ Connected(t) \/ Fails(t)
  \/ ListFails(t) \/ Woken(t) \/ Closed(t)
  \/ \E c \in Clients : Connect(t, c)

Next ==
  \/ \E v \in Servers, n \in 1 .. MaxEdits : Edit(v, n)
  \/ \E t \in Tasks, l \in Loaders : SessionStart(l, t) \/ Reconnect(l, t)
  \/ \E t \in Tasks : Steps(t)

Spec == Init /\ [][Next]_vars /\ \A t \in Tasks : WF_vars(Steps(t))

------------------------------------------------------------------------------
Lists(t) == task[t].at = "lists"

\* The clients that nobody is closing.
Kept ==
  open \ {task[t].client : t \in {u \in Tasks : task[u].at = "closes"}}

\* "Shared Client + tool cache means M processes total": of the clients that
\* sessions use or will use a server has at most one, the pooled one or one
\* whose tools a single task is listing, however many sessions connect at
\* once.  (Clients that a failed listing left behind come on top of these,
\* one for each failure: nobody closes them before the daemon ends.)
OneClient ==
  /\ Kept \subseteq {pool[v] : v \in Servers}
                    \cup {task[t].client : t \in {u \in Tasks : Lists(u)}}
  /\ \A v, w \in Servers : pool[v] = pool[w] /\ pool[v] # NoClient => v = w
  /\ \A t \in Tasks : Lists(t) =>
       /\ pool[Server(t)] = NoClient
       /\ \A u \in Tasks : Lists(u) /\ Server(u) = Server(t) => u = t

\* After a reconnect no session works with a client made from an older
\* configuration of its server, or of a server that was taken out.
ReconnectFresh ==
  (\A t \in Tasks : task[t] = Idle) =>
    \A v \in Servers : pool[v] # NoClient => made[pool[v]] >= due[v]

\* What the pool owes its sessions.
PoolSound == OneClient /\ ReconnectFresh

\* Whoever connects gets done, whatever connections fail.  (The loop that
\* closes may go on for as long as sessions start: it visits what they pool.)
ConnectsEnd ==
  \A t \in Tasks : task[t].at \notin {"idle", "closes"} ~> task[t] = Idle
==============================================================================
