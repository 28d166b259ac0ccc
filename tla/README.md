# A TLA+ model of pi-web

pi-web is a web user interface for the pi coding agent. One daemon process
hosts any number of agent sessions; browser tabs attach to it over WebSockets
and speak JSON-RPC. This directory models the parts of it whose correctness
depends on the order of things: what happens when requests overlap, sockets
break, the daemon restarts, files change under an agent, text streams from
several agents at once, and a user clicks faster than answers come. Every
definition is written from the source; `map` in `PROJECT.json` names the lines
each one stands for.

## 1. The system and its parts

| part | code (under `src/`) | state it keeps | modelled in |
|---|---|---|---|
| session host | `packages/host/engine/src/vagus-engine.ts` | `sessions` (id -> agent), session files in `sessions/` and `archived/` | `SessionHost` |
| checkpoints | same file, `display-utils.ts` | `toolBaselines`, `fileBaselines`, the snapshot files | `FileRevert` |
| extension UI bridge | `packages/host/engine/src/ui-bridge.ts`, cards in `packages/web/src/App.tsx` | `uiPending`, `turnCounters`, `ui-history` on disk, `uiCards` in each tab | `UiBridge`, `AskOnce` |
| widgets and statuses | same files, `status-dock.tsx`, `widget-panel.tsx` | `widgetRegistry`, `widgetLinesCache`, the dock and the widget tab | `WidgetBoard` |
| streaming | `forwardSessionMessages`, `packages/web/src/useDaemonEvents.ts`, `packages/ui-hooks/src/session-store.ts` | `deltaBuf`, the slots, `busy` | `ChatStream` |
| JSON-RPC channel | `packages/ui-shared/src/protocol-client.ts`, `packages/ui-hooks/src/transport.ts`, `use-vagus-client.ts`, `packages/host/rpc/src` | ids, pending requests, queued frames, the link | `RpcChannel` |
| opening and paging a session in the browser | `App.tsx` (`openSession`, `loadMoreHistory`), `readSessionPage` | slots, paging window, `openSessionSeq`, highlight, last session | `TabView` |
| the timeline and its rebuilt form | `chat.ts`, `session-store.ts`, `messages.tsx`, `file-edits.ts`, `buildMessageViews` | items of a slot; entries of the session file | `Transcript` |
| steering queue | `cancelQueuedMessage`, `queue_update` | two queues of pi, the rail in each tab | `SteerQueue` |
| model choice | `switchModel`, `setThinking`, `session.model.set` | `pendingModel`, slot info, the engine's model | `ModelChoice` |
| compaction | `compact` in `App.tsx`, `compactSession` | loading marker, stop flag, estimate | `Compaction` |
| MCP extension | `packages/mcp-extension/src/index.ts` | pool of clients shared by all sessions | `McpPool` |
| skills and loader cache | `skills-view.tsx`, `apps/cli/src/skills.ts`, `host/config`, `startSession` | `disabledSkills`, `resourceLoaderCache` | `SkillGate` |
| settings: MCP, models, packages | `packages/ui-settings/src`, `useModels.ts`, `plugin-manager.ts`, `host/models` | `mcp.json`, `models.json`, `settings.json`, the pages' forms and timers | `McpEditor`, `ModelsEditor`, `PluginList` |
| sidebar and archive | `sidebar.tsx`, `archive-section.tsx`, `useArchiving.ts` | two lists, pins, menus, scans | `SessionLists` |
| input bar | `input-bar.tsx`, `use-chat-input.ts`, `command-picker.tsx` | draft, attachments, menus | `InputBar` |
| review panel | `use-right-panel.ts`, `right-panel.tsx`, `diff-tab.tsx` | panel state of each session | `ReviewPane` |
| scrolling | `use-autoscroll.ts`, `chat-pane.tsx` | position, lock | `Autoscroll` |
| event bus | `packages/host/events/src/event-bus.ts` | listeners by name and for all names | `EventBus` |
| stdio transport, static server, usage statistics, schemas, markup, themes | see `PROJECT.json` | little or none | not modelled |

How they interact. A tab sends requests over its WebSocket; `WsServerHost`
starts a handler for each and does not await it, so handlers of the session
host overlap at every `await`. Agents report events to the engine, which turns
them into domain events on the bus; the daemon's only listener, a synchronous
one, broadcasts them to every socket, where `useDaemonEvents` folds them into
the slot of their session. Extensions ask the user through the bridge, whose
questions travel as events and whose answers come back as requests. Tool calls
touch files that the user and other programs touch as well. The MCP extension
runs in every session and shares its clients in one process-wide pool. Settings
pages write JSON files that the engine reads when the next session starts. The
session files, the snapshots, the settings and the `ui-history` survive a
restart; `localStorage` survives a reload of the page; everything else is memory.

What is hard: two opens of one session; an archive or delete under a live
agent; reverts against hand edits, parallel calls and restarts; a dialog that is
answered twice, too late, or while a socket is down; text of two agents in one
buffer; requests on a link that died silently; a request timer against a turn
that takes longer; clicks whose answers come back in another order while text
streams; a timeline that must look the same live and reloaded; a pool that is
reconnected while others use it; lists that are edited on the screen before they
are edited on disk; timers that save what was true when they were set.
`hazards` in `PROJECT.json` lists these at their lines with the properties that
watch them, and says where a property has to leave a case out because the code
does go wrong there.

## 2. The modules

### SessionHost

| model | code |
|---|---|
| `sessions` | `VagusEngine.sessions`; a file stands for the id in its header |
| `stage[i]` | where `startSession` is: `opening` before the factory returns, `binding` before `sessions.set`, `live` after; `free` is disposed, `leaked` an agent whose start failed after it was built |
| `home[i]` | the root (`sessions` or `archived`) in the path the agent's manager holds |
| `at[f]` | where the file is; `unsaved` until the agent's first append |
| `CreateSession`, `ResumeSession`, `ForkSession`, then `FactoryDone` / `StartFails`, then `Register` / `ModelsFail` | `startSession`, cut at its awaits |
| `DeleteSession` ... `DeleteArchivedProject` | the file operations, each with the close it performs |
| `Restart` | shutdown or crash |

`CarefulClients` names what the code leaves to its clients: that no request
touches a file a start in flight has opened, and that an archived session is not
moved or deleted while it is open; the web client keeps to it by disabling
nothing, only because a user is slow. In `RestoreProject` any rename may fail,
and the file is then unlinked, unless that fails as well. `OthersKeepRunning`
names, for a turn that a step stops, the requests that may have done so by the
agent's own file, project and archive directory; that the agent is the only one
of its project does not satisfy it. `DirOf` is `encodeCwd`, which is not
injective (`/a/b` and `/a-b` share a directory); theorems that need it say so
(`DirsApart`). A project without session files is not archived: no client shows
it.

### FileRevert

`mem` is `fileBaselines`, `snap` the snapshot file, `call` the tool calls in
flight with the text of `toolBaselines`. A call is `edit` (pi's result carries a
diff) or `plain` (write, read and others). `ToolEnd` follows the handler's three
ways: pi's diff, the engine's own diff with its early return, and the fall
through when the file cannot be read. `start` and `made` only observe. Paths are
already normalised. `HandsOff` (nobody else changes a file while a call works on
it) and `FreshOnly` (a session with baselines on disk runs no tool after a
restart) are assumptions the code does not enforce. `RevertGoesBack` and its
companions are about the step `RevertFiles`; a hand edit that happens to produce
the same files satisfies that formula too, and the properties hold for it as
well. `RevertSparesOthers` speaks of files that existed before the session:
`checkRevert` lets a file the session created through without looking at it
(section 5).

### UiBridge and AskOnce

`pending`, `history` and `counter` are the daemon's; `up` and `down` are the two
directions of each tab's socket, `cards` what the tab shows. A broken socket
loses what is under way; `Connect` asks for `ui.pending` and `ui.history` the
way the effect on `[client]` does. A question asked while no tab is connected is
shown by the next one. Cards are kept as a set: that a reconnect shows answered
cards twice is not visible here. `AskOnce` is the promise to the extension, and
`KeepsPromise` states that the bridge implements it, with the same variables.
`CardsTrue` is `PendingShown` and `TurnsRise`, which compares the turn stamped
on a question with the agent run it was asked in (`runOf`, which only observes).

### ChatStream

One tab, one connection. `wire` is the socket with its domain events and the
answers of `session.prompt`; `buf` is `deltaBuf` with its frame request, which
can be `asked`, null, or cancelled without being null (`stale`); `items` is a
timeline with one `text` for each delta and one `card` for everything else that
adds to it; tool results change a card in place and are left to `Transcript`.
`waiting` are prompt requests whose promise is open. `Overlap` lets agents
stream text blocks at the same time, `Patient` keeps turns below
`requestTimeoutMs` (the timer fires at most while the answer is on its way) and
the user on a session until the turn shows. `NothingLost` compares how often
each kind of item was emitted with how often it occurs in the timeline, the
buffer and the frames on the wire (`Count`), `InOrder` the timeline and the
buffered text, as one sequence, with a prefix of what was emitted, and each
frame with its place in the rest (`Upto`). Written so, the two are conjuncts of
one inductive invariant.
Fairness: the browser delivers frames and, for a tab in view, runs animation
frames. Nothing is assumed of the agents or the user.

### RpcChannel

`conn` numbers the connections of one tab. Each has a fresh `JsonRpcClient`
whose ids start from 0. The link is `connecting`, `open`, `dead` (severed while
`readyState` stays OPEN) or `gone`. `queue` is `pendingFrames`; `serving` holds
the handlers, which outlive their connection. Fairness: a socket opens or fails,
frames are delivered, the oldest running handler ends, and a dead link runs into
the heartbeat's timer. The request timers get none, so `FailFast` holds without
them. No reconnection is assumed.

### TabView

One tab with the session slots of `session-store.ts`. A conversation is a
sequence of messages that stream in two halves, so that a page of history can be
asked for in the middle of a message. `opening` holds the `session.open`
requests with the value `openSessionSeq` had when they were sent; `infos` the
`session.info` requests, whose answers may or may not move the highlight
(`follow`); `paging` and `task` the page and the create, fork or delete under
way. `Window` is `readSessionPage`. `chosen` and `failed` observe where the user
went last; `noted` tells that a slot holds a local note (`localSystem`), which
counts when the code asks whether a slot has items (`HasItems`). `Arrive` loads the slot in any case because the slot the code looks at
again is the one its closure was made with. `Calm` names what the properties need
of the user (see the constant's comment); section 5 tells what happens without.

### Transcript

The same conversation twice. `items` is the timeline built from live events
(deltas joined to the last item of their kind, cards found by call);
`HistoryItems(entries)` is the one `buildMessageViews` and `historyLoaded`
rebuild from the branch in the session file, `Scrolled(limit)` the one that
paging up with `readSessionPage` and `prependHistory` gives. Thinking, text and
tool calls are numbers in the order in which the model made them. A call ends as
`edit` (pi's diff), `own` (the engine's diff), `plain`, `bad`, or `mute` (the
early return without an event). `Turns`, `Answers` and `Fingerprint` follow
`groupChatItems`, `collectEdits` and `turnToolCallId`. `SameTurn` says what two
timelines have to agree on and names the exceptions.

### SteerQueue, ModelChoice, Compaction, WidgetBoard

Each relates something the daemon keeps to what tabs show of it, with requests
and events in the order of the socket. `SteerQueue` has pi's two lists, of
displayed texts and of messages, which drain at different moments: the loop
takes a message (`Take`), and when it announces it the displayed text goes
(`Announce`); a cancellation may come in between, and then `crossed` remembers
that the two lists need not agree any more. The rail in each tab is edited on a
click before the daemon has heard of it, and starts empty when a tab loads the
session (`Load`, remembered in `reset` until the next event). `ModelChoice` has
the choice before there is a session (`pendingModel`), the optimistic one in a
session, and `session.info` answers. Handlers are not awaited, and that of a
choice has awaits of its own: `Handle(i)` ends any handler whose predecessors are
all still in `setActiveModel`, so that an `info` or a later choice may overtake
one. An answer given while a choice of its session is under way, or asked before
it, is `late`; `raced` holds the sessions that show one, whose choice was refused,
or whose choice was overtaken by a later one. `Compaction`
has the marker in the slot that was on screen, one flag and one estimate for all
sessions. `WidgetBoard` has the registry of widgets, the cache of their lines,
statuses, which the daemon forgets, and the widget tab that opens and closes with
the widgets of the session on screen; connections break and pages reload.

### McpPool

A task is a run of `connectAll` or `reconnectAll` in one load of the extension;
tasks interleave at awaits. `pool` is `sharedClients`, `connecting` the promises
others wait on, `made` the version of the configuration a client was made from.
`lost` the servers with a client that is connected but that nobody holds, because
`listTools` threw after `connect` (`Stands`, then `ListFails`). `OneClient`
counts the clients sessions use or will use; the lost ones come on top. A closed
client object may stand for a new one. `Alone` lets `/mcp reconnect`
start when no task is under way. Fairness: every task takes its next step, since
a promise of the SDK settles. The closing loop gets no promise of its own
because it goes on for as long as sessions put clients into the pool.

### SkillGate

The file's `disabledSkills`, the requests of each tab between the listing of the
skills and the write, and the loaders: `cache` keyed by the number of disabled
skills, `builds` under way for a session or for prewarming. `wanted` and
`atStart` observe. `Unlisted` lets `listAllSkills` fail.

### McpEditor, ModelsEditor, PluginList

One settings page each over its file. The handlers are synchronous and the
socket is in order, so calls of a page are a queue; only packages take their
time. `McpEditor` saves the servers of a JSON text one by one, in any order, and
a server may be refused after others are stored (`Refuse`): the page then neither
lists nor reloads, which `partial` remembers until the next change. `ModelsEditor`
has the selected provider with its autosave timer, whose closure holds the list
of its render, and the dialog for a new model. Writing merges each provider with
what the file has of its name (`Merged`), so a flag that is not sent stays.
`want` is the file with every edit applied as the user made it, and `None` once an
edit was made while another was under way; `Hasty` lets the user go on after
that, `Overlap` in `PluginList` while a job is under way.

### SessionLists, InputBar, ReviewPane, Autoscroll

`SessionLists` goes from a context menu over the confirm dialog to the request,
the optimistic removal and the scans that read directory by directory and file
by file. `InputBar` has the draft, attachments read in batches, the command list
with its clamped index and the menus; a file that cannot be read (`Failed`) keeps
its batch from ever being complete. `picked`, `handed` and `removed` observe where
files went, so that `FilesKept` can say that each is in exactly one place. `ReviewPane` has one panel state for all
sessions, and `localStorage`; the effects that store and restore it run in
React's order. `Autoscroll` has position and height in a few units, the scroll
event that follows a frame later, and every code path that moves the view;
`pulled` observes which of them moved it down against a user who had gone up:
`LockKept` admits the glide to a new question and nothing else.

### EventBus

An emit has a snapshot of its listeners (`listeners`), the calls made so far with
how each ended (`calls`), and either the turn or a place in the queue of
microtasks (`ready`), unless it waits for an asynchronous listener. `before`
observes how far the earlier emits were when it began. The daemon registers one
synchronous listener for all names and nothing else, so it lives in the simplest
case of `InOrder`; that is why the other modules take an emit and its broadcast
as one step. What the bus promises in general is stated here because the engine
is written against that: it emits without awaiting.

### Services and Browser

`Services` instantiates the six modules of what the daemon keeps beside sessions
(`McpPool`, `SkillGate`, `McpEditor`, `ModelsEditor`, `PluginList`, `EventBus`),
`Browser` the nine of what a tab keeps beside its slots (`SteerQueue`,
`InputBar`, `SessionLists`, `ReviewPane`, `Autoscroll`, `Transcript`,
`ModelChoice`, `Compaction`, `WidgetBoard`). A step of either is a step of one
machine that leaves the others' variables alone: they share none in the code, and
what they do share, the socket's order, is in each. `moves` says which machines
take part in a behaviour and never changes; `Together` has the choices. The
theorems hold for every `Together`, all machines at once included. `MCServices`
and `MCBrowser` let each machine move in behaviours of its own, so that the state
graph is the union of the machines' graphs and not their product. A property of
the two is the conjunction of what the machines promise.

The constants that tell how careful the user is have their values here, the ones
under which the code keeps its promises: `Alone` in `McpPool` and in
`SessionLists`, `Patient` in `Autoscroll`, neither `Overlap` in `PluginList` nor
`Unlisted` in `SkillGate`. `Hasty` in `ModelsEditor` only bounds the run: the
theorems hold for either value. Section 5 tells what
happens otherwise.

## 3. What is checked

| run | instance | what it shows |
|---|---|---|
| `session_host` | 3 files, 2 agents, 2 directories | with careful clients: the map is sound, one agent per session, no registered one out of reach, each on its file, no turn stopped but by a request for its own session or project |
| `session_race` | same, clients not careful | two opens of one file start two agents (finding) |
| `file_revert` | 1 session, 2 paths, 2 parallel calls, 2 texts | the snapshot is current; a revert restores the start or does nothing; it spares what others wrote into files that were there before the session |
| `revert_restart` | same, `FreshOnly` off | work after a restart overwrites the snapshot (finding) |
| `ui_bridge` | 2 dialogs (1 timed), 1 tab and stdin, 2 agent runs | pending dialogs are shown, turns never go back, the history is true, `AskOnce` is implemented |
| `chat_stream` | 2 sessions, 2 items each, 4 frames | nothing lost, order kept, `busy` true, buffered text shows |
| `chat_switch` | same, `Overlap` | the buffer drops text (finding) |
| `rpc_channel` | 3 requests, 2 connections | pending is exactly what is unsettled, answers reach their own request, everything settles without timers |
| `tab_view` | 2 sessions, pages of 1 message, 3 clicks, 2 infos | timelines have no gap and no repetition; the last choice is on screen, highlighted and remembered; streamed text stays |
| `services` | see below | one client in use per MCP server, fresh after a reconnect, every connecting task ends; loaders hide as many skills as are off; settings are kept and shown; listeners of the bus get events in order and each once |
| `browser` | see below | queued messages are shown and every attachment is in one place; lists, models and widgets show what the daemon has; the panel comes back as it was, the scroll lock holds against all but the glide, compaction marks go; a reloaded session looks like the live one |
| `skill_swap` | 3 skills of which 2 are switched, 2 sessions | a loader is used again for another set of skills of the same size (finding) |

The four violation runs each check one sentence of the repository's own
comments; `findings` quotes it. The passing runs hold with the assumptions under
which the code does keep its word, so the two together say where the border is.

`services` has seven machines: the pool (2 servers, 2 tasks of one session whose
reload leaves the older one running, 2 clients, configurations changed twice), the skill switches twice (one tab with a session
and its loaders, two tabs with none), the pages for MCP servers (2 names, 2 calls under way), models (2 providers, 1
model, 1 address, 2 calls under way, and a user who waits after two edits that
overlap) and packages (2), and the bus (2
listeners of one name, 1 for all, 2 emits). `browser` has nine:
the queue (2 tabs, 3 messages of 2 texts, so that equal texts occur), the input
bar (3 files of which 2 are images), the lists (2 sessions of one project, 2
names), the panel (2 sessions, 2 files), scrolling (4 units of height), the
timeline (5 pieces, pages of 1 to 3), the model choice (2 sessions, 3 models of
which each lacks something, 4 requests), compaction (2 sessions, 5 requests) and
widgets (1 key, 2 sessions, 2 events under way).

Bounds. Three files are the two of one directory and one of another, which is
what the directory operations tell apart; two agents are needed for a clash, and
theorems cover more. Two calls and two paths give parallel calls on one path and
a turn of two files of which one is refused. Two dialogs suffice for an answer
of one to disturb the other, two runs for a turn to be repeated after a restart;
one tab with the client on stdin gives two sources of answers, and `cards` of
tabs do not interact. `MaxRuns`, `MaxItems`, `MaxWire` and `MaxConns` bound
counters and queues: two connections are the least with ids used twice and a
handler that outlives its link; a wire of four holds a block's text, its end
and two frames of another session, and two items are a delta and what must not
overtake it. In `tab_view` conversations have two messages
when the tab starts and get a third, so that with pages of one message there are
pages before, between and after; three clicks are one more than there are
sessions, enough to leave one and come back while it opens. One server that
fails and another that does not, with two tasks, is what `connectAll` can
confuse. Five pieces are enough for a turn with a thought, a call, a result and
an answer, or for two turns. One compaction of a session is under way at a time
because the button is replaced by the stop button, and one widget key because
the daemon keeps each key by itself; with two keys only the order inside
`requestRender` is added. Deadlock is not checked: every module may come to rest
(no more requests, turns or runs).

Each property of a passing run has a mutant of the code in `mutants`, a dropped
reset, a swapped guard or a wrong border, under which TLC finds it violated.

## 4. What is proved

The proofs are in eight modules, `SessionHostProofs` to `BrowserProofs`, and hold
for every value of the constants that the named assumptions admit: any number of
sessions, tabs, dialogs, clients, widgets or listeners, and any value of the bounds.

- **SessionHost.** `TypeCorrect` and `MapAlwaysSound` need no assumption on
  clients; the latter carries along that only live agents are busy. The three
  theorems on agents (`OneAgentAlways`, `NoOrphanAlways`, `OnItsFileAlways`) come
  from one invariant, `Exclusive`: none of the three is inductive alone, because
  closing by path (`MappedOn`) finds every agent of a file only if each is
  reachable and each is where its file is. They assume `CarefulClients` and
  `DirsApart`: with clashing directory names a project operation moves files of
  agents it does not close. `OthersAlwaysRun`, an action property, needs neither:
  whatever a step closes it finds in the map (`MapSound`, and only live agents are
  busy) by the file, the directory or the cwd of the agent it stops, which are
  those of the request.
- **FileRevert.** `SnapshotAlwaysCurrent` holds unconditionally.
  `RevertRestoresStart` needs that the baseline, wherever it is found, has the
  first content, by induction over steps with the snapshot equal to memory
  (`FreshOnly`). `RevertIsSparing` needs that the last recorded text is one of
  the session's own or the original one (`HandsOff`, `FreshOnly`).
- **UiBridge.** `BridgeKeepsPromise` is the step simulation of `AskOnce` from the
  invariant that pending dialogs are open; `HistoryAlwaysTrue` builds on it.
  `CardsAlwaysTrue` adds the tabs and the turns: a connected tab has yet to ask
  what is pending, or has answered the dialog, or shows it, or its card is on the
  way and nothing behind it takes it back (`Covered`); and the turns of open and
  answered questions never exceed the counter, unless nothing has run since the
  restart (`TurnsReached`).
- **RpcChannel.** `PendingAlwaysUnsettled` and `AlwaysOwnAnswer` come from an
  invariant that says where frames of which connection can be, that response
  frames belong to the connection in use, and that pending ids are distinct and
  below `nextId`.
- **ChatStream.** `TypeCorrect` needs no assumption. `NothingEverLost` and
  `AlwaysInOrder` hold when text blocks of different sessions do not overlap
  (`~Overlap`; `chat_switch` shows the loss otherwise). The invariant,
  `OutputInv`, adds `Kept` to the two: between text of one session, buffered or on
  the wire, and text of another there is a frame that makes the tab flush, and so
  there is between text and a card, so the one buffer never has to give up text.
  `BusyAlwaysTrue` assumes `Patient` and follows frames: for each session the
  wire holds at most the start of its turn, then its end, then the prompt's
  reply, and the last of them agrees with what the engine does (`Framed`, `Told`,
  `Stays`).
- **Services.** One invariant, `ServicesInv`, with a part for each machine, gives
  `TypeCorrect` and one theorem for each safety property of `MCServices`; a step
  of one machine keeps the other parts because they are about other variables.
  *Pool* (`PoolAlwaysSound`). The clients somebody holds are the pooled ones and those
  whose tools are being listed, each of one server (`Owned`); a task connects only to a server that has no client and that
  nobody else connects to, since `connecting` and `pool` are read without an
  await in between (`ConnectsAlone`); what is being closed stays pooled until
  then (`ClosesPooled`); and no configuration a task works from, nor any pooled
  client, is older than the last reconnect (`NoneOld`).
  *Skill switches* (`HiddenAlwaysInNumber`, and toggles in `SettingsAlwaysKept`).
  The file has a switch as the user wants it, or one request of that skill is
  under way that will say so (`Switches`); a loader, in the cache or being built,
  is kept under the number of skills it hides, and the number a session was
  started with is the one it gets its loader by (`Keyed`).
  *MCP page.* Whenever the page lists, or the sessions know, other servers than
  `mcp.json` has, a call is under way that ends in a refresh (`Owed`).
  *Models page.* As long as no two edits overlapped, at most one save is under way,
  it has every edit in it, and a timer that will send another one holds the list
  the page shows. Once they did, what is left to say is that a save is always
  followed by a `models.config`, so the page ends up with the file.
  *Packages.* At most one job is under way, the page waits for it and no other,
  and a list that was made is of what is configured (`OneJob`).
  *Bus* (`EventsAlwaysKept`), which needs only that registrations of the two kinds
  are distinct. In order: the microtasks are a queue, so an emit none of whose
  listeners is asynchronous is a call ahead of every later emit that runs or is
  before it in the queue (`Queues`). All called: an emit that is neither over nor
  running is in the queue or waits for an asynchronous listener (`Queued`). Once:
  a once-registration that was called is in no list and is never registered again,
  so no later snapshot has it (`Registered`, `Snapshots`).
- **TabView.** All theorems assume `Calm`. The invariant has four parts beside
  the types. `Told`: a loaded slot is its conversation from its start index on,
  half-messages included. `Opens`: what opens is empty and quiet, and opens once.
  `Pages`: the page under way ends where its slot still starts. `Choice`: unless
  the latest `session.open` is under way or has failed, the chosen session is on
  screen, and the last `session.info` that moves the highlight moves it there.
  `AlwaysGapless` and `StreamAlwaysKept` (an action property) come from the
  first three, `LastChoiceAlwaysShown` and `HighlightAlwaysTrue` from the last.
- **Browser.** `BrowserInv` has a part for each machine but the timeline.
  `InputAlwaysKept`, `DaemonAlwaysShown` and `ViewAlwaysKept` are the properties of
  `MCBrowser`, `TypesCorrect` the types of seven machines.
  The machines that show the daemon's state have the same argument: what a tab
  shows, after the events and requests on the way, is what the daemon has, so with
  nothing on the way the two agree.
  *Steering queue.* The last event on its way to a tab has the queue pi displays; a
  tab with no event on the way shows it, or nothing when it loaded the session
  since, unless a cancellation is under way (`Follows`). The displayed texts are
  the message taken, if it is not announced, then those to be taken, and
  announcing, sending and cancelling change both sides alike until a taken one is
  cancelled (`Waits`).
  *Input bar.* The files picked are the disjoint union of those in the draft, handed
  over, removed and in batches; two batches share none, and one that is whole is
  gone from `reading` (`FilesApart`).
  *Lists.* A list that is not being read shows the files of its place, without what
  a job has taken off in advance; a scan has exactly the rows of the files it is
  done with (`ShownRight`, `ArchivedRight`, `ScanRight`).
  *Model choice.* What a session shows is what the last choice on the way asks for,
  or what the engine has when none is (`ShownNext`); no choice comes behind an
  `info` that is not late (`NoneAfter`, `Timely`), wherever in the queue the handler
  that ends stood: requests are taken out of the middle, and the order of the rest
  stays (`Up`, `Down`). The property alone says nothing
  while something is on the way, so it is not inductive.
  *Widgets.* The events on the way make of the tab's widgets the daemon's cache, and
  of its statuses, but for those it missed, the daemon's (`Replays`,
  `StatusReplays`).
  *Compaction.* A session's marks are counted by its compactions, wherever these
  are (`Counted`); an estimate the engine knows better than has an answer to come
  that ends it (`EstimateEnds`).
  *Panel.* What is stored of a session is what was left of it but for the tab in
  front (`PaneLeft`).
  *Scrolling.* Who went up is locked, no chase is on its way, and between a move and its event only moves
  come that keep the view off the bottom (`LockHolds`).

Each inductive invariant was checked by TLC on a small instance before it was
proved.

Only model-checked, and why:

- the liveness properties `TextShows`, `FailFast` and `ConnectsEnd`: fairness is
  about ENABLED, which the prover does not handle;
- `RebuildAgrees` of `Browser`: the rebuilt timelines of `Transcript` are computed
  by `SelectSeq` and `FlattenSeq` over the entries, and what these return for every
  conversation needs induction over data;
- `TypeOK` of `Browser`, for the same reason: the rail of `SteerQueue` drops the
  lines of a text with `SelectSeq`, which the prover does not unfold, so that the
  rail stays a sequence of texts is left to TLC. `QueueShown` does not need it: the
  rail is compared where an event has set it. Seven of the nine machines' types
  are proved (`TypesCorrect`);
- the violation runs.

## 5. What the code does outside the assumptions

Besides the four findings, these came up while the modules were written. Each is
a case that a constant or an exception in a property leaves out, or a path the
models name and no property speaks of.

- **A start that fails late.** When asking for the models rejects
  (`vagus-engine.ts:2013`), the request fails after the agent was built and its
  extensions bound (`:611`): it is never disposed, and nothing leads to it.
- **Restoring a project.** A file whose rename fails is skipped and then unlinked
  with its directory (`:1357`), a session lost for good. An archived session that
  is open keeps its old path when another client restores or deletes it.
- **Tool cards and reverts.** A file that the session created is deleted by a
  revert even when it was edited by hand afterwards: `checkRevert` asks only
  whether the baseline is missing (`:976`), while the comments at `:116-118` and
  `:924-927` promise to refuse a file that was changed externally. A call on a path whose text did not change ends
  without `session.tool_result`, so its card runs until a reload (`mute` in
  `Transcript`). The result of a `write` is not recorded as `lastContent`
  (`Records` in `FileRevert`), so its revert is refused as a hand edit.
- **Turns of cards.** After a restart the next run gets the turn of the last
  answered card, and a card asked before that run gets 0; the comment on
  `nextTurn` says the base is the number of user messages.
- **The busy flag** (without `Patient` in `ChatStream`). A turn that outlasts
  the request timer of 300 s clears the flag of the session on screen.
- **Opening sessions** (without `Calm`). A late `session.info` answer moves the
  highlight after a new session or a fork; the welcome screen does not count as
  a newer click; a failed open leaves highlight and last session on the one that
  failed; a session without a file mapping is paged from the file on screen; a
  second click while a session opens, or an unseen session that streams, can
  leave a gap; two sends from the welcome screen create two sessions.
- **Reconnecting.** Slots are not reloaded: events missed stay missed, and a
  turn end missed leaves its slot busy. Statuses are not asked for.
- **The timeline.** Rebuilt turns put calls before the text of their message;
  error notes are gone; a turn cut by a steering message after a tool shows its
  text as the answer; calls of a message that broke off appear as succeeded.
- **Steering queue.** After a tab has loaded a session its rail is empty until the
  next `queue_update` (`session-store.ts:102-111`). A message the loop has taken and
  not announced can be cancelled: the tab is told it is, the agent gets it, and
  announcing it takes an equal text off the display (`vagus-engine.ts:1496-1508`).
- **Skills** (with `Unlisted`). When the listing fails, the next toggle clears
  all other switches. Skill prompts of two sessions share one queue of raw texts.
- **Event bus.** `once` says "at most once", yet emits that overlap before its
  turn all call it. Behind a listener that is asynchronous, or that throws, a
  later event can come first; so can an event whose name has fewer listeners in
  front of a `subscribeAll`. The daemon's single listener meets none of these.
- **MCP.** When `listTools` throws after the connection stands
  (`mcp-extension/src/index.ts:181-184`), the connected client is held by nobody and
  closed by nobody, and a retry starts another. Without `Alone`, reconnects that
  overlap leak a client. A server
  whose connection fails makes a waiting session skip the servers after it. A
  connection under way survives a reconnect with its old configuration; a
  removed server's client is never closed.
- **MCP page.** A JSON text with a server that is refused leaves the ones before it
  stored, the list unread and the sessions not reloaded (`mcp-view.tsx:260-263`).
- **Models page.** A provider added or renamed to the name of one that is disabled
  is disabled, since `write` merges it with what the file has
  (`vag-models.ts:180-181`). When edits overlap, the autosave timer writes a list made
  before its delay over a toggle or an added model; edits made before the first
  answer overwrite the file; of two providers renamed to one name one is lost;
  an answer to the probe of one model can fill the form of another.
- **Packages** (with `Overlap`). Two jobs may list in either order.
- **Model choice.** `setActiveModel` awaits twice (`vagus-engine.ts:830-836`), and the
  next request is handled meanwhile (`websocket-server.ts:105`): an `info` asked
  before a choice, or after it but answered before it is applied, shows the old
  model until the next turn ends, and of two choices the earlier may be applied
  last. A refused choice stays on the screen.
- **Compaction.** A compaction that ends while another session is on screen
  leaves its marker, and its estimate is shown for the other session.
- **Lists** (without `Alone`). An older scan brings a removed row back for a
  while. A project whose archiving fails stays off the list until the next scan.
- **Composer, panel, scrolling.** A file that cannot be read keeps its whole batch
  from the draft (`use-chat-input.ts:33-53` has no listener for errors). A new
  question glides into view whatever the lock (`chat-pane.tsx:100`), so a locked
  view does move down, against `use-autoscroll.ts:6-9`. A file that is read after its message was sent
  goes with the next one; the index of the command list can become -1; a review
  tab open in one session is shown in the next; a user's scroll during an
  animation is overridden (`Patient` in `Autoscroll`).

## 6. Not modelled, and the plan

Not modelled: the stdio transport and the static server (no state),
usage statistics (sums, and calendar arithmetic that a model would take for
granted), markup, themes, translations and schemas. Inside the modelled parts: I/O failures of single writes where the code is
best-effort, corrupt JSON lines, the wording of messages, tree navigation and
renaming in a live session, layout, drag and drop, git and terminal commands.

Next, in this order:

1. The timeline: a formulation of `HistoryItems` entry by entry, kept as a variable
   beside the entries, would make `RebuildAgrees` an invariant to prove instead of
   a fold to compute.
2. Composition of `SessionHost` with `UiBridge` (dialogs of a disposed session)
   and of `RpcChannel` with `TabView` (events missed on reconnect).
