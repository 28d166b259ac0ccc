------------------------------- MODULE Services -------------------------------
(***************************************************************************)
(* The daemon's services and their settings pages, side by side: the pool  *)
(* of MCP clients, the skill switches, and the pages for MCP servers,      *)
(* model providers and packages, and the event bus.  They share no state,  *)
(* so a behaviour is one of those that take part in it, interleaved; the   *)
(* others stay where they begin, with nothing configured.                  *)
(*                                                                         *)
(* "/mcp reconnect" is typed when no task is under way, the skills can be  *)
(* listed, and who installs packages waits for what is under way: without  *)
(* that the promises below do not hold (McpPool, SkillGate, PluginList).   *)
(***************************************************************************)
EXTENDS Naturals, FiniteSets, Sequences

CONSTANTS
  None,
  Together,                             \* who may take part in a behaviour
  Servers, Loaders, Tasks, Clients, MaxEdits,                  \* McpPool
  Skills, Switched, Tabs, Sessions, Builtins, MaxBuilds,       \* SkillGate
  McpNames, McpTexts, MaxCalls,                                \* McpEditor
  Ids, Urls, Models, Hasty,                                   \* ModelsEditor
  Packages,                                                    \* PluginList
  EventNames, Named, ForAll, Once, MaxEmits                    \* EventBus

VARIABLES
  moves,  \* who takes part in this behaviour: services, and tabs with skills
  config, pool, connecting, made, open, lost, task, tools, due,
  disabled, asks, memo, wanted, cache, builds, hides, atStart,
  mcpJson, servers, editor, mcpCalls, reloaded, partial,
  modelsJson, shown, page, timer, modal, calls, want,
  settings, kept, view, jobs,
  entries, all, fresh, emits, turn, ready

poolVars == <<config, pool, connecting, made, open, lost, task, tools, due>>
gateVars == <<disabled, asks, memo, wanted, cache, builds, hides, atStart>>
mcpVars == <<mcpJson, servers, editor, mcpCalls, reloaded, partial>>
modelsVars ==
  <<modelsJson, shown, page, timer, modal, calls, want>>
pluginsVars == <<settings, kept, view, jobs>>
busVars == <<entries, all, fresh, emits, turn, ready>>
vars ==
  <<moves, poolVars, gateVars, mcpVars, modelsVars, pluginsVars, busVars>>

Pool == INSTANCE McpPool WITH NoClient <- None, Alone <- TRUE
Gate == INSTANCE SkillGate WITH Unlisted <- FALSE
Mcp == INSTANCE McpEditor WITH
  Names <- McpNames, Texts <- McpTexts,
  file <- mcpJson, list <- servers, page <- editor, calls <- mcpCalls
Providers == INSTANCE ModelsEditor WITH file <- modelsJson
Plugins == INSTANCE PluginList WITH
  Overlap <- FALSE, cache <- kept, page <- view
Bus == INSTANCE EventBus WITH Names <- EventNames

\* Assumed of the constants, where a module gives them values.
ServicesAssumption ==
  /\ Pool!PoolAssumption /\ Gate!GateAssumption /\ Mcp!EditorAssumption
  /\ Providers!ModelsAssumption /\ Plugins!PluginAssumption
  /\ Bus!BusAssumption

Init ==
  /\ moves \in Together
  /\ "pool" \in moves \/ config = [v \in Servers |-> 0]
  /\ moves \cap Tabs # {} \/ disabled = {}
  /\ "mcp" \in moves \/ mcpJson = <<>>
  /\ "models" \in moves \/ modelsJson = <<>>
  /\ "plugins" \in moves \/ settings = {}
  /\ Pool!Init /\ Gate!Init /\ Mcp!Init /\ Providers!Init /\ Plugins!Init
  /\ Bus!Init

PoolNext ==
  /\ "pool" \in moves /\ Pool!Next
  /\ UNCHANGED <<gateVars, mcpVars, modelsVars, pluginsVars, busVars>>
GateNext ==
  /\ \/ "loaders" \in moves /\ Gate!LoaderStep
     \/ \E t \in Tabs \cap moves : Gate!TabStep(t)
  /\ UNCHANGED <<poolVars, mcpVars, modelsVars, pluginsVars, busVars>>
McpNext ==
  /\ "mcp" \in moves /\ Mcp!Next
  /\ UNCHANGED <<poolVars, gateVars, modelsVars, pluginsVars, busVars>>
ProvidersNext ==
  /\ "models" \in moves /\ Providers!Next
  /\ UNCHANGED <<poolVars, gateVars, mcpVars, pluginsVars, busVars>>
PluginsNext ==
  /\ "plugins" \in moves /\ Plugins!Next
  /\ UNCHANGED <<poolVars, gateVars, mcpVars, modelsVars, busVars>>
BusNext ==
  /\ "bus" \in moves /\ Bus!Next
  /\ UNCHANGED <<poolVars, gateVars, mcpVars, modelsVars, pluginsVars>>

Next ==
  /\ UNCHANGED moves
  /\ PoolNext \/ GateNext \/ McpNext \/ ProvidersNext \/ PluginsNext \/ BusNext

\* The tasks of the pool go on (McpPool).
Spec ==
  /\ Init /\ [][Next]_vars
  /\ \A t \in Tasks : WF_poolVars(Pool!Steps(t))

\* Who takes part stays in its types.
TypeOK ==
  /\ "pool" \in moves => Pool!TypeOK
  /\ moves \cap ({"loaders"} \cup Tabs) # {} => Gate!TypeOK
  /\ "mcp" \in moves => Mcp!TypeOK
  /\ "models" \in moves => Providers!TypeOK
  /\ "plugins" \in moves => Plugins!TypeOK
  /\ "bus" \in moves => Bus!TypeOK

\* Sessions share one client of each MCP server, however they connect, and
\* after "/mcp reconnect" none of an older configuration is in use.
PoolSound == Pool!PoolSound

\* Every task that connects servers comes to its end.
ConnectsEnd == Pool!ConnectsEnd

\* A session's loader hides as many skills as are switched off.
HiddenInNumber == Gate!HiddenInNumber

\* What the user set on each page is in its file, and the page shows the file.
SettingsKept ==
  Gate!TogglesKept /\ Providers!EditsKept /\ Mcp!ListTrue /\ Plugins!ListTrue

\* Listeners get the events of the bus in order, all of them, and those of
\* once() do so once, as far as the code promises it.
EventsKept == Bus!EventsKept
===============================================================================
