----------------------------- MODULE SessionHost -----------------------------
(***************************************************************************)
(* The session side of VagusEngine: the map of live agents, the session    *)
(* files they append to, and the archive.  A session file lives under      *)
(* sessions/<dir>/ or archived/<dir>/, where <dir> encodes the working     *)
(* directory of the session.  Opening a file starts an agent; starting is  *)
(* asynchronous, so an agent passes through two stages before the engine   *)
(* records it in its map.                                                  *)
(*                                                                         *)
(* The JSON-RPC layer runs requests concurrently, so every action below    *)
(* can fall between the stages of a start.                                 *)
(***************************************************************************)
EXTENDS Naturals, FiniteSets

CONSTANTS
  Files,          \* session files; a file also stands for the session id in its header
  Cwds,           \* working directories
  Dirs,           \* encoded directory names
  CwdOf,          \* the working directory in a file's header
  DirOf,          \* encodeCwd
  Agents,         \* incarnations of an AgentSession that can exist at once
  NoAgent,        \* absence of a map entry
  CarefulClients  \* TRUE: clients obey the discipline of MayTouch and Unopened

ASSUME HostAssumption ==
  /\ Files # {}
  /\ CwdOf \in [Files -> Cwds]
  /\ DirOf \in [Cwds -> Dirs]
  /\ NoAgent \notin Agents
  /\ CarefulClients \in BOOLEAN

VARIABLES
  at,       \* where each session file is
  stage,    \* progress of each agent incarnation
  file,     \* the file an incarnation was started on
  home,     \* the root that file's path had when the manager opened it
  busy,     \* incarnations with a turn in progress
  sessions  \* VagusEngine.sessions: session id -> AgentSession

vars == <<at, stage, file, home, busy, sessions>>

Roots  == {"sessions", "archived"}
Places == Roots \cup {"absent", "unsaved", "gone"}
Stages == {"free", "opening", "binding", "live", "leaked"}

\* The encoded directory a file is stored under.
FileDir(f) == DirOf[CwdOf[f]]

InFlight(i) == stage[i] \in {"opening", "binding"}

\* An agent that has work or will have.  One that leaked was built and then
\* forgotten by a start that failed: nobody disposes it, and no prompt can
\* reach it.
Present(i)  == stage[i] \in {"opening", "binding", "live"}
Mapped      == {i \in Agents : \E f \in Files : sessions[f] = i}

TypeOK ==
  /\ at \in [Files -> Places]
  /\ stage \in [Agents -> Stages]
  /\ file \in [Agents -> Files]
  /\ home \in [Agents -> Roots]
  /\ busy \in SUBSET Agents
  /\ sessions \in [Files -> Agents \cup {NoAgent}]

Init ==
  /\ at \in [Files -> {"absent", "sessions", "archived"}]
  /\ stage = [i \in Agents |-> "free"]
  /\ file = [i \in Agents |-> CHOOSE f \in Files : TRUE]
  /\ home = [i \in Agents |-> "sessions"]
  /\ busy = {}
  /\ sessions = [f \in Files |-> NoAgent]

------------------------------------------------------------------------------
(***************************************************************************)
(* The discipline the engine leaves to its clients.  Nothing in the code   *)
(* enforces it: it is assumed when CarefulClients is TRUE and not when it  *)
(* is FALSE.                                                               *)
(***************************************************************************)

\* No request touches files that a start still in flight has opened.
MayTouch(fs) == CarefulClients => \A i \in Agents : InFlight(i) => file[i] \notin fs

\* An archived session is not restored or deleted while it is open.
Unopened(f) == CarefulClients => \A i \in Agents : stage[i] = "live" => file[i] # f

------------------------------------------------------------------------------
(***************************************************************************)
(* Starting an agent                                                       *)
(***************************************************************************)

\* The map entries whose manager has this path: what the loops over
\* this.sessions compare.
MappedNone(f, root) == {}
MappedOn(f, root) == {i \in Mapped : file[i] = f /\ home[i] = root}

\* startSession up to its first await: the manager holds the path.
LaunchAtFile(i, f, root) ==
  /\ stage[i] = "free"
  /\ stage' = [stage EXCEPT ![i] = "opening"]
  /\ file' = [file EXCEPT ![i] = f]
  /\ home' = [home EXCEPT ![i] = at[f]]
  /\ UNCHANGED <<busy, sessions>>
Launch(i, f, root) ==
  /\ stage[i] = "free"
  /\ stage' = [stage EXCEPT ![i] = "opening"]
  /\ file' = [file EXCEPT ![i] = f]
  /\ home' = [home EXCEPT ![i] = root]
  /\ UNCHANGED <<busy, sessions>>

\* createSession: a fresh session, whose file is not on disk yet.
CreateSession(i, f) ==
  /\ at[f] = "absent"
  /\ at' = [at EXCEPT ![f] = "unsaved"]
  /\ Launch(i, f, "sessions")

\* resumeSession: an active session on the same path is reused and nothing
\* changes; otherwise the file is opened and a new agent started.
ResumeSession(i, f) ==
  /\ at[f] \in Roots
  /\ MayTouch({f})
  /\ MappedOn(f, at[f]) = {}
  /\ Launch(i, f, at[f])
  /\ UNCHANGED at

\* forkSession: copies a live session into a new file beside it and starts
\* an agent on the copy.
ForkSession(i, f, g) ==
  /\ sessions[f] # NoAgent
  /\ at[f] = home[sessions[f]]
  /\ at[g] = "absent"
  /\ CwdOf[g] = CwdOf[f]
  /\ at' = [at EXCEPT ![g] = home[sessions[f]]]
  /\ Launch(i, g, home[sessions[f]])

\* The runtime is resolved and the factory has built the AgentSession.
FactoryDone(i) ==
  /\ stage[i] = "opening"
  /\ stage' = [stage EXCEPT ![i] = "binding"]
  /\ UNCHANGED <<at, file, home, busy, sessions>>

\* The runtime, the loader or the factory rejects: the request fails before
\* there is an agent.
StartFails(i) ==
  /\ stage[i] = "opening"
  /\ stage' = [stage EXCEPT ![i] = "free"]
  /\ UNCHANGED <<at, file, home, busy, sessions>>

\* ensureConfiguredModel rejects, asking for the models: the request fails,
\* and the agent that is built and bound is neither disposed nor recorded.
ModelsFail(i) ==
  /\ stage[i] = "binding"
  /\ stage' = [stage EXCEPT ![i] = "leaked"]
  /\ UNCHANGED <<at, file, home, busy, sessions>>

\* Extensions are bound and a model chosen: sessions.set, then subscribe.
Register(i) ==
  /\ stage[i] = "binding"
  /\ stage' = [stage EXCEPT ![i] = "live"]
  /\ sessions' = [sessions EXCEPT ![file[i]] = i]
  /\ UNCHANGED <<at, file, home, busy>>

------------------------------------------------------------------------------
(***************************************************************************)
(* Using an agent                                                          *)
(***************************************************************************)

\* prompt: requireSession finds the agent in the map.
Prompt(f) ==
  /\ sessions[f] # NoAgent
  /\ busy' = busy \cup {sessions[f]}
  /\ UNCHANGED <<at, stage, file, home, sessions>>

\* The agent appends to its file: the first append creates the file.
Persist(i) ==
  /\ i \in busy
  /\ at[file[i]] = "unsaved"
  /\ at' = [at EXCEPT ![file[i]] = home[i]]
  /\ UNCHANGED <<stage, file, home, busy, sessions>>

EndTurn(i) ==
  /\ i \in busy
  /\ busy' = busy \ {i}
  /\ UNCHANGED <<at, stage, file, home, sessions>>

------------------------------------------------------------------------------
(***************************************************************************)
(* Closing, deleting and archiving                                         *)
(***************************************************************************)

\* Dispose forgetting the map entry, and the map entry forgotten alone.
CloseKeepsEntry(C) ==
  /\ stage' = [i \in Agents |-> IF i \in C THEN "free" ELSE stage[i]]
  /\ busy' = busy \ C
  /\ UNCHANGED <<file, home, sessions>>
CloseKeepsAgent(C) ==
  /\ sessions' = [f \in Files |-> IF sessions[f] \in C THEN NoAgent ELSE sessions[f]]
  /\ UNCHANGED <<stage, busy, file, home>>

\* session.dispose() and sessions.delete(sid) for every agent of C.
Close(C) ==
  /\ stage' = [i \in Agents |-> IF i \in C THEN "free" ELSE stage[i]]
  /\ busy' = busy \ C
  /\ sessions' = [f \in Files |-> IF sessions[f] \in C THEN NoAgent ELSE sessions[f]]
  /\ UNCHANGED <<file, home>>

\* Every agent of the map, whatever its cwd.
MappedAny(c) == Mapped

\* closeSessionForCwd: map entries whose manager reports this cwd.
MappedFor(c) == {i \in Mapped : CwdOf[file[i]] = c}

FilesIn(root, d) == {f \in Files : at[f] = root /\ FileDir(f) = d}

Move(fs, place) == at' = [f \in Files |-> IF f \in fs THEN place ELSE at[f]]

\* deleteSession.  (Between closing and removing it awaits the listeners of
\* session.closed; they are synchronous, so no other request comes between.)
DeleteSession(f) ==
  /\ at[f] = "sessions"
  /\ MayTouch({f})
  /\ Close(MappedOn(f, "sessions"))
  /\ Move({f}, "gone")

\* archiveSession
ArchiveSession(f) ==
  /\ at[f] = "sessions"
  /\ MayTouch({f})
  /\ Close(MappedOn(f, "sessions"))
  /\ Move({f}, "archived")

\* restoreSession: the file moves, an agent opened on it stays as it is.
RestoreSession(f) ==
  /\ at[f] = "archived"
  /\ MayTouch({f}) /\ Unopened(f)
  /\ Move({f}, "sessions")
  /\ UNCHANGED <<stage, file, home, busy, sessions>>

\* deleteArchivedSession: the same.
DeleteArchivedSession(f) ==
  /\ at[f] = "archived"
  /\ MayTouch({f}) /\ Unopened(f)
  /\ Move({f}, "gone")
  /\ UNCHANGED <<stage, file, home, busy, sessions>>

\* archiveProject, which clients offer for a directory that holds sessions.
\* The agents of the cwd are closed first; renaming the directory then fails
\* when the archive already holds files under its name.
ArchiveProject(c) ==
  LET src == FilesIn("sessions", DirOf[c])
      dst == FilesIn("archived", DirOf[c])
  IN /\ src # {}
     /\ MayTouch(src)
     /\ Close(MappedFor(c))
     /\ Move(IF dst = {} THEN src ELSE {}, "archived")

\* restoreProject, and unarchiveProjectByDir for the cwd it reads from the
\* directory's first file.  A file whose rename fails is skipped, and
\* rmDirSafe then unlinks what is left, unless the unlink fails as well.
RestoreProject(c) ==
  LET src == FilesIn("archived", DirOf[c])
  IN /\ src # {}
     /\ MayTouch(src)
     /\ Close(MappedFor(c))
     /\ \E skipped \in SUBSET src :
          \E stuck \in SUBSET skipped :
            at' = [f \in Files |-> IF f \in src \ skipped THEN "sessions"
                                   ELSE IF f \in skipped \ stuck THEN "gone"
                                   ELSE at[f]]

\* deleteArchivedProjectByDir: closes what was opened inside the directory.
DeleteArchivedDir(d) ==
  LET doomed == FilesIn("archived", d)
  IN /\ doomed # {}
     /\ MayTouch(doomed)
     /\ Close({i \in Mapped : home[i] = "archived" /\ FileDir(file[i]) = d})
     /\ Move(doomed, "gone")

\* deleteArchivedProject: the request names a cwd; the directory goes.
DeleteArchivedProject(c) ==
  LET doomed == FilesIn("archived", DirOf[c])
  IN /\ doomed # {}
     /\ MayTouch(doomed)
     /\ Close(MappedFor(c))
     /\ Move(doomed, "gone")

\* close() at shutdown, or a crash: the next daemon starts with an empty map.
Restart ==
  /\ \E i \in Agents : stage[i] # "free"
  /\ stage' = [i \in Agents |-> "free"]
  /\ busy' = {}
  /\ sessions' = [f \in Files |-> NoAgent]
  /\ UNCHANGED <<at, file, home>>

------------------------------------------------------------------------------
StartStep ==
  \/ \E i \in Agents, f \in Files : CreateSession(i, f)
  \/ \E i \in Agents, f \in Files : ResumeSession(i, f)
  \/ \E i \in Agents, f, g \in Files : ForkSession(i, f, g)
  \/ \E i \in Agents : FactoryDone(i)
  \/ \E i \in Agents : StartFails(i)
  \/ \E i \in Agents : ModelsFail(i)
  \/ \E i \in Agents : Register(i)

TurnStep ==
  \/ \E f \in Files : Prompt(f)
  \/ \E i \in Agents : Persist(i)
  \/ \E i \in Agents : EndTurn(i)

FileStep ==
  \/ \E f \in Files : DeleteSession(f)
  \/ \E f \in Files : ArchiveSession(f)
  \/ \E f \in Files : RestoreSession(f)
  \/ \E f \in Files : DeleteArchivedSession(f)

ProjectStep ==
  \/ \E c \in Cwds : ArchiveProject(c)
  \/ \E c \in Cwds : RestoreProject(c)
  \/ \E d \in Dirs : DeleteArchivedDir(d)
  \/ \E c \in Cwds : DeleteArchivedProject(c)

Next == StartStep \/ TurnStep \/ FileStep \/ ProjectStep \/ Restart

Spec == Init /\ [][Next]_vars

------------------------------------------------------------------------------
(***************************************************************************)
(* Properties                                                              *)
(***************************************************************************)

\* A map entry always leads to a registered agent working on that session:
\* requireSession never hands out a disposed or half-started agent.
MapSound ==
  \A f \in Files : sessions[f] # NoAgent =>
    stage[sessions[f]] = "live" /\ file[sessions[f]] = f

\* A session has one agent, started or starting: two would append to the
\* same file and answer the same prompts (resumeSession's comment).
OneAgentPerSession ==
  \A i, j \in Agents : Present(i) /\ Present(j) /\ file[i] = file[j] => i = j

\* Every registered agent can be reached through the map, so that abort,
\* delete, archive and shutdown can stop it; no agent works unseen.
NoOrphanAgent ==
  \A i \in Agents : stage[i] = "live" => sessions[file[i]] = i

\* An agent appends to the path where its session file is: no archive,
\* restore or delete has pulled the file from under it, nor a project's
\* restoration that could not rename it.
AgentOnItsFile ==
  \A i \in Agents : Present(i) => at[file[i]] \in {home[i], "unsaved"}

\* The step is a request that names the session of agent i, its project or
\* the archive directory it is in, or the end of the daemon.
ClosedFor(i) ==
  \/ DeleteSession(file[i]) \/ ArchiveSession(file[i])
  \/ ArchiveProject(CwdOf[file[i]])
  \/ RestoreProject(CwdOf[file[i]])
  \/ DeleteArchivedProject(CwdOf[file[i]])
  \/ DeleteArchivedDir(FileDir(file[i]))
  \/ Restart

\* A turn in progress is stopped by no start, turn, move or removal of
\* another session, of the same project or of another one: only by a request
\* for its own session or project, or by the end of the daemon
\* (startSession's comment: other sessions keep running in the background).
OthersKeepRunning ==
  [][\A i \in busy : stage'[i] # "live" => ClosedFor(i)]_vars
==============================================================================
