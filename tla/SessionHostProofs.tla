-------------------------- MODULE SessionHostProofs --------------------------
(***************************************************************************)
(* What SessionHost guarantees for any number of files, projects and       *)
(* agents.  MapSound needs no assumption on the clients.  One agent per    *)
(* session, no orphan and no agent beside its file need the discipline of  *)
(* MayTouch and Unopened and an encodeCwd that keeps projects apart; the   *)
(* three are inductive only together.                                      *)
(***************************************************************************)
EXTENDS SessionHost, TLAPS

DirsApart == \A c, d \in Cwds : DirOf[c] = DirOf[d] => c = d

Exclusive == OneAgentPerSession /\ NoOrphanAgent /\ AgentOnItsFile

USE DEF Present

\* Closing agents keeps the types of everything but the places of files.
LEMMA CloseTyped ==
  ASSUME TypeOK, NEW C, Close(C)
  PROVE  /\ stage' \in [Agents -> Stages]
         /\ file' \in [Agents -> Files]
         /\ home' \in [Agents -> Roots]
         /\ busy' \in SUBSET Agents
         /\ sessions' \in [Files -> Agents \cup {NoAgent}]
  BY HostAssumption DEF TypeOK, Close, Stages

\* Moving files keeps every file in a known place.
LEMMA MoveTyped ==
  ASSUME TypeOK, NEW fs, NEW p \in Places, Move(fs, p)
  PROVE  at' \in [Files -> Places]
  BY DEF TypeOK, Move

\* The types of the state are preserved by every handler of the engine.
LEMMA TypeStep == TypeOK /\ [Next]_vars => TypeOK'
<1> SUFFICES ASSUME TypeOK, [Next]_vars PROVE TypeOK'
  OBVIOUS
<1> USE HostAssumption DEF TypeOK, Places, Roots, Stages
<1>1. ASSUME NEW i \in Agents, NEW f \in Files, CreateSession(i, f) PROVE TypeOK'
  BY <1>1 DEF CreateSession, Launch
<1>2. ASSUME NEW i \in Agents, NEW f \in Files, ResumeSession(i, f) PROVE TypeOK'
  BY <1>2 DEF ResumeSession, Launch
<1>3. ASSUME NEW i \in Agents, NEW f \in Files, NEW g \in Files, ForkSession(i, f, g)
      PROVE TypeOK'
  BY <1>3 DEF ForkSession, Launch
<1>4. ASSUME NEW i \in Agents, \/ FactoryDone(i) \/ StartFails(i)
                               \/ ModelsFail(i) \/ Register(i)
      PROVE TypeOK'
  BY <1>4 DEF FactoryDone, StartFails, ModelsFail, Register
<1>5. CASE TurnStep
  BY <1>5 DEF TurnStep, Prompt, Persist, EndTurn
<1>6. ASSUME NEW f \in Files,
             \/ DeleteSession(f) \/ ArchiveSession(f)
             \/ RestoreSession(f) \/ DeleteArchivedSession(f)
      PROVE  TypeOK'
  <2>1. at' \in [Files -> Places]
    BY <1>6, MoveTyped
       DEF DeleteSession, ArchiveSession, RestoreSession, DeleteArchivedSession
  <2>2. CASE DeleteSession(f) \/ ArchiveSession(f)
    BY <2>1, <2>2, CloseTyped DEF DeleteSession, ArchiveSession
  <2>3. CASE RestoreSession(f) \/ DeleteArchivedSession(f)
    BY <2>1, <2>3 DEF RestoreSession, DeleteArchivedSession
  <2> QED  BY <1>6, <2>2, <2>3
<1>7. CASE ProjectStep
  <2>1. ASSUME NEW c \in Cwds, ArchiveProject(c) PROVE TypeOK'
    BY <2>1, MoveTyped, CloseTyped DEF ArchiveProject
  <2>2. ASSUME NEW c \in Cwds, RestoreProject(c) PROVE TypeOK'
    <3>1. at' \in [Files -> Places]
      BY <2>2 DEF RestoreProject
    <3> QED  BY <2>2, <3>1, CloseTyped DEF RestoreProject
  <2>3. ASSUME NEW d \in Dirs, DeleteArchivedDir(d) PROVE TypeOK'
    BY <2>3, MoveTyped, CloseTyped DEF DeleteArchivedDir, FilesIn
  <2>4. ASSUME NEW c \in Cwds, DeleteArchivedProject(c) PROVE TypeOK'
    BY <2>4, MoveTyped, CloseTyped DEF DeleteArchivedProject, FilesIn
  <2> QED  BY <1>7, <2>1, <2>2, <2>3, <2>4 DEF ProjectStep
<1>8. CASE Restart
  BY <1>8 DEF Restart
<1>9. CASE UNCHANGED vars
  BY <1>9 DEF vars
<1> QED
  BY <1>1, <1>2, <1>3, <1>4, <1>5, <1>6, <1>7, <1>8, <1>9
     DEF Next, StartStep, FileStep

LEMMA TypeInit == Init => TypeOK
  BY HostAssumption DEF Init, TypeOK, Places, Roots, Stages

\* Every reachable state of the engine is well typed.
THEOREM TypeCorrect == Spec => []TypeOK
  BY TypeInit, TypeStep, PTL DEF Spec

------------------------------------------------------------------------------
\* Turns run in live agents: the part of the invariant prompts rely on.
BusyLive == \A i \in busy : stage[i] = "live"

\* Closing any set of agents keeps the rest of the map sound: the entry, the
\* agent and its turn go together.
LEMMA CloseKeepsSound ==
  ASSUME TypeOK, MapSound, BusyLive, NEW C, Close(C)
  PROVE  MapSound' /\ BusyLive'
  BY HostAssumption DEF TypeOK, MapSound, BusyLive, Close

\* No handler leaves an entry to an agent that is not live on that session.
LEMMA SoundStep ==
  TypeOK /\ MapSound /\ BusyLive /\ [Next]_vars => MapSound' /\ BusyLive'
<1> SUFFICES ASSUME TypeOK, MapSound, BusyLive, [Next]_vars
             PROVE  MapSound' /\ BusyLive'
  OBVIOUS
<1>1. ASSUME NEW i \in Agents, NEW f \in Files, NEW root, Launch(i, f, root)
      PROVE  MapSound' /\ BusyLive'
  BY <1>1, HostAssumption DEF TypeOK, MapSound, BusyLive, Launch
<1>2. CASE StartStep
  <2>1. ASSUME NEW i \in Agents, \/ FactoryDone(i) \/ StartFails(i)
                                 \/ ModelsFail(i) \/ Register(i)
        PROVE  MapSound' /\ BusyLive'
    BY <2>1, HostAssumption
       DEF TypeOK, MapSound, BusyLive, FactoryDone, StartFails, ModelsFail, Register
  <2> QED
    BY <1>1, <1>2, <2>1 DEF StartStep, CreateSession, ResumeSession, ForkSession
<1>3. CASE TurnStep
  BY <1>3 DEF TurnStep, Prompt, Persist, EndTurn, MapSound, BusyLive
<1>4. CASE FileStep
  BY <1>4, CloseKeepsSound
     DEF FileStep, DeleteSession, ArchiveSession, RestoreSession,
         DeleteArchivedSession, MapSound, BusyLive
<1>5. CASE ProjectStep
  BY <1>5, CloseKeepsSound
     DEF ProjectStep, ArchiveProject, RestoreProject, DeleteArchivedDir,
         DeleteArchivedProject
<1>6. CASE Restart
  BY <1>6 DEF Restart, MapSound, BusyLive
<1>7. CASE UNCHANGED vars
  BY <1>7 DEF vars, MapSound, BusyLive
<1> QED
  BY <1>2, <1>3, <1>4, <1>5, <1>6, <1>7 DEF Next

LEMMA SoundInit == Init => MapSound /\ BusyLive
  BY DEF Init, MapSound, BusyLive

\* requireSession never returns a disposed or half-started agent, whatever
\* requests the clients send and however they interleave with starts.
THEOREM MapAlwaysSound == Spec => []MapSound
  BY TypeInit, TypeStep, SoundInit, SoundStep, PTL DEF Spec

------------------------------------------------------------------------------
(***************************************************************************)
(* From here on clients are careful and encodeCwd keeps projects apart.    *)
(***************************************************************************)

\* Under the discipline, an agent on a touched file has an entry in the map
\* and has the path the file is at, so the handlers' loops find it.
LEMMA AgentFound ==
  ASSUME CarefulClients, TypeOK, MapSound, Exclusive,
         NEW fs \in SUBSET Files, MayTouch(fs),
         NEW i \in Agents, Present(i), file[i] \in fs, at[file[i]] \in Roots
  PROVE  i \in Mapped /\ home[i] = at[file[i]]
<1>1. stage[i] = "live"
  BY DEF MayTouch, InFlight, TypeOK, Stages
<1>2. sessions[file[i]] = i
  BY <1>1 DEF Exclusive, NoOrphanAgent
<1>3. home[i] = at[file[i]]
  BY DEF Exclusive, AgentOnItsFile, Roots
<1> QED
  BY <1>2, <1>3 DEF Mapped, TypeOK

\* Closing every agent on the files that move keeps agents and files together.
LEMMA CloseWithFiles ==
  ASSUME TypeOK, Exclusive, NEW C, NEW fs \in SUBSET Files, Close(C),
         \A i \in Agents : Present(i) /\ file[i] \in fs => i \in C,
         \A f \in Files \ fs : at'[f] = at[f]
  PROVE  Exclusive'
<1> USE HostAssumption DEF TypeOK
<1>1. OneAgentPerSession'
  BY DEF Exclusive, OneAgentPerSession, Close
<1>2. NoOrphanAgent'
  BY DEF Exclusive, NoOrphanAgent, Close
<1>3. AgentOnItsFile'
  <2> SUFFICES ASSUME NEW i \in Agents, Present(i)'
               PROVE  at'[file'[i]] \in {home'[i], "unsaved"}
    BY DEF AgentOnItsFile
  <2>1. i \notin C /\ Present(i) /\ file'[i] = file[i] /\ home'[i] = home[i]
    BY DEF Close
  <2> QED  BY <2>1 DEF Exclusive, AgentOnItsFile
<1> QED
  BY <1>1, <1>2, <1>3 DEF Exclusive

\* A start on a file no other agent is on keeps the agents exclusive.
LEMMA LaunchExclusive ==
  ASSUME TypeOK, Exclusive, NEW i \in Agents, NEW f \in Files, NEW root \in Roots,
         Launch(i, f, root),
         \A j \in Agents : Present(j) => file[j] # f,
         at'[f] \in {root, "unsaved"},
         \A g \in Files \ {f} : at'[g] = at[g]
  PROVE  Exclusive'
<1> USE DEF TypeOK, Launch
<1>1. OneAgentPerSession'
  BY DEF Exclusive, OneAgentPerSession
<1>2. NoOrphanAgent'
  BY DEF Exclusive, NoOrphanAgent
<1>3. AgentOnItsFile'
  BY DEF Exclusive, AgentOnItsFile
<1> QED
  BY <1>1, <1>2, <1>3 DEF Exclusive

LEMMA StartExclusive ==
  ASSUME CarefulClients, TypeOK, MapSound, Exclusive, StartStep
  PROVE  Exclusive'
<1> USE HostAssumption
<1>1. ASSUME NEW i \in Agents, NEW f \in Files, CreateSession(i, f)
      PROVE  Exclusive'
  <2>1. \A j \in Agents : Present(j) => file[j] # f
    BY <1>1 DEF CreateSession, Exclusive, AgentOnItsFile, TypeOK, Roots
  <2> QED
    BY <1>1, <2>1, LaunchExclusive DEF CreateSession, Roots, TypeOK
<1>2. ASSUME NEW i \in Agents, NEW f \in Files, ResumeSession(i, f)
      PROVE  Exclusive'
  <2>1. \A j \in Agents : Present(j) => file[j] # f
    BY <1>2, AgentFound DEF ResumeSession, MappedOn
  <2> QED
    BY <1>2, <2>1, LaunchExclusive DEF ResumeSession
<1>3. ASSUME NEW i \in Agents, NEW f \in Files, NEW g \in Files, ForkSession(i, f, g)
      PROVE  Exclusive'
  <2>1. \A j \in Agents : Present(j) => file[j] # g
    BY <1>3 DEF ForkSession, Exclusive, AgentOnItsFile, TypeOK, Roots
  <2>2. home[sessions[f]] \in Roots
    BY <1>3 DEF ForkSession, TypeOK
  <2> QED
    BY <1>3, <2>1, <2>2, LaunchExclusive DEF ForkSession, TypeOK
<1>4. ASSUME NEW i \in Agents, FactoryDone(i) \/ StartFails(i) \/ ModelsFail(i)
      PROVE  Exclusive'
  BY <1>4 DEF FactoryDone, StartFails, ModelsFail, TypeOK, Exclusive, OneAgentPerSession,
              NoOrphanAgent, AgentOnItsFile
<1>5. ASSUME NEW i \in Agents, Register(i) PROVE Exclusive'
  <2> USE <1>5 DEF Register, TypeOK, Exclusive
  <2>1. OneAgentPerSession'
    BY DEF OneAgentPerSession
  <2>2. NoOrphanAgent'
    BY DEF NoOrphanAgent, OneAgentPerSession
  <2>3. AgentOnItsFile'
    BY DEF AgentOnItsFile
  <2> QED  BY <2>1, <2>2, <2>3
<1> QED
  BY <1>1, <1>2, <1>3, <1>4, <1>5 DEF StartStep

LEMMA TurnExclusive ==
  ASSUME TypeOK, BusyLive, Exclusive, TurnStep
  PROVE  Exclusive'
<1>1. OneAgentPerSession' /\ NoOrphanAgent'
  BY DEF TurnStep, Prompt, Persist, EndTurn, Exclusive, OneAgentPerSession,
         NoOrphanAgent
<1>2. AgentOnItsFile'
  <2>1. ASSUME NEW i \in Agents, Persist(i) PROVE AgentOnItsFile'
    <3> SUFFICES ASSUME NEW j \in Agents, Present(j)'
                 PROVE  at'[file'[j]] \in {home'[j], "unsaved"}
      BY DEF AgentOnItsFile
    <3>1. Present(i) /\ Present(j)
      BY <2>1 DEF Persist, BusyLive
    <3>2. CASE i = j
      BY <2>1, <3>2 DEF Persist, TypeOK
    <3>3. CASE i # j
      BY <2>1, <3>1, <3>3
         DEF Persist, TypeOK, Exclusive, OneAgentPerSession, AgentOnItsFile
    <3> QED  BY <3>2, <3>3
  <2> QED
    BY <2>1 DEF TurnStep, Prompt, EndTurn, Exclusive, AgentOnItsFile, TypeOK
<1> QED
  BY <1>1, <1>2 DEF Exclusive

LEMMA FileExclusive ==
  ASSUME CarefulClients, TypeOK, MapSound, Exclusive, FileStep
  PROVE  Exclusive'
<1> SUFFICES ASSUME NEW f \in Files,
                    \/ DeleteSession(f) \/ ArchiveSession(f)
                    \/ RestoreSession(f) \/ DeleteArchivedSession(f)
             PROVE  Exclusive'
  BY DEF FileStep
<1>1. \A g \in Files \ {f} : at'[g] = at[g]
  BY DEF DeleteSession, ArchiveSession, RestoreSession, DeleteArchivedSession, Move,
         TypeOK
<1>2. \A i \in Agents : Present(i) /\ file[i] = f =>
        i \in Mapped /\ home[i] = at[f]
  BY AgentFound
     DEF DeleteSession, ArchiveSession, RestoreSession, DeleteArchivedSession, Roots
<1>3. CASE DeleteSession(f) \/ ArchiveSession(f)
  <2>1. Close(MappedOn(f, "sessions"))
    BY <1>3 DEF DeleteSession, ArchiveSession
  <2>2. \A i \in Agents : Present(i) /\ file[i] \in {f}
                            => i \in MappedOn(f, "sessions")
    BY <1>2, <1>3 DEF MappedOn, DeleteSession, ArchiveSession
  <2> QED
    BY <1>1, <2>1, <2>2, CloseWithFiles
<1>4. CASE RestoreSession(f) \/ DeleteArchivedSession(f)
  <2>1. UNCHANGED <<stage, file, home, sessions>>
    BY <1>4 DEF RestoreSession, DeleteArchivedSession
  <2>2. \A i \in Agents : Present(i) => file[i] # f
    BY <1>4 DEF RestoreSession, DeleteArchivedSession, Unopened, MayTouch, InFlight,
                TypeOK, Stages
  <2> QED
    BY <1>1, <2>1, <2>2
       DEF Exclusive, OneAgentPerSession, NoOrphanAgent, AgentOnItsFile, TypeOK
<1> QED
  BY <1>3, <1>4

\* When encodeCwd keeps projects apart, the directory of a cwd holds that
\* project's files only.
LEMMA DirIsProject ==
  ASSUME DirsApart, NEW c \in Cwds, NEW root, NEW f \in FilesIn(root, DirOf[c])
  PROVE  CwdOf[f] = c
  BY HostAssumption DEF DirsApart, FilesIn, FileDir

LEMMA ProjectExclusive ==
  ASSUME CarefulClients, DirsApart, TypeOK, MapSound, Exclusive, ProjectStep
  PROVE  Exclusive'
<1>1. ASSUME NEW c \in Cwds, NEW root \in Roots, MayTouch(FilesIn(root, DirOf[c])),
             Close(MappedFor(c)),
             \A f \in Files \ FilesIn(root, DirOf[c]) : at'[f] = at[f]
      PROVE  Exclusive'
  <2>1. \A i \in Agents : Present(i) /\ file[i] \in FilesIn(root, DirOf[c])
                            => i \in MappedFor(c)
    BY <1>1, AgentFound, DirIsProject DEF MappedFor, FilesIn
  <2>2. FilesIn(root, DirOf[c]) \in SUBSET Files
    BY DEF FilesIn
  <2> QED
    BY <1>1, <2>1, <2>2, CloseWithFiles
<1>2. ASSUME NEW c \in Cwds, ArchiveProject(c) PROVE Exclusive'
  BY <1>1, <1>2 DEF ArchiveProject, Move, Roots
<1>3. ASSUME NEW c \in Cwds, RestoreProject(c) PROVE Exclusive'
  <2>1. \A f \in Files \ FilesIn("archived", DirOf[c]) : at'[f] = at[f]
    BY <1>3 DEF RestoreProject
  <2> QED
    BY <1>1, <1>3, <2>1 DEF RestoreProject, Roots
<1>4. ASSUME NEW d \in Dirs, DeleteArchivedDir(d) PROVE Exclusive'
  <2> DEFINE fs == FilesIn("archived", d)
             C  == {i \in Mapped : home[i] = "archived" /\ FileDir(file[i]) = d}
  <2>1. \A i \in Agents : Present(i) /\ file[i] \in fs => i \in C
    BY <1>4, AgentFound DEF DeleteArchivedDir, FilesIn, Roots
  <2>2. fs \in SUBSET Files /\ \A f \in Files \ fs : at'[f] = at[f]
    BY <1>4 DEF DeleteArchivedDir, Move, FilesIn
  <2>3. Close(C)
    BY <1>4 DEF DeleteArchivedDir
  <2> HIDE DEF fs, C
  <2> QED
    BY <2>1, <2>2, <2>3, CloseWithFiles
<1>5. ASSUME NEW c \in Cwds, DeleteArchivedProject(c) PROVE Exclusive'
  BY <1>1, <1>5 DEF DeleteArchivedProject, Move, Roots
<1> QED
  BY <1>2, <1>3, <1>4, <1>5 DEF ProjectStep

\* Every step of the engine keeps one reachable agent per session, on its file.
LEMMA ExclusiveStep ==
  ASSUME CarefulClients, DirsApart
  PROVE  TypeOK /\ MapSound /\ BusyLive /\ Exclusive /\ [Next]_vars => Exclusive'
<1> SUFFICES ASSUME TypeOK, MapSound, BusyLive, Exclusive, [Next]_vars
             PROVE  Exclusive'
  OBVIOUS
<1>1. CASE Restart
  BY <1>1 DEF Restart, Exclusive, OneAgentPerSession, NoOrphanAgent, AgentOnItsFile
<1>2. CASE UNCHANGED vars
  BY <1>2 DEF vars, Exclusive, OneAgentPerSession, NoOrphanAgent, AgentOnItsFile
<1> QED
  BY <1>1, <1>2, StartExclusive, TurnExclusive, FileExclusive, ProjectExclusive
     DEF Next

LEMMA ExclusiveInit == Init => Exclusive
  BY DEF Init, Exclusive, OneAgentPerSession, NoOrphanAgent, AgentOnItsFile

\* With careful clients no two agents ever work on one session.
THEOREM OneAgentAlways ==
  ASSUME CarefulClients, DirsApart
  PROVE  Spec => []OneAgentPerSession
<1>1. Exclusive => OneAgentPerSession
  BY DEF Exclusive
<1> QED
  BY <1>1, TypeInit, TypeStep, SoundInit, SoundStep, ExclusiveInit, ExclusiveStep, PTL
     DEF Spec

\* With careful clients every live agent can be reached, and stopped.
THEOREM NoOrphanAlways ==
  ASSUME CarefulClients, DirsApart
  PROVE  Spec => []NoOrphanAgent
<1>1. Exclusive => NoOrphanAgent
  BY DEF Exclusive
<1> QED
  BY <1>1, TypeInit, TypeStep, SoundInit, SoundStep, ExclusiveInit, ExclusiveStep, PTL
     DEF Spec

\* With careful clients no file is moved or deleted under a live agent.
THEOREM OnItsFileAlways ==
  ASSUME CarefulClients, DirsApart
  PROVE  Spec => []AgentOnItsFile
<1>1. Exclusive => AgentOnItsFile
  BY DEF Exclusive
<1> QED
  BY <1>1, TypeInit, TypeStep, SoundInit, SoundStep, ExclusiveInit, ExclusiveStep, PTL
     DEF Spec

------------------------------------------------------------------------------
(***************************************************************************)
(* Turns of other sessions.  Here clients may do what they like, and       *)
(* projects may share a directory: what a request closes it finds by the   *)
(* path or the cwd it names.                                               *)
(***************************************************************************)

\* A step that ends a turn in progress was asked for by the name of the
\* agent's session or project, or is the end of the daemon.
LEMMA OthersStep ==
  ASSUME TypeOK, MapSound, BusyLive, [Next]_vars, NEW i \in busy, stage'[i] # "live"
  PROVE  ClosedFor(i)
<1> USE HostAssumption
<1>1. i \in Agents /\ stage[i] = "live" /\ file[i] \in Files
  BY DEF BusyLive, TypeOK
<1>2. ~StartStep /\ ~TurnStep
  BY <1>1 DEF StartStep, CreateSession, ResumeSession, ForkSession, Launch, FactoryDone,
              StartFails, ModelsFail, Register, TurnStep, Prompt, Persist, EndTurn, TypeOK
<1>3. ASSUME NEW f \in Files, DeleteSession(f) \/ ArchiveSession(f)
      PROVE  ClosedFor(i)
  <2>1. f = file[i]
    BY <1>1, <1>3 DEF DeleteSession, ArchiveSession, Close, MappedOn
  <2> QED  BY <1>3, <2>1 DEF ClosedFor
<1>4. ASSUME NEW f \in Files PROVE ~RestoreSession(f) /\ ~DeleteArchivedSession(f)
  BY <1>1 DEF RestoreSession, DeleteArchivedSession
<1>5. ASSUME NEW c \in Cwds,
             ArchiveProject(c) \/ RestoreProject(c) \/ DeleteArchivedProject(c)
      PROVE  ClosedFor(i)
  <2>1. Close(MappedFor(c))
    BY <1>5 DEF ArchiveProject, RestoreProject, DeleteArchivedProject
  <2>2. c = CwdOf[file[i]]
    BY <1>1, <2>1 DEF Close, MappedFor
  <2> QED  BY <1>5, <2>2 DEF ClosedFor
<1>6. ASSUME NEW d \in Dirs, DeleteArchivedDir(d) PROVE ClosedFor(i)
  <2>1. d = FileDir(file[i])
    BY <1>1, <1>6 DEF DeleteArchivedDir, Close
  <2> QED  BY <1>6, <2>1 DEF ClosedFor
<1>7. ~UNCHANGED vars
  BY <1>1 DEF vars
<1> QED
  BY <1>2, <1>3, <1>4, <1>5, <1>6, <1>7 DEF Next, FileStep, ProjectStep, ClosedFor

\* Whatever clients do and whatever directories projects share, the turn of
\* one session is stopped by no request for another session or project.
THEOREM OthersAlwaysRun == Spec => OthersKeepRunning
<1>1. TypeOK /\ MapSound /\ BusyLive /\ [Next]_vars
        => [\A i \in busy : stage'[i] # "live" => ClosedFor(i)]_vars
  BY OthersStep
<1> QED
  BY <1>1, TypeInit, TypeStep, SoundInit, SoundStep, PTL DEF Spec, OthersKeepRunning
==============================================================================
