----------------------------- MODULE FileRevert ------------------------------
(***************************************************************************)
(* The git-free checkpoint of VagusEngine: what a session's tool calls     *)
(* record about the files they touch, how the record is kept on disk, and  *)
(* what a revert does with it.                                             *)
(*                                                                         *)
(* A tool call that carries a path reports its start before it runs and    *)
(* its end after; calls run in parallel.  Between any two of these steps   *)
(* anybody else may change the file: the user, a shell command, a call of  *)
(* another session.                                                        *)
(***************************************************************************)
EXTENDS Naturals, FiniteSets

CONSTANTS
  Sessions, Paths, Calls,
  Contents,  \* texts a file can hold
  Empty,     \* the empty text
  Missing,   \* there is no file
  None,      \* no baseline recorded
  HandsOff,  \* TRUE: nobody else changes a file while a call works on it
  FreshOnly  \* TRUE: a session with baselines on disk runs no tool after a restart

ASSUME RevertAssumption ==
  /\ Empty \in Contents
  /\ Missing \notin Contents
  /\ None \notin Contents \cup {Missing}
  /\ None \notin [content : Contents \cup {Missing}, last : Contents]
  /\ HandsOff \in BOOLEAN
  /\ FreshOnly \in BOOLEAN

VARIABLES
  disk,   \* the files of the project
  mem,    \* fileBaselines: session -> path -> baseline
  snap,   \* the session's snapshot file, written by saveFileBaselines
  call,   \* the tool calls in flight
  start,  \* observation: the file before the session's first call on it
  made    \* observation: the texts a session's calls left in a file

vars == <<disk, mem, snap, call, start, made>>

\* FileBaseline; exists: false is content = Missing.
Baseline == [content : Contents \cup {Missing}, last : Contents]
NoBaselines == [p \in Paths |-> None]

\* "edit": a call whose result carries pi's own diff when it succeeds;
\* "plain": every other call with a path (write, read, ...).
Kinds == {"edit", "plain"}
Idle  == [phase |-> "idle"]
Call  == [phase : {"started", "ok", "failed"}, s : Sessions, p : Paths,
          kind : Kinds, pre : Contents]

\* What the engine keeps of a file it tried to read.
TextAsIs(c) == c
Text(c) == IF c = Missing THEN Empty ELSE c

TypeOK ==
  /\ disk \in [Paths -> Contents \cup {Missing}]
  /\ mem \in [Sessions -> [Paths -> Baseline \cup {None}]]
  /\ snap \in [Sessions -> [Paths -> Baseline \cup {None}]]
  /\ call \in [Calls -> Call \cup {Idle}]
  /\ start \in [Sessions -> [Paths -> Contents \cup {Missing, None}]]
  /\ made \in [Sessions -> [Paths -> SUBSET Contents]]

Init ==
  /\ disk \in [Paths -> Contents \cup {Missing}]
  /\ mem = [s \in Sessions |-> NoBaselines]
  /\ snap = [s \in Sessions |-> NoBaselines]
  /\ call = [k \in Calls |-> Idle]
  /\ start = [s \in Sessions |-> [p \in Paths |-> None]]
  /\ made = [s \in Sessions |-> [p \in Paths |-> {}]]

\* Calls reported started and not yet ended that work on p.
WorkingOn(p) == {k \in Calls : call[k] # Idle /\ call[k].p = p}

\* The discipline assumed when HandsOff is TRUE; no code enforces it.
LeftAlone(P) == HandsOff => \A p \in P : WorkingOn(p) = {}

------------------------------------------------------------------------------
(***************************************************************************)
(* Tool calls                                                              *)
(***************************************************************************)

\* saveFileBaselines: the snapshot file becomes the whole map in memory.
Save(s, m) == snap' = [snap EXCEPT ![s] = m]

\* The baseline of the first call on a path is the one that stays.
LatestBaseline(s, p) ==
  [mem[s] EXCEPT ![p] = [content |-> disk[p], last |-> Text(disk[p])]]
WithBaseline(s, p) ==
  IF mem[s][p] = None
    THEN [mem[s] EXCEPT ![p] = [content |-> disk[p], last |-> Text(disk[p])]]
    ELSE mem[s]

\* tool_execution_start of a call with a path.
ToolStart(k, s, p, kind) ==
  /\ call[k] = Idle
  /\ HandsOff => \A j \in WorkingOn(p) : call[j].s = s
  /\ FreshOnly => mem[s] # NoBaselines \/ snap[s] = NoBaselines
  /\ call' = [call EXCEPT ![k] = [phase |-> "started", s |-> s, p |-> p,
                                  kind |-> kind, pre |-> Text(disk[p])]]
  /\ mem' = [mem EXCEPT ![s] = WithBaseline(s, p)]
  /\ Save(s, WithBaseline(s, p))
  /\ start' = [start EXCEPT ![s][p] = IF @ = None THEN disk[p] ELSE @]
  /\ UNCHANGED <<disk, made>>

\* The tool does its work: an edit needs the file and changes its text, any
\* other tool writes a text, or reads the one that is there.
ToolSucceeds(k, c) ==
  /\ call[k].phase = "started"
  /\ call[k].kind = "edit" => disk[call[k].p] \notin {Missing, c}
  /\ call' = [call EXCEPT ![k].phase = "ok"]
  /\ disk' = [disk EXCEPT ![call[k].p] = c]
  /\ made' = [made EXCEPT ![call[k].s][call[k].p] =
                IF c = disk[call[k].p] THEN @ ELSE @ \cup {c}]
  /\ UNCHANGED <<mem, snap, start>>

\* The tool reports an error and leaves the file alone.
ToolFails(k) ==
  /\ call[k].phase = "started"
  /\ call' = [call EXCEPT ![k].phase = "failed"]
  /\ UNCHANGED <<disk, mem, snap, start, made>>

\* The call carries no diff of its own and the file can be read: the engine
\* compares the texts itself, and reports no result when they are equal.
OwnDiff(k) ==
  /\ ~(call[k].kind = "edit" /\ call[k].phase = "ok")
  /\ disk[call[k].p] # Missing

\* lastContent is taken from the file, unless the handler returned early,
\* the call failed, or the session has no baseline of the path.
Records(k) ==
  ~OwnDiff(k) /\ call[k].phase = "ok" /\ mem[call[k].s][call[k].p] # None
Recorded(k) ==
  LET c == call[k] IN
  IF Records(k) THEN [mem[c.s] EXCEPT ![c.p] = [content |-> @.content, last |-> Text(disk[c.p])]]
    ELSE mem[c.s]

\* tool_execution_end.
EndUnsaved(k) ==
  /\ call[k].phase \in {"ok", "failed"}
  /\ mem' = [mem EXCEPT ![call[k].s] = Recorded(k)]
  /\ call' = [call EXCEPT ![k] = Idle]
  /\ UNCHANGED <<disk, snap, start, made>>

ToolEnd(k) ==
  /\ call[k].phase \in {"ok", "failed"}
  /\ mem' = [mem EXCEPT ![call[k].s] = Recorded(k)]
  /\ IF Records(k) THEN Save(call[k].s, Recorded(k)) ELSE UNCHANGED snap
  /\ call' = [call EXCEPT ![k] = Idle]
  /\ UNCHANGED <<disk, start, made>>

------------------------------------------------------------------------------
(***************************************************************************)
(* Everybody else                                                          *)
(***************************************************************************)

\* The user, a shell command or another program writes or removes the file.
HandEdit(p, c) ==
  /\ LeftAlone({p})
  /\ c # disk[p]
  /\ disk' = [disk EXCEPT ![p] = c]
  /\ UNCHANGED <<mem, snap, call, start, made>>

\* The daemon stops, or crashes: calls die with it and memory is lost.
\* The GUI rebuilds the conversation from the session file.
Restart ==
  /\ mem # [s \in Sessions |-> NoBaselines]
  /\ mem' = [s \in Sessions |-> NoBaselines]
  /\ call' = [k \in Calls |-> Idle]
  /\ UNCHANGED <<disk, snap, start, made>>

------------------------------------------------------------------------------
(***************************************************************************)
(* Revert                                                                  *)
(***************************************************************************)

\* resolveBaseline: memory first, then the snapshot file.
Resolve(s, p) == IF mem[s][p] # None THEN mem[s][p] ELSE snap[s][p]

\* checkRevert: the file must still be what the last recorded edit left,
\* unless it did not exist before.
Revertable(s, p) ==
  LET b == Resolve(s, p) IN
  b # None /\ (b.content = Missing \/ disk[p] = b.last)

\* executeRevert
Restored(s, P) == [p \in Paths |-> IF p \in P THEN Resolve(s, p).content ELSE disk[p]]

\* revertFile; refused, it changes nothing.
RevertFile(s, p) ==
  /\ LeftAlone({p})
  /\ Revertable(s, p)
  /\ disk' = Restored(s, {p})
  /\ UNCHANGED <<mem, snap, call, start, made>>

\* revertFiles: every file is checked before the first one is written.
RevertEachAllowed(s, P) ==
  /\ LeftAlone(P)
  /\ disk' = Restored(s, {p \in P : Revertable(s, p)})
  /\ UNCHANGED <<mem, snap, call, start, made>>
RevertFiles(s, P) ==
  /\ LeftAlone(P)
  /\ disk' = IF \A p \in P : Revertable(s, p) THEN Restored(s, P) ELSE disk
  /\ UNCHANGED <<mem, snap, call, start, made>>

------------------------------------------------------------------------------
CallStep ==
  \/ \E k \in Calls, s \in Sessions, p \in Paths, kind \in Kinds : ToolStart(k, s, p, kind)
  \/ \E k \in Calls, c \in Contents : ToolSucceeds(k, c)
  \/ \E k \in Calls : ToolFails(k)
  \/ \E k \in Calls : ToolEnd(k)

Next ==
  \/ CallStep
  \/ \E p \in Paths, c \in Contents \cup {Missing} : HandEdit(p, c)
  \/ \E s \in Sessions, p \in Paths : RevertFile(s, p)
  \/ \E s \in Sessions, P \in SUBSET Paths \ {{}} : RevertFiles(s, P)
  \/ Restart

Spec == Init /\ [][Next]_vars

------------------------------------------------------------------------------
(***************************************************************************)
(* Properties                                                              *)
(***************************************************************************)

\* What a revert would use is on disk: the snapshot file is never behind
\* the baselines in memory, so that a restart at any moment loses none.
SnapshotCurrent == \A s \in Sessions : mem[s] # NoBaselines => snap[s] = mem[s]

\* A turn's revert either changes nothing or puts every file of the turn
\* back to what it was before the session's first call on it ("keep the
\* FIRST content we saw"), however many calls, edits by hand and restarts
\* lie between.
RevertGoesBack ==
  [][\A s \in Sessions, P \in SUBSET Paths : RevertFiles(s, P) =>
       disk' = disk \/ \A p \in P : disk'[p] = start[s][p]]_vars

\* A turn's revert writes nothing at all when one file of the turn that
\* existed before the session now holds a text that is neither the original
\* nor what a call of the session left there: hand edits and other sessions'
\* work are refused, and with them the whole turn.  Files that the session
\* created are not spared: checkRevert lets them through unread, so a revert
\* removes them whoever wrote them last, although the comments on
\* fileBaselines and revertFiles promise a refusal there as well.
RevertSparesOthers ==
  [][\A s \in Sessions, P \in SUBSET Paths : RevertFiles(s, P) =>
       disk' = disk \/ \A p \in P : start[s][p] # Missing =>
                          disk[p] \in made[s][p] \cup {start[s][p]}]_vars

==============================================================================
