-------------------------- MODULE FileRevertProofs ---------------------------
(***************************************************************************)
(* Proofs about FileRevert.  Three results: the snapshot file is never     *)
(* behind memory (with no assumption), a turn's revert goes back to the    *)
(* start (when a session runs no tool after a restart), and a revert       *)
(* spares the work of others (when nobody interferes with a running call). *)
(***************************************************************************)
EXTENDS FileRevert, TLAPS

\* A call in flight is a record with a session, a path, a kind and a text.
LEMMA InFlight ==
  ASSUME TypeOK, NEW k \in Calls, call[k] # Idle
  PROVE  /\ call[k] \in Call
         /\ call[k].s \in Sessions /\ call[k].p \in Paths
         /\ call[k].kind \in Kinds /\ call[k].pre \in Contents
         /\ call[k].phase \in {"started", "ok", "failed"}
BY DEF TypeOK, Call

\* An idle call has no other phase.
LEMMA PhaseBusy ==
  ASSUME NEW k \in Calls, call[k].phase \in {"started", "ok", "failed"}
  PROVE  call[k] # Idle
BY DEF Idle

LEMMA TextTyped ==
  ASSUME NEW c \in Contents \cup {Missing}
  PROVE  Text(c) \in Contents
BY RevertAssumption DEF Text

\* The type invariant is inductive.
LEMMA TypeStep == TypeOK /\ [Next]_vars => TypeOK'
<1> SUFFICES ASSUME TypeOK, [Next]_vars PROVE TypeOK'
  OBVIOUS
<1> USE RevertAssumption
<1>1. ASSUME NEW k \in Calls, NEW s \in Sessions, NEW p \in Paths, NEW kind \in Kinds,
             ToolStart(k, s, p, kind)
      PROVE  TypeOK'
  <2>1. Text(disk[p]) \in Contents
    BY TextTyped DEF TypeOK
  <2>2. [content |-> disk[p], last |-> Text(disk[p])] \in Baseline
    BY <2>1 DEF TypeOK, Baseline
  <2>3. WithBaseline(s, p) \in [Paths -> Baseline \cup {None}]
    BY <2>2 DEF TypeOK, WithBaseline
  <2>4. [phase |-> "started", s |-> s, p |-> p, kind |-> kind, pre |-> Text(disk[p])] \in Call
    BY <2>1 DEF Call
  <2>5. call' \in [Calls -> Call \cup {Idle}]
    BY <1>1, <2>4 DEF ToolStart, TypeOK
  <2>6. start' \in [Sessions -> [Paths -> Contents \cup {Missing, None}]]
    BY <1>1 DEF ToolStart, TypeOK
  <2>7. mem' \in [Sessions -> [Paths -> Baseline \cup {None}]]
    BY <1>1, <2>3 DEF ToolStart, TypeOK
  <2>8. snap' \in [Sessions -> [Paths -> Baseline \cup {None}]]
    BY <1>1, <2>3 DEF ToolStart, TypeOK, Save
  <2> QED BY <1>1, <2>5, <2>6, <2>7, <2>8 DEF ToolStart, TypeOK
<1>2. ASSUME NEW k \in Calls, NEW c \in Contents, ToolSucceeds(k, c)
      PROVE  TypeOK'
  <2>1. call[k] \in Call /\ call[k].s \in Sessions /\ call[k].p \in Paths
    BY <1>2, InFlight, PhaseBusy DEF ToolSucceeds
  <2>2. [call[k] EXCEPT !.phase = "ok"] \in Call
    BY <2>1 DEF Call
  <2>3. call' \in [Calls -> Call \cup {Idle}]
    BY <1>2, <2>2 DEF ToolSucceeds, TypeOK
  <2>4. made' \in [Sessions -> [Paths -> SUBSET Contents]]
    BY <1>2, <2>1 DEF ToolSucceeds, TypeOK
  <2> QED BY <1>2, <2>1, <2>3, <2>4 DEF ToolSucceeds, TypeOK
<1>3. ASSUME NEW k \in Calls, ToolFails(k)
      PROVE  TypeOK'
  <2>1. call[k] \in Call
    BY <1>3, InFlight, PhaseBusy DEF ToolFails
  <2>2. [call[k] EXCEPT !.phase = "failed"] \in Call
    BY <2>1 DEF Call
  <2>3. call' \in [Calls -> Call \cup {Idle}]
    BY <1>3, <2>2 DEF ToolFails, TypeOK
  <2> QED BY <1>3, <2>3 DEF ToolFails, TypeOK
<1>4. ASSUME NEW k \in Calls, ToolEnd(k)
      PROVE  TypeOK'
  <2>1. call[k].s \in Sessions /\ call[k].p \in Paths
    BY <1>4, InFlight, PhaseBusy DEF ToolEnd
  <2>2. Text(disk[call[k].p]) \in Contents
    BY <2>1, TextTyped DEF TypeOK
  <2>3. mem[call[k].s] \in [Paths -> Baseline \cup {None}]
    BY <2>1 DEF TypeOK
  <2>4. Recorded(k) \in [Paths -> Baseline \cup {None}]
    <3>1. CASE ~Records(k)
      BY <2>3, <3>1 DEF Recorded
    <3>2. CASE Records(k)
      <4>1. mem[call[k].s][call[k].p] \in Baseline
        BY <2>1, <3>2 DEF TypeOK, Records
      <4>2. [content |-> mem[call[k].s][call[k].p].content, last |-> Text(disk[call[k].p])]
              \in Baseline
        BY <2>2, <4>1 DEF Baseline
      <4> QED BY <2>3, <3>2, <4>2 DEF Recorded
    <3> QED BY <3>1, <3>2
  <2>5. mem' \in [Sessions -> [Paths -> Baseline \cup {None}]]
    BY <1>4, <2>4 DEF ToolEnd, TypeOK
  <2>6. snap' \in [Sessions -> [Paths -> Baseline \cup {None}]]
    BY <1>4, <2>4 DEF ToolEnd, TypeOK, Save
  <2>7. call' \in [Calls -> Call \cup {Idle}]
    BY <1>4 DEF ToolEnd, TypeOK
  <2> QED BY <1>4, <2>5, <2>6, <2>7 DEF ToolEnd, TypeOK
<1>5. ASSUME NEW p \in Paths, NEW c \in Contents \cup {Missing}, HandEdit(p, c)
      PROVE  TypeOK'
  BY <1>5 DEF HandEdit, TypeOK
<1>6. ASSUME NEW s \in Sessions, NEW P \in SUBSET Paths, \A p \in P : Revertable(s, p)
      PROVE  Restored(s, P) \in [Paths -> Contents \cup {Missing}]
  <2>1. \A p \in P : Resolve(s, p) \in Baseline
    BY <1>6 DEF Revertable, Resolve, TypeOK
  <2> QED BY <2>1 DEF Restored, Baseline, TypeOK
<1>7. ASSUME NEW s \in Sessions, NEW p \in Paths, RevertFile(s, p)
      PROVE  TypeOK'
  <2>1. Restored(s, {p}) \in [Paths -> Contents \cup {Missing}]
    BY <1>6, <1>7 DEF RevertFile
  <2> QED BY <1>7, <2>1 DEF RevertFile, TypeOK
<1>8. ASSUME NEW s \in Sessions, NEW P \in SUBSET Paths, RevertFiles(s, P)
      PROVE  TypeOK'
  <2>1. disk' \in [Paths -> Contents \cup {Missing}]
    BY <1>6, <1>8 DEF RevertFiles, TypeOK
  <2> QED BY <1>8, <2>1 DEF RevertFiles, TypeOK
<1>9. ASSUME Restart PROVE TypeOK'
  BY <1>9 DEF Restart, TypeOK, NoBaselines
<1>10. ASSUME UNCHANGED vars PROVE TypeOK'
  BY <1>10 DEF vars, TypeOK
<1> QED BY <1>1, <1>2, <1>3, <1>4, <1>5, <1>7, <1>8, <1>9, <1>10 DEF Next, CallStep

\* Every variable keeps its type, whatever the sets of sessions, paths and
\* calls are.
THEOREM TypeCorrect == Spec => []TypeOK
<1>1. Init => TypeOK
  BY RevertAssumption DEF Init, TypeOK, NoBaselines
<1> QED BY <1>1, TypeStep, PTL DEF Spec

------------------------------------------------------------------------------
(***************************************************************************)
(* The snapshot file                                                       *)
(***************************************************************************)

LEMMA SnapshotStep == TypeOK /\ SnapshotCurrent /\ [Next]_vars => SnapshotCurrent'
<1> SUFFICES ASSUME TypeOK, SnapshotCurrent, [Next]_vars PROVE SnapshotCurrent'
  OBVIOUS
<1>1. ASSUME UNCHANGED <<mem, snap>> PROVE SnapshotCurrent'
  BY <1>1 DEF SnapshotCurrent
<1>2. ASSUME NEW k \in Calls, NEW s \in Sessions, NEW p \in Paths, NEW kind \in Kinds,
             ToolStart(k, s, p, kind)
      PROVE  SnapshotCurrent'
  BY <1>2 DEF ToolStart, Save, SnapshotCurrent, TypeOK
<1>3. ASSUME NEW k \in Calls, ToolEnd(k)
      PROVE  SnapshotCurrent'
  <2>1. CASE Records(k)
    BY <1>3, <2>1 DEF ToolEnd, Save, SnapshotCurrent, TypeOK
  <2>2. CASE ~Records(k)
    <3>1. mem' = mem
      BY <1>3, <2>2 DEF ToolEnd, Recorded, TypeOK
    <3> QED BY <1>3, <2>2, <3>1 DEF ToolEnd, SnapshotCurrent
  <2> QED BY <2>1, <2>2
<1>4. ASSUME Restart PROVE SnapshotCurrent'
  BY <1>4 DEF Restart, SnapshotCurrent
<1> QED BY <1>1, <1>2, <1>3, <1>4 DEF Next, CallStep, ToolSucceeds, ToolFails, HandEdit,
           RevertFile, RevertFiles, vars

\* Whatever happens, the snapshot file holds the baselines a revert would
\* use: no write of the file is ever forgotten.
THEOREM SnapshotAlwaysCurrent == Spec => []SnapshotCurrent
<1>1. Init => SnapshotCurrent
  BY DEF Init, SnapshotCurrent
<1>2. Spec => []TypeOK
  BY TypeCorrect
<1> QED BY <1>1, <1>2, SnapshotStep, PTL DEF Spec

\* So it makes no difference where resolveBaseline finds a baseline.
LEMMA ResolveIsSnap ==
  ASSUME SnapshotCurrent, NEW s \in Sessions, NEW p \in Paths
  PROVE  Resolve(s, p) = snap[s][p]
BY DEF SnapshotCurrent, Resolve, NoBaselines

------------------------------------------------------------------------------
(***************************************************************************)
(* Going back                                                              *)
(***************************************************************************)

\* A recorded baseline is the file before the session's first call on it,
\* and a path that had a call has a baseline.
StartKnown ==
  \A s \in Sessions, p \in Paths :
    start[s][p] = IF snap[s][p] = None THEN None ELSE snap[s][p].content

LEMMA StartStep ==
  ASSUME FreshOnly
  PROVE  TypeOK /\ SnapshotCurrent /\ StartKnown /\ [Next]_vars => StartKnown'
<1> SUFFICES ASSUME TypeOK, SnapshotCurrent, StartKnown, [Next]_vars PROVE StartKnown'
  OBVIOUS
<1>1. ASSUME UNCHANGED <<snap, start>> PROVE StartKnown'
  BY <1>1 DEF StartKnown
<1>2. ASSUME NEW k \in Calls, NEW s \in Sessions, NEW p \in Paths, NEW kind \in Kinds,
             ToolStart(k, s, p, kind)
      PROVE  StartKnown'
  <2>1. mem[s] = snap[s]
    BY <1>2 DEF ToolStart, SnapshotCurrent
  <2>2. /\ snap' = [snap EXCEPT ![s] = WithBaseline(s, p)]
        /\ start' = [start EXCEPT ![s][p] = IF @ = None THEN disk[p] ELSE @]
    BY <1>2 DEF ToolStart, Save
  <2>3. CASE mem[s][p] # None
    <3>1. snap' = snap
      BY <2>1, <2>2, <2>3 DEF WithBaseline, TypeOK
    <3>2. start[s][p] # None
      BY <2>1, <2>3, RevertAssumption DEF StartKnown, TypeOK, Baseline
    <3>3. start' = start
      BY <2>2, <3>2 DEF TypeOK
    <3> QED BY <3>1, <3>3, <1>1
  <2>4. CASE mem[s][p] = None
    <3>1. start[s][p] = None
      BY <2>1, <2>4 DEF StartKnown
    <3> DEFINE b == [content |-> disk[p], last |-> Text(disk[p])]
    <3>2. b \in Baseline /\ b.content = disk[p]
      BY TextTyped DEF TypeOK, Baseline
    <3>3. b # None
      BY <3>2, RevertAssumption DEF Baseline
    <3> HIDE DEF b
    <3>4. snap'[s] = [snap[s] EXCEPT ![p] = b]
      BY <2>1, <2>2, <2>4 DEF WithBaseline, TypeOK, b
    <3>5. start'[s][p] = disk[p]
      BY <2>2, <3>1 DEF TypeOK
    <3> SUFFICES ASSUME NEW s2 \in Sessions, NEW q \in Paths
                 PROVE  start'[s2][q] = IF snap'[s2][q] = None THEN None
                                        ELSE snap'[s2][q].content
      BY DEF StartKnown
    <3>6. CASE s2 = s /\ q = p
      BY <3>2, <3>3, <3>4, <3>5, <3>6 DEF TypeOK
    <3>7. CASE ~(s2 = s /\ q = p)
      <4>1. snap'[s2][q] = snap[s2][q]
        BY <2>2, <3>4, <3>7 DEF TypeOK
      <4>2. start'[s2][q] = start[s2][q]
        BY <2>2, <3>7 DEF TypeOK
      <4> QED BY <4>1, <4>2 DEF StartKnown
    <3> QED BY <3>6, <3>7
  <2> QED BY <2>3, <2>4
<1>3. ASSUME NEW k \in Calls, ToolEnd(k)
      PROVE  StartKnown'
  <2>1. CASE ~Records(k)
    BY <1>1, <1>3, <2>1 DEF ToolEnd
  <2>2. CASE Records(k)
    <3> DEFINE s == call[k].s  p == call[k].p
    <3>1. s \in Sessions /\ p \in Paths
      BY <1>3, InFlight, PhaseBusy DEF ToolEnd
    <3>2. mem[s] = snap[s]
      BY <2>2, <3>1 DEF Records, SnapshotCurrent, NoBaselines
    <3> DEFINE b == [content |-> mem[s][p].content, last |-> Text(disk[p])]
    <3>3. snap' = [snap EXCEPT ![s] = [snap[s] EXCEPT ![p] = b]]
      BY <1>3, <2>2, <3>2 DEF ToolEnd, Save, Recorded
    <3>4. b \in Baseline /\ b.content = snap[s][p].content
      <4>1. mem[s][p] \in Baseline
        BY <2>2, <3>1 DEF TypeOK, Records
      <4>2. Text(disk[p]) \in Contents
        BY <3>1, TextTyped DEF TypeOK
      <4> QED BY <3>2, <4>1, <4>2 DEF Baseline
    <3>5. b # None /\ snap[s][p] # None
      BY <2>2, <3>2, <3>4, RevertAssumption DEF Baseline, Records
    <3>6. start' = start
      BY <1>3 DEF ToolEnd
    <3> HIDE DEF b, s, p
    <3> QED BY <3>1, <3>3, <3>4, <3>5, <3>6 DEF StartKnown, TypeOK
  <2> QED BY <2>1, <2>2
<1> QED BY <1>1, <1>2, <1>3 DEF Next, CallStep, ToolSucceeds, ToolFails, HandEdit,
           RevertFile, RevertFiles, Restart, vars

\* A turn's revert puts every file back to what it was before the session's
\* first call on it, or changes nothing: for any number of files, calls,
\* hand edits and restarts, as long as no session that has baselines runs a
\* tool after a restart.
THEOREM RevertRestoresStart ==
  ASSUME FreshOnly
  PROVE  Spec => RevertGoesBack
<1> DEFINE Inv == TypeOK /\ SnapshotCurrent /\ StartKnown
<1>1. Init => Inv
  BY RevertAssumption DEF Init, TypeOK, SnapshotCurrent, StartKnown, NoBaselines
<1>2. Inv /\ [Next]_vars => Inv'
  BY TypeStep, SnapshotStep, StartStep
<1>3. Inv => [\A s \in Sessions, P \in SUBSET Paths : RevertFiles(s, P) =>
                disk' = disk \/ \A p \in P : disk'[p] = start[s][p]]_vars
  <2> SUFFICES ASSUME Inv, NEW s \in Sessions, NEW P \in SUBSET Paths, RevertFiles(s, P),
                      disk' # disk, NEW p \in P
               PROVE  disk'[p] = start[s][p]
    BY DEF Inv
  <2>1. (\A q \in P : Revertable(s, q)) /\ disk' = Restored(s, P)
    BY DEF RevertFiles
  <2>2. disk'[p] = Resolve(s, p).content /\ Resolve(s, p) # None
    BY <2>1 DEF Restored, Revertable
  <2> QED BY <2>2, ResolveIsSnap DEF Inv, StartKnown
<1> HIDE DEF Inv
<1> QED BY <1>1, <1>2, <1>3, PTL DEF Spec, RevertGoesBack

------------------------------------------------------------------------------
(***************************************************************************)
(* Sparing others                                                          *)
(***************************************************************************)

\* Calls at work on one path belong to one session, and what a call that
\* succeeded finds there comes from that session's calls.
OwnWork ==
  /\ \A j, k \in Calls : call[j] # Idle /\ call[k] # Idle /\ call[j].p = call[k].p
                           => call[j].s = call[k].s
  /\ \A k \in Calls : call[k].phase = "ok" =>
       /\ disk[call[k].p] # Missing
       /\ call[k].kind = "edit" => disk[call[k].p] \in made[call[k].s][call[k].p]

\* The text a revert may overwrite is the original or the session's own.
LastOwned ==
  \A s \in Sessions, p \in Paths : snap[s][p] # None =>
    \/ snap[s][p].content = Missing
    \/ snap[s][p].last = snap[s][p].content
    \/ snap[s][p].last \in made[s][p]

LEMMA OwnStep ==
  ASSUME HandsOff
  PROVE  TypeOK /\ OwnWork /\ [Next]_vars => OwnWork'
<1> SUFFICES ASSUME TypeOK, OwnWork, [Next]_vars PROVE OwnWork'
  OBVIOUS
<1>1. ASSUME UNCHANGED <<disk, call, made>> PROVE OwnWork'
  BY <1>1 DEF OwnWork
<1>2. ASSUME NEW k \in Calls, NEW s \in Sessions, NEW p \in Paths, NEW kind \in Kinds,
             ToolStart(k, s, p, kind)
      PROVE  OwnWork'
  <2>1. \A j \in Calls : call[j] # Idle /\ call[j].p = p => call[j].s = s
    BY <1>2 DEF ToolStart, WorkingOn
  <2>2. /\ call'[k].phase = "started" /\ call'[k].p = p /\ call'[k].s = s
        /\ \A j \in Calls \ {k} : call'[j] = call[j]
        /\ UNCHANGED <<disk, made>>
    BY <1>2 DEF ToolStart, TypeOK
  <2> QED BY <2>1, <2>2 DEF OwnWork
<1>3. ASSUME NEW k \in Calls, NEW c \in Contents, ToolSucceeds(k, c)
      PROVE  OwnWork'
  <2> DEFINE s == call[k].s  p == call[k].p
  <2>1. call[k] # Idle /\ call[k] \in Call /\ s \in Sessions /\ p \in Paths
    BY <1>3, InFlight, PhaseBusy DEF ToolSucceeds
  <2>2. /\ call'[k].phase = "ok" /\ call'[k].p = p /\ call'[k].s = s
        /\ call'[k].kind = call[k].kind
        /\ \A j \in Calls \ {k} : call'[j] = call[j]
    BY <1>3, <2>1 DEF ToolSucceeds, TypeOK, Call
  <2>3. /\ disk' = [disk EXCEPT ![p] = c]
        /\ made' = [made EXCEPT ![s][p] = IF c = disk[p] THEN @ ELSE @ \cup {c}]
    BY <1>3 DEF ToolSucceeds
  <2>4. c # Missing
    BY RevertAssumption
  <2>5. disk'[p] = c /\ (call[k].kind = "edit" => c \in made'[s][p])
    BY <1>3, <2>1, <2>3 DEF ToolSucceeds, TypeOK
  <2>6. \A t \in Sessions, q \in Paths : made[t][q] \subseteq made'[t][q]
    BY <2>1, <2>3 DEF TypeOK
  <2>7. ASSUME NEW j \in Calls, j # k, call[j].phase = "ok"
        PROVE  /\ disk'[call[j].p] # Missing
               /\ call[j].kind = "edit" => disk'[call[j].p] \in made'[call[j].s][call[j].p]
    <3>1. call[j] # Idle /\ call[j].s \in Sessions /\ call[j].p \in Paths
      BY <2>7, InFlight, PhaseBusy
    <3>2. CASE call[j].p # p
      BY <2>1, <2>3, <2>6, <2>7, <3>1, <3>2 DEF OwnWork, TypeOK
    <3>3. CASE call[j].p = p
      <4>1. call[j].s = s
        BY <2>1, <3>1, <3>3 DEF OwnWork
      <4>2. c = disk[p] \/ c \in made'[s][p]
        BY <2>1, <2>3 DEF TypeOK
      <4> QED BY <2>1, <2>4, <2>5, <2>6, <2>7, <3>3, <4>1, <4>2 DEF OwnWork
    <3> QED BY <3>2, <3>3
  <2>8. call'[k] # Idle
    BY <2>2 DEF Idle
  <2> HIDE DEF s, p
  <2> QED BY <2>1, <2>2, <2>4, <2>5, <2>7, <2>8 DEF OwnWork, s, p
<1>4. ASSUME NEW k \in Calls, ToolFails(k)
      PROVE  OwnWork'
  <2>1. call[k] # Idle /\ call[k] \in Call
    BY <1>4, InFlight, PhaseBusy DEF ToolFails
  <2>2. /\ call'[k].phase = "failed" /\ call'[k].p = call[k].p /\ call'[k].s = call[k].s
        /\ \A j \in Calls \ {k} : call'[j] = call[j]
        /\ UNCHANGED <<disk, made>>
    BY <1>4, <2>1 DEF ToolFails, TypeOK, Call
  <2> QED BY <2>1, <2>2 DEF OwnWork
<1>5. ASSUME NEW k \in Calls, ToolEnd(k)
      PROVE  OwnWork'
  <2>1. /\ call'[k] = Idle
        /\ \A j \in Calls \ {k} : call'[j] = call[j]
        /\ UNCHANGED <<disk, made>>
    BY <1>5 DEF ToolEnd, TypeOK
  <2>2. Idle.phase # "ok"
    BY DEF Idle
  <2> QED BY <2>1, <2>2 DEF OwnWork
<1>6. ASSUME NEW P \in SUBSET Paths, LeftAlone(P), UNCHANGED <<call, made>>,
             \A q \in Paths \ P : disk'[q] = disk[q]
      PROVE  OwnWork'
  <2>1. \A k \in Calls : call[k] # Idle => call[k].p \notin P
    BY <1>6 DEF LeftAlone, WorkingOn
  <2>2. \A k \in Calls : call[k].phase = "ok" => disk'[call[k].p] = disk[call[k].p]
    BY <1>6, <2>1, InFlight, PhaseBusy
  <2> QED BY <1>6, <2>2 DEF OwnWork
<1>7. ASSUME NEW p \in Paths, NEW c \in Contents \cup {Missing}, HandEdit(p, c)
      PROVE  OwnWork'
  BY <1>6, <1>7, {p} \in SUBSET Paths DEF HandEdit, TypeOK
<1>8. ASSUME NEW s \in Sessions, NEW p \in Paths, RevertFile(s, p)
      PROVE  OwnWork'
  BY <1>6, <1>8, {p} \in SUBSET Paths DEF RevertFile, Restored
<1>9. ASSUME NEW s \in Sessions, NEW P \in SUBSET Paths, RevertFiles(s, P)
      PROVE  OwnWork'
  <2>1. \A q \in Paths \ P : disk'[q] = disk[q]
    BY <1>9 DEF RevertFiles, Restored
  <2> QED BY <1>6, <1>9, <2>1 DEF RevertFiles
<1>10. ASSUME Restart PROVE OwnWork'
  BY <1>10 DEF Restart, OwnWork, Idle
<1> QED BY <1>1, <1>2, <1>3, <1>4, <1>5, <1>7, <1>8, <1>9, <1>10 DEF Next, CallStep, vars

LEMMA LastOwnedStep ==
  TypeOK /\ SnapshotCurrent /\ OwnWork /\ LastOwned /\ [Next]_vars => LastOwned'
<1> SUFFICES ASSUME TypeOK, SnapshotCurrent, OwnWork, LastOwned, [Next]_vars
             PROVE  LastOwned'
  OBVIOUS
<1>1. ASSUME UNCHANGED <<snap, made>> PROVE LastOwned'
  BY <1>1 DEF LastOwned
<1>2. ASSUME NEW k \in Calls, NEW s \in Sessions, NEW p \in Paths, NEW kind \in Kinds,
             ToolStart(k, s, p, kind)
      PROVE  LastOwned'
  <2> DEFINE b == [content |-> disk[p], last |-> Text(disk[p])]
  <2>1. b.content = disk[p] /\ (b.content # Missing => b.last = b.content)
    BY DEF Text
  <2> HIDE DEF b
  <2>2. /\ snap' = [snap EXCEPT ![s] = IF mem[s][p] = None THEN [mem[s] EXCEPT ![p] = b]
                                        ELSE mem[s]]
        /\ made' = made
    BY <1>2 DEF ToolStart, Save, WithBaseline, b
  <2>3. \A q \in Paths : mem[s][q] = None \/ mem[s][q] = snap[s][q]
    BY DEF SnapshotCurrent, NoBaselines
  <2> QED BY <2>1, <2>2, <2>3 DEF LastOwned, TypeOK
<1>3. ASSUME NEW k \in Calls, NEW c \in Contents, ToolSucceeds(k, c)
      PROVE  LastOwned'
  <2>1. call[k].s \in Sessions /\ call[k].p \in Paths
    BY <1>3, InFlight, PhaseBusy DEF ToolSucceeds
  <2>2. \A t \in Sessions, q \in Paths : made[t][q] \subseteq made'[t][q]
    BY <1>3, <2>1 DEF ToolSucceeds, TypeOK
  <2> QED BY <1>3, <2>2 DEF ToolSucceeds, LastOwned
<1>4. ASSUME NEW k \in Calls, ToolEnd(k)
      PROVE  LastOwned'
  <2>1. CASE ~Records(k)
    BY <1>1, <1>4, <2>1 DEF ToolEnd
  <2>2. CASE Records(k)
    <3> DEFINE s == call[k].s  p == call[k].p
    <3>1. s \in Sessions /\ p \in Paths
      BY <1>4, InFlight, PhaseBusy DEF ToolEnd
    <3>2. mem[s] = snap[s]
      BY <2>2, <3>1 DEF Records, SnapshotCurrent, NoBaselines
    <3>3. disk[p] \in made[s][p] /\ disk[p] # Missing
      BY <2>2 DEF Records, OwnDiff, OwnWork
    <3> DEFINE b == [content |-> mem[s][p].content, last |-> Text(disk[p])]
    <3>4. b.last \in made[s][p]
      BY <3>3 DEF Text
    <3>5. snap' = [snap EXCEPT ![s] = [snap[s] EXCEPT ![p] = b]] /\ made' = made
      BY <1>4, <2>2, <3>2 DEF ToolEnd, Save, Recorded
    <3> HIDE DEF b, s, p
    <3> QED BY <3>1, <3>4, <3>5 DEF LastOwned, TypeOK
  <2> QED BY <2>1, <2>2
<1> QED BY <1>1, <1>2, <1>3, <1>4 DEF Next, CallStep, ToolFails, HandEdit,
           RevertFile, RevertFiles, Restart, vars

\* A turn's revert is refused whole when a file of it that existed before the
\* session holds what neither the session's calls nor the original left there,
\* as long as nobody else changes a file while a call works on it and no
\* session with baselines on disk works on after a restart.
THEOREM RevertIsSparing ==
  ASSUME HandsOff, FreshOnly
  PROVE  Spec => RevertSparesOthers
<1> DEFINE Inv == TypeOK /\ SnapshotCurrent /\ StartKnown /\ OwnWork /\ LastOwned
<1>1. Init => Inv
  BY RevertAssumption
     DEF Init, TypeOK, SnapshotCurrent, StartKnown, OwnWork, LastOwned, NoBaselines, Idle
<1>2. Inv /\ [Next]_vars => Inv'
  BY TypeStep, SnapshotStep, StartStep, OwnStep, LastOwnedStep
<1>3. Inv => [\A s \in Sessions, P \in SUBSET Paths : RevertFiles(s, P) =>
                disk' = disk \/ \A p \in P : start[s][p] # Missing =>
                                   disk[p] \in made[s][p] \cup {start[s][p]}]_vars
  <2> SUFFICES ASSUME Inv, NEW s \in Sessions, NEW P \in SUBSET Paths, RevertFiles(s, P),
                      disk' # disk, NEW p \in P, start[s][p] # Missing
               PROVE  disk[p] \in made[s][p] \cup {start[s][p]}
    BY DEF Inv
  <2>1. Revertable(s, p)
    BY DEF RevertFiles
  <2>2. /\ snap[s][p] # None
        /\ snap[s][p].content = start[s][p]
        /\ disk[p] = snap[s][p].last
    BY <2>1, ResolveIsSnap DEF Inv, Revertable, StartKnown
  <2> QED BY <2>2 DEF Inv, LastOwned
<1> HIDE DEF Inv
<1> QED BY <1>1, <1>2, <1>3, PTL DEF Spec, RevertSparesOthers
==============================================================================
