------------------------------ MODULE SkillGate ------------------------------
(***************************************************************************)
(* Skills switched off in the settings (skills-view.tsx, the skills.*      *)
(* methods of daemon.ts, config.json) and the resource loaders that hide   *)
(* them from sessions (startSession, prewarmLoaders: one loader per key,   *)
(* reused).  One project directory; the handlers interleave at the awaits  *)
(* of listAllSkills and loader.reload.                                     *)
(***************************************************************************)
EXTENDS Naturals, FiniteSets

CONSTANTS
  Skills, Tabs, Sessions, None,
  Switched,    \* the skills the user ever switches
  Unlisted,    \* TRUE: listAllSkills may fail and return nothing
  Builtins,    \* builtinExtensionPaths.length
  MaxBuilds    \* bound on loaders built in the background at once

\* Assumed of the constants, where a module gives them values.
GateAssumption ==
  /\ Switched \subseteq Skills /\ IsFiniteSet(Skills)
  /\ None \notin Sessions \cup Skills /\ \A S \in SUBSET Skills : S # None
  /\ Unlisted \in BOOLEAN /\ Builtins \in Nat /\ MaxBuilds \in Nat

VARIABLES
  disabled,  \* config.json: disabledSkills
  asks,      \* skills.list and skills.setEnabled requests under way
  memo,      \* skillsMemoryCache of each tab: the skills shown as off
  wanted,    \* observation: what the last toggle of each skill asked for
  cache,     \* resourceLoaderCache, the entries with the settings' stamp:
             \* those of an older settings.json are never found again
  builds,    \* loaders being built, for a session or in the background
  hides,     \* what the loader of each session hides
  atStart    \* observation: disabled as the session was started

vars == <<disabled, asks, memo, wanted, cache, builds, hides, atStart>>

Asks == [tab : Tabs, skill : Skills \cup {None}, off : BOOLEAN,
         has : (SUBSET Skills) \cup {None}]
TypeOK ==
  /\ disabled \subseteq Skills /\ wanted \subseteq Skills
  /\ asks \subseteq Asks /\ memo \in [Tabs -> (SUBSET Skills) \cup {None}]
  /\ cache \subseteq [key : Nat, hides : SUBSET Skills]
  /\ builds \subseteq [key : Nat, hides : SUBSET Skills, old : BOOLEAN,
                      for : Sessions \cup {None}]
  /\ \A s \in Sessions : \/ hides[s] = None
                         \/ hides[s] \subseteq Skills /\ atStart[s] \subseteq Skills

Init ==
  /\ disabled \in SUBSET Switched /\ wanted = disabled
  /\ asks = {} /\ memo = [t \in Tabs |-> None]
  /\ cache = {} /\ builds = {}
  /\ hides = [s \in Sessions |-> None] /\ atStart = hides

gate == <<disabled, asks, memo, wanted>>
loaders == <<cache, builds, hides, atStart>>

------------------------------------------------------------------------------
(***************************************************************************)
(* The settings view and its requests                                      *)
(***************************************************************************)

\* skillsWithEnabled reads the file first, then lists the skills.
Ask(t, k, off, has) ==
  asks' = asks \cup {[tab |-> t, skill |-> k, off |-> off, has |-> has]}

\* The view opens, with what it showed last time.
Mount(t) ==
  /\ \A a \in asks : a.tab # t
  /\ Ask(t, None, FALSE, disabled)
  /\ UNCHANGED <<disabled, memo, wanted, loaders>>

\* toggleSkill, one at a time in each tab, and not the same skill in two.
Toggle(t, k) ==
  /\ memo[t] # None /\ \A a \in asks : a.tab # t /\ a.skill # k
  /\ Ask(t, k, k \notin memo[t], None)
  /\ wanted' = IF k \in memo[t] THEN wanted \ {k} ELSE wanted \cup {k}
  /\ UNCHANGED <<disabled, memo, loaders>>

\* skills.setEnabled, after the names are listed.
FromBefore(a, names) == disabled' = IF a.off THEN {a.skill} ELSE {}
Store(a, names) ==
  disabled' = names \cap IF a.off THEN disabled \cup {a.skill}
                                  ELSE disabled \ {a.skill}
SetEnabled(a) ==
  /\ a \in asks /\ a.has = None
  /\ \E names \in IF Unlisted THEN {Skills, {}} ELSE {Skills} : Store(a, names)
  /\ asks' = (asks \ {a}) \cup {[a EXCEPT !.has = disabled']}
  /\ UNCHANGED <<memo, wanted, loaders>>

\* apply: the answers come in the order the listings end.
Answer(a) ==
  /\ a \in asks /\ a.has # None
  /\ memo' = [memo EXCEPT ![a.tab] = a.has]
  /\ asks' = asks \ {a}
  /\ UNCHANGED <<disabled, wanted, loaders>>

\* The view was closed before its first answer.
Ignored(a) ==
  /\ a \in asks /\ a.skill = None
  /\ asks' = asks \ {a}
  /\ UNCHANGED <<disabled, memo, wanted, loaders>>

------------------------------------------------------------------------------
(***************************************************************************)
(* Loaders                                                                 *)
(***************************************************************************)

\* The key holds the number of disabled skills.
NoCount(d) == 0
Key(d) == Cardinality(d)
Cached(k) == {e \in cache : e.key = k}
Pending(for) ==
  [key |-> Key(disabled), hides |-> disabled, old |-> FALSE, for |-> for]

\* startSession: a cached loader, pi's default one, or a new one.
StartSession(s) ==
  /\ hides[s] = None /\ \A b \in builds : b.for # s
  /\ atStart' = [atStart EXCEPT ![s] = disabled]
  /\ \/ \E e \in Cached(Key(disabled)) :
          hides' = [hides EXCEPT ![s] = e.hides] /\ UNCHANGED builds
     \/ /\ Cached(Key(disabled)) = {}
        /\ IF disabled = {} /\ Builtins = 0
           THEN hides' = [hides EXCEPT ![s] = {}] /\ UNCHANGED builds
           ELSE builds' = builds \cup {Pending(s)} /\ UNCHANGED hides
  /\ UNCHANGED <<gate, cache>>

\* prewarmLoaders, after each listing of the history.
Prewarm ==
  /\ Cached(Key(disabled)) = {} /\ ~(disabled = {} /\ Builtins = 0)
  /\ Cardinality({b \in builds : b.for = None}) < MaxBuilds
  /\ builds' = builds \cup {Pending(None)}
  /\ UNCHANGED <<gate, cache, hides, atStart>>

\* loader.reload is done: cached under the key taken before.
Built(b) ==
  /\ b \in builds
  /\ builds' = builds \ {b}
  /\ cache' = IF b.old THEN cache ELSE
       (cache \ Cached(b.key)) \cup {[key |-> b.key, hides |-> b.hides]}
  /\ hides' = [s \in Sessions |-> IF s = b.for THEN b.hides ELSE hides[s]]
  /\ UNCHANGED <<gate, atStart>>

\* settings.json gets another stamp.
EditSettings ==
  /\ cache' = {} /\ builds' = {[b EXCEPT !.old = TRUE] : b \in builds}
  /\ UNCHANGED <<gate, hides, atStart>>

Dispose(s) ==
  /\ hides[s] # None
  /\ hides' = [hides EXCEPT ![s] = None]
  /\ UNCHANGED <<gate, cache, builds, atStart>>

\* What one tab does and asks for, and what the loaders do.
TabStep(t) ==
  \/ Mount(t) \/ \E k \in Switched : Toggle(t, k)
  \/ \E a \in asks : a.tab = t /\ (SetEnabled(a) \/ Answer(a) \/ Ignored(a))
LoaderStep ==
  \/ \E s \in Sessions : StartSession(s) \/ Dispose(s)
  \/ \E b \in builds : Built(b)
  \/ Prewarm \/ EditSettings

Next == LoaderStep \/ \E t \in Tabs : TabStep(t)

Spec == Init /\ [][Next]_vars

------------------------------------------------------------------------------
\* No toggle is lost, in whatever order the handlers of two tabs get past
\* their listing: once none is under way, the file says what was asked for.
TogglesKept == (\A a \in asks : a.has # None) => disabled = wanted

\* "filters these out of every session (so they never enter the system
\* prompt)": a session hides the skills that were off as it was started.
HiddenAtStart ==
  \A s \in DOMAIN hides : hides[s] # None => hides[s] = atStart[s]

\* What the cache does keep: a loader is never used for another number of
\* skills than it was built for, and a session without any is not given
\* one that hides some.
HiddenInNumber ==
  \A s \in DOMAIN hides : hides[s] # None =>
    Cardinality(hides[s]) = Cardinality(atStart[s])
==============================================================================
