------------------------------ MODULE TabView --------------------------------
(***************************************************************************)
(* The sessions of one browser tab (App.tsx over session-store.ts): which  *)
(* one is on screen, which one the sidebar highlights, what is loaded of   *)
(* each, and how clicks, answers, earlier pages and the live stream meet.  *)
(*                                                                         *)
(* A session is identified with its file.  Its conversation is a sequence  *)
(* of messages, each streamed in two halves: half h of session s is        *)
(* <<s, h>>.  A message is in the history once both its halves are out;    *)
(* `noted` tells of the notes the tab puts in itself (localSystem).        *)
(* The socket is in order, so a step of the daemon and the arrival of its  *)
(* frames are one step; requests take their time.                          *)
(***************************************************************************)
EXTENDS Naturals, Sequences, FiniteSets

CONSTANTS
  Sessions,
  Welcome,    \* no session: the welcome screen
  Calm,       \* TRUE: the user stays while a create, fork or delete is under
              \* way, starts those and leaves for the welcome screen only
              \* once all requests are answered, clicks once on a session
              \* that opens, scrolls up in sessions the sidebar knows, and
              \* neither opens an unseen running session nor reloads the
              \* page during a turn
  Limit,      \* messages per page (200)
  MaxSaid,    \* bound on the halves of a conversation
  MaxClicks,  \* bound on openSessionSeq
  MaxInfos    \* bound on session.info requests under way

ASSUME TabAssumption ==
  /\ Welcome \notin Sessions /\ Calm \in BOOLEAN
  /\ Limit \in Nat \ {0} /\ {MaxSaid, MaxClicks, MaxInfos} \subseteq Nat
  /\ MaxSaid >= 4  \* what a session has to begin with

VARIABLES
  exists,   \* daemon: session files
  fresh,    \* daemon: sessions still to be created
  live,     \* daemon: sessions with an agent
  said,     \* daemon: halves put out in each session
  running,  \* daemon: sessions in a turn
  slots,    \* state.slots: the conversation in items, whether there are
            \* notes among them, historyStartIndex, historyHasMore
  active,   \* state.activeId
  path,     \* activePath, the sidebar's highlight
  stored,   \* localStorage["vagus.lastSession"]
  list,     \* sessions, the sidebar's list
  known,    \* domain of sessionFileBySessionId
  seq,      \* openSessionSeq
  opening,  \* session.open requests under way
  spinner,  \* openSessionLoadingRef
  infos,    \* session.info requests under way, in order
  paging,   \* loadingMoreHistoryRef with its session.page request
  task,     \* the create, fork or delete under way
  chosen,   \* observation: where the user went last
  failed    \* observation: the last session chosen could not be opened

daemon == <<exists, fresh, live, said, running>>
screen == <<slots, active, path, stored>>
vars == <<daemon, screen, list, known, seq, opening, spinner, infos, paging,
          task, chosen, failed>>

None == Welcome  \* no path, no task
Views == Sessions \cup {Welcome}
EmptySlot == [items |-> <<>>, noted |-> FALSE, start |-> 0, more |-> FALSE]

TypeOK ==
  /\ {exists, fresh, live, running, list, known} \subseteq SUBSET Sessions
  /\ said \in [Sessions -> 0 .. MaxSaid]
  /\ slots \in [Views -> [items : Seq(Sessions \X (1 .. MaxSaid)),
                         noted : BOOLEAN, start : Nat, more : BOOLEAN]]
  /\ {active, path, stored, chosen} \subseteq Views
  /\ seq \in 0 .. MaxClicks
  /\ opening \subseteq [seq : 1 .. MaxClicks, s : Sessions]
  /\ spinner = Cardinality(opening)
  /\ infos \in Seq([s : Sessions, follow : BOOLEAN])
  /\ paging = None \/ paging \in [s : Sessions, file : Sessions, before : Nat]
  /\ task = None \/ task \in [kind : {"create", "fork", "remove"},
                                s : Views, path : Views]
  /\ failed \in BOOLEAN

Init ==
  /\ exists \in SUBSET Sessions /\ fresh = Sessions \ exists
  /\ live = {} /\ running = {}
  /\ said \in [Sessions -> {0, 4}] /\ \A s \in fresh : said[s] = 0
  /\ slots = [v \in Views |-> EmptySlot]
  /\ active = Welcome /\ path = None /\ stored = None
  /\ list = {} /\ known = {}
  /\ seq = 0 /\ opening = {} /\ spinner = 0 /\ infos = <<>>
  /\ paging = None /\ task = None /\ chosen = Welcome /\ failed = FALSE

------------------------------------------------------------------------------
(***************************************************************************)
(* Pieces of the handlers                                                  *)
(***************************************************************************)

\* readSessionPage: the window of messages that ends before the given one.
Messages(s) == said[s] \div 2
Window(s, before) ==
  LET first == IF before > Limit THEN before - Limit ELSE 0
  IN [items |-> [i \in 1 .. 2 * (before - first) |-> <<s, 2 * first + i>>],
      noted |-> FALSE, start |-> first, more |-> first > 0]

\* loadHistory keeps nothing of the slot; prependHistory keeps its items.
LoadHistory(s) == [slots EXCEPT ![s] = Window(s, Messages(s))]
PrependKeepsStart(s, page) ==
  slots' = [slots EXCEPT ![s].items = page.items \o @]
PrependHistory(s, page) ==
  slots' = [slots EXCEPT ![s] = [items |-> page.items \o @.items, noted |-> @.noted,
                                 start |-> page.start, more |-> page.more]]

\* setActivePath, and the effect that remembers it.
SetPath(p) == path' = p /\ stored' = p
FetchInfo(s, follow) == infos' = Append(infos, [s |-> s, follow |-> follow])
RoomForInfo == Len(infos) < MaxInfos

\* When the user moves on (Calm).
Free == Calm => task = None

------------------------------------------------------------------------------
(***************************************************************************)
(* Opening a session                                                       *)
(***************************************************************************)

\* What counts as loaded is a slot with items.
HasItems(s) == slots[s].items # <<>> \/ slots[s].noted
NeverLoaded(s) == FALSE
Loaded(s) == HasItems(s)

\* openSession, the fast path.
SwitchTo(s) ==
  /\ s \in list /\ Loaded(s)
  /\ Free /\ RoomForInfo /\ seq < MaxClicks
  /\ seq' = seq + 1
  /\ SetPath(s) /\ active' = s
  /\ FetchInfo(s, TRUE)
  /\ chosen' = s /\ failed' = FALSE
  /\ UNCHANGED <<daemon, slots, list, known, opening, spinner, paging, task>>

\* openSession, up to its request.
RequestOpen(s) ==
  /\ seq < MaxClicks
  /\ seq' = seq + 1
  /\ opening' = opening \cup {[seq |-> seq', s |-> s]}
  /\ spinner' = spinner + 1
  /\ chosen' = s /\ failed' = FALSE

OpenSession(s) ==
  /\ s \in list /\ ~Loaded(s)
  /\ Free
  /\ Calm => /\ s \in running => slots[s].items # <<>>
             /\ \A o \in opening : o.s # s
  /\ RequestOpen(s)
  /\ SetPath(s)
  /\ UNCHANGED <<daemon, slots, active, list, known, infos, paging, task>>

\* session.open starts an agent first; session.created reaches the tab.
CreatedMoves == TRUE
CreatedFollows == FALSE
Resume(o) ==
  /\ o.s \in exists \ live
  /\ RoomForInfo
  /\ live' = live \cup {o.s}
  /\ FetchInfo(o.s, CreatedFollows)
  /\ UNCHANGED <<exists, fresh, said, running, screen, list, known, seq,
                 opening, spinner, paging, task, chosen, failed>>

ArriveKeepsSpinner(o) ==
  /\ opening' = opening \ {o}
  /\ UNCHANGED spinner
  /\ o.s \in live
  /\ slots' = LoadHistory(o.s)

\* The slot the code looks at again is the one of its closure, which was
\* empty: it loads in any case.
Arrive(o) ==
  /\ opening' = opening \ {o}
  /\ spinner' = spinner - 1
  /\ o.s \in live
  /\ slots' = LoadHistory(o.s)

\* A newer click superseded this one.
OpenedLate(o) ==
  /\ o.seq # seq
  /\ Arrive(o)
  /\ UNCHANGED <<daemon, active, path, stored, list, known, seq, infos, paging,
                 task, chosen, failed>>

IsAny(o) == TRUE
IsLatest(o) == o.seq = seq
Opened(o) ==
  /\ IsLatest(o)
  /\ RoomForInfo
  /\ Arrive(o)
  /\ active' = o.s /\ SetPath(o.s)
  /\ FetchInfo(o.s, TRUE)
  /\ UNCHANGED <<daemon, list, known, seq, paging, task, chosen, failed>>

\* The error goes to the timeline on screen.
OpenFails(o) ==
  /\ opening' = opening \ {o}
  /\ spinner' = spinner - 1
  /\ slots' = [slots EXCEPT ![active].noted = TRUE]
  /\ failed' = (failed \/ IsLatest(o))
  /\ UNCHANGED <<daemon, active, path, stored, list, known, seq, infos, paging,
                 task, chosen>>

\* fetchSessionInfo: the answers come in order; a session that is gone
\* gives none.
InfoArrives ==
  /\ infos # <<>>
  /\ infos' = Tail(infos)
  /\ LET i == Head(infos) IN
       IF i.s \in live
         THEN /\ known' = known \cup {i.s}
              /\ IF i.follow THEN SetPath(i.s) ELSE UNCHANGED <<path, stored>>
         ELSE UNCHANGED <<known, path, stored>>
  /\ UNCHANGED <<daemon, slots, active, list, seq, opening, spinner, paging,
                 task, chosen, failed>>

\* refreshHistory
RefreshHistory ==
  /\ list # exists \/ ~(exists \subseteq known)
  /\ list' = exists
  /\ known' = known \cup exists
  /\ UNCHANGED <<daemon, screen, seq, opening, spinner, infos, paging, task,
                 chosen, failed>>

------------------------------------------------------------------------------
(***************************************************************************)
(* Earlier pages                                                           *)
(***************************************************************************)

CanPage(s) == slots[s].more /\ slots[s].start # 0 /\ HasItems(s)

\* The file of a session without a mapping is taken to be activePath.
PageFile(s) == IF s \in known THEN s ELSE path
LoadMoreHistory ==
  /\ active # Welcome /\ paging = None
  /\ CanPage(active) /\ (Calm => active \in known)
  /\ paging' = [s |-> active, file |-> PageFile(active),
                before |-> slots[active].start]
  /\ UNCHANGED <<daemon, screen, list, known, seq, opening, spinner, infos,
                 task, chosen, failed>>

PageArrives ==
  /\ paging # None
  /\ paging' = None
  /\ IF paging.file \in exists
       THEN PrependHistory(paging.s, Window(paging.file, paging.before))
       ELSE UNCHANGED slots
  /\ UNCHANGED <<daemon, active, path, stored, list, known, seq, opening,
                 spinner, infos, task, chosen, failed>>

------------------------------------------------------------------------------
(***************************************************************************)
(* Creating, forking, deleting                                             *)
(***************************************************************************)

NewSession ==
  /\ active # Welcome \/ path # None
  /\ Free /\ (Calm => opening = {} /\ infos = <<>>)
  /\ active' = Welcome /\ SetPath(None)
  /\ chosen' = Welcome /\ failed' = FALSE
  /\ UNCHANGED <<daemon, slots, list, known, seq, opening, spinner, infos,
                 paging, task>>

Start(kind, s) ==
  /\ task = None
  /\ Calm => opening = {} /\ infos = <<>>
  /\ task' = [kind |-> kind, s |-> s, path |-> path]
  /\ UNCHANGED <<daemon, screen, list, known, seq, opening, spinner, infos,
                 paging, chosen, failed>>

Create == active = Welcome /\ Start("create", Welcome)
Fork == active \in live /\ said[active] > 0 /\ Start("fork", active)
\* deleteSession and archiveSession
DeleteSession(s) ==
  s \in list /\ (Calm => s \notin running) /\ Start("remove", s)

\* sendMessage on the welcome screen: the fresh session takes the welcome
\* slot's notes along (moveWelcome).  The prompt is a step of its own.
Created(n) ==
  /\ task # None /\ task.kind = "create"
  /\ n \in fresh /\ RoomForInfo
  /\ exists' = exists \cup {n} /\ fresh' = fresh \ {n} /\ live' = live \cup {n}
  /\ slots' = [slots EXCEPT ![n].noted = @ \/ slots[Welcome].noted,
                            ![Welcome] = EmptySlot]
  /\ active' = n /\ chosen' = n /\ failed' = FALSE
  /\ FetchInfo(n, TRUE)
  /\ task' = None
  /\ UNCHANGED <<said, running, path, stored, list, known, seq, opening,
                 spinner, paging>>

\* runFork: the new session has the messages up to the chosen one.
Forked(n) ==
  /\ task # None /\ task.kind = "fork" /\ task.s \in live
  /\ Calm => infos = <<>>
  /\ n \in fresh
  /\ \E k \in 1 .. Messages(task.s) :
       /\ said' = [said EXCEPT ![n] = 2 * k]
       /\ slots' = [slots EXCEPT ![n] = Window(n, k)]
  /\ exists' = exists \cup {n} /\ fresh' = fresh \ {n} /\ live' = live \cup {n}
  /\ active' = n /\ SetPath(n) /\ chosen' = n /\ failed' = FALSE
  /\ task' = None
  /\ UNCHANGED <<running, list, known, seq, opening, spinner, infos, paging>>

\* "If the deleted session is the active one, clear it": as of the click.
Removed ==
  /\ task # None /\ task.kind = "remove"
  /\ Calm => infos = <<>>
  /\ exists' = exists \ {task.s} /\ live' = live \ {task.s}
  /\ running' = running \ {task.s}
  /\ list' = list \ {task.s}
  /\ IF task.path = task.s
       THEN active' = Welcome /\ SetPath(None) /\ chosen' = Welcome
       ELSE UNCHANGED <<active, path, stored, chosen>>
  /\ task' = None
  /\ UNCHANGED <<fresh, said, slots, known, seq, opening, spinner, infos,
                 paging, failed>>

------------------------------------------------------------------------------
(***************************************************************************)
(* Turns, and the reload of the page                                       *)
(***************************************************************************)

Prompt ==
  /\ active \in live \ running
  /\ Calm => \A o \in opening : o.s # active
  /\ running' = running \cup {active}
  /\ UNCHANGED <<exists, fresh, live, said, screen, list, known, seq, opening,
                 spinner, infos, paging, task, chosen, failed>>

Delta(s) ==
  /\ s \in running /\ said[s] < MaxSaid
  /\ said' = [said EXCEPT ![s] = @ + 1]
  /\ slots' = [slots EXCEPT ![s].items = Append(@, <<s, said'[s]>>)]
  /\ UNCHANGED <<exists, fresh, live, running, active, path, stored, list,
                 known, seq, opening, spinner, infos, paging, task, chosen, failed>>

TurnEnd(s) ==
  /\ s \in running /\ said[s] % 2 = 0
  /\ running' = running \ {s}
  /\ IF s = active THEN RoomForInfo /\ FetchInfo(s, TRUE) ELSE UNCHANGED infos
  /\ UNCHANGED <<exists, fresh, live, said, screen, list, known, seq, opening,
                 spinner, paging, task, chosen, failed>>

\* A fresh page restores the last session before it has a list.
Reload ==
  /\ Calm => running = {} /\ task = None /\ opening = {} /\ infos = <<>>
  /\ seq < MaxClicks
  /\ slots' = [v \in Views |-> EmptySlot]
  /\ active' = Welcome /\ list' = {} /\ known' = {}
  /\ infos' = <<>> /\ paging' = None /\ task' = None
  /\ IF stored = None
       THEN /\ path' = None /\ opening' = {} /\ spinner' = 0
            /\ chosen' = Welcome /\ failed' = FALSE /\ UNCHANGED seq
       ELSE /\ path' = stored /\ seq' = seq + 1 /\ spinner' = 1
            /\ opening' = {[seq |-> seq', s |-> stored]}
            /\ chosen' = stored /\ failed' = FALSE
  /\ UNCHANGED <<daemon, stored>>

Next ==
  \/ \E s \in Sessions : SwitchTo(s)
  \/ \E s \in Sessions : OpenSession(s)
  \/ \E o \in opening : Resume(o)
  \/ \E o \in opening : OpenedLate(o)
  \/ \E o \in opening : Opened(o)
  \/ \E o \in opening : OpenFails(o)
  \/ InfoArrives
  \/ RefreshHistory
  \/ LoadMoreHistory
  \/ PageArrives
  \/ NewSession
  \/ Create
  \/ Fork
  \/ \E s \in Sessions : DeleteSession(s)
  \/ \E n \in Sessions : Created(n)
  \/ \E n \in Sessions : Forked(n)
  \/ Removed
  \/ Prompt
  \/ \E s \in Sessions : Delta(s)
  \/ \E s \in Sessions : TurnEnd(s)
  \/ Reload

Spec == Init /\ [][Next]_vars

------------------------------------------------------------------------------
(***************************************************************************)
(* Properties                                                              *)
(***************************************************************************)

\* What a tab shows of a session is its conversation from
\* historyStartIndex to now, without a gap or a repetition, and it offers
\* earlier messages exactly when there are some: openSession,
\* loadMoreHistory and the stream in any order ("prependHistory",
\* "loadHistory").
Gapless ==
  \A s \in exists : HasItems(s) =>
    /\ slots[s].items = [i \in 1 .. said[s] - 2 * slots[s].start |->
                          <<s, 2 * slots[s].start + i>>]
    /\ slots[s].more <=> slots[s].start > 0

Settled == opening = {} /\ infos = <<>> /\ task = None

\* When all requests are answered the session on screen is the one the user
\* chose last ("don't steal the active session"), unless that one could not
\* be opened.
LastChoiceShown == Settled /\ ~failed => active = chosen

\* Then the highlight of the sidebar, and with it the session a reload
\* brings back, is the one on screen ("Remember the active session so a
\* reload lands back in the same chat").
HighlightTrue == Settled /\ ~failed => path = active /\ stored = active

\* "If the slot already has live-streamed content (switching back to a
\* running session), keep it": no answer takes away what has streamed in.
StreamKept ==
  [][\A s \in Sessions : s \in live' /\ list' # {} =>
       \A i \in DOMAIN slots[s].items :
         slots[s].items[i][2] > 2 * Messages(s) =>
           \E j \in DOMAIN slots'[s].items :
             slots'[s].items[j] = slots[s].items[i]]_vars
==============================================================================
