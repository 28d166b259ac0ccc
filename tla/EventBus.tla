------------------------------ MODULE EventBus -------------------------------
(***************************************************************************)
(* The bus that carries the engine's events (host/events/event-bus.ts).    *)
(*                                                                         *)
(* An emit takes a snapshot of the listeners of its name and of those for  *)
(* all names, and calls them one after the other, awaiting each.  It runs  *)
(* without interruption up to its next await: a listener that returns      *)
(* leaves the rest of the emit to the end of the queue of microtasks, one  *)
(* that throws leaves it to the same turn, and one that is asynchronous to *)
(* some later turn.  Emits overlap between their awaits.                   *)
(*                                                                         *)
(* No listener emits before it returns; what one subscribes or             *)
(* unsubscribes shows in the next emit only, so it is an action here.      *)
(***************************************************************************)
EXTENDS Naturals, Sequences, FiniteSets, SequencesExt

CONSTANTS
  Names,          \* names of events
  Named, ForAll,  \* registrations by name, and with subscribeAll
  Once,           \* those of Named made by once()
  MaxEmits        \* bound on emits

\* Assumed of the constants, where a module gives them values.
BusAssumption ==
  Once \subseteq Named /\ Named \cap ForAll = {} /\ MaxEmits \in Nat

VARIABLES
  entries,  \* entries: the listeners of each name, in insertion order
  all,      \* allListeners
  fresh,    \* registrations nobody has made yet
  emits,    \* each emit: its name and snapshot, how its calls have ended,
            \* whether it is over, and how far each earlier one was then
  turn,     \* the emit that runs, 0 for none
  ready     \* microtasks: emits whose awaited listener has returned

vars == <<entries, all, fresh, emits, turn, ready>>

Ends == {"returns", "throws", "async"}

TypeOK ==
  /\ entries \in [Names -> Seq(Named)] /\ all \in Seq(ForAll)
  /\ fresh \subseteq Named \cup ForAll
  /\ turn \in 0 .. Len(emits) /\ ready \in Seq(1 .. Len(emits))
  /\ IsInjective(ready)
  /\ \A i \in 1 .. Len(emits) : LET e == emits[i] IN
       /\ e.name \in Names /\ e.listeners \in Seq(Named \cup ForAll)
       /\ e.calls \in Seq(Ends) /\ Len(e.calls) <= Len(e.listeners)
       /\ e.over \in BOOLEAN /\ e.before \in [1 .. i - 1 -> Nat]

Init ==
  /\ entries = [n \in Names |-> <<>>] /\ all = <<>>
  /\ fresh = Named \cup ForAll
  /\ emits = <<>> /\ turn = 0 /\ ready = <<>>

\* subscribe, once.
Subscribe(n, l) ==
  /\ turn = 0 /\ l \in fresh \cap Named
  /\ entries' = [entries EXCEPT ![n] = Append(@, l)]
  /\ fresh' = fresh \ {l}
  /\ UNCHANGED <<all, emits, turn, ready>>

SubscribeAll(l) ==
  /\ turn = 0 /\ l \in fresh \cap ForAll
  /\ all' = Append(all, l) /\ fresh' = fresh \ {l}
  /\ UNCHANGED <<entries, emits, turn, ready>>

\* The function that subscribe, once and subscribeAll return.
Unsubscribe(l) ==
  /\ turn = 0 /\ l \notin fresh
  /\ entries' = [n \in Names |-> RemoveFirst(entries[n], l)]
  /\ all' = RemoveFirst(all, l)
  /\ UNCHANGED <<fresh, emits, turn, ready>>

Clear ==
  /\ turn = 0
  /\ entries' = [n \in Names |-> <<>>] /\ all' = <<>>
  /\ UNCHANGED <<fresh, emits, turn, ready>>

Emit(n) ==
  /\ turn = 0 /\ Len(emits) < MaxEmits
  /\ emits' = Append(emits,
       [name |-> n, listeners |-> entries[n] \o all, calls |-> <<>>,
        over |-> FALSE,
        before |-> [k \in 1 .. Len(emits) |-> Len(emits[k].calls)]])
  /\ turn' = Len(emits')
  /\ UNCHANGED <<entries, all, fresh, ready>>

Upcoming(i) == emits[i].listeners[Len(emits[i].calls) + 1]
HasNext(i) == Len(emits[i].calls) < Len(emits[i].listeners)

\* The emit loses its turn at the await, unless the listener throws before
\* there is anything to await.
ThrowEnds(i, end) ==
  /\ turn' = 0
  /\ ready' = IF end = "returns" THEN Append(ready, i) ELSE ready
GoesOn(i, end) ==
  /\ turn' = IF end = "throws" THEN i ELSE 0
  /\ ready' = IF end = "returns" THEN Append(ready, i) ELSE ready

\* The next listener; a once-entry is removed before its call.
Call(i, end) ==
  /\ turn = i /\ HasNext(i)
  /\ emits' = [emits EXCEPT ![i].calls = Append(@, end)]
  /\ entries' = [entries EXCEPT ![emits[i].name] =
       IF Upcoming(i) \in Once THEN RemoveFirst(@, Upcoming(i)) ELSE @]
  /\ GoesOn(i, end)
  /\ UNCHANGED <<all, fresh>>

\* An asynchronous listener settles, either way.
Settles(i) ==
  /\ turn = 0 /\ i \notin Range(ready) /\ ~emits[i].over
  /\ emits[i].calls # <<>> /\ Last(emits[i].calls) = "async"
  /\ ready' = Append(ready, i)
  /\ UNCHANGED <<entries, all, fresh, emits, turn>>

Resume ==
  /\ turn = 0 /\ ready # <<>>
  /\ turn' = Head(ready) /\ ready' = Tail(ready)
  /\ UNCHANGED <<entries, all, fresh, emits>>

Done(i) ==
  /\ turn = i /\ ~HasNext(i)
  /\ emits' = [emits EXCEPT ![i].over = TRUE]
  /\ turn' = 0
  /\ UNCHANGED <<entries, all, fresh, ready>>

Next ==
  \/ \E n \in Names : Emit(n) \/ \E l \in Named : Subscribe(n, l)
  \/ \E l \in ForAll : SubscribeAll(l)
  \/ \E l \in Named \cup ForAll : Unsubscribe(l)
  \/ Clear \/ Resume
  \/ \E i \in 1 .. Len(emits) :
       Settles(i) \/ Done(i) \/ \E end \in Ends : Call(i, end)

Spec == Init /\ [][Next]_vars

------------------------------------------------------------------------------
\* Event j is at its q-th listener, event i has not come to its p-th.
Overtakes(j, q, i, p) ==
  Len(emits[j].calls) >= q /\ Len(emits[i].calls) < p

\* Two events reach a listener in the order they were emitted, if it is no
\* further back for the second than for the first, unless the first waits
\* for an asynchronous listener or one threw at the second on its way.  So
\* whoever comes first, as the daemon's only listener, sees all in order.
InOrder ==
  \A j \in 1 .. Len(emits) : \A i \in 1 .. j - 1 :
    \A q \in 1 .. Len(emits[j].listeners), p \in 1 .. Len(emits[i].listeners) :
      /\ emits[j].listeners[q] = emits[i].listeners[p]
      /\ p <= q /\ Overtakes(j, q, i, p)
      => \/ "async" \in Range(emits[i].calls)
         \/ \E k \in 1 .. q - 1 : emits[j].calls[k] = "throws"

\* A throwing listener takes the event from no other: an emit is over when
\* all listeners of its snapshot have been called, and it stops for none but
\* an asynchronous one.
AllCalled ==
  \A i \in 1 .. Len(emits) :
    /\ emits[i].over => ~HasNext(i)
    /\ turn # i /\ ~emits[i].over /\ i \notin Range(ready)
       => emits[i].calls # <<>> /\ Last(emits[i].calls) = "async"

\* "Registers a callback invoked at most once": after its call by one emit
\* no later emit has it, only one that overlaps.
OnceOnly ==
  \A j \in 1 .. Len(emits) : \A i \in 1 .. j - 1 :
    \A q \in 1 .. Len(emits[j].listeners), p \in 1 .. Len(emits[i].listeners) :
      (emits[j].listeners[q] = emits[i].listeners[p]
        /\ emits[i].listeners[p] \in Once) => emits[j].before[i] < p

EventsKept == InOrder /\ AllCalled /\ OnceOnly
==============================================================================
