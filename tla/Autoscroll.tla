------------------------------ MODULE Autoscroll ------------------------------
(***************************************************************************)
(* The scroll position of the chat pane (use-autoscroll.ts, and the parts  *)
(* of chat-pane.tsx that scroll).  Heights are counted in steps; the last  *)
(* Near steps above the bottom count as the bottom (60 px in the code).    *)
(*                                                                         *)
(* When code moves the view, the scroll event that tells of it comes later,*)
(* but before the next animation frame.                                    *)
(***************************************************************************)
EXTENDS Naturals

CONSTANTS
  MaxTop,   \* bound on the height of the content
  Near,
  Page,     \* growth from which prepended history moves the view
  Patient   \* TRUE: the user does not scroll while the code does

\* Assumed of the constants, where a module gives them values.
ScrollAssumption ==
  {MaxTop, Near, Page} \subseteq Nat /\ Patient \in BOOLEAN

VARIABLES
  max,      \* scrollHeight - clientHeight
  top,      \* scrollTop
  last,     \* lastScrollTopRef
  near,     \* nearBottomRef, and the inverse of showBottomBtn
  locked,   \* scrollLockedRef
  program,  \* programmaticRef: who set it
  target,   \* where an animation goes
  event,    \* a scroll event is due
  away,     \* observation: the user went up and did not come back
  pulled    \* observation: what moved that user down nevertheless

vars == <<max, top, last, near, locked, program, target, event, away, pulled>>

TypeOK ==
  /\ max \in 0 .. MaxTop /\ top \in 0 .. max /\ last \in 0 .. MaxTop
  /\ target \in 0 .. MaxTop /\ program \in {"none", "snap", "chase", "glide"}
  /\ {near, locked, event, away} \subseteq BOOLEAN
  /\ pulled \subseteq {"snap", "chase", "glide"}

Init ==
  /\ max = 0 /\ top = 0 /\ last = 0 /\ target = 0
  /\ near = TRUE /\ locked = FALSE /\ program = "none"
  /\ event = FALSE /\ away = FALSE /\ pulled = {}

AtBottom(t, m) == m - t <= Near
Owned == UNCHANGED <<last, locked, program, target, event, away, pulled>>

\* The position after code, of the kind by, moved it from top to t.
Moved(by, t) ==
  /\ top' = t /\ event' = (event \/ t # top)
  /\ pulled' = IF away /\ t > top THEN pulled \cup {by} ELSE pulled

\* scrollToAbsolute: nearBottomRef is set before the event comes.
Snap(m) == /\ Moved("snap", m) /\ near' = TRUE /\ program' = "snap"
           /\ UNCHANGED <<last, locked, target, away>>

\* The view grows: a delta (followStream), a new item or a queued message.
Follows == ~locked /\ near
Grow(n) ==
  /\ max + n <= MaxTop /\ max' = max + n
  /\ IF Follows THEN Snap(max + n)
     ELSE near' = AtBottom(top, max + n) /\ UNCHANGED top /\ Owned

\* A turn ends or a queued message is injected: scrollToBottom asks the
\* lock alone.
ToBottom ==
  /\ UNCHANGED max
  /\ IF locked THEN UNCHANGED vars ELSE Snap(max)

\* Cards collapse: the browser clamps the position, the observer looks again.
Shrink(n) ==
  /\ n <= max /\ max' = max - n
  /\ LET t == IF top > max - n THEN max - n ELSE top IN
       /\ top' = t /\ event' = (event \/ t # top) /\ near' = AtBottom(t, max - n)
       /\ away' = (away /\ ~near')
  /\ UNCHANGED <<last, locked, program, target, pulled>>

\* An earlier page is put in above: the view moves with it.
Prepend(n) ==
  /\ n >= Page /\ max + n <= MaxTop /\ ~near
  /\ max' = max + n /\ top' = top + n /\ event' = TRUE
  /\ UNCHANGED <<last, near, locked, program, target, away, pulled>>

\* onScroll: the lock follows the user only.
GoesUp(t) == t < last
Handled(t) ==
  /\ last' = t /\ near' = AtBottom(t, max) /\ event' = FALSE
  /\ locked' = IF program # "none" THEN locked
               ELSE GoesUp(t) \/ (locked /\ ~AtBottom(t, max))
ScrollEvent ==
  /\ event /\ Handled(top)
  /\ UNCHANGED <<max, top, program, target, away, pulled>>

\* A user's scroll is handled in the frame it is made in.
UserScroll(t) ==
  /\ t \in 0 .. max \ {top} /\ ~event /\ (Patient => program = "none")
  /\ top' = t /\ Handled(t)
  /\ away' = IF t < top THEN TRUE ELSE away /\ ~AtBottom(t, max)
  /\ UNCHANGED <<max, program, target, pulled>>

\* forceScrollToBottom: the jump button, a message sent, another session.
Jump ==
  /\ locked' = FALSE /\ away' = FALSE /\ program' = "chase"
  /\ UNCHANGED <<max, top, last, near, target, event, pulled>>

\* animatedScrollBy: a new question glides into view, whatever the lock.
Glide(t) ==
  /\ t \in 0 .. max \ {top} /\ program = "none"
  /\ program' = "glide" /\ target' = t
  /\ UNCHANGED <<max, top, last, near, locked, event, away, pulled>>

\* An animation frame: after the scroll event of what it moved.
Frame ==
  /\ program # "none" /\ ~event
  /\ LET goal == CASE program = "chase" -> max [] program = "glide" -> target
                   [] OTHER -> top
         t == IF goal > max THEN max ELSE goal IN
       /\ Moved(program, t)
       /\ program' = IF t = top THEN "none" ELSE program
       /\ away' = (away /\ ~AtBottom(t, max))
  /\ UNCHANGED <<max, last, near, locked, target>>

Next ==
  \/ \E n \in 1 .. MaxTop : Grow(n) \/ Shrink(n) \/ Prepend(n)
  \/ ToBottom \/ ScrollEvent \/ Jump \/ Frame
  \/ \E t \in 0 .. MaxTop : UserScroll(t) \/ Glide(t)

Spec == Init /\ [][Next]_vars

-----------------------------------------------------------------------------
\* After an upward user scroll, until the user is back at the bottom or asks
\* for it, neither a snap nor a chase moves the view down: what followed the
\* stream is off.  The glide of a new question does (chat-pane.tsx:100 does
\* not ask the lock), against "ALL auto-scrolling" in use-autoscroll.ts:6-9.
LockKept == pulled \subseteq {"glide"}
===============================================================================
