------------------------------- MODULE AskOnce -------------------------------
(***************************************************************************)
(* What an extension is promised by ctx.ui.confirm, select and input: a    *)
(* question it asks is settled at most once, by one answer, by its timeout *)
(* or by the end of the daemon; and an answer is on disk exactly when the  *)
(* extension was given it.                                                 *)
(***************************************************************************)
CONSTANTS Dialogs, Timed, Answers, Cancelled

VARIABLES asked, outcome, history

vars == <<asked, outcome, history>>

Init ==
  /\ asked = [d \in Dialogs |-> "new"]
  /\ outcome = [d \in Dialogs |-> Cancelled]
  /\ history = {}

Ask(d) ==
  /\ asked[d] = "new"
  /\ asked' = [asked EXCEPT ![d] = "open"]
  /\ UNCHANGED <<outcome, history>>

Answer(d, r) ==
  /\ asked[d] = "open"
  /\ asked' = [asked EXCEPT ![d] = "answered"]
  /\ outcome' = [outcome EXCEPT ![d] = r]
  /\ history' = history \cup {[d |-> d, r |-> r]}

Expire(d) ==
  /\ asked[d] = "open"
  /\ asked' = [asked EXCEPT ![d] = "expired"]
  /\ outcome' = [outcome EXCEPT ![d] = Cancelled]
  /\ UNCHANGED history

\* The daemon ends, and with it every extension that waits.
Lose ==
  /\ asked' = [d \in Dialogs |-> IF asked[d] = "open" THEN "lost" ELSE asked[d]]
  /\ UNCHANGED <<outcome, history>>

Next ==
  \/ \E d \in Dialogs : Ask(d)
  \/ \E d \in Dialogs, r \in Answers : Answer(d, r)
  \/ \E d \in Timed : Expire(d)
  \/ Lose

Spec == Init /\ [][Next]_vars
==============================================================================
