------------------------------- MODULE InputBar -------------------------------
(***************************************************************************)
(* The input bar: draft and attachments (use-chat-input.ts), the inline    *)
(* command list and the menus (input-bar.tsx) and the command dialog       *)
(* (command-picker.tsx).  One draft serves every session.                  *)
(***************************************************************************)
EXTENDS Naturals, Integers, Sequences, FiniteSets, SequencesExt

CONSTANTS
  Files,     \* what can be picked or pasted
  Images,    \* those of them that are images
  Texts, Empty,
  Commands   \* text |-> the commands the inline list shows for it

\* Assumed of the constants, where a module gives them values.
InputAssumption ==
  /\ IsFiniteSet(Files) /\ Images \subseteq Files
  /\ Empty \in Texts /\ DOMAIN Commands \subseteq Texts
  /\ \A x \in DOMAIN Commands : Commands[x] \in Nat

VARIABLES
  text,      \* the draft
  attached,  \* attachments and fileAttachments
  reading,   \* batches of files being read, and what has been read of each
  open,      \* which of list, menu, models and dialog are open
  index,     \* commandIndex
  picked,    \* observation: files picked so far
  handed,    \* observation: those handed to onSend in a message
  removed    \* observation: those the user took off the draft

fileVars == <<attached, reading, picked, handed, removed>>
vars == <<text, open, index, fileVars>>

\* A batch ends when the last of its files is read; one that cannot be read
\* (bad) is never counted off.
Batches == {b \in [left : SUBSET Files, got : SUBSET Files, bad : SUBSET Files] :
              b.left \cap b.got = {} /\ b.bad \cap (b.left \cup b.got) = {}}
Whole(b) == b.left \cup b.got \cup b.bad
TypeOK ==
  /\ text \in Texts /\ index \in {-1} \cup Nat /\ reading \subseteq Batches
  /\ attached \in [images : Seq(Images), texts : Seq(Files \ Images)]
  /\ open \subseteq {"list", "menu", "models", "dialog"}
  /\ picked \cup handed \cup removed \subseteq Files

Nothing == [images |-> <<>>, texts |-> <<>>]
Init ==
  /\ text = Empty /\ attached = Nothing /\ reading = {} /\ open = {}
  /\ index = 0 /\ picked = {} /\ handed = {} /\ removed = {}

\* commandMatches of the inline list, while the draft starts with a slash
Matches(o, x) ==
  IF "list" \in o /\ x \in DOMAIN Commands THEN Commands[x] ELSE 0
Listed == Matches(open, text)
\* The effect that follows a change of their number.
Clamped(i) ==
  LET n == Matches(open', text') IN
  IF n # Listed /\ i >= n THEN IF n = 0 THEN 0 ELSE n - 1 ELSE i

\* Typing anything but a slash command closes the list.
Type(x) ==
  /\ "dialog" \notin open /\ text' = x
  /\ open' = IF x \in DOMAIN Commands THEN open ELSE open \ {"list"}
  /\ index' = Clamped(index) /\ UNCHANGED fileVars

\* A slash at the start opens the list.
Slash(x) ==
  /\ "dialog" \notin open /\ x \in DOMAIN Commands
  /\ text' = x /\ open' = open \cup {"list"}
  /\ index' = Clamped(index) /\ UNCHANGED fileVars

Rows == 0..Listed - 1  \* of the list, one for each command that matches
\* pickInlineCommand, by Tab, Enter or the mouse: a click may pick any row.
Pick(i, x) ==
  /\ i \in Rows /\ text' = x /\ open' = open \ {"list"}
  /\ index' = Clamped(i) /\ UNCHANGED fileVars

Arrow ==
  /\ "list" \in open /\ text \in DOMAIN Commands
  /\ \/ index' = IF index + 1 < Listed THEN index + 1 ELSE Listed - 1
     \/ index' = IF index > 0 THEN index - 1 ELSE 0
  /\ UNCHANGED <<text, open, fileVars>>

\* With a list Escape closes it, else it empties the draft.
Escape ==
  /\ "dialog" \notin open
  /\ IF "list" \in open /\ text \in DOMAIN Commands
     THEN open' = open \ {"list"} /\ UNCHANGED text
     ELSE text' = Empty /\ UNCHANGED open
  /\ index' = Clamped(index) /\ UNCHANGED fileVars

\* submit, by Enter when there is no row to pick, or by the button
InFiles(a) == ToSet(a.images) \cup ToSet(a.texts)
Submit ==
  /\ "dialog" \notin open
  /\ text # Empty \/ attached # Nothing
  /\ text' = Empty /\ attached' = Nothing
  /\ handed' = handed \cup InFiles(attached)
  /\ UNCHANGED <<reading, open, picked, removed>> /\ index' = Clamped(index)

\* The + menu, the model list and the command dialog.
Menu(m) ==
  /\ "dialog" \notin open
  /\ open' = IF m \in open THEN open \ {m}
             ELSE (open \ {"menu", "models"}) \cup {m}
  /\ UNCHANGED <<text, index, fileVars>>
Outside ==
  /\ open' = open \ {"menu", "models"}
  /\ UNCHANGED <<text, index, fileVars>>
Dialog ==
  /\ "menu" \in open /\ open' = (open \ {"menu"}) \cup {"dialog"}
  /\ UNCHANGED <<text, index, fileVars>>
PickDialog(x) ==
  /\ "dialog" \in open /\ open' = open \ {"dialog"}
  /\ text' = x /\ index' = Clamped(index)
  /\ UNCHANGED fileVars

\* attachFiles: each batch is appended when the last of its files is read.
Attach(fs) ==
  /\ fs # {} /\ fs \cap picked = {} /\ picked' = picked \cup fs
  /\ reading' = reading \cup {[left |-> fs, got |-> {}, bad |-> {}]}
  /\ UNCHANGED <<text, attached, open, index, handed, removed>>

\* State updates are functions of the previous state: what came meanwhile stays.
Replaced(a, fs) ==
  [images |-> SetToSeq(fs \cap Images), texts |-> SetToSeq(fs \ Images)]
AllImages(a, fs) == [a EXCEPT !.images = @ \o SetToSeq(fs)]
Appended(a, fs) ==
  [images |-> a.images \o SetToSeq(fs \cap Images),
   texts |-> a.texts \o SetToSeq(fs \ Images)]
Loaded(b, f) ==
  LET c == [b EXCEPT !.left = @ \ {f}, !.got = @ \cup {f}] IN
  /\ b \in reading /\ f \in b.left
  /\ IF c.left \cup c.bad = {}
     THEN attached' = Appended(attached, c.got) /\ reading' = reading \ {b}
     ELSE reading' = (reading \ {b}) \cup {c} /\ UNCHANGED attached
  /\ UNCHANGED <<text, open, index, picked, handed, removed>>

\* Nobody listens to a FileReader's error: the batch is one short for ever.
Failed(b, f) ==
  LET c == [b EXCEPT !.left = @ \ {f}, !.bad = @ \cup {f}] IN
  /\ b \in reading /\ f \in b.left /\ reading' = (reading \ {b}) \cup {c}
  /\ UNCHANGED <<text, attached, open, index, picked, handed, removed>>

\* The previews: images come first.
Previews == 1..Len(attached.images) + Len(attached.texts)
RemoveAttachment(i) ==
  LET n == Len(attached.images) IN
  /\ i \in Previews
  /\ \/ /\ i <= n /\ removed' = removed \cup {attached.images[i]}
        /\ attached' = [attached EXCEPT !.images = RemoveAt(@, i)]
     \/ /\ i > n /\ removed' = removed \cup {attached.texts[i - n]}
        /\ attached' = [attached EXCEPT !.texts = RemoveAt(@, i - n)]
  /\ UNCHANGED <<text, reading, open, index, picked, handed>>

Next ==
  \/ \E x \in Texts : Type(x) \/ Slash(x) \/ PickDialog(x)
  \/ \E x \in Texts, i \in Rows : Pick(i, x)
  \/ Arrow \/ Escape \/ Submit \/ Outside \/ Dialog
  \/ \E m \in {"menu", "models"} : Menu(m)
  \/ \E fs \in SUBSET Files : Attach(fs)
  \/ \E b \in reading : \E f \in b.left : Loaded(b, f) \/ Failed(b, f)
  \/ \E i \in 1..Cardinality(Files) : RemoveAttachment(i)

Spec == Init /\ [][Next]_vars

------------------------------------------------------------------------------
\* No file that was picked is lost or doubled, whatever the order of reading,
\* sending and removing: it is in one place, which is the draft (once), a
\* message, what the user removed, or a batch that waits; and a batch waits
\* only for a file that is still being read or that could not be read (then
\* all of it never comes).  Never are the + menu and the model list open
\* together.
FilesKept ==
  LET drafted == InFiles(attached)
      waiting == UNION {Whole(b) : b \in reading} IN
  /\ picked = drafted \cup handed \cup removed \cup waiting
  /\ IsInjective(attached.images) /\ IsInjective(attached.texts)
  /\ drafted \cap (handed \cup removed) = {} /\ handed \cap removed = {}
  /\ waiting \cap (drafted \cup handed \cup removed) = {}
  /\ \A b \in reading : b.left \cup b.bad # {}
  /\ ~({"menu", "models"} \subseteq open)
==============================================================================
