------------------------------- MODULE MCBrowser -------------------------------
(***************************************************************************)
(* Browser for TLC, each machine in behaviours of its own.                 *)
(***************************************************************************)
EXTENDS Browser

\* "/" lists three commands, "/m" one, "/z" none.
MCCommands == [x \in {"/", "/m", "/z"} |->
                 CASE x = "/" -> 3 [] x = "/m" -> 1 [] OTHER -> 0]
MCDrafts == {"", "hi"} \cup DOMAIN MCCommands
MCEmpty == ""
MCCwd == [s \in Sessions |-> CHOOSE p \in Projects : TRUE]
MCTogether ==
  {{m} : m \in {"queue", "bar", "lists", "pane", "scroll", "timeline", "choice",
                "compact", "board"}}

ASSUME BrowserAssumption
===============================================================================
