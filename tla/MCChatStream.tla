---------------------------- MODULE MCChatStream -----------------------------
(* Model values for ChatStream. *)
EXTENDS ChatStream

CONSTANTS s1, s2
==============================================================================
