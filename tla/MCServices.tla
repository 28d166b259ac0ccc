------------------------------ MODULE MCServices ------------------------------
(***************************************************************************)
(* The services for TLC, each in behaviours of its own.  The skill         *)
(* switches take part twice: one tab over sessions and their loaders, and  *)
(* two tabs without any.                                                   *)
(***************************************************************************)
EXTENDS Services

MCTogether ==
  {{m} : m \in {"pool", "mcp", "models", "plugins", "bus"}}
  \cup {{"tab 1", "loaders"}, {"tab 1", "tab 2"}}

ASSUME ServicesAssumption
===============================================================================
