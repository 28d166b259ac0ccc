----------------------------- MODULE MCUiBridge ------------------------------
(* Model values for UiBridge: two questions, of which one has a timeout. *)
EXTENDS UiBridge

CONSTANTS d1, d2
==============================================================================
