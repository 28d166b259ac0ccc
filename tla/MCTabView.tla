------------------------------ MODULE MCTabView -------------------------------
(* Model values for TabView. *)
EXTENDS TabView, TLC

CONSTANTS s1, s2, s3

MCSymmetry == Permutations(Sessions)
==============================================================================
