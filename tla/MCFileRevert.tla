---------------------------- MODULE MCFileRevert -----------------------------
(* Model values for FileRevert. *)
EXTENDS FileRevert, TLC

MCSymmetry == Permutations(Paths) \cup Permutations(Calls)
==============================================================================
