---------------------------- MODULE MCSessionHost ----------------------------
(* Model values for SessionHost: three files of two projects. *)
EXTENDS SessionHost

CONSTANTS f1, f2, f3, c1, c2, d1, d2

MCCwdOf == [f \in Files |-> IF f = f3 THEN c2 ELSE c1]
MCDirOf == [c \in Cwds |-> IF c = c1 THEN d1 ELSE d2]
MCDirOfClash == [c \in Cwds |-> d1]
==============================================================================
