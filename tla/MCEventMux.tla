----------------------------- MODULE MCEventMux -----------------------------
(* Instances of EventMux for TLC. *)
EXTENDS EventMux

CONSTANTS p1, p2, s1, s2, s3, st, ta, tb

OneType == [s \in Subs |-> {ta}]
Mixed   == [s \in Subs |-> IF s = s1 THEN {ta, tb} ELSE {ta}]
=============================================================================
