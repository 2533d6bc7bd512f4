------------------------------- MODULE MCUuid -------------------------------
(* Small instances of Uuid for TLC. *)
EXTENDS Uuid

CONSTANTS n1, n2, p1, p2

OneProc  == {p1}
TwoProcs == {p1, p2}
=============================================================================
