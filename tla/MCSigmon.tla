------------------------------ MODULE MCSigmon ------------------------------
(* Small instances of Sigmon for TLC: signal 15 kills, 10 does not; 1 is   *)
(* an exit status that is also the number of a signal.                     *)
EXTENDS Sigmon
=============================================================================
