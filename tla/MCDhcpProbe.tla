---------------------------- MODULE MCDhcpProbe -----------------------------
(* Small instances of DhcpProbe for TLC; 0 is a foreign transaction ID too. *)
EXTENDS DhcpProbe

TwoXids    == {1, 2}
OtherHosts == {0, 9}
=============================================================================
