----------------------------- MODULE MCTcpEcho ------------------------------
(* A small instance of TcpEcho: one client sends more than the kernel has  *)
(* room for, one a byte, and one only connects, for two slots of the table.*)
EXTENDS TcpEcho

CONSTANTS c1, c2, c3

ThreeClients == {c1, c2, c3}
Load == [c \in ThreeClients |-> CASE c = c1 -> 2 [] c = c2 -> 1 [] c = c3 -> 0]
=============================================================================
