----------------------------- MODULE MCLanScan ------------------------------
(* Small instances of LanScan: an address in the LAN that several stations *)
(* claim, ARP probes, whose sender address is all zero, a station whose    *)
(* network differs in the last octet of the prefix only, and one that only *)
(* a prefix filled behind the comparison could match.                      *)
EXTENDS LanScan

LanPrefix == <<1, 2, 3>>
Zero      == <<0, 0, 0>>
Abroad    == <<1, 2, 4>>
Behind    == <<0, 2, 3>>

LanOnly   == {[prefix |-> LanPrefix, host |-> 1]}
Mixed     == {[prefix |-> LanPrefix, host |-> 1], [prefix |-> Zero, host |-> 0],
              [prefix |-> Abroad, host |-> 1], [prefix |-> Behind, host |-> 0]}
=============================================================================
