------------------------------ MODULE TelnetMC ------------------------------
(* Model-checking instances of Telnet: two connections from one source, one  *)
(* from another.                                                             *)
EXTENDS Telnet

CONSTANTS c1, c2, c3, ip1, ip2

Three == {c1, c2, c3}
From == [c \in Three |-> IF c = c3 THEN ip2 ELSE ip1]
=============================================================================
