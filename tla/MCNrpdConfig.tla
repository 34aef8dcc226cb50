---------------------------- MODULE MCNrpdConfig ----------------------------
(***************************************************************************)
(* Model checking of NrpdConfig: three addresses, two of them of one host  *)
(* and the third its namesake in IPv6, with room for duplicates in the     *)
(* probationary list; or three hosts of which two are active at the start. *)
(* The limit of three timeouts lets a server survive one failure.          *)
(***************************************************************************)
EXTENDS NrpdConfig

A == [v6 |-> FALSE, host |-> 1, port |-> 1]
OtherPort == [v6 |-> FALSE, host |-> 1, port |-> 2]
B == [v6 |-> FALSE, host |-> 2, port |-> 1]
C == [v6 |-> FALSE, host |-> 3, port |-> 1]
D == [v6 |-> TRUE, host |-> 1, port |-> 1]

JustA == {A}
AandB == {A, B}
OneHost == {A, OtherPort, D}
Three == {A, B, C}
=============================================================================
