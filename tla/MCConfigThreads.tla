-------------------------- MODULE MCConfigThreads --------------------------
(***************************************************************************)
(* Model checking of ConfigThreads: two IPv4 servers, one of them active   *)
(* at the start, or both, so that the list has none, one and two servers   *)
(* while the server thread is between any two of its steps.  A server      *)
(* that has answered before is removed at its first failure.  IPv6         *)
(* requests find an empty list.                                            *)
(***************************************************************************)
EXTENDS ConfigThreads

A == [v6 |-> FALSE, host |-> 1, port |-> 1]
B == [v6 |-> FALSE, host |-> 2, port |-> 1]

JustA == {A}
AandB == {A, B}
=============================================================================
