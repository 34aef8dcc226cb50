----------------------------- MODULE MCExchange -----------------------------
(***************************************************************************)
(* Model checking of Exchange: a seeded server that supports peers         *)
(* messages, and others that do not, which are learned from it.  The run   *)
(* that looks for a counterexample has a server of the other protocol too, *)
(* and a second listing of one server.                                     *)
(***************************************************************************)
EXTENDS Exchange

A == [v6 |-> FALSE, id |-> 1]
B == [v6 |-> FALSE, id |-> 2]
C == [v6 |-> TRUE, id |-> 1]
First(s) == [server |-> s, copy |-> 1]
Second(s) == [server |-> s, copy |-> 2]

AandB == {A, B}
JustA == {First(A)}
Listings == {First(A), First(B), Second(B), First(C)}
OneEach == {First(A), First(B)}
BothSockets == {A, B, C}

OnlyIp4 == {"ip4peers"}
BothTypes == {"ip4peers", "ip6peers"}
OnlyAOffersPeers == [s \in Server |-> IF s = A THEN PeerType ELSE {}]
Nobody == {}
JustB == {B}
BusyA == {A}
=============================================================================
