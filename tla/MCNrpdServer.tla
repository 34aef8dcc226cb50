---------------------------- MODULE MCNrpdServer ----------------------------
(***************************************************************************)
(* Model checking of NrpdServer: packets and bytes of small numbers, so    *)
(* that every number of bytes is left over after some answer, and a        *)
(* request may have as many messages as a byte counts.  Clients of either  *)
(* size of packet, in the usual and the odd forms of addresses.            *)
(***************************************************************************)
EXTENDS NrpdServer

Mapped == [form |-> "mapped", id |-> 1]
Loopback == [form |-> "zeroPrefix", id |-> 1]
LoopbackAndMapped == {Loopback, Mapped}

SmallAsks == {0, 1, 2}

(* No servers, few, more than fit into a packet, and the -1 that a count   *)
(* overtaken between its two loads returns.                                *)
SmallPeers == {-1, 0, 1, 2}

UpToSix == 1 .. 6
=============================================================================
