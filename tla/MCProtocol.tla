----------------------------- MODULE MCProtocol -----------------------------
(***************************************************************************)
(* Model checking of Protocol: up to three messages, two if anybody made   *)
(* them.  Those that no generator made have lengths and counts around what *)
(* is right for their type, and shorter than a header; types on both sides *)
(* of each limit; and rejections of types and with reasons that are        *)
(* allowed or are not.                                                     *)
(***************************************************************************)
EXTENDS Protocol

UpToThree == 0 .. 3

Listed(type, reason) == {[msgType |-> type, reason |-> reason]}

Rejects ==
  [length : {4, 6, 7}, msgType : {reject}, countOrSize : {0, 1},
   rejections : {Listed(ip4peers, unsupported), Listed(nrpd_msg_type_max - 1, 0),
                 Listed(entropy, unsupported), Listed(nrpd_msg_type_max, unsupported),
                 Listed(reject, 0), Listed(signkey, nrpd_reject_reason_max)}]

SomeMessages ==
  {Plain(type, count, length) :
     type \in {ip4peers, entropy}, count \in {0, 1}, length \in {4, 5, 10}}
  \cup {Plain(type, 1, length) : type \in {response, signkey}, length \in {4, 5}}
  \cup {Plain(nrpd_msg_type_max, 1, 6), Plain(signkey, 1, 60), Plain(signkey, 0, 3)}
  \cup {Plain(type, 0, 0) : type \in {ip4peers, signkey, nrpd_msg_type_max}}
  \cup Rejects

SomeLengths == {4, 8, 9, 12, 14, 61}
=============================================================================
