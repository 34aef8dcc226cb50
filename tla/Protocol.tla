------------------------------ MODULE Protocol ------------------------------
(***************************************************************************)
(* Packets (src/protocol.h, src/protocol.cpp): how the generators build    *)
(* them, how ValidatePacket walks over the headers of their messages, and  *)
(* how the receiver then walks over them once more to use them             *)
(* (client.cpp:398-463, server.cpp:331-375).                               *)
(*                                                                         *)
(* A message is its header and, for a reject message, the set of the       *)
(* rejections it lists.  "messages" are the headers that are found in the  *)
(* buffer when every length is followed to the next one: what the sender   *)
(* put there and, when the packet claims to be longer, what happens to     *)
(* come after it.  A length may be less than that of the header: of the    *)
(* types that it does not answer, a server takes any length in a request.  *)
(* A message of length 0 is followed by itself, and ends the list; for one *)
(* of length 1 to 3, whose header the next one overlaps, what comes next   *)
(* is left open.                                                           *)
(*                                                                         *)
(* One packet is built, by the generators or of any headers at all, and    *)
(* received.  Each turn of a loop over the messages is a step.             *)
(***************************************************************************)
EXTENDS Integers, FiniteSets, Sequences

CONSTANTS
  MaxPacket,    \* MAX_REQUEST_MESSAGE_SIZE and MAX_RESPONSE_MESSAGE_SIZE
  MaxByte,      \* MAX_BYTE
  Sizes,        \* bound: the counts and sizes generators are called with
  AnyMessage,   \* bound: the headers that are not the work of a generator
  AnyLength,    \* bound: the lengths in packet headers that are not
  MaxMessages   \* bound: number of messages

(* enum nrpd_msg_type and nrpd_reject_reason                               *)
request == 1
response == 2
response_msg_min == 3
reject == 3
request_msg_min == 4
ip4peers == 4
entropy == 5
ip6peers == 6
signkey == 8
nrpd_msg_type_max == 11
unsupported == 3
nrpd_reject_reason_max == 4

PacketHeader == 4        \* sizeof(Nrp_Header_Packet)
MessageHeader == 4       \* sizeof(Nrp_Header_Message)
RejectSize == 2          \* sizeof(Nrp_Message_Reject)
PeerSize(type) == IF type = ip4peers THEN 6 ELSE 18

Rejection == [msgType : Nat, reason : Nat]
Message == [length : 0 .. 2 * MaxPacket, msgType : Nat,
            countOrSize : 0 .. MaxByte, rejections : SUBSET Rejection]
Header == [length : 0 .. 2 * MaxPacket, msgType : 0 .. nrpd_msg_type_max,
           msgCount : 0 .. MaxByte]

ASSUME SizesAssumption ==
  /\ MaxByte \in Nat /\ MaxByte >= 3  \* a request has so many messages
  /\ MaxPacket \in Nat /\ MaxPacket >= PacketHeader
  /\ Sizes \subseteq 0 .. MaxByte
  /\ AnyLength \subseteq 0 .. 2 * MaxPacket
  /\ MaxMessages \in 1 .. MaxByte
ASSUME MessagesAssumption ==
  AnyMessage \subseteq Message

VARIABLES
  origin,     \* who built the packet: "generators" or "anybody"
  isRequest,  \* whether it is received by a server
  messages,   \* the headers of the messages
  head,       \* the header of the packet
  phase,      \* "building", "received", "checking", "parsing", "parsed", "refused"
  pos,        \* msgPtr or currentMsg, from the start of the packet
  msgCount    \* messages passed

built == <<origin, isRequest, messages, head>>
vars == <<built, phase, pos, msgCount>>

NoHeader == [length |-> 0, msgType |-> 0, msgCount |-> 0]

Init ==
  /\ origin \in {"generators", "anybody"}
  /\ isRequest \in BOOLEAN
  /\ messages = <<>>
  /\ head = NoHeader
  /\ phase = "building"
  /\ pos = 0
  /\ msgCount = 0

(* Bound: an int in the code, which counts on; it is only compared with a  *)
(* byte, so that all the numbers past those of a byte are one.             *)
ManyMessages == MaxByte + 1

(* Where each message of the list ends, from the first one's start.        *)
Ends(list) ==
  LET ends[n \in 0 .. Len(list)] ==
        IF n = 0 THEN 0 ELSE ends[n - 1] + list[n].length
  IN  ends

TotalLength(list) == Ends(list)[Len(list)]

(* Following the lengths leads no further than to the last message.        *)
Endless == messages # <<>> /\ messages[Len(messages)].length = 0
-----------------------------------------------------------------------------
(* The generators.                                                         *)
Plain(type, count, length) ==
  [length |-> length, msgType |-> type, countOrSize |-> count, rejections |-> {}]

GenerateRequestEntropyMessage(size) == Plain(entropy, size, MessageHeader)
GenerateRequestPeersMessage(type) == Plain(type, 0, MessageHeader)

(* A mistake: the length of the content without the header.                *)
GenerateResponsePeersContent(type, n) == Plain(type, n, PeerSize(type) * n)
GenerateResponsePeersMessage(type, n) ==
  Plain(type, n, MessageHeader + PeerSize(type) * n)
GenerateResponseEntropyMessage(n) == Plain(entropy, n, MessageHeader + n)

GenerateRejectMessages(rejected, n) ==
  [length |-> MessageHeader + RejectSize * n, msgType |-> reject, countOrSize |-> n,
   rejections |-> [msgType : rejected, reason : {unsupported}]]

(* A mistake: the header counted as a message.                             *)
GeneratePacketHeaderCounted(type, list) ==
  [length |-> PacketHeader + TotalLength(list), msgType |-> type,
   msgCount |-> Len(list) + 1]
GeneratePacketHeader(type, list) ==
  [length |-> PacketHeader + TotalLength(list), msgType |-> type,
   msgCount |-> Len(list)]

ToBuild(who, asRequest) ==
  /\ phase = "building"
  /\ origin = who
  /\ isRequest = asRequest
  /\ UNCHANGED <<origin, isRequest, pos, msgCount>>

PeersAsked(type, types) ==
  IF type \in types THEN <<GenerateRequestPeersMessage(type)>> ELSE <<>>

(* ConstructRequest of the client, for a server that has rejected some     *)
(* types and a client that does without some.  The flag signkey only takes *)
(* part in the test of the buffer's size.                                  *)
ConstructRequest(size, key, types) ==
  /\ ToBuild("generators", TRUE)
  /\ MaxPacket >= MessageHeader * (2 + (IF key THEN 1 ELSE 0) + Cardinality(types))
  /\ messages' = <<GenerateRequestEntropyMessage(size)>>
       \o PeersAsked(ip4peers, types) \o PeersAsked(ip6peers, types)
  /\ head' = GeneratePacketHeader(request, messages')
  /\ phase' = "received"

(* ParseMessages of the server: a message for an answer that is not empty  *)
(* and for which there is room.                                            *)
Answer(m) ==
  /\ ToBuild("generators", FALSE)
  /\ m.countOrSize # 0
  /\ Len(messages) < MaxMessages
  /\ PacketHeader + TotalLength(messages) + m.length <= MaxPacket
  /\ messages' = Append(messages, m)
  /\ UNCHANGED <<head, phase>>

(* The types that a server does not answer, or may not be configured to:   *)
(* all that a request may have but entropy.  The last number stands for    *)
(* all that are not in the enum.                                           *)
Rejectable == {ip4peers} \cup ip6peers .. nrpd_msg_type_max

(* The rejections, if any, go in front, and the header before them: it is  *)
(* written only if there is a message.                                     *)
SendResponse(rejected, n) ==
  /\ ToBuild("generators", FALSE)
  /\ n >= Cardinality(rejected) /\ (n = 0 <=> rejected = {})
  /\ messages' = IF n = 0 THEN messages
                 ELSE <<GenerateRejectMessages(rejected, n)>> \o messages
  /\ Len(messages') \in 1 .. MaxMessages
  /\ PacketHeader + TotalLength(messages') <= MaxPacket
  /\ head' = GeneratePacketHeader(response, messages')
  /\ phase' = "received"

(* Whatever else comes in.                                                 *)
AddAnyMessage(m) ==
  /\ phase = "building"
  /\ origin = "anybody"
  /\ Len(messages) < MaxMessages
  /\ ~Endless
  /\ messages' = Append(messages, m)
  /\ UNCHANGED <<origin, isRequest, head, phase, pos, msgCount>>

SendAnything(length, type, count) ==
  /\ phase = "building"
  /\ origin = "anybody"
  /\ Endless \/ PacketHeader + TotalLength(messages) >= length
  /\ head' = [length |-> length, msgType |-> type, msgCount |-> count]
  /\ phase' = "received"
  /\ UNCHANGED <<origin, isRequest, messages, pos, msgCount>>
-----------------------------------------------------------------------------
(* The validators.                                                         *)
ValidateMessageSize(m, size) == m.length - MessageHeader = m.countOrSize * size

ValidRejection(r) ==
  /\ r.msgType \in request_msg_min .. nrpd_msg_type_max - 1
  /\ r.msgType # entropy
  /\ r.reason < nrpd_reject_reason_max

ValidateRejectMessage(m) ==
  /\ m.length <= MessageHeader + MaxByte * RejectSize
  /\ m.msgType = reject
  /\ m.countOrSize # 0
  /\ (m.length - MessageHeader) % RejectSize = 0
  /\ \A r \in m.rejections : ValidRejection(r)

ContentSize(type) == IF type = entropy THEN 1 ELSE PeerSize(type)

ValidateMessageHeader(m) ==
  /\ m.length < MaxPacket
  /\ m.msgType >= (IF isRequest THEN request_msg_min ELSE response_msg_min)
  /\ CASE m.msgType = reject ->
            ~isRequest /\ ValidateMessageSize(m, RejectSize) /\ ValidateRejectMessage(m)
       [] m.msgType \in {ip4peers, entropy, ip6peers} ->
            ValidateMessageSize(m, IF isRequest THEN 0 ELSE ContentSize(m.msgType))
       [] OTHER -> isRequest

ValidatePacketHeader ==
  /\ head.length <= MaxPacket
  /\ head.msgType = (IF isRequest THEN request ELSE response)
  /\ head.msgCount # 0

(* The message that a walk stands on.  It gets past all of them only where *)
(* the last one is endless, and stands on that one again.                  *)
Current ==
  messages[IF msgCount < Len(messages) THEN msgCount + 1 ELSE Len(messages)]

OneMore == IF msgCount < ManyMessages THEN msgCount + 1 ELSE msgCount

(* A mistake: a message without content is not passed.                     *)
NextMessageWithContent ==
  IF Current.length = MessageHeader
  THEN UNCHANGED <<pos, msgCount>>
  ELSE pos' = pos + Current.length /\ msgCount' = OneMore
NextMessage == pos' = pos + Current.length /\ msgCount' = OneMore

FirstMessage == pos' = PacketHeader /\ msgCount' = 0

(* The walk is not yet at EndOfPacket.                                     *)
BeforeEnd == pos < head.length

StartWalk ==
  /\ phase = "received"
  /\ phase' = IF ValidatePacketHeader THEN "checking" ELSE "refused"
  /\ FirstMessage
  /\ UNCHANGED built

CheckMessage ==
  /\ phase = "checking"
  /\ BeforeEnd
  /\ IF ValidateMessageHeader(Current)
     THEN NextMessage /\ UNCHANGED phase
     ELSE phase' = "refused" /\ UNCHANGED <<pos, msgCount>>
  /\ UNCHANGED built

(* The tests after the walk; the mistake only counts the messages.         *)
WalkEndedCount == head.msgCount = msgCount
WalkEndedWell == head.msgCount = msgCount /\ pos <= head.length

EndWalk ==
  /\ phase = "checking"
  /\ ~BeforeEnd
  /\ phase' = IF WalkEndedWell THEN "parsing" ELSE "refused"
  /\ FirstMessage
  /\ UNCHANGED built

(* The receiver's own walk: ParseResponse stops at the count as well.  The *)
(* mistake is to stop one early.                                           *)
ParsingButLast == BeforeEnd /\ (isRequest \/ msgCount + 1 < head.msgCount)
Parsing == BeforeEnd /\ (isRequest \/ msgCount < head.msgCount)

(* ParseMessages also stops when no room is left for another answer, which *)
(* NrpdServer describes: here it may be so after any message, the first    *)
(* one having all the room.                                                *)
NoRoomLeft == isRequest /\ msgCount > 0

ParseMessage ==
  /\ phase = "parsing"
  /\ Parsing
  /\ NextMessage
  /\ UNCHANGED <<built, phase>>

EndParsing ==
  /\ phase = "parsing"
  /\ ~Parsing \/ NoRoomLeft
  /\ phase' = "parsed"
  /\ UNCHANGED <<built, pos, msgCount>>

Build ==
  \/ \E size \in Sizes, key \in BOOLEAN, types \in SUBSET {ip4peers, ip6peers} :
       ConstructRequest(size, key, types)
  \/ \E n \in Sizes : Answer(GenerateResponseEntropyMessage(n))
  \/ \E n \in Sizes, type \in {ip4peers, ip6peers} :
       Answer(GenerateResponsePeersMessage(type, n))
  \/ \E n \in Sizes, rejected \in SUBSET Rejectable :
       SendResponse(rejected, n)
  \/ \E m \in AnyMessage : AddAnyMessage(m)
  \/ \E length \in AnyLength, type \in {request, response}, count \in 0 .. MaxByte :
       SendAnything(length, type, count)

Walk == StartWalk \/ CheckMessage \/ EndWalk \/ ParseMessage \/ EndParsing

Next == Build \/ Walk

Spec == Init /\ [][Next]_vars

(* The receiver goes on; nobody has to send anything.                      *)
FairSpec == Spec /\ WF_vars(Walk)
-----------------------------------------------------------------------------
(* Every variable has its type.                                            *)
TypeOK ==
  /\ origin \in {"generators", "anybody"}
  /\ isRequest \in BOOLEAN
  /\ messages \in Seq(Message)
  /\ head \in Header
  /\ phase \in {"building", "received", "checking", "parsing", "parsed", "refused"}
  /\ pos \in 0 .. 3 * MaxPacket
  /\ msgCount \in 0 .. ManyMessages

(* What a receiver may rely on, said of the packet as a whole and not of a *)
(* walk: as many messages as the header says fill it exactly, and each     *)
(* is of a type that can be asked, or answered with that many entries.     *)
MayBeAsked(m) ==
  /\ m.msgType >= ip4peers
  /\ m.length > 0
  /\ m.msgType \in {ip4peers, entropy, ip6peers} => m.length = MessageHeader
MayBeAnswered(m) ==
  \/ /\ m.msgType = entropy
     /\ m.length = MessageHeader + m.countOrSize
  \/ /\ m.msgType \in {ip4peers, ip6peers}
     /\ m.length = MessageHeader + PeerSize(m.msgType) * m.countOrSize
  \/ /\ m.msgType = reject
     /\ m.countOrSize > 0
     /\ m.length = MessageHeader + RejectSize * m.countOrSize
     /\ \A r \in m.rejections :
          r.msgType \in {ip4peers, ip6peers} \cup ip6peers .. 10 /\ r.reason \in 0 .. 3

WellFormed ==
  /\ head.length <= MaxPacket
  /\ head.msgType = IF isRequest THEN request ELSE response
  /\ head.msgCount \in 1 .. Len(messages)
  /\ head.length = PacketHeader + Ends(messages)[head.msgCount]
  /\ \A i \in 1 .. head.msgCount :
       IF isRequest THEN MayBeAsked(messages[i]) ELSE MayBeAnswered(messages[i])

(* The walk of ValidatePacket, which follows one length after the other    *)
(* and returns early in a dozen places (protocol.cpp:140-197), accepts     *)
(* exactly that, and refuses everything else on which it comes to an end.  *)
AcceptsTheWellFormed ==
  /\ phase = "parsing" => WellFormed
  /\ phase = "refused" => ~WellFormed

(* Some rejection is of a type that is not in the enum.                    *)
RejectsUnknown ==
  \E i \in 1 .. Len(messages) :
    \E r \in messages[i].rejections : r.msgType >= nrpd_msg_type_max

(* What the generators of this program build, for any flags, counts and    *)
(* rejections (client.cpp:147-220, server.cpp:306-415), its validators     *)
(* accept, with one exception: they refuse a response that rejects a type  *)
(* of which the server does not know (server.cpp:361-364), with all that   *)
(* it answers (protocol.cpp:250-257).                                      *)
GeneratedIsAccepted ==
  origin = "generators" =>
    /\ phase = "refused" => RejectsUnknown
    /\ phase \in {"parsing", "parsed"} => ~RejectsUnknown

(* The second walk, which has other conditions than the first and checks   *)
(* nothing, is always at the end of as many of the messages as it counts,  *)
(* all of which were checked (client.cpp:403-459, server.cpp:334-375).     *)
(* The client's visits them all; the server's does, too, if it has room.   *)
ParsedIsWhatWasChecked ==
  /\ phase \in {"parsing", "parsed"} =>
       /\ msgCount <= head.msgCount /\ pos <= head.length
       /\ pos = PacketHeader + Ends(messages)[msgCount]
  /\ phase = "parsed" => msgCount = head.msgCount \/ NoRoomLeft

(* A message on which the walk over a request stays: of length 0, and of a *)
(* type of which a request may have any length (protocol.cpp:122-134).     *)
StaysPut(m) ==
  /\ isRequest
  /\ m.length = 0
  /\ m.msgType >= request_msg_min
  /\ m.msgType \notin {ip4peers, entropy, ip6peers}
StandsStill == phase = "checking" /\ BeforeEnd /\ StaysPut(Current)

(* Both walks come to an end, although the lengths they advance by are     *)
(* taken from the packet (protocol.cpp:171-182), or the first one stands   *)
(* still; that of a response never does.                                   *)
WalksEnd == phase = "received" ~> phase \in {"parsed", "refused"} \/ StandsStill

(* "ignore malformed packets" (server.cpp:458): the receiver is done with  *)
(* every packet, whatever it holds.                                        *)
MalformedAreIgnored == phase = "received" ~> phase \in {"parsed", "refused"}
=============================================================================
