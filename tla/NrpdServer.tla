----------------------------- MODULE NrpdServer -----------------------------
(***************************************************************************)
(* The server thread (src/server.cpp): ServerLoop receives a request,      *)
(* ignores a client it heard from too recently, and answers the messages   *)
(* of the request one by one with as much as fits into one packet.         *)
(*                                                                         *)
(* The module is about lengths and counts: a message is its size and its   *)
(* number of entries, never its content.  One pass of the loop over the    *)
(* request's messages is one step.  m_recentClients is the MruCache of 60  *)
(* seconds, through its abstract specification.                            *)
(*                                                                         *)
(* The environment chooses what the code does not: the requests (valid     *)
(* ones; ValidateRequestPacket changes nothing for the others), the counts *)
(* that ActiveServerCount returns while the client thread changes the list *)
(* (any of PeerCounts, -1 included: ConfigThreads.tla), how much read() of *)
(* the random device returns, and, for a peers message, whether peers are  *)
(* enabled: m_enableIp4Peers and m_enableIp6Peers are never initialised.   *)
(***************************************************************************)
EXTENDS Integers

CONSTANTS
  Client,          \* records [form, id]: the addresses requests come from
  MtuIp4,          \* MAX_IP4_PACKET_SIZE
  MtuIp6,          \* MAX_IP6_PACKET_SIZE
  DefaultEntropy,  \* DEFAULT_ENTROPY_SIZE
  Byte,            \* number of values of an unsigned char
  Asks,            \* bound: the values of countOrSize in requests
  PeerCounts,      \* bound: what ActiveServerCount may return
  RequestLengths   \* bound: the numbers of messages in a request

(* How an address arrives: AF_INET; IPv4 mapped into AF_INET6, as a dual   *)
(* stack socket delivers it; AF_INET6; and AF_INET6 starting with twelve   *)
(* zero bytes, such as ::1.                                                *)
Form == {"ip4", "mapped", "ip6", "zeroPrefix"}

PacketHeader == 4        \* sizeof(Nrp_Header_Packet)
MessageHeader == 4       \* sizeof(Nrp_Header_Message)
PeerSize == [ip4peers |-> 6, ip6peers |-> 18]
RejectSize == 2

ASSUME ClientAssumption == \A c \in Client : c.form \in Form
ASSUME MtuAssumption ==
  /\ MtuIp4 \in Nat /\ MtuIp4 > PacketHeader
  /\ MtuIp6 \in Nat /\ MtuIp6 > PacketHeader
ASSUME ByteAssumption == Byte \in Nat /\ Byte > 1
MaxByte == Byte - 1
(* The number of peers of a message is a byte: a packet has no room for    *)
(* more of the smaller ones than a byte can count.                         *)
ASSUME PeersAssumption ==
  \A m \in {MtuIp4, MtuIp6} :
    m <= PacketHeader + MessageHeader + MaxByte * PeerSize.ip4peers
ASSUME AsksAssumption ==
  /\ Asks \subseteq 0 .. MaxByte
  /\ DefaultEntropy \in 1 .. MaxByte
  /\ PeerCounts \subseteq Int
  /\ RequestLengths \subseteq 1 .. MaxByte   \* msgCount is a byte, and checked

(* What is left of a number assigned to an unsigned char.                  *)
AsByte(n) == IF n \in 0 .. MaxByte THEN n ELSE n % Byte

VARIABLES
  pc,              \* "waiting", "parsing" or "sending"
  recent,          \* m_recentClients
  client,          \* srcAddr
  rest,            \* messages of the request not yet handled
  mtu,             \* m_mtu
  bytesRemaining,  \* in ParseMessages, before the rejections
  rejections,      \* size of the list of rejections
  outLength,       \* outMessageLength
  msgs,            \* size of the list of messages to send
  bytes,           \* their lengths together, by their own headers
  listed,          \* entries of the reject message
  sent             \* the packet sent last, if it was

reply == <<mtu, bytesRemaining, rejections, outLength, msgs, bytes, listed>>
vars == <<pc, recent, client, rest, reply, sent>>

Recent == INSTANCE ExpiringSet
            WITH Key <- Client, entry <- recent, answer <- "unused"

NothingSent == [kind |-> "none", length |-> 0, count |-> 0, bytes |-> 0]

(* The protocol an address is taken to be of.                              *)
IsAddressIp4(c) == c.form \in {"ip4", "zeroPrefix"}

Init ==
  /\ pc = "waiting"
  /\ recent = [c \in Client |-> "absent"]
  /\ client \in Client
  /\ rest = 0
  /\ mtu = MtuIp6
  /\ bytesRemaining = 0
  /\ rejections = 0
  /\ outLength = 0
  /\ msgs = 0
  /\ bytes = 0
  /\ listed = 0
  /\ sent = NothingSent
-----------------------------------------------------------------------------
(* CalculateMessageSize: the entries of a size that go into the available  *)
(* bytes, as many as are wanted if they fit, and the size of the message.  *)
(* A negative number of entries is a huge one in its unsigned arithmetic.  *)
(* The mistake is to take it as it is.                                     *)
FitsSigned(available, size, wanted) == MessageHeader + size * wanted <= available
Fits(available, size, wanted) ==
  wanted >= 0 /\ MessageHeader + size * wanted <= available

(* A mistake: the header taken off for each entry.                         *)
EntriesTooFew(available, size, wanted) ==
  IF Fits(available, size, wanted) THEN wanted
  ELSE available \div (size + MessageHeader)

Entries(available, size, wanted) ==
  IF Fits(available, size, wanted) THEN wanted
  ELSE (available - MessageHeader) \div size

CalculateMessageSize(available, size, wanted) ==
  IF \/ available < MessageHeader
     \/ ~Fits(available, size, wanted) /\ Entries(available, size, wanted) = 0
  THEN 0
  ELSE MessageHeader + size * Entries(available, size, wanted)

(* CalculateRemainingBytes: what is left once the rejections have their    *)
(* message.                                                                *)
RemainingBytes ==
  IF rejections > 0
  THEN bytesRemaining - (MessageHeader + rejections * RejectSize)
  ELSE bytesRemaining

Lesser(a, b) == IF a < b THEN a ELSE b
-----------------------------------------------------------------------------
(* A valid request of k messages arrives.  Asking whether its client is    *)
(* recent makes it recent; the variables of the last turn are gone.        *)
ReceiveRequest(c, k) ==
  /\ pc = "waiting"
  /\ ~Recent!Live(c)
  /\ recent' = [recent EXCEPT ![c] = "live"]
  /\ pc' = "parsing"
  /\ client' = c
  /\ rest' = k
  /\ mtu' = IF IsAddressIp4(c) THEN MtuIp4 ELSE MtuIp6
  /\ bytesRemaining' = mtu' - PacketHeader
  /\ sent' = NothingSent
  /\ UNCHANGED <<rejections, outLength, msgs, bytes, listed>>

(* The condition of ParseMessages' loop.                                   *)
Parsing == pc = "parsing" /\ rest > 0 /\ RemainingBytes > 0

(* A message that takes the given bytes of the packet, and whose header    *)
(* holds its number of entries in one byte.  Mistakes: its header is not   *)
(* taken off the bytes remaining, or not added to the length.              *)
PushMessageKeepsHeader(taken, size, entries) ==
  /\ bytesRemaining' = bytesRemaining - (taken - MessageHeader)
  /\ outLength' = outLength + taken
  /\ msgs' = msgs + 1
  /\ bytes' = bytes + MessageHeader + size * AsByte(entries)
PushMessageLosesHeader(taken, size, entries) ==
  /\ bytesRemaining' = bytesRemaining - taken
  /\ outLength' = outLength + taken - MessageHeader
  /\ msgs' = msgs + 1
  /\ bytes' = bytes + MessageHeader + size * AsByte(entries)
PushMessage(taken, size, entries) ==
  /\ bytesRemaining' = bytesRemaining - taken
  /\ outLength' = outLength + taken
  /\ msgs' = msgs + 1
  /\ bytes' = bytes + MessageHeader + size * AsByte(entries)

NoMessage == UNCHANGED <<bytesRemaining, outLength, msgs, bytes>>

NextMessage ==
  /\ rest' = rest - 1
  /\ UNCHANGED <<pc, recent, client, mtu, listed, sent>>

(* GeneratePeersResponse, when n servers are counted.  There is no message *)
(* without servers or room, nor when the list has become empty by the time *)
(* GetServerList reads it, nor when the byte of the count is zero.         *)
AnswerPeers(type, ask, n) ==
  LET wanted == IF ask = 0 THEN n ELSE Lesser(n, ask)
      size == PeerSize[type]
      taken == CalculateMessageSize(RemainingBytes, size, wanted)
      entries == Entries(RemainingBytes, size, wanted)
  IN  /\ Parsing
      /\ \/ NoMessage
         \/ wanted # 0 /\ taken # 0 /\ AsByte(entries) # 0
            /\ PushMessage(taken, size, entries)
      /\ UNCHANGED rejections
      /\ NextMessage

(* GenerateEntropyResponse: read() may fail or return less than asked for. *)
AnswerEntropy(ask) ==
  LET wanted == IF ask = 0 THEN DefaultEntropy ELSE ask
      room == CalculateMessageSize(RemainingBytes, 1, wanted)
  IN  /\ Parsing
      /\ \/ NoMessage
         \/ \E readSize \in {1, room - MessageHeader} :
              /\ readSize \in 1 .. room - MessageHeader
              /\ PushMessage(MessageHeader + readSize, 1, readSize)
      /\ UNCHANGED rejections
      /\ NextMessage

(* A mistake: the case of one type falls through to that of the others.    *)
RejectFallsThrough ==
  /\ Parsing
  /\ rejections' = rejections + 2
  /\ NoMessage
  /\ NextMessage

(* Peers that are not enabled, the types that are not implemented, and the *)
(* unknown ones.                                                           *)
Reject ==
  /\ Parsing
  /\ rejections' = rejections + 1
  /\ NoMessage
  /\ NextMessage

(* The end of ParseMessages: the reject message goes in front, with as     *)
(* many rejections as there is room for.                                   *)
FinishParsing ==
  /\ pc = "parsing"
  /\ ~Parsing
  /\ LET taken == CalculateMessageSize(bytesRemaining, RejectSize, rejections)
         entries == Entries(bytesRemaining, RejectSize, rejections)
     IN  IF rejections > 0 /\ taken > 0
         THEN /\ outLength' = outLength + taken
              /\ msgs' = msgs + 1
              /\ bytes' = bytes + MessageHeader + RejectSize * AsByte(entries)
              /\ listed' = entries
         ELSE UNCHANGED <<outLength, msgs, bytes, listed>>
  /\ pc' = "sending"
  /\ UNCHANGED <<recent, client, rest, mtu, bytesRemaining, rejections, sent>>

(* GeneratePacketHeader writes nothing when the byte of the number of      *)
(* messages is zero: the buffer then still starts with the request, of     *)
(* which messageLength bytes are sent.  sendto() may fail, and the         *)
(* response is lost; the client stays recent.  The locals of the turn are  *)
(* gone.                                                                   *)
SendResponse ==
  /\ pc = "sending"
  /\ sent' \in {NothingSent,
                [kind |-> IF AsByte(msgs) = 0 THEN "request" ELSE "response",
                 length |-> outLength + PacketHeader,
                 count |-> AsByte(msgs),
                 bytes |-> bytes]}
  /\ pc' = "waiting"
  /\ rest' = 0 /\ rejections' = 0 /\ listed' = 0
  /\ outLength' = 0 /\ msgs' = 0 /\ bytes' = 0
  /\ bytesRemaining' = 0
  /\ UNCHANGED <<recent, client, mtu>>

(* The minute of a client is over, and a cleaner erases its entry.         *)
RecentChanges(c) ==
  /\ Recent!Expire({c}) \/ Recent!Evict({c})
  /\ UNCHANGED <<pc, client, rest, reply, sent>>

ServerStep ==
  \/ \E type \in DOMAIN PeerSize, ask \in Asks, n \in PeerCounts :
       AnswerPeers(type, ask, n)
  \/ \E ask \in Asks : AnswerEntropy(ask)
  \/ Reject
  \/ FinishParsing
  \/ SendResponse

Next ==
  \/ \E c \in Client, k \in RequestLengths : ReceiveRequest(c, k)
  \/ ServerStep
  \/ \E c \in Client : RecentChanges(c)

Spec == Init /\ [][Next]_vars
-----------------------------------------------------------------------------
(* Every variable has its type.                                            *)
TypeOK ==
  /\ pc \in {"waiting", "parsing", "sending"}
  /\ recent \in [Client -> {"absent", "live", "stale"}]
  /\ client \in Client
  /\ rest \in 0 .. MaxByte
  /\ mtu \in {MtuIp4, MtuIp6}
  /\ bytesRemaining \in Int
  /\ rejections \in Nat
  /\ outLength \in Nat
  /\ msgs \in Nat
  /\ bytes \in Nat
  /\ listed \in Nat
  /\ sent \in [kind : {"none", "request", "response"},
               length : Nat, count : 0 .. MaxByte, bytes : Nat]

(* assert(messageLength <= m_mtu), server.cpp:493: whatever was asked for, *)
(* in whatever order, the answers, the rejections and the header fit into  *)
(* the packet.                                                             *)
FitsIntoPacket == pc = "sending" => outLength + PacketHeader <= mtu

(* The counts that go into a byte fit into a byte: the number of messages, *)
(* and the number of rejections, which is as large as the request likes.   *)
CountsFitBytes == msgs < Byte /\ rejections < Byte

(* What is sent is as long as its messages and its header, and says how    *)
(* many messages there are (what ValidatePacket of the client checks,      *)
(* protocol.cpp:167-194).  What has no header, because its number of       *)
(* messages is zero (protocol.cpp:434), has none of the messages either:   *)
(* then no more of the request than a header goes back to the client.      *)
SentIsWellFormed ==
  /\ sent.kind = "response" =>
       sent.count > 0 /\ sent.length = PacketHeader + sent.bytes
  /\ sent.kind = "request" => sent.length = PacketHeader

(* A client does not learn of a rejection only when there is no room left  *)
(* to tell it: the room reserved for the reject message while the answers  *)
(* fill the packet (CalculateRemainingBytes) is used for it.               *)
RejectionsFillPacket ==
  pc = "sending" /\ listed < rejections =>
    mtu - (outLength + PacketHeader)
      < IF listed = 0 THEN MessageHeader + RejectSize ELSE RejectSize
=============================================================================
