-------------------------- MODULE NrpdServerProofs --------------------------
(***************************************************************************)
(* Proofs about NrpdServer, for any packet sizes, requests and counts of   *)
(* servers.  The invariant is the bookkeeping of ParseMessages: the bytes  *)
(* used and the bytes remaining are always the packet without its header,  *)
(* the messages handled and not handled fit into a byte, and the lengths   *)
(* in the headers of the messages add up to the bytes used.                *)
(***************************************************************************)
EXTENDS NrpdServer, TLAPS

USE ByteAssumption DEF PacketHeader, MessageHeader, RejectSize, MaxByte

(* CalculateMessageSize never returns more than there is, and what it      *)
(* returns is a header and the entries; for each size of entry in use.     *)
LEMMA MessageSizeFits ==
  ASSUME NEW available \in Nat, NEW size \in {1, 2, 6, 18}, NEW wanted \in Int,
         CalculateMessageSize(available, size, wanted) # 0
  PROVE  LET taken == CalculateMessageSize(available, size, wanted)
             entries == Entries(available, size, wanted)
         IN  /\ taken \in Nat /\ entries \in Nat
             /\ taken = MessageHeader + size * entries
             /\ taken <= available
             /\ wanted >= 0 => entries <= wanted
<1> DEFINE entries == Entries(available, size, wanted)
<1>1. /\ available >= MessageHeader
      /\ CalculateMessageSize(available, size, wanted) = MessageHeader + size * entries
  BY DEF CalculateMessageSize
<1>2. CASE Fits(available, size, wanted)
  <2>1. entries = wanted /\ wanted >= 0 /\ MessageHeader + size * wanted <= available
    BY <1>2 DEF Fits, Entries
  <2>2. size * wanted \in Nat
    BY <2>1
  <2> QED
    BY <1>1, <2>1, <2>2
<1>3. CASE ~Fits(available, size, wanted)
  <2>1. entries = (available - MessageHeader) \div size
    BY <1>3 DEF Entries
  <2>2. available - MessageHeader \in Nat
    BY <1>1
  <2>3. entries \in Nat /\ size * entries <= available - MessageHeader
                        /\ available - MessageHeader < size * entries + size
    <3>1. CASE size = 1
      BY <2>1, <2>2, <3>1
    <3>2. CASE size = 2
      BY <2>1, <2>2, <3>2
    <3>3. CASE size = 6
      BY <2>1, <2>2, <3>3
    <3>4. CASE size = 18
      BY <2>1, <2>2, <3>4
    <3> QED
      BY <3>1, <3>2, <3>3, <3>4
  <2>4. wanted >= 0 => entries <= wanted
    <3>1. wanted >= 0 => available - MessageHeader < size * wanted
      BY <1>1, <1>3 DEF Fits
    <3>2. CASE size = 1
      BY <2>3, <3>1, <3>2
    <3>3. CASE size = 2
      BY <2>3, <3>1, <3>3
    <3>4. CASE size = 6
      BY <2>3, <3>1, <3>4
    <3>5. CASE size = 18
      BY <2>3, <3>1, <3>5
    <3> QED
      BY <3>2, <3>3, <3>4, <3>5
  <2>5. size * entries \in Nat
    BY <2>3
  <2> QED
    BY <1>1, <2>3, <2>4, <2>5
<1> QED
  BY <1>2, <1>3
-----------------------------------------------------------------------------
(* The inductive invariant, by the places of the loop.                     *)
Counters ==
  /\ bytesRemaining \in Int /\ outLength \in Nat /\ bytes \in Nat
  /\ rejections \in Nat /\ msgs \in Nat /\ rest \in Nat
  /\ mtu \in {MtuIp4, MtuIp6}
  /\ pc \in {"waiting", "parsing", "sending"}

Waiting ==
  pc = "waiting" => rejections = 0 /\ msgs = 0 /\ outLength = 0 /\ bytes = 0

Bookkeeping ==
  pc = "parsing" =>
    /\ bytesRemaining >= 0
    /\ outLength + bytesRemaining = mtu - PacketHeader
    /\ bytes = outLength
    /\ msgs = 0 => outLength = 0
    /\ msgs + rejections + rest <= MaxByte

Outcome ==
  pc = "sending" =>
    /\ outLength + PacketHeader <= mtu
    /\ bytes = outLength
    /\ msgs = 0 => outLength = 0
    /\ msgs <= MaxByte /\ rejections <= MaxByte

ServerInv == Counters /\ Waiting /\ Bookkeeping /\ Outcome /\ SentIsWellFormed

LEMMA InvInit == Init => ServerInv
  BY MtuAssumption DEF Init, ServerInv, Counters, Waiting, Bookkeeping, Outcome,
     SentIsWellFormed, NothingSent

LEMMA RemainingIsLess ==
  ASSUME Counters, Parsing
  PROVE  RemainingBytes \in Nat /\ RemainingBytes <= bytesRemaining
  BY DEF Counters, Parsing, RemainingBytes

(* Handling a message with an answer that fits keeps the books.            *)
LEMMA InvPush ==
  ASSUME ServerInv, Parsing, NextMessage, UNCHANGED rejections,
         NEW size \in {1, 6, 18}, NEW entries \in 0 .. MaxByte,
         PushMessage(MessageHeader + size * entries, size, entries),
         MessageHeader + size * entries <= RemainingBytes
  PROVE  ServerInv'
<1>1. RemainingBytes \in Nat /\ RemainingBytes <= bytesRemaining
  BY RemainingIsLess DEF ServerInv
<1>2. AsByte(entries) = entries
  BY DEF AsByte
<1>3. size * entries \in Nat
  OBVIOUS
<1>4. PICK b \in Nat : b = MessageHeader + size * entries
  BY <1>3
<1>5. /\ bytesRemaining' = bytesRemaining - b
      /\ outLength' = outLength + b
      /\ bytes' = bytes + b
      /\ msgs' = msgs + 1 /\ rest' = rest - 1
      /\ b <= bytesRemaining
  <2>1. bytes' = bytes + MessageHeader + size * AsByte(entries)
    BY DEF PushMessage
  <2>2. bytes' = bytes + MessageHeader + size * entries
    BY <1>2, <2>1
  <2>3. bytes' = bytes + b
    BY <1>3, <1>4, <2>2 DEF ServerInv, Counters
  <2>4. b <= bytesRemaining
    BY <1>1, <1>4 DEF ServerInv, Counters
  <2> QED
    BY <1>4, <2>3, <2>4 DEF PushMessage, NextMessage
<1>6. pc = "parsing" /\ pc' = pc /\ mtu' = mtu /\ sent' = sent /\ rest > 0
  BY DEF NextMessage, Parsing
<1>7. Counters' /\ Waiting' /\ Outcome'
  BY <1>4, <1>5, <1>6 DEF ServerInv, Counters, Waiting, Outcome
<1>8. Bookkeeping'
  BY <1>4, <1>5, <1>6 DEF ServerInv, Counters, Bookkeeping
<1>9. SentIsWellFormed'
  BY <1>6 DEF ServerInv, SentIsWellFormed
<1> QED
  BY <1>7, <1>8, <1>9 DEF ServerInv

(* Handling one without an answer, with or without a rejection.            *)
LEMMA InvNoMessage ==
  ASSUME ServerInv, Parsing, NextMessage, NoMessage,
         rejections' = rejections \/ rejections' = rejections + 1
  PROVE  ServerInv'
<1>1. /\ pc = "parsing" /\ pc' = pc /\ mtu' = mtu /\ sent' = sent
      /\ rest > 0 /\ rest' = rest - 1
      /\ bytesRemaining' = bytesRemaining /\ outLength' = outLength
      /\ msgs' = msgs /\ bytes' = bytes
  BY DEF Parsing, NextMessage, NoMessage
<1>2. Counters'
  BY <1>1 DEF ServerInv, Counters
<1>3. Waiting' /\ Outcome'
  BY <1>1 DEF Waiting, Outcome
<1>4. Bookkeeping'
  <2>1. /\ bytesRemaining >= 0
        /\ outLength + bytesRemaining = mtu - PacketHeader
        /\ bytes = outLength
        /\ msgs = 0 => outLength = 0
        /\ msgs + rejections + rest <= MaxByte
    BY <1>1 DEF ServerInv, Bookkeeping
  <2>2. /\ msgs' = msgs /\ rest' = rest - 1
        /\ rejections' = rejections \/ rejections' = rejections + 1
        /\ msgs \in Nat /\ rejections \in Nat /\ rest \in Nat
        /\ msgs + rejections + rest <= MaxByte
    BY <1>1, <2>1 DEF ServerInv, Counters
  <2>3. msgs' + rejections' + rest' <= MaxByte
    BY <2>2
  <2> QED
    BY <1>1, <2>1, <2>3 DEF Bookkeeping
<1>5. SentIsWellFormed'
  BY <1>1 DEF ServerInv, SentIsWellFormed
<1> QED
  BY <1>2, <1>3, <1>4, <1>5 DEF ServerInv

LEMMA InvPeers ==
  ASSUME ServerInv, NEW type \in DOMAIN PeerSize, NEW ask \in Asks,
         NEW n \in PeerCounts, AnswerPeers(type, ask, n)
  PROVE  ServerInv'
<1> DEFINE wanted == IF ask = 0 THEN n ELSE Lesser(n, ask)
           size == PeerSize[type]
           taken == CalculateMessageSize(RemainingBytes, size, wanted)
           entries == Entries(RemainingBytes, size, wanted)
<1>1. Parsing /\ NextMessage /\ UNCHANGED rejections
  BY DEF AnswerPeers
<1>2. CASE NoMessage
  BY <1>1, <1>2, InvNoMessage
<1>3. CASE taken # 0 /\ PushMessage(taken, size, entries)
  <2>1. size \in {6, 18}
    BY DEF PeerSize
  <2>2. wanted \in Int
    BY AsksAssumption DEF Lesser
  <2>3. RemainingBytes \in Nat /\ RemainingBytes <= bytesRemaining
    BY <1>1, RemainingIsLess DEF ServerInv
  <2>4. /\ entries \in Nat
        /\ taken = MessageHeader + size * entries
        /\ taken <= RemainingBytes
    BY <1>3, <2>1, <2>2, <2>3, MessageSizeFits
  <2>5. RemainingBytes <= MessageHeader + MaxByte * 6
    <3>1. outLength + bytesRemaining = mtu - PacketHeader
      BY <1>1 DEF ServerInv, Bookkeeping, Parsing
    <3>2. mtu <= PacketHeader + MessageHeader + MaxByte * 6
      BY PeersAssumption DEF ServerInv, Counters, PeerSize
    <3> QED
      BY <2>3, <3>1, <3>2, MtuAssumption DEF ServerInv, Counters
  <2>6. entries \in 0 .. MaxByte
    <3>1. CASE size = 6
      BY <2>3, <2>4, <2>5, <3>1
    <3>2. CASE size = 18
      BY <2>3, <2>4, <2>5, <3>2
    <3> QED
      BY <2>1, <3>1, <3>2
  <2>7. PushMessage(MessageHeader + size * entries, size, entries)
    BY <1>3, <2>4
  <2>8. MessageHeader + size * entries <= RemainingBytes
    BY <2>4
  <2> HIDE DEF size, entries, wanted, taken
  <2> QED
    BY <1>1, <2>1, <2>6, <2>7, <2>8, InvPush
<1> QED
  BY <1>2, <1>3 DEF AnswerPeers

LEMMA InvEntropy ==
  ASSUME ServerInv, NEW ask \in Asks, AnswerEntropy(ask)
  PROVE  ServerInv'
<1> DEFINE wanted == IF ask = 0 THEN DefaultEntropy ELSE ask
           room == CalculateMessageSize(RemainingBytes, 1, wanted)
<1>1. Parsing /\ NextMessage /\ UNCHANGED rejections
  BY DEF AnswerEntropy
<1>2. CASE NoMessage
  BY <1>1, <1>2, InvNoMessage
<1>3. ASSUME NEW readSize, readSize \in 1 .. room - MessageHeader,
             PushMessage(MessageHeader + readSize, 1, readSize)
      PROVE  ServerInv'
  <2>1. wanted \in 1 .. MaxByte
    BY AsksAssumption
  <2>2. RemainingBytes \in Nat /\ RemainingBytes <= bytesRemaining
    BY <1>1, RemainingIsLess DEF ServerInv
  <2>3. room # 0
    BY <1>3
  <2>4. /\ room \in Nat
        /\ room <= RemainingBytes
        /\ room = MessageHeader + 1 * Entries(RemainingBytes, 1, wanted)
        /\ Entries(RemainingBytes, 1, wanted) \in Nat
        /\ Entries(RemainingBytes, 1, wanted) <= wanted
    <3> HIDE DEF wanted
    <3>1. 1 \in {1, 2, 6, 18} /\ wanted \in Int /\ wanted >= 0
      BY <2>1
    <3>2. CalculateMessageSize(RemainingBytes, 1, wanted) # 0
      BY <2>3
    <3> QED
      BY <2>2, <3>1, <3>2, MessageSizeFits
  <2>5. readSize \in 0 .. MaxByte /\ MessageHeader + readSize <= RemainingBytes
    BY <1>3, <2>1, <2>2, <2>4
  <2>6. 1 * readSize = readSize
    BY <2>5
  <2> HIDE DEF room, wanted
  <2> QED
    BY <1>1, <1>3, <2>5, <2>6, InvPush
<1> QED
  BY <1>2, <1>3 DEF AnswerEntropy

LEMMA InvFinish ==
  ASSUME ServerInv, FinishParsing
  PROVE  ServerInv'
<1> DEFINE taken == CalculateMessageSize(bytesRemaining, RejectSize, rejections)
           entries == Entries(bytesRemaining, RejectSize, rejections)
<1>1. /\ pc = "parsing" /\ pc' = "sending" /\ sent' = sent
      /\ UNCHANGED <<rest, mtu, bytesRemaining, rejections>>
  BY DEF FinishParsing
<1>2. /\ bytesRemaining \in Nat
      /\ outLength + bytesRemaining = mtu - PacketHeader
      /\ bytes = outLength
      /\ msgs = 0 => outLength = 0
      /\ msgs + rejections + rest <= MaxByte
      /\ msgs <= MaxByte /\ rejections <= MaxByte
      /\ rejections > 0 => msgs + 1 <= MaxByte
  BY <1>1 DEF ServerInv, Counters, Bookkeeping
<1>3. CASE rejections > 0 /\ taken > 0
  <2>1. /\ entries \in Nat /\ entries <= rejections
        /\ taken = MessageHeader + RejectSize * entries
        /\ taken \in Nat /\ taken <= bytesRemaining
    BY <1>2, <1>3, MessageSizeFits DEF ServerInv, Counters
  <2>2. AsByte(entries) = entries
    BY <1>2, <2>1 DEF ServerInv, Counters, AsByte
  <2>3. /\ outLength' = outLength + taken
        /\ msgs' = msgs + 1
        /\ bytes' = bytes + MessageHeader + RejectSize * AsByte(entries)
    BY <1>3 DEF FinishParsing
  <2>4. bytes' = bytes + taken
    BY <2>1, <2>2, <2>3 DEF ServerInv, Counters
  <2> HIDE DEF taken, entries
  <2>5. Counters' /\ Waiting' /\ Bookkeeping'
    BY <1>1, <2>1, <2>3, <2>4 DEF ServerInv, Counters, Waiting, Bookkeeping
  <2>6. Outcome'
    BY <1>1, <1>2, <1>3, <2>1, <2>3, <2>4, MtuAssumption
       DEF ServerInv, Counters, Outcome
  <2>7. SentIsWellFormed'
    BY <1>1 DEF ServerInv, SentIsWellFormed
  <2> QED
    BY <2>5, <2>6, <2>7 DEF ServerInv
<1>4. CASE ~(rejections > 0 /\ taken > 0)
  <2>1. UNCHANGED <<outLength, msgs, bytes>>
    BY <1>4 DEF FinishParsing
  <2> QED
    BY <1>1, <1>2, <2>1, MtuAssumption
       DEF ServerInv, Counters, Waiting, Bookkeeping, Outcome, SentIsWellFormed
<1> QED
  BY <1>3, <1>4

LEMMA InvReceive ==
  ASSUME ServerInv, NEW c \in Client, NEW k \in RequestLengths, ReceiveRequest(c, k)
  PROVE  ServerInv'
<1>1. k \in 1 .. MaxByte
  BY AsksAssumption
<1> QED
  BY <1>1, MtuAssumption
     DEF ServerInv, ReceiveRequest, Counters, Waiting, Bookkeeping, Outcome,
         SentIsWellFormed, NothingSent

LEMMA InvSend ==
  ASSUME ServerInv, SendResponse
  PROVE  ServerInv'
<1>1. /\ pc = "sending" /\ pc' = "waiting" /\ mtu' = mtu
      /\ rest' = 0 /\ rejections' = 0 /\ outLength' = 0 /\ msgs' = 0
      /\ bytes' = 0 /\ bytesRemaining' = 0
  BY DEF SendResponse
<1>2. Counters' /\ Waiting' /\ Bookkeeping' /\ Outcome'
  BY <1>1 DEF ServerInv, Counters, Waiting, Bookkeeping, Outcome
<1>3. SentIsWellFormed'
  <2>1. CASE sent' = NothingSent
    BY <2>1 DEF NothingSent, SentIsWellFormed
  <2>2. CASE sent' # NothingSent
    <3>1. /\ AsByte(msgs) = msgs /\ bytes = outLength
          /\ msgs = 0 => outLength = 0
      BY <1>1 DEF ServerInv, Outcome, Counters, AsByte
    <3>2. sent' = [kind |-> IF msgs = 0 THEN "request" ELSE "response",
                   length |-> outLength + PacketHeader,
                   count |-> msgs,
                   bytes |-> bytes]
      BY <2>2, <3>1 DEF SendResponse
    <3> QED
      BY <3>1, <3>2 DEF ServerInv, Counters, SentIsWellFormed
  <2> QED
    BY <2>1, <2>2
<1> QED
  BY <1>2, <1>3 DEF ServerInv

LEMMA ServerInvariant == Spec => []ServerInv
<1>1. ServerInv /\ [Next]_vars => ServerInv'
  <2> SUFFICES ASSUME ServerInv, [Next]_vars PROVE ServerInv'
    OBVIOUS
  <2>1. ASSUME NEW c \in Client, NEW k \in RequestLengths, ReceiveRequest(c, k)
        PROVE  ServerInv'
    BY <2>1, InvReceive
  <2>2. ASSUME NEW type \in DOMAIN PeerSize, NEW ask \in Asks, NEW n \in PeerCounts,
               AnswerPeers(type, ask, n)
        PROVE  ServerInv'
    BY <2>2, InvPeers
  <2>3. ASSUME NEW ask \in Asks, AnswerEntropy(ask) PROVE ServerInv'
    BY <2>3, InvEntropy
  <2>4. CASE Reject
    BY <2>4, InvNoMessage DEF Reject
  <2>5. CASE FinishParsing
    BY <2>5, InvFinish
  <2>6. CASE SendResponse
    BY <2>6, InvSend
  <2>7. CASE UNCHANGED vars \/ \E c \in Client : RecentChanges(c)
    <3>1. UNCHANGED <<pc, rest, reply, sent>>
      BY <2>7 DEF vars, RecentChanges
    <3> QED
      BY <3>1 DEF reply, ServerInv, Counters, Waiting, Bookkeeping, Outcome,
                  SentIsWellFormed
  <2> QED
    BY <2>1, <2>2, <2>3, <2>4, <2>5, <2>6, <2>7 DEF Next, ServerStep
<1> QED
  BY <1>1, InvInit, PTL DEF Spec

(* The assertion of ServerLoop holds for every request.                    *)
THEOREM AssertionHolds == Spec => []FitsIntoPacket
<1>1. ServerInv => FitsIntoPacket
  BY DEF ServerInv, Outcome, FitsIntoPacket
<1> QED
  BY <1>1, ServerInvariant, PTL

(* The byte-sized counters of the packet and of the reject message never   *)
(* wrap around.                                                            *)
THEOREM NoCounterWraps == Spec => []CountsFitBytes
<1>1. ServerInv => CountsFitBytes
  BY DEF ServerInv, Counters, Waiting, Bookkeeping, Outcome, CountsFitBytes
<1> QED
  BY <1>1, ServerInvariant, PTL

(* Every response has messages and is as long as they are, and what goes   *)
(* back when there are none is as long as a header: no number of messages  *)
(* is taken for zero (server.cpp:490-508, protocol.cpp:434).               *)
THEOREM ResponsesAreWellFormed == Spec => []SentIsWellFormed
<1>1. ServerInv => SentIsWellFormed
  BY DEF ServerInv
<1> QED
  BY <1>1, ServerInvariant, PTL
-----------------------------------------------------------------------------
(* The reject message.  What is left when the loop ends is what            *)
(* CalculateMessageSize has for it, which leaves less than one entry.      *)
FillInv ==
  /\ listed \in Nat
  /\ pc # "sending" => listed = 0
  /\ RejectionsFillPacket

LEMMA TooLittleIsLeft ==
  ASSUME NEW available \in Nat, NEW wanted \in Nat
  PROVE  LET taken == CalculateMessageSize(available, RejectSize, wanted)
             entries == Entries(available, RejectSize, wanted)
         IN  /\ taken = 0 /\ wanted > 0 => available < MessageHeader + RejectSize
             /\ taken # 0 => taken = MessageHeader + RejectSize * entries /\ entries \in Nat
             /\ taken # 0 /\ entries < wanted => available - taken < RejectSize
<1> DEFINE taken == CalculateMessageSize(available, RejectSize, wanted)
           entries == Entries(available, RejectSize, wanted)
<1>1. CASE available < MessageHeader
  BY <1>1 DEF CalculateMessageSize
<1>2. CASE available >= MessageHeader /\ Fits(available, RejectSize, wanted)
  <2>1. entries = wanted /\ taken = MessageHeader + RejectSize * wanted
    BY <1>2 DEF Entries, CalculateMessageSize
  <2> QED
    BY <2>1
<1>3. CASE available >= MessageHeader /\ ~Fits(available, RejectSize, wanted)
  <2>1. entries = (available - MessageHeader) \div RejectSize
    BY <1>3 DEF Entries
  <2>2. entries \in Nat /\ available - MessageHeader < RejectSize * entries + RejectSize
    <3>1. PICK room \in Nat : room = available - MessageHeader
      BY <1>3
    <3>2. room \div 2 \in Nat /\ room < 2 * (room \div 2) + 2
      BY SMT
    <3> QED
      BY <2>1, <3>1, <3>2
  <2>3. /\ taken = 0 => entries = 0 \/ MessageHeader + RejectSize * entries = 0
        /\ taken # 0 => taken = MessageHeader + RejectSize * entries
    BY <1>3 DEF CalculateMessageSize
  <2>4. /\ taken = 0 => available < MessageHeader + RejectSize
        /\ taken # 0 /\ entries < wanted => available - taken < RejectSize
    <3> HIDE DEF taken, entries
    <3> QED
      BY <2>2, <2>3
  <2> QED
    BY <2>2, <2>3, <2>4
<1> QED
  BY <1>1, <1>2, <1>3

LEMMA FillFinish ==
  ASSUME ServerInv, FillInv, FinishParsing
  PROVE  FillInv'
<1> DEFINE taken == CalculateMessageSize(bytesRemaining, RejectSize, rejections)
           entries == Entries(bytesRemaining, RejectSize, rejections)
<1>1. /\ pc = "parsing" /\ pc' = "sending" /\ listed = 0
      /\ UNCHANGED <<mtu, rejections>>
  BY DEF FinishParsing, FillInv
<1>2. /\ bytesRemaining \in Nat /\ rejections \in Nat /\ outLength \in Nat
      /\ mtu - (outLength + PacketHeader) = bytesRemaining
  BY <1>1, MtuAssumption DEF ServerInv, Counters, Bookkeeping
<1>3. /\ taken = 0 /\ rejections > 0 => bytesRemaining < MessageHeader + RejectSize
      /\ taken # 0 => taken = MessageHeader + RejectSize * entries /\ entries \in Nat
      /\ taken # 0 /\ entries < rejections => bytesRemaining - taken < RejectSize
  BY <1>2, TooLittleIsLeft
<1>4. IF rejections > 0 /\ taken > 0
      THEN outLength' = outLength + taken /\ listed' = entries
      ELSE outLength' = outLength /\ listed' = listed
  BY DEF FinishParsing
<1> HIDE DEF taken, entries
<1>5. CASE rejections > 0 /\ taken > 0
  <2>1. mtu' - (outLength' + PacketHeader) = bytesRemaining - taken
    BY <1>1, <1>2, <1>3, <1>4, <1>5, MtuAssumption DEF ServerInv, Counters
  <2> QED
    BY <1>1, <1>2, <1>3, <1>4, <1>5, <2>1 DEF FillInv, RejectionsFillPacket
<1>6. CASE ~(rejections > 0 /\ taken > 0)
  <2>1. taken \in Nat
    BY <1>3
  <2> QED
    BY <1>1, <1>2, <1>3, <1>4, <1>6, <2>1 DEF FillInv, RejectionsFillPacket
<1> QED
  BY <1>5, <1>6

LEMMA FillInvariant == Spec => []FillInv
<1>1. Init => FillInv
  BY DEF Init, FillInv, RejectionsFillPacket
<1>2. ServerInv /\ FillInv /\ [Next]_vars => FillInv'
  <2> SUFFICES ASSUME ServerInv, FillInv, [Next]_vars PROVE FillInv'
    OBVIOUS
  <2>1. CASE FinishParsing
    BY <2>1, FillFinish
  <2>2. CASE SendResponse
    BY <2>2 DEF SendResponse, FillInv, RejectionsFillPacket
  <2>3. ASSUME Parsing, NextMessage PROVE FillInv'
    BY <2>3 DEF Parsing, NextMessage, FillInv, RejectionsFillPacket
  <2>4. ASSUME NEW c \in Client, NEW k \in RequestLengths, ReceiveRequest(c, k)
        PROVE  FillInv'
    BY <2>4 DEF ReceiveRequest, FillInv, RejectionsFillPacket
  <2>5. CASE UNCHANGED vars \/ \E c \in Client : RecentChanges(c)
    <3>1. UNCHANGED <<pc, reply>>
      BY <2>5 DEF vars, RecentChanges
    <3> QED
      BY <3>1 DEF reply, FillInv, RejectionsFillPacket
  <2> QED
    BY <2>1, <2>2, <2>3, <2>4, <2>5
       DEF Next, ServerStep, AnswerPeers, AnswerEntropy, Reject
<1> QED
  BY <1>1, <1>2, ServerInvariant, PTL DEF Spec

(* The room that is kept for the rejections is used for them: one that is  *)
(* not told did not fit.                                                   *)
THEOREM RejectionsAreTold == Spec => []RejectionsFillPacket
<1>1. FillInv => RejectionsFillPacket
  BY DEF FillInv
<1> QED
  BY <1>1, FillInvariant, PTL
-----------------------------------------------------------------------------
(* The types of the variables that the bookkeeping does not speak of.      *)
OtherTypes ==
  /\ recent \in [Client -> {"absent", "live", "stale"}]
  /\ client \in Client
  /\ rest <= MaxByte
  /\ sent \in [kind : {"none", "request", "response"},
               length : Nat, count : 0 .. MaxByte, bytes : Nat]

LEMMA TypesKept ==
  ASSUME ServerInv, OtherTypes, [Next]_vars
  PROVE  OtherTypes'
<1>1. ASSUME NEW c \in Client, NEW k \in RequestLengths, ReceiveRequest(c, k)
      PROVE  OtherTypes'
  <2>1. k \in 1 .. MaxByte
    BY AsksAssumption
  <2> QED
    BY <1>1, <2>1 DEF ReceiveRequest, OtherTypes, NothingSent
<1>2. ASSUME Parsing, NextMessage PROVE OtherTypes'
  <2>1. rest \in Nat /\ rest' = rest - 1
    BY <1>2 DEF ServerInv, Counters, NextMessage
  <2> QED
    BY <1>2, <2>1 DEF NextMessage, OtherTypes
<1>3. CASE FinishParsing
  BY <1>3 DEF FinishParsing, OtherTypes
<1>4. CASE SendResponse
  <2>1. AsByte(msgs) \in 0 .. MaxByte
    BY DEF AsByte, ServerInv, Counters
  <2>2. sent' \in [kind : {"none", "request", "response"},
                   length : Nat, count : 0 .. MaxByte, bytes : Nat]
    <3>1. NothingSent \in [kind : {"none", "request", "response"},
                            length : Nat, count : 0 .. MaxByte, bytes : Nat]
      BY ByteAssumption DEF NothingSent, MaxByte
    <3> QED
      BY <1>4, <2>1, <3>1 DEF SendResponse, ServerInv, Counters
  <2> QED
    BY <1>4, <2>2 DEF SendResponse, OtherTypes
<1>5. ASSUME NEW c \in Client, RecentChanges(c) PROVE OtherTypes'
  <2>1. recent' \in [Client -> {"absent", "live", "stale"}]
    BY <1>5 DEF RecentChanges, Recent!Expire, Recent!Evict, OtherTypes
  <2> QED
    BY <1>5, <2>1 DEF RecentChanges, OtherTypes
<1>6. CASE UNCHANGED vars
  BY <1>6 DEF vars, OtherTypes
<1> QED
  BY <1>1, <1>2, <1>3, <1>4, <1>5, <1>6
     DEF Next, ServerStep, AnswerPeers, AnswerEntropy, Reject

(* Every variable of the server keeps its type, the bytes of the headers   *)
(* included.                                                               *)
THEOREM TypeCorrect == Spec => []TypeOK
<1>1. Init => OtherTypes
  BY DEF Init, OtherTypes, NothingSent
<1>2. ServerInv /\ FillInv /\ OtherTypes => TypeOK
  BY DEF ServerInv, Counters, FillInv, OtherTypes, TypeOK
<1> QED
  BY <1>1, <1>2, TypesKept, ServerInvariant, FillInvariant, PTL DEF Spec
=============================================================================
