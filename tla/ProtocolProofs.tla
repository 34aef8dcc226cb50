--------------------------- MODULE ProtocolProofs ---------------------------
(***************************************************************************)
(* Proofs about Protocol, for packets of any size and number of messages,  *)
(* of any lengths, those of 0 among them, types and counts.                *)
(*                                                                         *)
(* The walks follow one length after the other and the specification of    *)
(* what is well-formed adds them up; so the proofs begin with the places   *)
(* where the messages of a list end.                                       *)
(***************************************************************************)
EXTENDS Protocol, Induction, FiniteSetTheorems, SequenceTheorems, TLAPS

(* Each message ends its length after the one before it.                   *)
LEMMA EndsDefined ==
  ASSUME NEW M, \A m \in M : m.length \in Nat, NEW list \in Seq(M)
  PROVE  /\ \A n \in 0 .. Len(list) : Ends(list)[n] \in Nat
         /\ Ends(list)[0] = 0
         /\ \A n \in 1 .. Len(list) : Ends(list)[n] = Ends(list)[n - 1] + list[n].length
<1> DEFINE N == Len(list)
           step == [n \in 1 .. N |-> [e \in Nat |-> e + list[n].length]]
<1>1. N \in Nat /\ \A n \in 1 .. N : list[n].length \in Nat
  OBVIOUS
<1> HIDE DEF N
<1>2. step \in [1 .. N -> [Nat -> Nat]]
  BY <1>1
<1>3. \A n \in 1 .. N, e \in Nat : step[n][e] = e + list[n].length
  OBVIOUS
<1> HIDE DEF step
<1>4. PICK g \in [0 .. N -> Nat] :
        g[0] = 0 /\ \A n \in 1 .. N : g[n] = step[n][g[n - 1]]
  <2>1. Runs(N, Nat, 0, step) # {}
    BY <1>1, <1>2, Recursion
  <2> QED
    BY <2>1 DEF Runs
<1>5. ASSUME NEW n \in 1 .. N
      PROVE  g[n] = g[n - 1] + list[n].length
  <2>1. n - 1 \in 0 .. N /\ g[n - 1] \in Nat
    BY <1>1, <1>4
  <2> QED
    BY <1>3, <1>4, <2>1
<1>6. \A n \in 0 .. N : g[n] = IF n = 0 THEN 0 ELSE g[n - 1] + list[n].length
  <2>1. \A n \in 0 .. N : n = 0 \/ n \in 1 .. N
    BY <1>1
  <2> QED
    BY <1>4, <1>5, <2>1, Zenon
<1>7. g = [n \in 0 .. N |-> IF n = 0 THEN 0 ELSE g[n - 1] + list[n].length]
  <2>1. g = [n \in 0 .. N |-> g[n]]
    BY <1>4
  <2> QED
    BY <1>6, <2>1, Zenon
<1>8. Ends(list) = [n \in 0 .. N |-> IF n = 0 THEN 0 ELSE Ends(list)[n - 1] + list[n].length]
  BY <1>7 DEF Ends, N
<1>9. /\ Ends(list)[0] = 0
      /\ \A n \in 1 .. N : Ends(list)[n] = Ends(list)[n - 1] + list[n].length
  <2>1. 0 \in 0 .. N /\ \A n \in 1 .. N : n \in 0 .. N /\ n # 0
    BY <1>1
  <2> QED
    BY <1>8, <2>1
<1> DEFINE e == Ends(list)
           S == {n \in Nat : n <= N => e[n] \in Nat}
<1>10. 0 \in S /\ \A n \in Nat : n \in S => n + 1 \in S
  <2>1. e[0] = 0 /\ \A n \in 1 .. N : e[n] = e[n - 1] + list[n].length
    BY <1>9
  <2> HIDE DEF e
  <2>2. ASSUME NEW n \in Nat, n \in S, n + 1 <= N PROVE e[n + 1] \in Nat
    <3>1. n <= N /\ n + 1 \in 1 .. N /\ (n + 1) - 1 = n
      BY <1>1, <2>2
    <3>2. e[n] \in Nat /\ e[n + 1] = e[n] + list[n + 1].length
      BY <2>1, <2>2, <3>1
    <3> QED
      BY <1>1, <3>1, <3>2
  <2> QED
    BY <2>1, <2>2
<1>11. Nat \subseteq S
  <2> HIDE DEF S
  <2> QED
    BY <1>10, Induction
<1>12. \A n \in 0 .. N : e[n] \in Nat
  BY <1>1, <1>11
<1> QED
  BY <1>9, <1>12 DEF N

(* No message ends before one that is in front of it, and none of the      *)
(* first n is longer than they are together.                               *)
LEMMA EndsGrow ==
  ASSUME NEW M, \A m \in M : m.length \in Nat,
         NEW list \in Seq(M), NEW n \in 0 .. Len(list)
  PROVE  /\ \A k \in 0 .. n : Ends(list)[k] <= Ends(list)[n]
         /\ \A i \in 1 .. n : list[i].length <= Ends(list)[n]
<1> DEFINE N == Len(list)
           e == Ends(list)
           S == {m \in Nat : m <= N => \A k \in 0 .. m : e[k] <= e[m]}
<1>1. N \in Nat /\ \A i \in 1 .. N : list[i].length \in Nat
  OBVIOUS
<1>2. /\ \A i \in 0 .. N : e[i] \in Nat
      /\ \A i \in 1 .. N : e[i] = e[i - 1] + list[i].length
  BY EndsDefined
<1> HIDE DEF N, e
<1>3. 0 \in S
  <2>1. \A k \in 0 .. 0 : k = 0 /\ k \in 0 .. N
    BY <1>1
  <2>2. e[0] \in Nat
    BY <1>1, <1>2
  <2>3. \A k \in 0 .. 0 : e[k] <= e[0]
    BY <2>1, <2>2
  <2> QED
    BY <2>3
<1>4. ASSUME NEW m \in Nat, m \in S, m + 1 <= N, NEW k \in 0 .. (m + 1)
      PROVE  e[k] <= e[m + 1]
  <2>1. m \in 0 .. N /\ m + 1 \in 1 .. N /\ m + 1 \in 0 .. N /\ (m + 1) - 1 = m
    BY <1>1, <1>4
  <2>2. e[m] \in Nat /\ e[m + 1] \in Nat /\ e[m] <= e[m + 1]
    <3>1. e[m + 1] = e[m] + list[m + 1].length
      BY <1>2, <2>1
    <3>2. list[m + 1].length \in Nat
      BY <1>1, <2>1
    <3>3. e[m] \in Nat
      BY <1>2, <2>1
    <3> QED
      BY <3>1, <3>2, <3>3
  <2>3. CASE k = m + 1
    BY <2>2, <2>3
  <2>4. CASE k # m + 1
    <3>1. k \in 0 .. m /\ k \in 0 .. N
      BY <1>1, <1>4, <2>1, <2>4
    <3>2. e[k] <= e[m] /\ e[k] \in Nat
      BY <1>2, <1>4, <2>1, <3>1
    <3> QED
      BY <2>2, <3>2
  <2> QED
    BY <2>3, <2>4
<1>5. \A m \in Nat : m \in S => m + 1 \in S
  BY <1>4
<1>6. n \in S
  <2>1. n \in Nat
    BY <1>1 DEF N
  <2> HIDE DEF S
  <2> QED
    BY <1>3, <1>5, <2>1, Induction
<1>7. n \in Nat /\ N \in Nat /\ n <= N
  BY <1>1 DEF N
<1>8. \A k \in 0 .. n : e[k] <= e[n]
  BY <1>6, <1>7
<1>9. ASSUME NEW i \in 1 .. n PROVE list[i].length <= e[n]
  <2>1. i \in 1 .. N /\ i - 1 \in 0 .. N /\ i \in 0 .. n /\ i \in 0 .. N /\ n \in 0 .. N
    BY <1>7
  <2>2. e[i] = e[i - 1] + list[i].length /\ e[i - 1] \in Nat /\ e[i] \in Nat /\ e[n] \in Nat
    BY <1>2, <2>1
  <2>3. e[i] <= e[n]
    BY <1>8, <2>1
  <2>4. list[i].length \in Nat
    BY <1>1, <2>1
  <2> QED
    BY <2>2, <2>3, <2>4
<1> QED
  BY <1>8, <1>9 DEF e

LEMMA MessageLengths ==
  ASSUME NEW m \in Message
  PROVE  /\ m.length \in Nat /\ m.length <= 2 * MaxPacket
         /\ m.msgType \in Nat
         /\ m.countOrSize \in Nat /\ m.countOrSize <= MaxByte
         /\ m.rejections \subseteq Rejection
BY SizesAssumption DEF Message

(* What the proofs below use of it.                                        *)
LEMMA EndsOfMessages ==
  ASSUME NEW list \in Seq(Message)
  PROVE  /\ Len(list) \in Nat
         /\ \A n \in 0 .. Len(list) : Ends(list)[n] \in Nat
         /\ Ends(list)[0] = 0
         /\ \A n \in 1 .. Len(list) : Ends(list)[n] = Ends(list)[n - 1] + list[n].length
         /\ \A n \in 1 .. Len(list) : list[n] \in Message /\ list[n].length \in Nat
         /\ \A k, n \in 0 .. Len(list) : k <= n => Ends(list)[k] <= Ends(list)[n]
         /\ \A n \in 0 .. Len(list) : \A i \in 1 .. n : list[i].length <= Ends(list)[n]
<1>1. \A m \in Message : m.length \in Nat
  BY MessageLengths
<1>2. Len(list) \in Nat
  OBVIOUS
<1>3. /\ \A n \in 0 .. Len(list) : Ends(list)[n] \in Nat
      /\ Ends(list)[0] = 0
      /\ \A n \in 1 .. Len(list) : Ends(list)[n] = Ends(list)[n - 1] + list[n].length
  BY <1>1, EndsDefined
<1>4. ASSUME NEW k \in 0 .. Len(list), NEW n \in 0 .. Len(list), k <= n
      PROVE  Ends(list)[k] <= Ends(list)[n]
  <2>1. k \in 0 .. n
    BY <1>2, <1>4
  <2> QED
    BY <1>1, <2>1, EndsGrow
<1>5. \A n \in 0 .. Len(list) : \A i \in 1 .. n : list[i].length <= Ends(list)[n]
  BY <1>1, EndsGrow
<1>6. \A n \in 1 .. Len(list) : list[n] \in Message /\ list[n].length \in Nat
  BY <1>1
<1> QED
  BY <1>2, <1>3, <1>4, <1>5, <1>6
-----------------------------------------------------------------------------
(* The validators of a message and what it is to be well-formed.           *)
Acceptable(m) == IF isRequest THEN MayBeAsked(m) ELSE MayBeAnswered(m)

LEMMA Rejections ==
  ASSUME NEW r \in Rejection
  PROVE  ValidRejection(r) <=> /\ r.msgType \in {ip4peers, ip6peers} \cup ip6peers .. 10
                               /\ r.reason \in 0 .. 3
BY DEF Rejection, ValidRejection, ip4peers, ip6peers, entropy, request_msg_min,
       nrpd_msg_type_max, nrpd_reject_reason_max

LEMMA Validated ==
  ASSUME NEW m \in Message, isRequest \in BOOLEAN
  PROVE  /\ ValidateMessageHeader(m) <=> /\ m.length < MaxPacket
                                         /\ Acceptable(m) \/ StaysPut(m)
         /\ Acceptable(m) => m.length > 0
<1> USE DEF request_msg_min, response_msg_min, reject, ip4peers, entropy, ip6peers,
            MessageHeader, ValidateMessageSize, RejectSize, PeerSize, ContentSize
<1>1. /\ m.length \in Nat /\ m.msgType \in Nat
      /\ m.countOrSize \in Nat /\ m.countOrSize <= MaxByte /\ MaxByte \in Nat
  BY MessageLengths, SizesAssumption
<1>2. CASE isRequest
  <2>1. (m.msgType = 3) => ~ValidateMessageHeader(m) /\ ~Acceptable(m) /\ ~StaysPut(m)
    BY <1>1, <1>2 DEF ValidateMessageHeader, Acceptable, MayBeAsked, StaysPut
  <2>2. m.msgType \in {4, 5, 6} => (ValidateMessageHeader(m) <=> m.length < MaxPacket /\ m.length - 4 = m.countOrSize * 0)
    BY <1>1, <1>2 DEF ValidateMessageHeader
  <2>3. m.msgType \in {4, 5, 6} => (Acceptable(m) <=> m.length = 4) /\ ~StaysPut(m)
    BY <1>1, <1>2 DEF Acceptable, MayBeAsked, StaysPut
  <2>4. m.msgType \notin {3, 4, 5, 6} =>
          (ValidateMessageHeader(m) <=> m.length < MaxPacket /\ m.msgType >= 4)
    BY <1>1, <1>2 DEF ValidateMessageHeader
  <2>5. m.msgType \notin {3, 4, 5, 6} =>
          /\ Acceptable(m) <=> m.msgType >= 4 /\ m.length > 0
          /\ StaysPut(m) <=> m.msgType >= 4 /\ m.length = 0
    BY <1>1, <1>2 DEF Acceptable, MayBeAsked, StaysPut
  <2>6. m.countOrSize * 0 = 0
    BY <1>1
  <2> QED
    BY <1>1, <2>1, <2>2, <2>3, <2>4, <2>5, <2>6
<1>3. CASE ~isRequest
  <2> SUFFICES ValidateMessageHeader(m) <=> m.length < MaxPacket /\ Acceptable(m)
    <3>1. Acceptable(m) => m.length > 0
      BY <1>1, <1>3 DEF Acceptable, MayBeAnswered
    <3> QED
      BY <1>3, <3>1 DEF StaysPut
  <2>1. CASE m.msgType = 3
    <3>1. ValidateMessageHeader(m) <=>
            m.length < MaxPacket /\ m.length - 4 = m.countOrSize * 2 /\ ValidateRejectMessage(m)
      BY <1>1, <1>3, <2>1 DEF ValidateMessageHeader
    <3>2. m.length - 4 = m.countOrSize * 2 => (m.length - 4) % 2 = 0 /\ m.length <= 4 + MaxByte * 2
      BY <1>1
    <3>3. (\A r \in m.rejections : ValidRejection(r)) <=>
             \A r \in m.rejections :
               r.msgType \in {ip4peers, ip6peers} \cup ip6peers .. 10 /\ r.reason \in 0 .. 3
      BY Rejections, MessageLengths
    <3>4. m.length - 4 = m.countOrSize * 2 =>
            (ValidateRejectMessage(m) <=> /\ m.countOrSize # 0
                                          /\ \A r \in m.rejections : ValidRejection(r))
      BY <2>1, <3>2 DEF ValidateRejectMessage
    <3>5. Acceptable(m) <=>
            /\ m.countOrSize > 0
            /\ m.length = 4 + 2 * m.countOrSize
            /\ \A r \in m.rejections :
                 r.msgType \in {ip4peers, ip6peers} \cup ip6peers .. 10 /\ r.reason \in 0 .. 3
      BY <1>3, <2>1 DEF Acceptable, MayBeAnswered
    <3>6. /\ m.length = 4 + 2 * m.countOrSize <=> m.length - 4 = m.countOrSize * 2
          /\ m.countOrSize > 0 <=> m.countOrSize # 0
      BY <1>1
    <3> QED
      BY <3>1, <3>3, <3>4, <3>5, <3>6, Zenon
  <2>2. CASE m.msgType = 5
    BY <1>1, <1>3, <2>2 DEF ValidateMessageHeader, Acceptable, MayBeAnswered
  <2>3. CASE m.msgType = 4
    BY <1>1, <1>3, <2>3 DEF ValidateMessageHeader, Acceptable, MayBeAnswered
  <2>4. CASE m.msgType = 6
    BY <1>1, <1>3, <2>4 DEF ValidateMessageHeader, Acceptable, MayBeAnswered
  <2>5. CASE m.msgType \notin {3, 4, 5, 6}
    BY <1>3, <2>5 DEF ValidateMessageHeader, Acceptable, MayBeAnswered
  <2> QED
    BY <2>1, <2>2, <2>3, <2>4, <2>5
<1> QED
  BY <1>2, <1>3
-----------------------------------------------------------------------------
(* The invariant: only the last message leads no further, ...              *)
ListInv ==
  /\ Len(messages) <= MaxByte
  /\ \A i \in 1 .. Len(messages) - 1 : messages[i].length > 0

(* ... what is built so far and what was sent, ...                         *)
BuildInv ==
  phase = "building" /\ origin = "generators" =>
    IF isRequest THEN messages = <<>>
    ELSE \A i \in 1 .. Len(messages) :
           /\ MayBeAnswered(messages[i]) /\ messages[i].length > 0
           /\ messages[i].rejections = {}

SentInv ==
  phase # "building" =>
    /\ Endless \/ head.length <= PacketHeader + TotalLength(messages)
    /\ origin = "generators" => (WellFormed <=> ~RejectsUnknown)

(* ... where the walks are: after the messages that they passed, of which  *)
(* there may be fewer than they count, ...                                 *)
Passed == IF msgCount <= Len(messages) THEN msgCount ELSE Len(messages)
WalkInv ==
  phase \in {"checking", "parsing"} =>
    /\ pos = PacketHeader + Ends(messages)[Passed]
    /\ msgCount > Len(messages) => Endless

(* ... what the first has seen: messages that are acceptable, if they lead *)
(* anywhere, and the last of which began inside the packet.                *)
CheckInv ==
  phase = "checking" =>
    /\ ValidatePacketHeader
    /\ \A i \in 1 .. Passed : messages[i].length > 0 => Acceptable(messages[i])
    /\ Passed > 0 => PacketHeader + Ends(messages)[Passed - 1] < head.length

(* ... and how the second one is bounded, and what it was begun for.       *)
ParseInv ==
  /\ phase = "parsing" => msgCount <= head.msgCount
  /\ phase = "parsed" => WellFormed

ProtocolInv ==
  TypeOK /\ ListInv /\ BuildInv /\ SentInv /\ WalkInv /\ CheckInv /\ ParseInv
    /\ AcceptsTheWellFormed /\ ParsedIsWhatWasChecked

LEMMA InvInit == Init => ProtocolInv
<1> SUFFICES ASSUME Init PROVE ProtocolInv
  OBVIOUS
<1>1. messages \in Seq(Message) /\ Len(messages) = 0
  BY DEF Init
<1>2. TypeOK
  BY <1>1, SizesAssumption DEF Init, TypeOK, NoHeader, Header, nrpd_msg_type_max, ManyMessages
<1>3. BuildInv /\ ListInv
  BY <1>1, SizesAssumption DEF Init, BuildInv, ListInv
<1> QED
  BY <1>2, <1>3 DEF Init, ProtocolInv, SentInv, WalkInv, CheckInv, ParseInv,
                    AcceptsTheWellFormed, ParsedIsWhatWasChecked
-----------------------------------------------------------------------------
(* The generators.                                                         *)

(* A packet that claims no more bytes than there are, and that is          *)
(* well-formed if a generator built it, is a good start.                   *)
LEMMA InvSent ==
  ASSUME ProtocolInv, phase = "building", phase' = "received",
         UNCHANGED <<origin, isRequest, pos, msgCount>>,
         messages' \in Seq(Message), ListInv', head' \in Header,
         Endless' \/ head'.length <= PacketHeader + TotalLength(messages'),
         origin = "generators" => (WellFormed' <=> ~RejectsUnknown')
  PROVE  ProtocolInv'
<1>1. TypeOK'
  BY DEF ProtocolInv, TypeOK
<1>2. SentInv'
  BY DEF SentInv
<1> QED
  BY <1>1, <1>2 DEF ProtocolInv, BuildInv, WalkInv, CheckInv, ParseInv,
                    AcceptsTheWellFormed, ParsedIsWhatWasChecked

LEMMA InvAdded ==
  ASSUME ProtocolInv, phase = "building", NEW m \in Message, ~Endless,
         Len(messages) < MaxMessages, messages' = Append(messages, m),
         UNCHANGED <<origin, isRequest, head, phase, pos, msgCount>>,
         origin = "generators" =>
           ~isRequest /\ MayBeAnswered(m) /\ m.length > 0 /\ m.rejections = {}
  PROVE  ProtocolInv'
<1>1. messages \in Seq(Message)
  BY DEF ProtocolInv, TypeOK
<1>2. /\ messages' \in Seq(Message) /\ Len(messages') = Len(messages) + 1
      /\ Len(messages) \in Nat
      /\ \A i \in 1 .. Len(messages') :
           messages'[i] = IF i = Len(messages') THEN m ELSE messages[i]
      /\ \A i \in 1 .. Len(messages') : i = Len(messages') \/ i \in 1 .. Len(messages)
  BY <1>1
<1>3. TypeOK'
  BY <1>1, <1>2 DEF ProtocolInv, TypeOK
<1>4. ListInv'
  <2>1. Len(messages') <= MaxByte
    BY <1>1, <1>2, SizesAssumption
  <2>2. ASSUME NEW i \in 1 .. Len(messages') - 1 PROVE messages'[i].length > 0
    <3>1. /\ i \in 1 .. Len(messages) /\ messages'[i] = messages[i]
          /\ i = Len(messages) \/ i \in 1 .. Len(messages) - 1
      BY <1>2
    <3>2. messages[i].length \in Nat
      BY <1>1, <3>1, EndsOfMessages
    <3>3. CASE i = Len(messages)
      <4>1. messages # <<>>
        BY <1>1, <3>1
      <4> QED
        BY <3>1, <3>2, <3>3, <4>1 DEF Endless
    <3>4. CASE i \in 1 .. Len(messages) - 1
      BY <3>1, <3>4 DEF ProtocolInv, ListInv
    <3> QED
      BY <3>1, <3>3, <3>4
  <2> QED
    BY <2>1, <2>2 DEF ListInv
<1>5. ASSUME origin = "generators"
      PROVE  /\ ~isRequest
             /\ \A i \in 1 .. Len(messages') :
                  /\ MayBeAnswered(messages'[i]) /\ messages'[i].length > 0
                  /\ messages'[i].rejections = {}
  <2>1. \A i \in 1 .. Len(messages) :
          /\ MayBeAnswered(messages[i]) /\ messages[i].length > 0
          /\ messages[i].rejections = {}
    BY <1>5 DEF ProtocolInv, BuildInv
  <2> QED
    BY <1>2, <1>5, <2>1
<1>6. BuildInv'
  BY <1>5 DEF BuildInv
<1> QED
  BY <1>3, <1>4, <1>6 DEF ProtocolInv, SentInv, WalkInv, CheckInv, ParseInv,
              AcceptsTheWellFormed, ParsedIsWhatWasChecked

LEMMA InvRequest ==
  ASSUME ProtocolInv, NEW size \in Sizes, NEW key \in BOOLEAN,
         NEW types \in SUBSET {ip4peers, ip6peers}, ConstructRequest(size, key, types)
  PROVE  ProtocolInv'
<1>1. /\ phase = "building" /\ phase' = "received" /\ isRequest /\ origin = "generators"
      /\ UNCHANGED <<origin, isRequest, pos, msgCount>>
      /\ MaxPacket >= MessageHeader * (2 + (IF key THEN 1 ELSE 0) + Cardinality(types))
      /\ head' = GeneratePacketHeader(request, messages')
      /\ messages' = <<GenerateRequestEntropyMessage(size)>>
           \o PeersAsked(ip4peers, types) \o PeersAsked(ip6peers, types)
  BY DEF ConstructRequest, ToBuild, ProtocolInv, TypeOK
<1> DEFINE A == <<GenerateRequestEntropyMessage(size)>>
           B == PeersAsked(ip4peers, types)
           C == PeersAsked(ip6peers, types)
           Asked == {m \in Message : m.length = 4 /\ MayBeAsked(m) /\ m.rejections = {}}
<1>2. A \in Seq(Asked) /\ Len(A) = 1
  <2>1. GenerateRequestEntropyMessage(size) \in Asked
    BY SizesAssumption
       DEF GenerateRequestEntropyMessage, Plain, Message, MessageHeader, PacketHeader,
           MayBeAsked, entropy, ip4peers, ip6peers
  <2> HIDE DEF Asked
  <2> QED
    BY <2>1
<1>3. ASSUME NEW type \in {ip4peers, ip6peers}
      PROVE  /\ PeersAsked(type, types) \in Seq(Asked)
             /\ Len(PeersAsked(type, types)) = IF type \in types THEN 1 ELSE 0
  <2>1. GenerateRequestPeersMessage(type) \in Asked
    BY SizesAssumption
       DEF GenerateRequestPeersMessage, Plain, Message, MessageHeader, PacketHeader,
           MayBeAsked, entropy, ip4peers, ip6peers
  <2> HIDE DEF Asked
  <2> QED
    BY <2>1 DEF PeersAsked
<1>4. /\ B \in Seq(Asked) /\ Len(B) = IF ip4peers \in types THEN 1 ELSE 0
      /\ C \in Seq(Asked) /\ Len(C) = IF ip6peers \in types THEN 1 ELSE 0
  BY <1>3
<1>5. Cardinality(types) = Len(B) + Len(C)
  <2>1. types \in {{}, {ip4peers}, {ip6peers}, {ip4peers, ip6peers}}
    OBVIOUS
  <2>2. /\ Cardinality({}) = 0 /\ Cardinality({ip4peers}) = 1
        /\ Cardinality({ip6peers}) = 1 /\ Cardinality({ip4peers, ip6peers}) = 2
    <3>1. /\ IsFiniteSet({ip4peers}) /\ Cardinality({ip4peers}) = 1
          /\ Cardinality({ip6peers}) = 1
      BY FS_Singleton
    <3>2. Cardinality({}) = 0
      BY FS_EmptySet
    <3>3. ip6peers \notin {ip4peers}
      BY DEF ip4peers, ip6peers
    <3>4. Cardinality({ip4peers} \cup {ip6peers}) = 1 + 1
      BY <3>1, <3>3, FS_AddElement
    <3>5. {ip4peers, ip6peers} = {ip4peers} \cup {ip6peers}
      OBVIOUS
    <3> QED
      BY <3>1, <3>2, <3>4, <3>5
  <2>3. ip4peers # ip6peers
    BY DEF ip4peers, ip6peers
  <2>4. CASE types = {}
    BY <1>4, <2>2, <2>4
  <2>5. CASE types = {ip4peers, ip6peers}
    <3>1. ip4peers \in types /\ ip6peers \in types
      BY <2>5
    <3>2. Cardinality(types) = 2
      BY <2>2, <2>5
    <3> QED
      BY <1>4, <3>1, <3>2
  <2>6. CASE types = {ip4peers}
    BY <1>4, <2>2, <2>3, <2>6
  <2>7. CASE types = {ip6peers}
    BY <1>4, <2>2, <2>3, <2>7
  <2> QED
    BY <2>1, <2>4, <2>5, <2>6, <2>7
<1> HIDE DEF A, B, C
<1>6. /\ messages' \in Seq(Asked)
      /\ Len(messages') = 1 + Len(B) + Len(C)
  <2> HIDE DEF Asked
  <2>1. messages' = (A \o B) \o C
    BY <1>1 DEF A, B, C
  <2>2. A \o B \in Seq(Asked) /\ Len(A \o B) = Len(A) + Len(B)
    BY <1>2, <1>4, ConcatProperties
  <2>3. (A \o B) \o C \in Seq(Asked) /\ Len((A \o B) \o C) = Len(A \o B) + Len(C)
    BY <1>4, <2>2, ConcatProperties
  <2> QED
    BY <1>2, <2>1, <2>2, <2>3
<1>7. /\ messages' \in Seq(Message) /\ Len(messages') \in 1 .. 3
      /\ \A i \in 1 .. Len(messages') :
           /\ messages'[i].length = 4 /\ MayBeAsked(messages'[i])
           /\ messages'[i].rejections = {}
  BY <1>4, <1>6
<1>8. TotalLength(messages') = 4 * Len(messages')
  <2> DEFINE e == Ends(messages')
  <2>1. e[0] = 0 /\ \A n \in 1 .. Len(messages') : e[n] = e[n - 1] + messages'[n].length
    BY <1>7, EndsOfMessages
  <2>2. \A n \in 1 .. Len(messages') : messages'[n].length = 4
    BY <1>7
  <2> HIDE DEF e
  <2>3. e[1] = 4
    BY <1>7, <2>1, <2>2
  <2>4. Len(messages') > 1 => e[2] = 8
    BY <1>7, <2>1, <2>2, <2>3
  <2>5. Len(messages') > 2 => e[3] = 12
    BY <1>7, <2>1, <2>2, <2>4
  <2>6. \A n \in 1 .. 3 : n <= Len(messages') => e[n] = 4 * n
    BY <1>7, <2>3, <2>4, <2>5
  <2>7. Len(messages') \in 1 .. 3 /\ Len(messages') <= Len(messages')
    BY <1>7
  <2>8. e[Len(messages')] = 4 * Len(messages')
    BY <2>6, <2>7
  <2> QED
    BY <2>8 DEF TotalLength, e
<1>9. /\ head'.length = 4 + 4 * Len(messages')
      /\ head'.msgType = request /\ head'.msgCount = Len(messages')
      /\ head' = [length |-> 4 + 4 * Len(messages'), msgType |-> request,
                  msgCount |-> Len(messages')]
  BY <1>1, <1>8 DEF GeneratePacketHeader, PacketHeader
<1>10. 4 + 4 * Len(messages') <= MaxPacket
  BY <1>1, <1>4, <1>5, <1>6, SizesAssumption DEF MessageHeader
<1>11. head' \in Header
  BY <1>7, <1>9, <1>10, SizesAssumption DEF Header, request, nrpd_msg_type_max
<1>12. WellFormed'
  <2>1. /\ head'.length <= MaxPacket
        /\ head'.msgCount \in 1 .. Len(messages')
    BY <1>7, <1>9, <1>10
  <2>2. head'.length = PacketHeader + Ends(messages')[head'.msgCount]
    BY <1>8, <1>9 DEF TotalLength, PacketHeader
  <2>3. isRequest' /\ \A i \in 1 .. head'.msgCount : MayBeAsked(messages'[i])
    BY <1>1, <1>7, <1>9
  <2> QED
    BY <1>9, <2>1, <2>2, <2>3 DEF WellFormed
<1>13. ~RejectsUnknown'
  BY <1>7 DEF RejectsUnknown
<1>14. ListInv'
  BY <1>7, SizesAssumption DEF ListInv
<1> QED
  BY <1>1, <1>7, <1>8, <1>9, <1>11, <1>12, <1>13, <1>14, InvSent DEF PacketHeader

LEMMA InvResponse ==
  ASSUME ProtocolInv, NEW n \in Sizes, NEW rejected \in SUBSET Rejectable,
         SendResponse(rejected, n)
  PROVE  ProtocolInv'
<1> DEFINE r == GenerateRejectMessages(rejected, n)
           Plains == {m \in Message : /\ MayBeAnswered(m) /\ m.length > 0
                                      /\ m.rejections = {}}
           Unknown == \E t \in rejected : t >= 11
<1>1. /\ phase = "building" /\ phase' = "received" /\ ~isRequest /\ origin = "generators"
      /\ UNCHANGED <<origin, isRequest, pos, msgCount>>
      /\ messages' = IF n = 0 THEN messages ELSE <<r>> \o messages
      /\ Len(messages') \in 1 .. MaxMessages
      /\ PacketHeader + TotalLength(messages') <= MaxPacket
      /\ head' = GeneratePacketHeader(response, messages')
      /\ n = 0 => rejected = {}
  BY DEF SendResponse, ToBuild, ProtocolInv, TypeOK
<1>2. /\ messages \in Seq(Message) /\ Len(messages) \in Nat
      /\ \A i \in 1 .. Len(messages) : messages[i] \in Plains
  <2>1. messages \in Seq(Message) /\ Len(messages) \in Nat
    BY DEF ProtocolInv, TypeOK
  <2>2. \A i \in 1 .. Len(messages) : messages[i] \in Message
    BY <2>1
  <2>3. \A i \in 1 .. Len(messages) :
          /\ MayBeAnswered(messages[i]) /\ messages[i].length > 0
          /\ messages[i].rejections = {}
    BY <1>1 DEF ProtocolInv, BuildInv
  <2> QED
    BY <2>1, <2>2, <2>3
<1>3. n \in Nat /\ n <= MaxByte
  BY SizesAssumption
<1>4. /\ r.length = 4 + 2 * n /\ r.msgType = reject /\ r.countOrSize = n
      /\ r = [length |-> 4 + 2 * n, msgType |-> reject, countOrSize |-> n,
              rejections |-> [msgType : rejected, reason : {unsupported}]]
  BY DEF GenerateRejectMessages, MessageHeader, RejectSize
<1>5. /\ r.rejections \subseteq Rejection
      /\ \A x \in r.rejections : /\ x.msgType \in rejected
                                 /\ x.msgType \in {ip4peers} \cup ip6peers .. 11
                                 /\ x.reason \in 0 .. 3
      /\ \A t \in rejected : \E x \in r.rejections : x.msgType = t
  <2> DEFINE R == [msgType : rejected, reason : {unsupported}]
  <2>1. r = [length |-> 4 + 2 * n, msgType |-> reject, countOrSize |-> n, rejections |-> R]
    BY <1>4
  <2>2. ASSUME NEW x \in R
        PROVE  /\ x \in Rejection /\ x.msgType \in rejected
               /\ x.msgType \in {ip4peers} \cup ip6peers .. 11 /\ x.reason \in 0 .. 3
    <3>1. x = [msgType |-> x.msgType, reason |-> x.reason]
      OBVIOUS
    <3>2. x.msgType \in rejected /\ x.reason = unsupported
      OBVIOUS
    <3>3. x.msgType \in {ip4peers} \cup ip6peers .. 11
      BY <3>2 DEF Rejectable, nrpd_msg_type_max
    <3>4. x.msgType \in Nat /\ x.reason \in Nat /\ x.reason \in 0 .. 3
      BY <3>2, <3>3 DEF ip4peers, ip6peers, unsupported
    <3> QED
      BY <3>1, <3>2, <3>3, <3>4 DEF Rejection
  <2>3. ASSUME NEW t \in rejected PROVE \E x \in R : x.msgType = t
    <3>1. [msgType |-> t, reason |-> unsupported] \in R
      OBVIOUS
    <3> QED
      BY <3>1
  <2> HIDE DEF r, R
  <2>4. r.rejections = R
    BY <2>1
  <2> QED
    BY <2>2, <2>3, <2>4
<1> HIDE DEF r
(* The rejections come first, and the answers behind them.                 *)
<1>6. ASSUME n # 0
      PROVE  /\ messages' \in Seq(Message) /\ Len(messages') = Len(messages) + 1
             /\ messages'[1] = r
             /\ \A i \in 1 .. Len(messages') : i # 1 => messages'[i] \in Plains
             /\ r \in Message
  <2> HIDE DEF Plains
  <2> DEFINE M == Message \cup {r}
  <2>1. \A m \in M : m.length \in Nat
    <3>1. r.length \in Nat
      BY <1>3, <1>4
    <3> QED
      BY <3>1, MessageLengths
  <2>2. messages \in Seq(M) /\ <<r>> \in Seq(M)
    BY <1>2
  <2> HIDE DEF M
  <2>3. /\ messages' \in Seq(M) /\ messages' = <<r>> \o messages
        /\ Len(messages') = 1 + Len(messages)
    BY <1>1, <1>6, <2>2, ConcatProperties
  <2>4. /\ messages'[1] = r
        /\ \A i \in 1 .. Len(messages') : i # 1 => /\ i - 1 \in 1 .. Len(messages)
                                                   /\ messages'[i] = messages[i - 1]
    BY <1>2, <2>3
  <2>5. Len(messages') \in 0 .. Len(messages') /\ 1 \in 1 .. Len(messages')
    BY <1>1, SizesAssumption
  <2>6. r.length <= TotalLength(messages') /\ TotalLength(messages') \in Nat
    <3>1. messages'[1].length <= Ends(messages')[Len(messages')]
      BY <2>1, <2>3, <2>5, EndsGrow
    <3>2. Ends(messages')[Len(messages')] \in Nat
      BY <2>1, <2>3, <2>5, EndsDefined
    <3> QED
      BY <2>4, <3>1, <3>2 DEF TotalLength
  <2>7. r \in Message
    <3>1. 4 + 2 * n \in 0 .. 2 * MaxPacket
      <4>1. 4 + TotalLength(messages') <= MaxPacket /\ MaxPacket \in Nat
        BY <1>1, SizesAssumption DEF PacketHeader
      <4>2. 4 + 2 * n <= TotalLength(messages') /\ TotalLength(messages') \in Nat
        BY <1>4, <2>6
      <4> QED
        BY <1>3, <4>1, <4>2
    <3> QED
      BY <1>3, <1>4, <1>5, <3>1, SizesAssumption DEF Message, reject
  <2>8. messages' \in Seq(Message)
    BY <2>3, <2>7 DEF M
  <2> QED
    BY <1>2, <2>3, <2>4, <2>7, <2>8
<1>7. r.length > 0 /\ (n # 0 /\ ~Unknown => MayBeAnswered(r))
  <2>1. r.length > 0
    BY <1>3, <1>4
  <2>2. ASSUME n # 0, ~Unknown PROVE MayBeAnswered(r)
    <3>1. ASSUME NEW x \in r.rejections
          PROVE  x.msgType \in {ip4peers, ip6peers} \cup ip6peers .. 10 /\ x.reason \in 0 .. 3
      BY <1>5, <2>2, <3>1 DEF ip4peers, ip6peers
    <3> QED
      BY <1>3, <1>4, <2>2, <3>1 DEF MayBeAnswered, MessageHeader, RejectSize
  <2> QED
    BY <2>1, <2>2
<1>8. /\ messages' \in Seq(Message)
      /\ \A i \in 1 .. Len(messages') : messages'[i].length > 0
      /\ ~Unknown => \A i \in 1 .. Len(messages') : MayBeAnswered(messages'[i])
  <2>1. CASE n = 0
    BY <1>1, <1>2, <2>1
  <2>2. CASE n # 0
    <3>1. \A i \in 1 .. Len(messages') : i = 1 \/ messages'[i] \in Plains
      BY <1>6, <2>2
    <3> QED
      BY <1>6, <1>7, <2>2, <3>1
  <2> QED
    BY <2>1, <2>2
<1>9. TotalLength(messages') \in Nat
  <2>1. Len(messages') \in 0 .. Len(messages')
    BY <1>1, SizesAssumption
  <2> QED
    BY <1>8, <2>1, EndsOfMessages DEF TotalLength
<1>10. /\ head' = [length |-> 4 + TotalLength(messages'), msgType |-> response,
                   msgCount |-> Len(messages')]
       /\ head'.length = 4 + TotalLength(messages')
       /\ head'.msgType = response /\ head'.msgCount = Len(messages')
  BY <1>1 DEF GeneratePacketHeader, PacketHeader
<1>11. head' \in Header
  BY <1>1, <1>9, <1>10, SizesAssumption DEF Header, response, nrpd_msg_type_max, PacketHeader
<1>12. ASSUME ~Unknown PROVE WellFormed' /\ ~RejectsUnknown'
  <2>1. head'.length <= MaxPacket /\ head'.msgCount \in 1 .. Len(messages')
    BY <1>1, <1>10, SizesAssumption DEF PacketHeader
  <2>2. head'.length = PacketHeader + Ends(messages')[head'.msgCount]
    BY <1>10 DEF TotalLength, PacketHeader
  <2>3. ~isRequest' /\ \A i \in 1 .. head'.msgCount : MayBeAnswered(messages'[i])
    BY <1>1, <1>8, <1>10, <1>12
  <2>4. WellFormed'
    BY <1>10, <2>1, <2>2, <2>3 DEF WellFormed
  <2>5. ASSUME NEW i \in 1 .. Len(messages'), NEW x \in messages'[i].rejections
        PROVE  ~(x.msgType >= 11)
    <3>1. CASE n = 0
      BY <1>1, <1>2, <2>5, <3>1
    <3>2. CASE n # 0
      <4>1. i = 1
        BY <1>6, <2>5, <3>2
      <4>2. x.msgType \in rejected
        BY <1>5, <1>6, <2>5, <3>2, <4>1
      <4> QED
        BY <1>12, <4>2
    <3> QED
      BY <3>1, <3>2
  <2>6. ~RejectsUnknown'
    BY <2>5 DEF RejectsUnknown, nrpd_msg_type_max
  <2> QED
    BY <2>4, <2>6
<1>13. ASSUME Unknown PROVE ~WellFormed' /\ RejectsUnknown'
  <2>1. PICK t \in rejected : t >= 11
    BY <1>13
  <2>2. PICK x \in r.rejections : x.msgType = t
    BY <1>5, <2>1
  <2>3. n # 0 /\ messages'[1] = r /\ 1 \in 1 .. Len(messages') /\ head'.msgCount = Len(messages')
    BY <1>1, <1>6, <1>10, <2>1, SizesAssumption
  <2>4. RejectsUnknown'
    BY <2>1, <2>2, <2>3 DEF RejectsUnknown, nrpd_msg_type_max
  <2>5. ~MayBeAnswered(r)
    <3>1. t \notin {ip4peers, ip6peers} \cup ip6peers .. 10
      BY <2>1 DEF ip4peers, ip6peers
    <3> QED
      BY <1>4, <2>2, <3>1 DEF MayBeAnswered, reject, entropy, ip4peers, ip6peers
  <2>6. ~WellFormed'
    BY <1>1, <2>3, <2>5 DEF WellFormed
  <2> QED
    BY <2>4, <2>6
<1>14. head'.length <= PacketHeader + TotalLength(messages')
  BY <1>9, <1>10 DEF PacketHeader
<1>15. ListInv'
  BY <1>1, <1>8, SizesAssumption DEF ListInv
<1> HIDE DEF Unknown, Plains
<1> QED
  BY <1>1, <1>8, <1>11, <1>12, <1>13, <1>14, <1>15, InvSent

LEMMA InvBuild == ProtocolInv /\ Build => ProtocolInv'
<1> SUFFICES ASSUME ProtocolInv, Build PROVE ProtocolInv'
  OBVIOUS
<1>1. messages \in Seq(Message) /\ TotalLength(messages) \in Nat
  <2>1. messages \in Seq(Message) /\ Len(messages) \in 0 .. Len(messages)
    BY DEF ProtocolInv, TypeOK
  <2> QED
    BY <2>1, EndsOfMessages DEF TotalLength
<1>2. ASSUME NEW m, Answer(m),
             m \in [length : Nat, msgType : Nat, countOrSize : 0 .. MaxByte,
                    rejections : SUBSET Rejection],
             m.length >= MessageHeader, MayBeAnswered(m), m.rejections = {}
      PROVE  ProtocolInv'
  <2>1. /\ phase = "building" /\ ~isRequest
        /\ PacketHeader + TotalLength(messages) + m.length <= MaxPacket
        /\ Len(messages) < MaxMessages /\ messages' = Append(messages, m)
        /\ UNCHANGED <<origin, isRequest, head, phase, pos, msgCount>>
    BY <1>2 DEF Answer, ToBuild, ProtocolInv, TypeOK
  <2>2. m.length \in 0 .. 2 * MaxPacket /\ m.length > 0
    BY <1>1, <1>2, <2>1, SizesAssumption DEF PacketHeader, MessageHeader
  <2>3. m \in Message
    BY <1>2, <2>2 DEF Message
  <2>4. ~Endless
    <3>1. messages # <<>> => Len(messages) \in 1 .. Len(messages)
      BY <1>1
    <3>2. origin = "generators"
      BY <1>2 DEF Answer, ToBuild
    <3> QED
      BY <2>1, <3>1, <3>2 DEF ProtocolInv, BuildInv, Endless
  <2> QED
    BY <1>2, <2>1, <2>2, <2>3, <2>4, InvAdded
<1>3. ASSUME NEW n \in Sizes, Answer(GenerateResponseEntropyMessage(n))
      PROVE  ProtocolInv'
  <2> DEFINE m == GenerateResponseEntropyMessage(n)
  <2>1. n \in Nat /\ n \in 0 .. MaxByte
    BY SizesAssumption
  <2>2. m = [length |-> 4 + n, msgType |-> entropy, countOrSize |-> n, rejections |-> {}]
    BY DEF GenerateResponseEntropyMessage, Plain, MessageHeader
  <2>3. Answer(m)
    BY <1>3
  <2> HIDE DEF m
  <2>4. m \in [length : Nat, msgType : Nat, countOrSize : 0 .. MaxByte,
               rejections : SUBSET Rejection]
    BY <2>1, <2>2 DEF entropy
  <2>5. m.length >= MessageHeader /\ MayBeAnswered(m) /\ m.rejections = {}
    BY <2>1, <2>2 DEF MayBeAnswered, MessageHeader
  <2> QED
    BY <1>2, <2>3, <2>4, <2>5
<1>4. ASSUME NEW n \in Sizes, NEW type \in {ip4peers, ip6peers},
             Answer(GenerateResponsePeersMessage(type, n))
      PROVE  ProtocolInv'
  <2> DEFINE m == GenerateResponsePeersMessage(type, n)
  <2>1. n \in Nat /\ n \in 0 .. MaxByte
    BY SizesAssumption
  <2>2. PeerSize(type) \in {6, 18} /\ PeerSize(type) * n \in Nat
    BY <2>1 DEF PeerSize
  <2>3. m = [length |-> 4 + PeerSize(type) * n, msgType |-> type, countOrSize |-> n,
             rejections |-> {}]
    BY DEF GenerateResponsePeersMessage, Plain, MessageHeader
  <2>4. Answer(m)
    BY <1>4
  <2> HIDE DEF m
  <2>5. type \in Nat
    BY DEF ip4peers, ip6peers
  <2>6. m \in [length : Nat, msgType : Nat, countOrSize : 0 .. MaxByte,
               rejections : SUBSET Rejection]
    BY <2>1, <2>2, <2>3, <2>5
  <2>7. m.length >= MessageHeader /\ m.rejections = {}
    BY <2>2, <2>3 DEF MessageHeader
  <2>8. MayBeAnswered(m)
    BY <2>3 DEF MayBeAnswered, MessageHeader
  <2> QED
    BY <1>2, <2>4, <2>6, <2>7, <2>8
<1>5. ASSUME NEW m \in AnyMessage, AddAnyMessage(m) PROVE ProtocolInv'
  <2>1. m \in Message /\ phase = "building" /\ origin # "generators" /\ ~Endless
        /\ Len(messages) < MaxMessages /\ messages' = Append(messages, m)
        /\ UNCHANGED <<origin, isRequest, head, phase, pos, msgCount>>
    BY <1>5, MessagesAssumption DEF AddAnyMessage
  <2> QED
    BY <2>1, InvAdded
<1>6. ASSUME NEW length \in AnyLength, NEW type \in {request, response},
             NEW number \in 0 .. MaxByte, SendAnything(length, type, number)
      PROVE  ProtocolInv'
  <2>1. /\ phase = "building" /\ phase' = "received" /\ origin # "generators"
        /\ UNCHANGED <<origin, isRequest, messages, pos, msgCount>>
        /\ Endless \/ PacketHeader + TotalLength(messages) >= length
        /\ head' = [length |-> length, msgType |-> type, msgCount |-> number]
    BY <1>6 DEF SendAnything
  <2>2. length \in 0 .. 2 * MaxPacket /\ type \in 0 .. nrpd_msg_type_max
    BY SizesAssumption DEF request, response, nrpd_msg_type_max
  <2>3. head' \in Header /\ head'.length = length
    BY <2>1, <2>2 DEF Header
  <2>4. Endless' \/ head'.length <= PacketHeader + TotalLength(messages')
    <3>1. Endless' = Endless /\ messages' = messages
      BY <2>1 DEF Endless
    <3> QED
      BY <1>1, <2>1, <2>2, <2>3, <3>1, SizesAssumption DEF PacketHeader
  <2>5. messages' \in Seq(Message) /\ ListInv'
    BY <1>1, <2>1 DEF ProtocolInv, ListInv
  <2> QED
    BY <2>1, <2>3, <2>4, <2>5, InvSent
<1> QED
  BY <1>3, <1>4, <1>5, <1>6, InvRequest, InvResponse DEF Build
-----------------------------------------------------------------------------
(* The walks.  None of them changes the packet.                            *)
LEMMA SamePacket ==
  ASSUME ProtocolInv, UNCHANGED built
  PROVE  /\ WellFormed' = WellFormed /\ ValidatePacketHeader' = ValidatePacketHeader
         /\ RejectsUnknown' = RejectsUnknown /\ Endless' = Endless /\ ListInv'
         /\ messages \in Seq(Message) /\ Len(messages) \in Nat
         /\ head \in Header /\ isRequest \in BOOLEAN
         /\ msgCount \in Nat /\ msgCount <= ManyMessages /\ pos \in Nat
         /\ \A m : Acceptable(m)' = Acceptable(m)
         /\ \A m : StaysPut(m)' = StaysPut(m)
         /\ origin' = origin /\ isRequest' = isRequest /\ messages' = messages /\ head' = head
<1>1. origin' = origin /\ isRequest' = isRequest /\ messages' = messages /\ head' = head
  BY DEF built
<1>2. /\ messages \in Seq(Message) /\ head \in Header /\ isRequest \in BOOLEAN
      /\ msgCount \in Nat /\ msgCount <= ManyMessages /\ pos \in Nat
  BY SizesAssumption DEF ProtocolInv, TypeOK, ManyMessages
<1>3. WellFormed' = WellFormed
  BY <1>1 DEF WellFormed
<1>4. ValidatePacketHeader' = ValidatePacketHeader
  BY <1>1 DEF ValidatePacketHeader
<1>5. \A m : Acceptable(m)' = Acceptable(m) /\ StaysPut(m)' = StaysPut(m)
  BY <1>1 DEF Acceptable, StaysPut
<1>6. RejectsUnknown' = RejectsUnknown /\ Endless' = Endless /\ ListInv'
  BY <1>1 DEF RejectsUnknown, Endless, ListInv, ProtocolInv
<1> QED
  BY <1>1, <1>2, <1>3, <1>4, <1>5, <1>6

(* What a walk keeps because it changes nothing of the packet.             *)
LEMMA SentStays ==
  ASSUME ProtocolInv, UNCHANGED built, phase # "building", phase' # "building"
  PROVE  ListInv' /\ BuildInv' /\ SentInv'
<1>1. SentInv'
  <2>1. /\ WellFormed' = WellFormed /\ RejectsUnknown' = RejectsUnknown
        /\ Endless' = Endless
        /\ origin' = origin /\ messages' = messages /\ head' = head
    BY SamePacket
  <2> QED
    BY <2>1 DEF ProtocolInv, SentInv
<1> QED
  BY <1>1, SamePacket DEF BuildInv

(* The messages of a well-formed packet lead on, each to the next one.     *)
LEMMA WellFormedLengths ==
  ASSUME ProtocolInv, WellFormed
  PROVE  /\ head.msgCount \in Nat /\ head.msgCount \in 1 .. Len(messages)
         /\ head.length = PacketHeader + Ends(messages)[head.msgCount]
         /\ head.length <= MaxPacket
         /\ \A i \in 1 .. head.msgCount : Acceptable(messages[i]) /\ messages[i].length > 0
<1>1. /\ head.msgCount \in 1 .. Len(messages) /\ Len(messages) \in Nat
      /\ messages \in Seq(Message) /\ isRequest \in BOOLEAN
  BY DEF WellFormed, ProtocolInv, TypeOK
<1>2. ASSUME NEW i \in 1 .. head.msgCount
      PROVE  Acceptable(messages[i]) /\ messages[i].length > 0
  <2>1. Acceptable(messages[i])
    BY DEF WellFormed, Acceptable
  <2>2. messages[i] \in Message
    BY <1>1
  <2> QED
    BY <1>1, <2>1, <2>2, Validated
<1> QED
  BY <1>1, <1>2 DEF WellFormed

(* A walk over a well-formed packet is before its end where it has passed  *)
(* less messages than are in it.                                           *)
LEMMA WhereWalkStands ==
  ASSUME ProtocolInv, phase \in {"checking", "parsing"}, WellFormed
  PROVE  /\ pos < head.length <=> msgCount < head.msgCount
         /\ msgCount = head.msgCount => pos = head.length
<1> DEFINE e == Ends(messages)
           c == head.msgCount
           p == Passed
           N == Len(messages)
<1>1. /\ pos = 4 + e[p] /\ head.length = 4 + e[c]
      /\ c \in 1 .. N /\ c - 1 \in 0 .. N /\ c \in 0 .. N /\ N \in Nat /\ msgCount \in Nat
      /\ messages[c].length > 0
  <2>1. pos = 4 + e[p] /\ msgCount \in Nat
    BY SizesAssumption DEF ProtocolInv, WalkInv, TypeOK, PacketHeader, ManyMessages
  <2>2. c \in 1 .. N /\ N \in Nat /\ head.length = 4 + e[c] /\ messages[c].length > 0
    BY WellFormedLengths DEF ProtocolInv, TypeOK, PacketHeader
  <2> QED
    BY <2>1, <2>2
<1>2. /\ p \in Nat /\ p \in 0 .. N /\ c \in Nat
      /\ msgCount < c <=> p < c
      /\ msgCount = c => p = c
  BY <1>1 DEF Passed
<1>3. /\ \A n \in 0 .. N : e[n] \in Nat
      /\ \A k, n \in 0 .. N : k <= n => e[k] <= e[n]
      /\ e[c] = e[c - 1] + messages[c].length /\ messages[c].length \in Nat
  BY <1>1, EndsOfMessages DEF ProtocolInv, TypeOK
<1> HIDE DEF e, c, p, N
<1>4. e[p] \in Nat /\ e[c] \in Nat /\ e[c - 1] \in Nat /\ e[c - 1] < e[c]
  BY <1>1, <1>2, <1>3
<1>5. p < c => e[p] < e[c]
  <2>1. p < c => p <= c - 1
    BY <1>2
  <2>2. p < c => e[p] <= e[c - 1]
    BY <1>1, <1>2, <1>3, <2>1
  <2> QED
    BY <1>4, <2>2
<1>6. ~(p < c) => e[c] <= e[p]
  <2>1. ~(p < c) => c <= p
    BY <1>2
  <2> QED
    BY <1>1, <1>2, <1>3, <2>1
<1>7. pos < head.length <=> p < c
  BY <1>1, <1>4, <1>5, <1>6
<1>8. p = c => pos = head.length
  BY <1>1
<1> QED
  BY <1>2, <1>7, <1>8 DEF c

(* Counting one message more, with the numbers past a byte made one.       *)
LEMMA Counting ==
  ASSUME NEW k \in Nat, NEW N \in Nat, N < ManyMessages, k <= ManyMessages,
         NEW next, next = IF k < ManyMessages THEN k + 1 ELSE k
  PROVE  /\ next \in Nat /\ next <= ManyMessages
         /\ k < N => next = k + 1 /\ next <= N
         /\ ~(k < N) => next >= N
BY SizesAssumption DEF ManyMessages

(* There is a message where a walk goes on.  It passes it, and stands at   *)
(* its end; or it has passed them all, and stays at the endless one.       *)
LEMMA MessageIsThere ==
  ASSUME ProtocolInv, phase \in {"checking", "parsing"}, BeforeEnd
  PROVE  /\ Current \in Message /\ OneMore \in 0 .. ManyMessages
         /\ pos + Current.length \in Nat
         /\ pos + Current.length <= head.length + 2 * MaxPacket
         /\ \/ /\ msgCount < Len(messages) /\ OneMore = msgCount + 1
               /\ Current = messages[msgCount + 1]
               /\ pos + Current.length = PacketHeader + Ends(messages)[msgCount + 1]
            \/ /\ msgCount >= Len(messages) /\ OneMore >= Len(messages)
               /\ Current = messages[Len(messages)] /\ Len(messages) > 0
               /\ Endless /\ Current.length = 0
<1> DEFINE e == Ends(messages)
           N == Len(messages)
<1>1. /\ N \in Nat /\ \A n \in 0 .. N : e[n] \in Nat
      /\ e[0] = 0
      /\ \A n \in 1 .. N : e[n] = e[n - 1] + messages[n].length
  BY EndsOfMessages DEF ProtocolInv, TypeOK
<1>2. /\ pos = 4 + e[Passed] /\ pos < head.length
      /\ msgCount > N => Endless
      /\ Endless \/ head.length <= 4 + e[N]
      /\ head.length \in Nat /\ messages \in Seq(Message)
      /\ msgCount \in Nat /\ msgCount <= ManyMessages /\ N < ManyMessages
  <2>1. /\ pos = 4 + e[Passed] /\ pos < head.length
        /\ msgCount > N => Endless
        /\ Endless \/ head.length <= 4 + e[N]
    BY DEF ProtocolInv, WalkInv, SentInv, BeforeEnd, TotalLength, PacketHeader
  <2>2. head.length \in Nat /\ messages \in Seq(Message)
    BY SizesAssumption DEF ProtocolInv, TypeOK, Header
  <2>3. msgCount \in Nat /\ msgCount <= ManyMessages /\ N < ManyMessages
    BY <1>1, SizesAssumption DEF ProtocolInv, TypeOK, ListInv, ManyMessages
  <2> QED
    BY <2>1, <2>2, <2>3
<1>3. /\ OneMore \in Nat /\ OneMore <= ManyMessages
      /\ msgCount < N => OneMore = msgCount + 1
      /\ ~(msgCount < N) => OneMore >= N
  BY <1>1, <1>2, Counting DEF OneMore
<1>4. MaxPacket \in Nat /\ ManyMessages \in Nat
  BY SizesAssumption DEF ManyMessages
<1>5. CASE msgCount < N
  <2>1. /\ msgCount + 1 \in 1 .. N /\ msgCount \in 0 .. N /\ (msgCount + 1) - 1 = msgCount
        /\ Passed = msgCount
        /\ Current = messages[msgCount + 1]
    BY <1>1, <1>2, <1>5 DEF Current, Passed
  <2> HIDE DEF e
  <2>2. Current \in Message
    BY <1>2, <2>1
  <2>3. Current.length \in Nat /\ Current.length <= 2 * MaxPacket
    BY <2>2, MessageLengths
  <2>4. e[msgCount + 1] = e[msgCount] + Current.length /\ e[msgCount] \in Nat
    BY <1>1, <2>1
  <2>5. pos + Current.length = 4 + e[msgCount + 1] /\ pos \in Nat
    BY <1>2, <2>1, <2>3, <2>4
  <2>6. pos + Current.length \in Nat /\ pos + Current.length <= head.length + 2 * MaxPacket
    BY <1>2, <1>4, <2>3, <2>5
  <2> QED
    BY <1>3, <1>4, <1>5, <2>1, <2>2, <2>5, <2>6 DEF e, PacketHeader
<1>6. CASE ~(msgCount < N)
  <2>1. Passed = N /\ Current = messages[N]
    BY <1>1, <1>2, <1>6 DEF Passed, Current
  <2>2. Endless
    <3> HIDE DEF e
    <3>1. e[N] \in Nat
      BY <1>1
    <3> QED
      BY <1>2, <2>1, <3>1
  <2>3. N > 0 /\ Current.length = 0
    BY <1>1, <1>2, <2>1, <2>2 DEF Endless
  <2>4. Current \in Message
    BY <1>1, <1>2, <2>1, <2>3
  <2>5. pos \in Nat
    <3> HIDE DEF e
    <3>1. e[N] \in Nat
      BY <1>1
    <3> QED
      BY <1>2, <2>1, <3>1
  <2>6. pos + Current.length \in Nat /\ pos + Current.length <= head.length + 2 * MaxPacket
    BY <1>2, <1>4, <2>3, <2>5
  <2> QED
    BY <1>1, <1>2, <1>3, <1>4, <1>6, <2>1, <2>2, <2>3, <2>4, <2>6
<1> QED
  BY <1>5, <1>6

LEMMA InvStart == ProtocolInv /\ StartWalk => ProtocolInv'
<1> SUFFICES ASSUME ProtocolInv, StartWalk PROVE ProtocolInv'
  OBVIOUS
<1>1. /\ phase = "received" /\ UNCHANGED built /\ pos' = 4 /\ msgCount' = 0
      /\ phase' = IF ValidatePacketHeader THEN "checking" ELSE "refused"
  BY DEF StartWalk, FirstMessage, PacketHeader
<1>2. /\ WellFormed' = WellFormed /\ ValidatePacketHeader' = ValidatePacketHeader
      /\ messages \in Seq(Message) /\ messages' = messages /\ Len(messages) \in Nat
      /\ origin' = origin /\ isRequest' = isRequest /\ head' = head
  BY <1>1, SamePacket
<1>3. TypeOK'
  <2>1. 4 \in 0 .. 3 * MaxPacket /\ 0 \in 0 .. ManyMessages
    BY SizesAssumption DEF PacketHeader, ManyMessages
  <2> QED
    BY <1>1, <1>2, <2>1 DEF ProtocolInv, TypeOK
<1>4. ListInv' /\ BuildInv' /\ SentInv'
  BY <1>1, SentStays
<1>5. Passed' = 0
  BY <1>1, <1>2 DEF Passed
<1>6. WalkInv'
  <2>1. Ends(messages)[0] = 0
    BY <1>2, EndsOfMessages
  <2> QED
    BY <1>1, <1>2, <1>5, <2>1 DEF WalkInv, PacketHeader
<1>7. CheckInv'
  BY <1>1, <1>2, <1>5 DEF CheckInv
<1>8. AcceptsTheWellFormed'
  <2>1. ~ValidatePacketHeader => ~WellFormed
    BY <1>2 DEF ValidatePacketHeader, WellFormed
  <2> QED
    BY <1>1, <1>2, <2>1 DEF AcceptsTheWellFormed
<1> QED
  BY <1>1, <1>3, <1>4, <1>6, <1>7, <1>8
     DEF ProtocolInv, ParseInv, ParsedIsWhatWasChecked

LEMMA InvCheck == ProtocolInv /\ CheckMessage => ProtocolInv'
<1> SUFFICES ASSUME ProtocolInv, CheckMessage PROVE ProtocolInv'
  OBVIOUS
<1>1. phase = "checking" /\ BeforeEnd /\ UNCHANGED built /\ phase' # "building"
  BY DEF CheckMessage
<1>2. /\ WellFormed' = WellFormed /\ ValidatePacketHeader' = ValidatePacketHeader
      /\ Endless' = Endless
      /\ messages \in Seq(Message) /\ messages' = messages /\ head \in Header
      /\ Len(messages) \in Nat
      /\ \A x : Acceptable(x)' = Acceptable(x)
      /\ origin' = origin /\ isRequest' = isRequest /\ head' = head
      /\ isRequest \in BOOLEAN /\ msgCount \in Nat /\ pos \in Nat
  BY <1>1, SamePacket
<1>3. /\ Current \in Message /\ OneMore \in 0 .. ManyMessages
      /\ pos + Current.length \in Nat
      /\ pos + Current.length <= head.length + 2 * MaxPacket
      /\ \/ /\ msgCount < Len(messages) /\ OneMore = msgCount + 1
            /\ Current = messages[msgCount + 1]
            /\ pos + Current.length = PacketHeader + Ends(messages)[msgCount + 1]
         \/ /\ msgCount >= Len(messages) /\ OneMore >= Len(messages)
            /\ Endless /\ Current.length = 0
  BY <1>1, MessageIsThere
<1>4. ListInv' /\ BuildInv' /\ SentInv'
  BY <1>1, SentStays
<1>5. head.length <= MaxPacket /\ head.length \in Nat /\ MaxPacket \in Nat
  BY <1>1, <1>2, SizesAssumption DEF ProtocolInv, CheckInv, ValidatePacketHeader, Header
<1>6. /\ ValidateMessageHeader(Current) <=>
           /\ Current.length < MaxPacket
           /\ Acceptable(Current) \/ StaysPut(Current)
      /\ StaysPut(Current) => Current.length = 0
  BY <1>2, <1>3, Validated DEF StaysPut
<1>7. /\ pos = PacketHeader + Ends(messages)[Passed] /\ pos < head.length
      /\ ValidatePacketHeader
      /\ msgCount > Len(messages) => Endless
      /\ \A i \in 1 .. Passed : messages[i].length > 0 => Acceptable(messages[i])
      /\ Passed > 0 => PacketHeader + Ends(messages)[Passed - 1] < head.length
  BY <1>1 DEF ProtocolInv, WalkInv, CheckInv, BeforeEnd
<1>8. CASE ValidateMessageHeader(Current)
  <2>1. phase' = "checking" /\ pos' = pos + Current.length /\ msgCount' = OneMore
    BY <1>1, <1>8 DEF CheckMessage, NextMessage
  <2>2. TypeOK'
    <3>1. pos' \in 0 .. 3 * MaxPacket
      BY <1>3, <1>5, <2>1
    <3> QED
      BY <1>2, <1>3, <2>1, <3>1 DEF ProtocolInv, TypeOK
  <2>3. WalkInv' /\ CheckInv'
    <3>1. CASE msgCount < Len(messages)
      <4>1. Passed = msgCount /\ Passed' = msgCount + 1 /\ msgCount' = msgCount + 1
            /\ Current = messages[msgCount + 1]
            /\ pos' = PacketHeader + Ends(messages)[msgCount + 1]
        BY <1>2, <1>3, <2>1, <3>1 DEF Passed
      <4>2. WalkInv'
        BY <1>2, <3>1, <4>1 DEF WalkInv
      <4>3. ASSUME NEW i \in 1 .. msgCount + 1, messages[i].length > 0
            PROVE  Acceptable(messages[i])
        <5>1. i \in 1 .. msgCount \/ i = msgCount + 1
          BY <1>2
        <5>2. CASE i = msgCount + 1
          BY <1>6, <1>8, <4>1, <4>3, <5>2
        <5> QED
          BY <1>7, <4>1, <4>3, <5>1, <5>2
      <4>4. (msgCount + 1) - 1 = msgCount
        BY <1>2
      <4>5. \A i \in 1 .. Passed' : messages[i].length > 0 => Acceptable(messages[i])'
        BY <1>2, <4>1, <4>3
      <4>6. PacketHeader + Ends(messages)[Passed' - 1] < head.length
        BY <1>7, <4>1, <4>4
      <4>7. CheckInv'
        BY <1>2, <1>7, <4>5, <4>6 DEF CheckInv
      <4> QED
        BY <4>2, <4>7
    <3>2. CASE ~(msgCount < Len(messages))
      <4>1. OneMore >= Len(messages) /\ Endless /\ Current.length = 0 /\ OneMore \in Int
        BY <1>2, <1>3, <3>2
      <4>2. Passed = Len(messages) /\ Passed' = Len(messages) /\ pos' = pos
        BY <1>2, <2>1, <3>2, <4>1 DEF Passed
      <4>3. WalkInv'
        BY <1>2, <1>7, <4>1, <4>2 DEF WalkInv
      <4>4. \A i \in 1 .. Passed' : messages[i].length > 0 => Acceptable(messages[i])'
        BY <1>2, <1>7, <4>2
      <4>5. Passed' > 0 => PacketHeader + Ends(messages)[Passed' - 1] < head.length
        BY <1>7, <4>2
      <4>6. CheckInv'
        BY <1>2, <1>7, <4>4, <4>5 DEF CheckInv
      <4> QED
        BY <4>3, <4>6
    <3> QED
      BY <3>1, <3>2
  <2> QED
    BY <1>4, <2>1, <2>2, <2>3
       DEF ProtocolInv, ParseInv, AcceptsTheWellFormed, ParsedIsWhatWasChecked
<1>9. CASE ~ValidateMessageHeader(Current)
  <2>1. phase' = "refused" /\ pos' = pos /\ msgCount' = msgCount
    BY <1>1, <1>9 DEF CheckMessage
  <2>2. TypeOK'
    BY <1>2, <2>1 DEF ProtocolInv, TypeOK
  <2>3. ASSUME WellFormed PROVE FALSE
    <3>1. msgCount < head.msgCount
      BY <1>1, <2>3, WhereWalkStands DEF BeforeEnd
    <3>2. /\ head.msgCount \in Nat /\ head.msgCount \in 1 .. Len(messages)
          /\ head.length = 4 + Ends(messages)[head.msgCount]
          /\ \A i \in 1 .. head.msgCount : Acceptable(messages[i])
      BY <2>3, WellFormedLengths DEF PacketHeader
    <3>3. msgCount + 1 \in 1 .. head.msgCount /\ Current = messages[msgCount + 1]
          /\ head.msgCount \in 0 .. Len(messages)
      BY <1>2, <1>3, <3>1, <3>2
    <3>4. Acceptable(Current)
      BY <3>2, <3>3
    <3>5. /\ Current.length <= Ends(messages)[head.msgCount]
          /\ Ends(messages)[head.msgCount] \in Nat
      BY <1>2, <3>3, EndsOfMessages
    <3>6. Current.length < MaxPacket
      BY <1>3, <1>5, <3>2, <3>5, MessageLengths
    <3> QED
      BY <1>6, <1>9, <3>4, <3>6
  <2>4. AcceptsTheWellFormed'
    BY <1>2, <2>1, <2>3 DEF AcceptsTheWellFormed
  <2> QED
    BY <1>4, <2>1, <2>2, <2>4
       DEF ProtocolInv, WalkInv, CheckInv, ParseInv, ParsedIsWhatWasChecked
<1> QED
  BY <1>8, <1>9

LEMMA InvEndWalk == ProtocolInv /\ EndWalk => ProtocolInv'
<1> SUFFICES ASSUME ProtocolInv, EndWalk PROVE ProtocolInv'
  OBVIOUS
<1>1. /\ phase = "checking" /\ ~(pos < head.length) /\ UNCHANGED built
      /\ phase' = IF WalkEndedWell THEN "parsing" ELSE "refused"
      /\ pos' = 4 /\ msgCount' = 0
  BY DEF EndWalk, BeforeEnd, FirstMessage, PacketHeader
<1>2. /\ WellFormed' = WellFormed
      /\ messages \in Seq(Message) /\ messages' = messages /\ head \in Header
      /\ Len(messages) \in Nat
      /\ origin' = origin /\ isRequest' = isRequest /\ head' = head
      /\ msgCount \in Nat /\ pos \in Nat
  BY <1>1, SamePacket
<1>3. TypeOK'
  <2>1. 4 \in 0 .. 3 * MaxPacket /\ 0 \in 0 .. ManyMessages
    BY <1>2, SizesAssumption DEF PacketHeader, ManyMessages
  <2> QED
    BY <1>1, <1>2, <2>1 DEF ProtocolInv, TypeOK
<1>4. ListInv' /\ BuildInv' /\ SentInv'
  BY <1>1, SentStays
<1>5. WalkInv'
  <2>1. Ends(messages)[0] = 0 /\ Passed' = 0
    BY <1>1, <1>2, EndsOfMessages DEF Passed
  <2> QED
    BY <1>1, <1>2, <2>1 DEF WalkInv, PacketHeader
<1>6. /\ head.length \in Nat /\ head.msgCount \in Nat
      /\ head.length <= MaxPacket /\ head.msgCount # 0
      /\ head.msgType = IF isRequest THEN request ELSE response
      /\ pos = PacketHeader + Ends(messages)[Passed]
      /\ msgCount > Len(messages) => Endless
      /\ \A i \in 1 .. Passed : messages[i].length > 0 => Acceptable(messages[i])
      /\ Passed > 0 => PacketHeader + Ends(messages)[Passed - 1] < head.length
  BY <1>1, <1>2 DEF ProtocolInv, WalkInv, CheckInv, ValidatePacketHeader, Header
<1>7. /\ \A n \in 0 .. Len(messages) : Ends(messages)[n] \in Nat
      /\ \A n \in 1 .. Len(messages) :
           /\ Ends(messages)[n] = Ends(messages)[n - 1] + messages[n].length
           /\ messages[n].length \in Nat
      /\ \A k, n \in 0 .. Len(messages) : k <= n => Ends(messages)[k] <= Ends(messages)[n]
  BY <1>2, EndsOfMessages
(* The last message that the walk passed began before the end of the       *)
(* packet, and ended no earlier: so it leads on, and the walk has not been *)
(* held up at an endless one.                                              *)
<1>8. Passed > 0 => Passed \in 1 .. Len(messages) /\ messages[Passed].length > 0
  <2> SUFFICES ASSUME Passed > 0
               PROVE  Passed \in 1 .. Len(messages) /\ messages[Passed].length > 0
    OBVIOUS
  <2>1. /\ Passed \in 1 .. Len(messages) /\ Passed \in 0 .. Len(messages)
        /\ Passed - 1 \in 0 .. Len(messages)
    BY <1>2 DEF Passed
  <2>2. /\ Ends(messages)[Passed] = Ends(messages)[Passed - 1] + messages[Passed].length
        /\ Ends(messages)[Passed] \in Nat /\ Ends(messages)[Passed - 1] \in Nat
        /\ messages[Passed].length \in Nat
    BY <1>7, <2>1
  <2> QED
    BY <1>1, <1>6, <2>1, <2>2 DEF PacketHeader
<1>9. msgCount <= Len(messages) /\ Passed = msgCount
  <2>1. ASSUME msgCount > Len(messages) PROVE FALSE
    <3>1. Endless /\ Passed = Len(messages) /\ Len(messages) > 0
      BY <1>2, <1>6, <2>1 DEF Passed, Endless
    <3> QED
      BY <1>8, <3>1 DEF Endless
  <2> QED
    BY <1>2, <2>1 DEF Passed
<1>10. ASSUME NEW i \in 1 .. msgCount PROVE Acceptable(messages[i])
  <2>1. i = msgCount \/ i \in 1 .. Len(messages) - 1
    BY <1>2, <1>9
  <2>2. messages[i].length > 0
    BY <1>2, <1>8, <1>9, <2>1 DEF ProtocolInv, ListInv
  <2> QED
    BY <1>6, <1>9, <2>2
<1>11. WalkEndedWell => WellFormed
  <2> SUFFICES ASSUME WalkEndedWell PROVE WellFormed
    OBVIOUS
  <2>1. head.msgCount = msgCount /\ head.length = pos
    BY <1>1, <1>2, <1>6 DEF WalkEndedWell
  <2>2. head.msgCount \in 1 .. Len(messages)
    BY <1>2, <1>6, <1>9, <2>1
  <2> QED
    BY <1>6, <1>9, <1>10, <2>1, <2>2 DEF WellFormed, Acceptable
(* A walk that stops at the end of a well-formed packet has passed as many *)
(* messages as there are in it: with one more, the last one would have     *)
(* begun where the packet ends.                                            *)
<1>12. WellFormed => WalkEndedWell
  <2> SUFFICES ASSUME WellFormed PROVE WalkEndedWell
    OBVIOUS
  <2>1. /\ head.length = PacketHeader + Ends(messages)[head.msgCount]
        /\ head.msgCount \in 0 .. Len(messages)
    BY <1>2, WellFormedLengths
  <2>2. ~(msgCount < head.msgCount)
    BY <1>1, WhereWalkStands
  <2>3. ~(head.msgCount < msgCount)
    <3> SUFFICES ASSUME head.msgCount < msgCount PROVE FALSE
      OBVIOUS
    <3>1. /\ Passed > 0 /\ msgCount - 1 \in 0 .. Len(messages)
          /\ head.msgCount <= msgCount - 1
      BY <1>2, <1>6, <1>9
    <3>2. /\ Ends(messages)[msgCount - 1] \in Nat /\ Ends(messages)[head.msgCount] \in Nat
          /\ Ends(messages)[head.msgCount] <= Ends(messages)[msgCount - 1]
      BY <1>7, <2>1, <3>1
    <3>3. PacketHeader + Ends(messages)[msgCount - 1] < head.length
      BY <1>6, <1>9, <3>1
    <3> QED
      BY <2>1, <3>2, <3>3 DEF PacketHeader
  <2>4. msgCount = head.msgCount
    BY <1>2, <1>6, <2>2, <2>3
  <2>5. pos = head.length
    BY <1>1, <2>4, WhereWalkStands
  <2> QED
    BY <1>6, <2>4, <2>5 DEF WalkEndedWell
<1>13. AcceptsTheWellFormed'
  BY <1>1, <1>2, <1>11, <1>12 DEF AcceptsTheWellFormed
<1>14. ParsedIsWhatWasChecked'
  <2>1. phase' = "parsing" => 4 <= head.length
    <3> SUFFICES ASSUME phase' = "parsing" PROVE 4 <= head.length
      OBVIOUS
    <3>1. WellFormed
      BY <1>1, <1>11
    <3>2. head.msgCount \in 0 .. Len(messages) /\ head.length = 4 + Ends(messages)[head.msgCount]
      BY <1>2, <3>1, WellFormedLengths DEF PacketHeader
    <3> QED
      BY <1>7, <3>2
  <2>2. Ends(messages)[0] = 0
    BY <1>2, EndsOfMessages
  <2> QED
    BY <1>1, <1>2, <1>6, <2>1, <2>2 DEF ParsedIsWhatWasChecked, PacketHeader
<1>15. ParseInv'
  BY <1>1, <1>2, <1>6 DEF ParseInv
<1> QED
  BY <1>1, <1>3, <1>4, <1>5, <1>13, <1>14, <1>15 DEF ProtocolInv, CheckInv

LEMMA InvParse == ProtocolInv /\ ParseMessage => ProtocolInv'
<1> SUFFICES ASSUME ProtocolInv, ParseMessage PROVE ProtocolInv'
  OBVIOUS
<1> DEFINE e == Ends(messages)
<1>1. /\ phase = "parsing" /\ phase' = phase /\ pos < head.length /\ BeforeEnd
      /\ UNCHANGED built /\ pos' = pos + Current.length /\ msgCount' = OneMore
  BY DEF ParseMessage, Parsing, BeforeEnd, NextMessage
<1>2. /\ WellFormed' = WellFormed
      /\ messages \in Seq(Message) /\ messages' = messages /\ head \in Header
      /\ Len(messages) \in Nat
      /\ origin' = origin /\ isRequest' = isRequest /\ head' = head
      /\ msgCount \in Nat /\ pos \in Nat
  BY <1>1, SamePacket
<1>3. WellFormed
  BY <1>1 DEF ProtocolInv, AcceptsTheWellFormed
<1>4. /\ head.msgCount \in 0 .. Len(messages) /\ head.msgCount \in Nat
      /\ head.length = PacketHeader + e[head.msgCount]
      /\ head.length \in Nat /\ head.length <= MaxPacket
  BY <1>2, <1>3, WellFormedLengths DEF Header
<1>5. msgCount < head.msgCount /\ msgCount < Len(messages)
  <2>1. msgCount < head.msgCount
    BY <1>1, <1>3, WhereWalkStands
  <2> QED
    BY <1>2, <1>4, <2>1
<1>6. /\ msgCount' = msgCount + 1 /\ msgCount' \in 0 .. ManyMessages
      /\ pos' = PacketHeader + e[msgCount + 1] /\ pos' \in Nat
  BY <1>1, <1>2, <1>5, MessageIsThere
<1>7. msgCount' <= head.msgCount /\ msgCount' \in 0 .. Len(messages) /\ Passed' = msgCount'
  BY <1>2, <1>4, <1>5, <1>6 DEF Passed
<1>8. pos' <= head.length
  <2>1. /\ e[msgCount + 1] \in Nat /\ e[head.msgCount] \in Nat
        /\ e[msgCount + 1] <= e[head.msgCount]
    BY <1>2, <1>4, <1>6, <1>7, EndsOfMessages
  <2> HIDE DEF e
  <2> QED
    BY <1>4, <1>6, <2>1 DEF PacketHeader
<1>9. TypeOK'
  <2>1. pos' \in 0 .. 3 * MaxPacket
    BY <1>4, <1>6, <1>8, SizesAssumption
  <2> QED
    BY <1>1, <1>2, <1>6, <2>1 DEF ProtocolInv, TypeOK
<1>10. ListInv' /\ BuildInv' /\ SentInv'
  BY <1>1, SentStays
<1>11. AcceptsTheWellFormed'
  BY <1>1, <1>2, <1>3 DEF AcceptsTheWellFormed
<1>12. WalkInv'
  <2>1. ~(msgCount' > Len(messages))
    BY <1>2, <1>7
  <2> QED
    BY <1>2, <1>6, <1>7, <2>1 DEF WalkInv
<1>13. ParsedIsWhatWasChecked' /\ ParseInv'
  BY <1>1, <1>2, <1>6, <1>7, <1>8 DEF ParsedIsWhatWasChecked, ParseInv
<1> QED
  BY <1>1, <1>9, <1>10, <1>11, <1>12, <1>13 DEF ProtocolInv, CheckInv

LEMMA InvEndParsing == ProtocolInv /\ EndParsing => ProtocolInv'
<1> SUFFICES ASSUME ProtocolInv, EndParsing PROVE ProtocolInv'
  OBVIOUS
<1>1. /\ phase = "parsing" /\ phase' = "parsed"
      /\ ~Parsing \/ NoRoomLeft
      /\ UNCHANGED built /\ UNCHANGED <<pos, msgCount>>
  BY DEF EndParsing
<1>2. /\ WellFormed' = WellFormed /\ messages' = messages /\ head \in Header
      /\ origin' = origin /\ isRequest' = isRequest /\ head' = head
      /\ msgCount \in Nat /\ pos \in Nat
  BY <1>1, SamePacket
<1>3. WellFormed
  BY <1>1 DEF ProtocolInv, AcceptsTheWellFormed
<1>4. ~Parsing => msgCount = head.msgCount
  <2> SUFFICES ASSUME ~Parsing PROVE msgCount = head.msgCount
    OBVIOUS
  <2>1. ~(pos < head.length) \/ ~(msgCount < head.msgCount)
    BY DEF Parsing, BeforeEnd
  <2>2. ~(msgCount < head.msgCount)
    BY <1>1, <1>3, <2>1, WhereWalkStands
  <2>3. msgCount <= head.msgCount /\ head.msgCount \in Nat
    BY <1>1, <1>2 DEF ProtocolInv, ParseInv, Header
  <2> QED
    BY <1>2, <2>2, <2>3
<1>5. ParsedIsWhatWasChecked'
  <2>1. /\ msgCount <= head.msgCount /\ pos <= head.length
        /\ pos = PacketHeader + Ends(messages)[msgCount]
    BY <1>1 DEF ProtocolInv, ParsedIsWhatWasChecked
  <2>2. msgCount = head.msgCount \/ NoRoomLeft
    BY <1>1, <1>4
  <2> QED
    BY <1>1, <1>2, <2>1, <2>2 DEF ParsedIsWhatWasChecked, NoRoomLeft
<1>6. TypeOK'
  BY <1>1, <1>2 DEF ProtocolInv, TypeOK
<1>7. ListInv' /\ BuildInv' /\ SentInv'
  BY <1>1, SentStays
<1>8. ParseInv'
  BY <1>1, <1>2, <1>3 DEF ParseInv
<1> QED
  BY <1>1, <1>5, <1>6, <1>7, <1>8
     DEF ProtocolInv, WalkInv, CheckInv, AcceptsTheWellFormed

LEMMA InvStep == ProtocolInv /\ [Next]_vars => ProtocolInv'
<1> SUFFICES ASSUME ProtocolInv, [Next]_vars PROVE ProtocolInv'
  OBVIOUS
<1>1. CASE Build
  BY <1>1, InvBuild
<1>2. CASE Walk
  BY <1>2, InvStart, InvCheck, InvEndWalk, InvParse, InvEndParsing DEF Walk
<1>3. CASE UNCHANGED vars
  BY <1>3
     DEF vars, built, ProtocolInv, TypeOK, ListInv, BuildInv, SentInv, WalkInv, CheckInv,
         ParseInv, Passed, Endless, RejectsUnknown, NoRoomLeft,
         AcceptsTheWellFormed, ParsedIsWhatWasChecked, WellFormed, Acceptable,
         ValidatePacketHeader
<1> QED
  BY <1>1, <1>2, <1>3 DEF Next

LEMMA InvHolds == Spec => []ProtocolInv
BY InvInit, InvStep, PTL DEF Spec
-----------------------------------------------------------------------------
(* Whatever lengths a packet gives, no walk gets further than the longest  *)
(* message from the end of the longest packet (protocol.cpp:168-182).      *)
(* That the count is bounded says nothing of the code: the model counts no *)
(* further than ManyMessages.                                              *)
THEOREM TypeCorrect == Spec => []TypeOK
<1>1. ProtocolInv => TypeOK
  BY DEF ProtocolInv
<1> QED
  BY <1>1, InvHolds, PTL

(* ValidatePacket accepts exactly the well-formed packets, and refuses     *)
(* none of them, for any headers that anybody puts into one, with lengths  *)
(* of 0 and less than a header (protocol.cpp:140-197).                     *)
THEOREM AcceptsExactly == Spec => []AcceptsTheWellFormed
<1>1. ProtocolInv => AcceptsTheWellFormed
  BY DEF ProtocolInv
<1> QED
  BY <1>1, InvHolds, PTL

(* The validators accept all that the generators build, for any flags,     *)
(* counts and rejections (client.cpp:147-220, server.cpp:306-415), except  *)
(* the responses that reject a type that is not in the enum: these they    *)
(* refuse, every one (server.cpp:361-364, protocol.cpp:250-257).           *)
THEOREM GeneratedAccepted == Spec => []GeneratedIsAccepted
<1>1. ProtocolInv => GeneratedIsAccepted
  <2> SUFFICES ASSUME ProtocolInv, origin = "generators"
               PROVE  /\ phase = "refused" => RejectsUnknown
                      /\ phase \in {"parsing", "parsed"} => ~RejectsUnknown
    BY DEF GeneratedIsAccepted
  <2>1. phase # "building" => (WellFormed <=> ~RejectsUnknown)
    BY DEF ProtocolInv, SentInv
  <2>2. /\ phase \in {"parsing", "parsed"} => WellFormed
        /\ phase = "refused" => ~WellFormed
    BY DEF ProtocolInv, AcceptsTheWellFormed, ParseInv
  <2> QED
    BY <2>1, <2>2
<1> QED
  BY <1>1, InvHolds, PTL

(* The receivers' second walk, which checks nothing, stands at the ends of *)
(* checked messages only; it stops before the last one of them if it is a  *)
(* server's, and the room for answers is used up (client.cpp:398-463,      *)
(* server.cpp:331-375).                                                    *)
THEOREM ParsedWasChecked == Spec => []ParsedIsWhatWasChecked
<1>1. ProtocolInv => ParsedIsWhatWasChecked
  BY DEF ProtocolInv
<1> QED
  BY <1>1, InvHolds, PTL
-----------------------------------------------------------------------------
(* Turns of the loops that the walks have left, at most.                   *)
TurnsLeft ==
  CASE phase = "received" -> 2 * Len(messages) + 3
    [] phase = "checking" -> 2 * Len(messages) - Passed + 2
    [] phase = "parsing"  -> Len(messages) - Passed + 1
    [] OTHER              -> 0

(* What WalksEnd rests on: whatever lengths a packet gives, each turn of a *)
(* walk leaves fewer turns, but for the one case in which it stands still, *)
(* at a message of length 0 in a request: there it stands after the turn   *)
(* as well, and so for ever (protocol.cpp:122-134, 171-182).               *)
THEOREM WalksGetShorter ==
  Spec => [][Walk => \/ TurnsLeft \in Nat /\ TurnsLeft' \in Nat /\ TurnsLeft' < TurnsLeft
                     \/ StandsStill /\ StandsStill']_vars
<1> DEFINE Shorter == \/ TurnsLeft \in Nat /\ TurnsLeft' \in Nat /\ TurnsLeft' < TurnsLeft
                      \/ StandsStill /\ StandsStill'
<1>1. ASSUME ProtocolInv, Walk PROVE Shorter
  <2>1. /\ UNCHANGED built /\ Len(messages) \in Nat /\ msgCount \in Nat
        /\ messages' = messages /\ head' = head /\ isRequest \in BOOLEAN
        /\ \A m : StaysPut(m)' = StaysPut(m)
    <3>1. UNCHANGED built
      BY <1>1 DEF Walk, StartWalk, CheckMessage, EndWalk, ParseMessage, EndParsing
    <3> QED
      BY <1>1, <3>1, SamePacket
  <2>2. Passed \in Nat /\ Passed <= Len(messages)
    BY <2>1 DEF Passed
  <2>3. CASE StartWalk
    <3>1. /\ phase = "received" /\ phase' \in {"checking", "refused"} /\ msgCount' = 0
      BY <2>3 DEF StartWalk, FirstMessage
    <3>2. Passed' = 0
      BY <2>1, <3>1 DEF Passed
    <3> QED
      BY <2>1, <3>1, <3>2 DEF TurnsLeft
  <2>4. CASE CheckMessage
    <3>1. /\ phase = "checking" /\ BeforeEnd
          /\ \/ /\ ValidateMessageHeader(Current) /\ phase' = "checking"
                /\ pos' = pos + Current.length /\ msgCount' = OneMore
             \/ phase' = "refused"
      BY <2>4 DEF CheckMessage, NextMessage
    <3>2. CASE phase' = "refused"
      BY <2>1, <2>2, <3>1, <3>2 DEF TurnsLeft
    <3>3. CASE phase' # "refused" /\ msgCount < Len(messages)
      <4>1. Passed = msgCount /\ Passed' = msgCount + 1
        BY <1>1, <2>1, <3>1, <3>3, MessageIsThere DEF Passed
      <4> QED
        BY <2>1, <3>1, <3>3, <4>1 DEF TurnsLeft
    <3>4. CASE phase' # "refused" /\ ~(msgCount < Len(messages))
      <4>1. /\ Current \in Message /\ Current.length = 0 /\ Current = messages[Len(messages)]
            /\ OneMore \in Nat /\ OneMore >= Len(messages)
        BY <1>1, <2>1, <3>1, <3>4, MessageIsThere DEF ManyMessages
      <4>2. StandsStill
        <5>1. Acceptable(Current) \/ StaysPut(Current)
          BY <2>1, <3>1, <3>4, <4>1, Validated
        <5>2. ~Acceptable(Current)
          BY <2>1, <4>1, Validated
        <5> QED
          BY <3>1, <5>1, <5>2 DEF StandsStill
      <4>3. pos' = pos
        <5>1. pos \in Nat
          BY <1>1, SizesAssumption DEF ProtocolInv, TypeOK
        <5> QED
          BY <3>1, <3>4, <4>1, <5>1
      <4>4. Current' = Current
        BY <2>1, <3>1, <3>4, <4>1 DEF Current
      <4>5. StaysPut(Current)'
        BY <2>1, <4>2, <4>4 DEF StandsStill, StaysPut, built
      <4> QED
        BY <2>1, <3>1, <3>4, <4>2, <4>3, <4>5 DEF StandsStill, BeforeEnd
    <3> QED
      BY <3>2, <3>3, <3>4
  <2>5. CASE EndWalk
    <3>1. phase = "checking" /\ phase' \in {"parsing", "refused"} /\ msgCount' = 0
      BY <2>5 DEF EndWalk, FirstMessage
    <3>2. Passed' = 0
      BY <2>1, <3>1 DEF Passed
    <3> QED
      BY <2>1, <2>2, <3>1, <3>2 DEF TurnsLeft
  <2>6. CASE ParseMessage
    <3>1. /\ phase = "parsing" /\ phase' = "parsing" /\ msgCount' = OneMore /\ BeforeEnd
      BY <2>6 DEF ParseMessage, Parsing, NextMessage
    <3>2. msgCount < Len(messages)
      <4>1. WellFormed
        BY <1>1, <3>1 DEF ProtocolInv, AcceptsTheWellFormed
      <4>2. msgCount < head.msgCount
        BY <1>1, <3>1, <4>1, WhereWalkStands DEF BeforeEnd
      <4>3. head.msgCount \in 1 .. Len(messages)
        BY <1>1, <4>1, WellFormedLengths
      <4> QED
        BY <2>1, <4>2, <4>3
    <3>3. Passed = msgCount /\ Passed' = msgCount + 1
      BY <1>1, <2>1, <3>1, <3>2, MessageIsThere DEF Passed
    <3> QED
      BY <2>1, <3>1, <3>2, <3>3 DEF TurnsLeft
  <2>7. CASE EndParsing
    <3>1. phase = "parsing" /\ phase' = "parsed"
      BY <2>7 DEF EndParsing
    <3> QED
      BY <2>1, <2>2, <3>1 DEF TurnsLeft
  <2> QED
    BY <1>1, <2>3, <2>4, <2>5, <2>6, <2>7 DEF Walk
<1> HIDE DEF Shorter
<1>2. ProtocolInv /\ [Next]_vars => [Walk => Shorter]_vars
  BY <1>1
<1>3. Spec => [][Walk => Shorter]_vars
  BY <1>2, InvHolds, PTL DEF Spec
<1> QED
  BY <1>3 DEF Shorter
=============================================================================
