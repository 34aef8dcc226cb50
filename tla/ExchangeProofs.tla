--------------------------- MODULE ExchangeProofs ---------------------------
(***************************************************************************)
(* Proofs about Exchange, for any servers, listings, times and bounds.     *)
(*                                                                         *)
(* What the client believes of a server rests on what is on its way: the   *)
(* invariant speaks of every request in the network (RequestInv), of the   *)
(* time at each server against the time at the client (AskInv), and of     *)
(* every packet in the network and in the sockets (PacketInv).             *)
(***************************************************************************)
EXTENDS Exchange, TLAPS

TypeInv ==
  /\ TypeOK
  /\ \A v6 \in BOOLEAN : Len(queue[v6]) <= MaxQueue

(* Requests on their way: each goes to the server of the entry it is for,  *)
(* and all but the one the client waits for are overdue.                   *)
RequestInv ==
  /\ \A r \in requests : r.to = r.by.server
  /\ \A r \in requests : r.overdue \/ (waiting /\ held = r.by)
  /\ \A r, q \in requests : r.overdue \/ q.overdue \/ r = q

Unlearnable(e) ==
  \/ e.server \in banned
  \/ \E d \in Entry : record[d].list = "active" /\ d.server = e.server

NotDueYet(e, s) ==
  \/ waiting /\ held = e
  \/ record[e].age <= recent[s]
  \/ record[e].list = "none" /\ Unlearnable(e)

AskInv ==
  /\ \A e \in Entry : record[e].retry >= Retry
  /\ \A e \in Entry : record[e].list = "none" => record[e].age > Retry
  /\ \A s \in Server : accepted[s] # NoEntry =>
       accepted[s].server = s /\ NotDueYet(accepted[s], s)
  /\ NotAskedTooSoon

Gone(e) == record[e].list = "none" /\ e.server \in banned

AsksAll(e, types) == record[e].types \subseteq types \/ Gone(e)
Told(e, rejected) == record[e].types \ rejected \subseteq Supports[e.server] \/ Gone(e)

TrueOf(packet) ==
  /\ packet.valid => packet.from \in responded
  /\ packet.rejected \cap Supports[packet.from] = {}
  /\ \A e \in Entry : e.server = packet.from /\ ListedOnce(e) => Told(e, packet.rejected)

PacketInv ==
  /\ \A e \in Entry : record[e].list = "none" => record[e].types = PeerType
  /\ \A r \in requests : ListedOnce(r.by) => AsksAll(r.by, r.types)
  /\ \A p \in responses : TrueOf(p.packet)
  /\ \A v6 \in BOOLEAN : \A i \in DOMAIN queue[v6] : TrueOf(queue[v6][i])
  /\ waiting =>
       /\ connected[Socket(held)] = held.server
       /\ old = 0 => \A i \in DOMAIN queue[Socket(held)] :
                       queue[Socket(held)][i].from = held.server

Inv == TypeInv /\ RequestInv /\ AskInv /\ PacketInv
-----------------------------------------------------------------------------
(* What the functions on a record make of it.                              *)
ServerRecord == [list : {"none", "prob", "active"}, probationary : BOOLEAN,
                 fails : 0 .. MaxTimeouts, age : Nat, retry : Nat,
                 types : SUBSET PeerType]

LEMMA FreshType == Fresh \in ServerRecord
BY TimesAssumption DEF Fresh, ServerRecord

LEMMA RecordOf ==
  ASSUME NEW r \in ServerRecord
  PROVE  /\ r.list \in {"none", "prob", "active"} /\ r.probationary \in BOOLEAN
         /\ r.fails \in 0 .. MaxTimeouts /\ r.age \in Nat /\ r.retry \in Nat
         /\ r.types \subseteq PeerType
BY DEF ServerRecord

LEMMA BackedOffSame == \A x \in Nat : BackedOff(x) = x
BY DEF BackedOff

LEMMA FailedRecord ==
  ASSUME NEW r \in ServerRecord
  PROVE  /\ Failed(r) \in ServerRecord
         /\ Failed(r).list = r.list /\ Failed(r).types = r.types
         /\ Failed(r).age = 0 /\ Failed(r).retry = r.retry
<1>1. BackedOff(r.retry) = r.retry /\ r.retry \in Nat
  BY RecordOf, BackedOffSame
<1>2. (IF r.fails < MaxTimeouts THEN r.fails + 1 ELSE r.fails) \in 0 .. MaxTimeouts
  BY RecordOf, TimesAssumption
<1>3. Failed(r) \in ServerRecord
  BY <1>1, <1>2 DEF Failed, ServerRecord
<1> QED
  BY <1>1, <1>3 DEF Failed, ServerRecord

LEMMA RejectedRecord ==
  ASSUME NEW r \in ServerRecord, NEW packet \in Response
  PROVE  /\ Rejected(r, packet) \in ServerRecord
         /\ Rejected(r, packet).list = r.list
         /\ Rejected(r, packet).types = r.types \ packet.rejected
         /\ Rejected(r, packet).retry = r.retry
<1>1. BackedOff(r.retry) = r.retry /\ r.retry \in Nat
  BY RecordOf, BackedOffSame
<1>2. Rejected(r, packet) \in ServerRecord
  BY <1>1 DEF Rejected, ServerRecord
<1> QED
  BY <1>1, <1>2 DEF Rejected, ServerRecord

LEMMA SuccessfulRecord ==
  ASSUME NEW r \in ServerRecord, NEW isActive \in BOOLEAN
  PROVE  /\ Successful(r, isActive) \in ServerRecord
         /\ \/ /\ r.list = "prob" /\ isActive
               /\ Successful(r, isActive) = Fresh
            \/ /\ Successful(r, isActive).list = "active"
               /\ Successful(r, isActive).types = r.types
               /\ Successful(r, isActive).age = 0
               /\ Successful(r, isActive).retry = r.retry
<1>1. CASE r.list = "prob" /\ isActive
  BY <1>1, FreshType DEF Successful
<1>2. CASE ~(r.list = "prob" /\ isActive)
  <2>1. Successful(r, isActive) =
          [list |-> "active", probationary |-> FALSE, fails |-> 0, age |-> 0,
           retry |-> r.retry, types |-> r.types]
    BY <1>2 DEF Successful, ServerRecord
  <2> QED
    BY <2>1, RecordOf, TimesAssumption DEF ServerRecord
<1> QED
  BY <1>1, <1>2
-----------------------------------------------------------------------------
(* What the client's reports do to the records.                            *)
LEMMA State ==
  ASSUME TypeInv
  PROVE  /\ record \in [Entry -> ServerRecord]
         /\ \A e \in Entry : record[e] \in ServerRecord
         /\ \A e \in Entry : e.server \in Server /\ Socket(e) \in BOOLEAN
         /\ waiting => held \in Entry /\ record[held].list # "none"
         /\ banned \subseteq Server
         /\ queue \in [BOOLEAN -> Seq(Response)]
BY EntryAssumption DEF TypeInv, TypeOK, ClientTypeOK, ServerRecord, Socket

LEMMA ReportStops ==
  ASSUME ClientReports
  PROVE  /\ waiting /\ waiting' = FALSE /\ held' = NoEntry /\ waited' = 0
         /\ UNCHANGED <<connected, responses, recent, refusals, responded, accepted>>
         /\ requests' = Overdue(requests) /\ old' = 0
BY DEF ClientReports, TimeOut, HandleInvalid, HandleResponse, Consume, StopWaiting

(* A failure leaves the record in its list, or bans the server.            *)
LEMMA FailureEffect ==
  ASSUME TypeInv, NEW e \in Entry, IncrementServerFailCount(e)
  PROVE  /\ record' \in [Entry -> ServerRecord]
         /\ banned \subseteq banned' /\ banned' \subseteq Server
         /\ \A d \in Entry \ {e} : record'[d] = record[d]
         /\ \/ record'[e] = Fresh /\ e.server \in banned'
            \/ /\ record'[e].list = record[e].list
               /\ record'[e].types = record[e].types
               /\ record'[e].age = 0 /\ record'[e].retry = record[e].retry
<1> DEFINE r == Failed(record[e])
           fresh == r.fails + 1 >= MaxTimeouts /\ (r.probationary <=> r.list = "prob")
<1>1. record[e] \in ServerRecord /\ e.server \in Server
  BY State
<1>2. /\ r \in ServerRecord /\ r.list = record[e].list /\ r.types = record[e].types
      /\ r.age = 0 /\ r.retry = record[e].retry
  BY <1>1, FailedRecord
<1>3. /\ record' = [record EXCEPT ![e] = IF fresh THEN Fresh ELSE r]
      /\ fresh => banned' = banned \cup {e.server}
      /\ banned' \in {banned, banned \cup {e.server}}
  BY DEF IncrementServerFailCount
<1> HIDE DEF r, fresh
<1>4. record' \in [Entry -> ServerRecord]
  BY <1>2, <1>3, FreshType, State
<1>5. /\ record'[e] = IF fresh THEN Fresh ELSE r
      /\ \A d \in Entry \ {e} : record'[d] = record[d]
  BY <1>3, State
<1>6. banned \subseteq banned' /\ banned' \subseteq Server
  BY <1>1, <1>3, State
<1> QED
  BY <1>2, <1>3, <1>4, <1>5, <1>6

Learned == [Fresh EXCEPT !.list = "prob"]

IsLearned(e) ==
  /\ record[e].list = "none"
  /\ ~Unlearnable(e)
  /\ record'[e] = Learned

LEMMA LearnedRecord ==
  /\ Learned \in ServerRecord
  /\ Learned.types = PeerType /\ Learned.list = "prob" /\ Learned.retry = Retry
<1>1. Fresh.types = PeerType /\ Fresh.retry = Retry
  BY DEF Fresh
<1> QED
  BY <1>1, FreshType DEF Learned, ServerRecord

(* A success makes the record active, or drops it for another that is; it  *)
(* costs the record the types the packet rejects.                          *)
LEMMA SuccessEffect ==
  ASSUME TypeInv, NEW learned \in SUBSET Entry, HandleResponse(learned)
  PROVE  /\ record' \in [Entry -> ServerRecord]
         /\ banned' = banned
         /\ \A d \in Entry \ {held} : record'[d] = record[d] \/ IsLearned(d)
         /\ \/ /\ record'[held] = Fresh /\ record[held].list = "prob"
               /\ \E d \in Entry : /\ d # held /\ d.server = held.server
                                   /\ record[d].list = "active"
            \/ /\ record'[held].list = "active"
               /\ record'[held].types = record[held].types \ Received.rejected
               /\ record'[held].age = 0 /\ record'[held].retry = record[held].retry
         /\ Received \in Response /\ Received.valid
<1>1. waiting /\ held \in Entry /\ record[held] \in ServerRecord
  BY State DEF HandleResponse, Consume, StopWaiting
<1>2. Received \in Response /\ Received.valid
  <2>1. queue[Socket(held)] \in Seq(Response) /\ queue[Socket(held)] # <<>>
    BY <1>1, State DEF HandleResponse, Consume
  <2> QED
    BY <2>1 DEF Received, HandleResponse
<1> DEFINE isActive == \E d \in Listed("active") : d # held /\ d.server = held.server
           r == Rejected(record[held], Received)
           mine == Successful(r, isActive)
<1>3. record' = [e \in Entry |-> IF e = held THEN mine
                                 ELSE IF e \in learned THEN Learned
                                 ELSE record[e]]
  BY DEF HandleResponse, Learned
<1>4. /\ r \in ServerRecord /\ r.list = record[held].list
      /\ r.types = record[held].types \ Received.rejected
      /\ r.retry = record[held].retry
  BY <1>1, <1>2, RejectedRecord
<1> HIDE DEF r
<1>5. /\ mine \in ServerRecord
      /\ \/ r.list = "prob" /\ isActive /\ mine = Fresh
         \/ /\ mine.list = "active" /\ mine.types = r.types
            /\ mine.age = 0 /\ mine.retry = r.retry
  <2>1. isActive \in BOOLEAN
    OBVIOUS
  <2> HIDE DEF isActive
  <2> QED
    BY <1>4, <2>1, SuccessfulRecord
<1> HIDE DEF mine
<1>6. record' \in [Entry -> ServerRecord]
  BY <1>3, <1>5, State, LearnedRecord
<1>7. record'[held] = mine
  BY <1>1, <1>3
<1>8. ASSUME NEW d \in Entry, d # held PROVE record'[d] = record[d] \/ IsLearned(d)
  <2>1. CASE d \in learned
    <3>1. MayAdd(d, Received) /\ record'[d] = Learned
      BY <1>3, <1>8, <2>1 DEF HandleResponse
    <3> QED
      BY <3>1 DEF MayAdd, IsLearned, Unlearnable, Listed
  <2>2. CASE d \notin learned
    BY <1>3, <1>8, <2>2
  <2> QED
    BY <2>1, <2>2
<1>9. isActive => \E d \in Entry : /\ d # held /\ d.server = held.server
                                   /\ record[d].list = "active"
  BY DEF Listed
<1>10. banned' = banned
  BY DEF HandleResponse
<1> QED
  BY <1>2, <1>4, <1>5, <1>6, <1>7, <1>8, <1>9, <1>10
-----------------------------------------------------------------------------
(* Types.                                                                  *)
RequestSet == [to : Server, by : Entry, types : SUBSET PeerType, overdue : BOOLEAN]
OnTheWay == [packet : Response, twice : BOOLEAN]

ClientTypes ==
  /\ record \in [Entry -> ServerRecord]
  /\ banned \subseteq Server
  /\ waiting \in BOOLEAN
  /\ held \in Entry \cup {NoEntry}
  /\ waited \in 0 .. Timeout
  /\ connected \in [BOOLEAN -> Server \cup {NoServer}]
  /\ queue \in [BOOLEAN -> Seq(Response)]
  /\ \A v6 \in BOOLEAN : Len(queue[v6]) <= MaxQueue
  /\ waiting <=> held # NoEntry
  /\ waiting => record[held].list # "none"

NetTypes ==
  /\ requests \subseteq RequestSet
  /\ responses \subseteq OnTheWay
  /\ recent \in [Server -> 0 .. Lifetime]
  /\ refusals \in 0 .. MaxRefusals
  /\ responded \subseteq Server
  /\ old \in 0 .. MaxQueue
  /\ accepted \in [Server -> Entry \cup {NoEntry}]

LEMMA TypesSplit == TypeInv <=> ClientTypes /\ NetTypes
BY DEF TypeInv, TypeOK, ClientTypeOK, ClientTypes, NetTypes, ServerRecord,
       RequestSet, OnTheWay

LEMMA TypesSplitNext == TypeInv' <=> ClientTypes' /\ NetTypes'
BY DEF TypeInv, TypeOK, ClientTypeOK, ClientTypes, NetTypes, ServerRecord,
       RequestSet, OnTheWay

(* recv() returning, for whatever reason, takes at most one packet.        *)
LEMMA QueueStep ==
  ASSUME TypeInv, NEW v6 \in BOOLEAN,
         \/ queue' = queue
         \/ queue' = [queue EXCEPT ![v6] = Tail(@)] /\ queue[v6] # <<>>
  PROVE  /\ queue' \in [BOOLEAN -> Seq(Response)]
         /\ \A u \in BOOLEAN : Len(queue'[u]) <= MaxQueue
         /\ \A u \in BOOLEAN : \A i \in DOMAIN queue'[u] :
              \E j \in DOMAIN queue[u] : queue'[u][i] = queue[u][j]
<1>1. /\ queue \in [BOOLEAN -> Seq(Response)] /\ MaxQueue \in Nat
      /\ \A u \in BOOLEAN : Len(queue[u]) <= MaxQueue
  BY TypesSplit, TimesAssumption DEF ClientTypes
<1>2. CASE queue' = queue
  BY <1>1, <1>2
<1>3. CASE queue' = [queue EXCEPT ![v6] = Tail(@)] /\ queue[v6] # <<>>
  <2> DEFINE q == queue[v6]
  <2>1. q \in Seq(Response) /\ q # <<>> /\ Len(q) <= MaxQueue
    BY <1>1, <1>3
  <2> HIDE DEF q
  <2>2. /\ Tail(q) \in Seq(Response) /\ Len(Tail(q)) <= MaxQueue
        /\ \A i \in DOMAIN Tail(q) : i + 1 \in DOMAIN q /\ Tail(q)[i] = q[i + 1]
    BY <1>1, <2>1
  <2>3. \A u \in BOOLEAN : queue'[u] = IF u = v6 THEN Tail(q) ELSE queue[u]
    BY <1>1, <1>3 DEF q
  <2>4. queue' \in [BOOLEAN -> Seq(Response)]
    BY <1>1, <1>3, <2>2 DEF q
  <2>5. ASSUME NEW u \in BOOLEAN, NEW i \in DOMAIN queue'[u]
        PROVE  \E j \in DOMAIN queue[u] : queue'[u][i] = queue[u][j]
    <3>1. CASE u = v6
      BY <2>2, <2>3, <2>5, <3>1 DEF q
    <3>2. CASE u # v6
      BY <2>3, <2>5, <3>2
    <3> QED
      BY <3>1, <3>2
  <2>6. \A u \in BOOLEAN : Len(queue'[u]) <= MaxQueue
    BY <1>1, <2>2, <2>3
  <2> QED
    BY <2>4, <2>5, <2>6
<1> QED
  BY <1>2, <1>3

LEMMA ReportQueue ==
  ASSUME TypeInv, ClientReports
  PROVE  /\ held \in Entry /\ Socket(held) \in BOOLEAN
         /\ \/ queue' = queue
            \/ /\ queue' = [queue EXCEPT ![Socket(held)] = Tail(@)]
               /\ queue[Socket(held)] # <<>>
<1>1. held \in Entry /\ Socket(held) \in BOOLEAN
  BY ReportStops, State
<1> QED
  BY <1>1 DEF ClientReports, TimeOut, HandleInvalid, HandleResponse, Consume

LEMMA ReportRecords ==
  ASSUME TypeInv, ClientReports
  PROVE  /\ record' \in [Entry -> ServerRecord]
         /\ banned \subseteq banned' /\ banned' \subseteq Server
         /\ \A d \in Entry \ {held} : record'[d] = record[d] \/ IsLearned(d)
         /\ \/ record'[held] = Fresh /\ held.server \in banned'
            \/ /\ record'[held] = Fresh
               /\ \E d \in Entry : /\ d # held /\ d.server = held.server
                                   /\ record[d].list = "active"
            \/ /\ record'[held].list # "none"
               /\ record[held].list = "active" => record'[held].list = "active"
               /\ record'[held].types \subseteq record[held].types
               /\ record'[held].age = 0 /\ record'[held].retry = record[held].retry
<1>1. held \in Entry /\ record[held].list # "none"
  BY ReportStops, State
<1>2. CASE TimeOut \/ HandleInvalid
  <2>1. IncrementServerFailCount(held)
    BY <1>2 DEF TimeOut, HandleInvalid
  <2> QED
    BY <1>1, <2>1, FailureEffect
<1>3. CASE \E learned \in SUBSET Entry : HandleResponse(learned)
  <2>1. PICK learned \in SUBSET Entry : HandleResponse(learned)
    BY <1>3
  <2> QED
    BY <2>1, SuccessEffect, State
<1> QED
  BY <1>2, <1>3 DEF ClientReports

LEMMA TypeInit == Init => TypeInv
<1> SUFFICES ASSUME Init PROVE ClientTypes /\ NetTypes
  BY TypesSplit
<1>1. ASSUME NEW e \in Entry, NEW list \in {"active", "none"}
      PROVE  [Fresh EXCEPT !.list = list] \in ServerRecord
  BY FreshType DEF ServerRecord
<1>2. record \in [Entry -> ServerRecord]
  BY <1>1 DEF Init, ClientInit
<1>3. Lifetime \in 0 .. Lifetime /\ 0 \in 0 .. MaxRefusals /\ 0 \in 0 .. MaxQueue
      /\ 0 \in 0 .. Timeout /\ MaxQueue \in Nat
  BY NetAssumption, TimesAssumption
<1>4. ClientTypes
  <2>1. queue = [v6 \in BOOLEAN |-> <<>>]
    BY DEF Init, ClientInit
  <2>2. queue \in [BOOLEAN -> Seq(Response)] /\ \A v6 \in BOOLEAN : Len(queue[v6]) <= MaxQueue
    BY <1>3, <2>1
  <2> QED
    BY <1>2, <1>3, <2>2 DEF Init, ClientInit, ClientTypes
<1>5. NetTypes
  BY <1>3 DEF Init, NetTypes
<1> QED
  BY <1>4, <1>5

LEMMA TypeAsk == ASSUME TypeInv, NEW e \in Entry, ClientAsks(e) PROVE TypeInv'
<1>1. ClientTypes /\ NetTypes
  BY TypesSplit
<1>2. /\ e.server \in Server /\ Socket(e) \in BOOLEAN /\ record[e] \in ServerRecord
      /\ record[e].types \subseteq PeerType
  BY State, RecordOf
<1>3. connected' = [connected EXCEPT ![Socket(e)] = e.server]
  BY DEF ClientAsks, Ask, ConnectServer
<1>4. /\ connected' \in [BOOLEAN -> Server \cup {NoServer}]
      /\ connected'[Socket(e)] = e.server
  BY <1>1, <1>2, <1>3 DEF ClientTypes
<1>5. Request(e) \in RequestSet
  BY <1>2, <1>4 DEF Request, RequestSet
<1>6. old' \in 0 .. MaxQueue
  BY <1>1, <1>2, TimesAssumption DEF ClientAsks, ClientTypes
<1>7. ClientTypes'
  <2>1. /\ waiting' = TRUE /\ held' = e /\ waited' = 0 /\ record[e].list # "none"
        /\ UNCHANGED <<record, banned, queue>>
    BY DEF ClientAsks, Ask, MayAsk
  <2>2. 0 \in 0 .. Timeout /\ e # NoEntry
    BY TimesAssumption, EntryAssumption
  <2> QED
    BY <1>1, <1>4, <2>1, <2>2 DEF ClientTypes
<1>8. NetTypes'
  BY <1>1, <1>5, <1>6 DEF ClientAsks, NetTypes
<1> QED
  BY <1>7, <1>8, TypesSplitNext

LEMMA OverdueType == requests \subseteq RequestSet => Overdue(requests) \subseteq RequestSet
BY DEF Overdue, RequestSet

LEMMA TypeReport == ASSUME TypeInv, ClientReports PROVE TypeInv'
<1>1. ClientTypes /\ NetTypes
  BY TypesSplit
<1>2. ClientTypes'
  <2>1. queue' \in [BOOLEAN -> Seq(Response)] /\ \A u \in BOOLEAN : Len(queue'[u]) <= MaxQueue
    BY ReportQueue, QueueStep
  <2>2. 0 \in 0 .. Timeout
    BY TimesAssumption
  <2> QED
    BY <1>1, <2>1, <2>2, ReportStops, ReportRecords DEF ClientTypes
<1>3. NetTypes'
  <2>1. 0 \in 0 .. MaxQueue
    BY TimesAssumption
  <2> QED
    BY <1>1, <2>1, ReportStops, OverdueType DEF NetTypes
<1> QED
  BY <1>2, <1>3, TypesSplitNext

LEMMA TypeCannotAsk == ASSUME TypeInv, NEW e \in Entry, ClientCannotAsk(e) PROVE TypeInv'
<1>1. ClientTypes /\ NetTypes
  BY TypesSplit
<1>2. e.server \in Server /\ Socket(e) \in BOOLEAN
  BY State
<1>3. connected' \in [BOOLEAN -> Server \cup {NoServer}]
  BY <1>1, <1>2 DEF ClientCannotAsk, AskFails, ConnectServer, ClientTypes
<1>4. ClientTypes'
  BY <1>1, <1>3 DEF ClientCannotAsk, AskFails, ClientTypes
<1>5. NetTypes'
  BY <1>1, NetAssumption DEF ClientCannotAsk, net, history, NetTypes
<1> QED
  BY <1>4, <1>5, TypesSplitNext

LEMMA TypeAnswer ==
  ASSUME TypeInv, NEW r \in requests, NEW answered \in SUBSET (r.types \cap Supports[r.to]),
         NEW valid \in BOOLEAN, NEW busy \in BOOLEAN, ServerAnswers(r, answered, valid, busy)
  PROVE  TypeInv'
<1>1. ClientTypes /\ NetTypes
  BY TypesSplit
<1>2. r \in RequestSet /\ r.to \in Server /\ r.by \in Entry /\ r.types \subseteq PeerType
  BY <1>1 DEF NetTypes, RequestSet
<1>3. Answer(r, answered, valid, busy) \in Response
  BY <1>2 DEF Answer, Response
<1>4. \A twice \in BOOLEAN :
        [packet |-> Answer(r, answered, valid, busy), twice |-> twice] \in OnTheWay
  BY <1>3 DEF OnTheWay
<1>5. responses' \subseteq OnTheWay
  BY <1>1, <1>4 DEF ServerAnswers, NetTypes
<1>6. ClientTypes'
  BY <1>1 DEF ServerAnswers, clientVars, ClientTypes
<1>7. recent' \in [Server -> 0 .. Lifetime]
  <2>1. 0 \in 0 .. Lifetime
    BY NetAssumption
  <2> QED
    BY <1>1, <2>1 DEF ServerAnswers, NetTypes
<1>8. accepted' \in [Server -> Entry \cup {NoEntry}]
  BY <1>1, <1>2 DEF ServerAnswers, NetTypes
<1>9. NetTypes'
  BY <1>1, <1>2, <1>5, <1>7, <1>8 DEF ServerAnswers, NetTypes
<1> QED
  BY <1>6, <1>9, TypesSplitNext

(* The refusal that recv() reports.                                        *)
LEMMA RefusedReceive ==
  ASSUME TypeInv, NEW r \in requests, HostRefuses(r)
  PROVE  \/ /\ waiting /\ held.server = r.to
            /\ waiting' = FALSE /\ held' = NoEntry /\ waited' = 0 /\ old' = 0
            /\ requests' = Overdue(requests \ {r})
            /\ UNCHANGED <<record, banned, connected, queue>>
         \/ /\ ~(waiting /\ held.server = r.to)
            /\ UNCHANGED <<clientVars, old>> /\ requests' = requests \ {r}
BY DEF HostRefuses, RecvFails, StopWaiting

LEMMA TypeRefuse == ASSUME TypeInv, NEW r \in requests, HostRefuses(r) PROVE TypeInv'
<1>1. ClientTypes /\ NetTypes
  BY TypesSplit
<1>2. r.to \in Server
  BY <1>1 DEF NetTypes, RequestSet
<1>3. ClientTypes'
  <2>1. CASE UNCHANGED clientVars
    BY <1>1, <2>1 DEF ClientTypes, clientVars
  <2>2. CASE ~UNCHANGED clientVars
    <3>1. 0 \in 0 .. Timeout
      BY TimesAssumption
    <3>2. /\ waiting' = FALSE /\ held' = NoEntry /\ waited' = 0
          /\ UNCHANGED <<record, banned, connected, queue>>
      BY <2>2, RefusedReceive
    <3> QED
      BY <1>1, <3>1, <3>2 DEF ClientTypes
  <2> QED
    BY <2>1, <2>2
<1>4. requests' \subseteq RequestSet
  <2>1. Overdue(requests \ {r}) \subseteq RequestSet
    BY <1>1 DEF Overdue, RequestSet, NetTypes
  <2> QED
    BY <1>1, <2>1, RefusedReceive DEF NetTypes
<1>5. old' \in 0 .. MaxQueue
  <2>1. 0 \in 0 .. MaxQueue
    BY TimesAssumption
  <2>2. old' = 0 \/ old' = old
    BY RefusedReceive
  <2> QED
    BY <1>1, <2>1, <2>2 DEF NetTypes
<1>6. recent' \in [Server -> 0 .. Lifetime] /\ accepted' \in [Server -> Entry \cup {NoEntry}]
  <2>1. Lifetime \in 0 .. Lifetime
    BY NetAssumption
  <2> QED
    BY <1>1, <2>1 DEF HostRefuses, NetTypes
<1>7. refusals' \in 0 .. MaxRefusals /\ UNCHANGED <<responses, responded>>
  BY <1>1, NetAssumption DEF HostRefuses, NetTypes
<1>8. NetTypes'
  BY <1>1, <1>4, <1>5, <1>6, <1>7 DEF NetTypes
<1> QED
  BY <1>3, <1>8, TypesSplitNext

(* What arrives goes to the end of the queue of the socket that is         *)
(* connected to its sender, or nowhere.                                    *)
LEMMA ArriveEffect ==
  ASSUME TypeInv, NEW packet \in Response, Arrive(packet)
  PROVE  /\ queue' \in [BOOLEAN -> Seq(Response)]
         /\ \A v6 \in BOOLEAN : Len(queue'[v6]) <= MaxQueue
         /\ \A v6 \in BOOLEAN : \A i \in DOMAIN queue'[v6] :
              \/ i \in DOMAIN queue[v6] /\ queue'[v6][i] = queue[v6][i]
              \/ queue'[v6][i] = packet /\ connected[v6] = packet.from
<1>1. /\ queue \in [BOOLEAN -> Seq(Response)] /\ MaxQueue \in Nat
      /\ \A u \in BOOLEAN : Len(queue[u]) <= MaxQueue
  BY TypesSplit, TimesAssumption DEF ClientTypes
<1>2. packet.from.v6 \in BOOLEAN
  BY EntryAssumption DEF Response
<1> DEFINE v == packet.from.v6
           q == queue[v]
<1>3. \/ queue' = queue
      \/ /\ connected[v] = packet.from /\ Len(q) < MaxQueue
         /\ queue' = [queue EXCEPT ![v] = Append(q, packet)]
  BY DEF Arrive
<1>4. CASE queue' = queue
  BY <1>1, <1>4
<1>5. CASE /\ connected[v] = packet.from /\ Len(q) < MaxQueue
           /\ queue' = [queue EXCEPT ![v] = Append(q, packet)]
  <2>1. q \in Seq(Response) /\ v \in BOOLEAN
    BY <1>1, <1>2
  <2>2. \A u \in BOOLEAN : queue'[u] = IF u = v THEN Append(q, packet) ELSE queue[u]
    BY <1>1, <1>5
  <2> HIDE DEF q, v
  <2>3. /\ Append(q, packet) \in Seq(Response) /\ Len(Append(q, packet)) <= MaxQueue
        /\ \A i \in DOMAIN Append(q, packet) :
             \/ i \in DOMAIN q /\ Append(q, packet)[i] = q[i]
             \/ Append(q, packet)[i] = packet
    BY <1>1, <1>5, <2>1
  <2>4. queue' \in [BOOLEAN -> Seq(Response)]
    BY <1>1, <1>5, <2>3
  <2>5. \A u \in BOOLEAN : Len(queue'[u]) <= MaxQueue
    BY <1>1, <2>2, <2>3
  <2>6. ASSUME NEW u \in BOOLEAN, NEW i \in DOMAIN queue'[u]
        PROVE  \/ i \in DOMAIN queue[u] /\ queue'[u][i] = queue[u][i]
               \/ queue'[u][i] = packet /\ connected[u] = packet.from
    <3>1. CASE u = v
      BY <1>5, <2>2, <2>3, <2>6, <3>1 DEF q
    <3>2. CASE u # v
      BY <2>2, <2>6, <3>2
    <3> QED
      BY <3>1, <3>2
  <2> QED
    BY <2>4, <2>5, <2>6
<1> QED
  BY <1>3, <1>4, <1>5

LEMMA TypeDeliver == ASSUME TypeInv, NEW p \in responses, Deliver(p) PROVE TypeInv'
<1>1. ClientTypes /\ NetTypes
  BY TypesSplit
<1>2. p \in OnTheWay /\ p.packet \in Response /\ Arrive(p.packet)
  BY <1>1 DEF Deliver, NetTypes, OnTheWay
<1>3. ClientTypes'
  BY <1>1, <1>2, ArriveEffect DEF Arrive, ClientTypes
<1>4. [p EXCEPT !.twice = FALSE] \in OnTheWay
  BY <1>2 DEF OnTheWay
<1>5. NetTypes'
  BY <1>1, <1>4 DEF Deliver, NetTypes, history
<1> QED
  BY <1>3, <1>5, TypesSplitNext

LEMMA TypeTick == ASSUME TypeInv, Tick PROVE TypeInv'
<1>1. ClientTypes /\ NetTypes
  BY TypesSplit
<1>2. ASSUME NEW e \in Entry PROVE [record[e] EXCEPT !.age = IF Due(e) THEN @ ELSE @ + 1] \in ServerRecord
  <2>1. record[e] \in ServerRecord
    BY State
  <2>2. (IF Due(e) THEN record[e].age ELSE record[e].age + 1) \in Nat
    BY <2>1, RecordOf
  <2> QED
    BY <2>1, <2>2 DEF ServerRecord
<1>3. record' = [e \in Entry |-> [record[e] EXCEPT !.age = IF Due(e) THEN @ ELSE @ + 1]]
  BY DEF Tick, Pass
<1>4. record' \in [Entry -> ServerRecord] /\ \A e \in Entry : record'[e].list = record[e].list
  <2>1. \A e \in Entry : [record[e] EXCEPT !.age = IF Due(e) THEN @ ELSE @ + 1].list = record[e].list
    BY State DEF ServerRecord
  <2> QED
    BY <1>2, <1>3, <2>1
<1>5. waited' \in 0 .. Timeout
  BY <1>1, TimesAssumption DEF Tick, Pass, ClientTypes
<1>6. ClientTypes'
  BY <1>1, <1>4, <1>5 DEF Tick, Pass, ClientTypes
<1>7. recent' \in [Server -> 0 .. Lifetime]
  BY <1>1, NetAssumption DEF Tick, NetTypes
<1>8. NetTypes'
  BY <1>1, <1>7 DEF Tick, net, NetTypes
<1> QED
  BY <1>6, <1>8, TypesSplitNext

LEMMA TypeQuiet ==
  ASSUME TypeInv,
         \/ \E r \in requests : ServerIgnores(r)
         \/ Lose
         \/ UNCHANGED vars
  PROVE  TypeInv'
<1>1. ClientTypes /\ NetTypes
  BY TypesSplit
<1>2. /\ UNCHANGED <<clientVars, recent, refusals, responded, old, accepted>>
      /\ requests' \subseteq requests /\ responses' \subseteq responses
  BY DEF ServerIgnores, Lose, vars, net, history
<1> QED
  BY <1>1, <1>2, TypesSplitNext DEF clientVars, ClientTypes, NetTypes

LEMMA TypeStep == ASSUME TypeInv, [Next]_vars PROVE TypeInv'
<1>1. ASSUME NEW e \in Entry, ClientAsks(e) \/ ClientCannotAsk(e) PROVE TypeInv'
  BY <1>1, TypeAsk, TypeCannotAsk
<1>2. ASSUME NEW r \in requests, HostRefuses(r) PROVE TypeInv'
  BY <1>2, TypeRefuse
<1>3. ASSUME NEW r \in requests, NEW answered \in SUBSET (r.types \cap Supports[r.to]),
             NEW valid \in BOOLEAN, NEW busy \in BOOLEAN, ServerAnswers(r, answered, valid, busy)
      PROVE  TypeInv'
  BY <1>3, TypeAnswer
<1>4. ASSUME NEW p \in responses, Deliver(p) PROVE TypeInv'
  BY <1>4, TypeDeliver
<1> QED
  BY <1>1, <1>2, <1>3, <1>4, TypeReport, TypeTick, TypeQuiet DEF Next

(* Every variable of the client, the network and the servers has its type, *)
(* whatever is lost, late, twice or refused.                               *)
THEOREM TypeCorrect == Spec => []TypeOK
<1>1. Init => TypeInv
  BY TypeInit
<1>2. TypeInv /\ [Next]_vars => TypeInv'
  BY TypeStep
<1>3. TypeInv => TypeOK
  BY DEF TypeInv
<1> QED
  BY <1>1, <1>2, <1>3, PTL DEF Spec
-----------------------------------------------------------------------------
(* A server is not asked while it remembers the client.                    *)
LEMMA TickRecords ==
  ASSUME TypeInv, Tick, NEW e \in Entry
  PROVE  /\ record'[e].list = record[e].list /\ record'[e].types = record[e].types
         /\ record'[e].retry = record[e].retry
         /\ record'[e].age \in {record[e].age, record[e].age + 1}
<1>1. record'[e] = [record[e] EXCEPT !.age = IF Due(e) THEN @ ELSE @ + 1]
  BY DEF Tick, Pass
<1>2. record[e] \in ServerRecord
  BY State
<1> QED
  BY <1>1, <1>2 DEF ServerRecord

LEMMA RequestsWithout ==
  ASSUME RequestInv, requests' \subseteq requests, waiting' = waiting, held' = held
  PROVE  RequestInv'
BY DEF RequestInv

LEMMA RequestsOverdue ==
  ASSUME RequestInv, NEW rs \in SUBSET requests, requests \subseteq RequestSet,
         requests' = Overdue(rs)
  PROVE  RequestInv' /\ \A r \in requests' : r.overdue
<1>1. \A r \in RequestSet : /\ [r EXCEPT !.overdue = TRUE].to = r.to
                            /\ [r EXCEPT !.overdue = TRUE].by = r.by
                            /\ [r EXCEPT !.overdue = TRUE].overdue = TRUE
  BY DEF RequestSet
<1>2. \A q \in requests' : /\ q.overdue = TRUE
                           /\ \E r \in requests : q.to = r.to /\ q.by = r.by
  <2> TAKE q \in requests'
  <2>1. PICK r \in rs : q = [r EXCEPT !.overdue = TRUE]
    BY DEF Overdue
  <2>2. r \in requests /\ r \in RequestSet
    OBVIOUS
  <2> QED
    BY <1>1, <2>1, <2>2
<1> QED
  BY <1>2 DEF RequestInv

LEMMA RequestSent ==
  ASSUME TypeInv, NEW e \in Entry, ClientAsks(e)
  PROVE  /\ connected' = [connected EXCEPT ![Socket(e)] = e.server]
         /\ connected'[Socket(e)] = e.server
         /\ Request(e).to = e.server /\ Request(e).by = e /\ ~Request(e).overdue
         /\ Request(e).types = record[e].types
         /\ requests' \in {requests, requests \cup {Request(e)}}
<1>1. connected' = [connected EXCEPT ![Socket(e)] = e.server]
  BY DEF ClientAsks, Ask, ConnectServer
<1>2. connected \in [BOOLEAN -> Server \cup {NoServer}] /\ Socket(e) \in BOOLEAN
  BY State, TypesSplit DEF ClientTypes
<1>3. connected'[Socket(e)] = e.server
  BY <1>1, <1>2
<1> QED
  BY <1>1, <1>3 DEF ClientAsks, Request

LEMMA RequestStep == ASSUME TypeInv, RequestInv, [Next]_vars PROVE RequestInv'
<1>0. requests \subseteq RequestSet
  BY TypesSplit DEF NetTypes
<1>1. ASSUME NEW e \in Entry, ClientAsks(e) PROVE RequestInv'
  <2>1. ~waiting /\ waiting' = TRUE /\ held' = e
    BY <1>1 DEF ClientAsks, Ask, MayAsk
  <2>2. \A r \in requests : r.overdue
    BY <2>1 DEF RequestInv
  <2> QED
    BY <1>1, <2>1, <2>2, RequestSent DEF RequestInv
<1>2. CASE ClientReports
  BY <1>0, <1>2, ReportStops, RequestsOverdue
<1>3. ASSUME NEW r \in requests, HostRefuses(r) PROVE RequestInv'
  <2>1. CASE waiting /\ held.server = r.to
    BY <1>0, <1>3, <2>1, RefusedReceive, RequestsOverdue
  <2>2. CASE ~(waiting /\ held.server = r.to)
    BY <1>3, <2>2, RefusedReceive, RequestsWithout DEF clientVars
  <2> QED
    BY <2>1, <2>2
<1>4. ASSUME NEW e \in Entry, ClientCannotAsk(e) PROVE RequestInv'
  BY <1>4, RequestsWithout DEF ClientCannotAsk, AskFails, net
<1>5. ASSUME NEW r \in requests, ServerIgnores(r) PROVE RequestInv'
  BY <1>5, RequestsWithout DEF ServerIgnores, clientVars
<1>6. ASSUME NEW r \in requests, NEW answered \in SUBSET (r.types \cap Supports[r.to]),
             NEW valid \in BOOLEAN, NEW busy \in BOOLEAN, ServerAnswers(r, answered, valid, busy)
      PROVE  RequestInv'
  BY <1>6, RequestsWithout DEF ServerAnswers, clientVars
<1>7. ASSUME NEW p \in responses, Deliver(p) PROVE RequestInv'
  BY <1>7, RequestsWithout DEF Deliver, Arrive
<1>8. CASE Lose \/ Tick \/ UNCHANGED vars
  BY <1>8, RequestsWithout DEF Lose, Tick, Pass, vars, clientVars, net
<1> QED
  BY <1>1, <1>2, <1>3, <1>4, <1>5, <1>6, <1>7, <1>8 DEF Next

(* What keeps an entry from being listed anew does so for good.            *)
LEMMA UnlearnableStays ==
  ASSUME TypeInv, ClientReports, NEW e \in Entry, Unlearnable(e)
  PROVE  Unlearnable(e)'
<1>1. CASE e.server \in banned
  BY <1>1, ReportRecords DEF Unlearnable
<1>2. CASE e.server \notin banned
  <2>1. PICK d \in Entry : record[d].list = "active" /\ d.server = e.server
    BY <1>2 DEF Unlearnable
  <2>2. CASE d # held
    BY <2>1, <2>2, ReportRecords DEF Unlearnable, IsLearned
  <2>3. CASE d = held
    <3>1. CASE held.server \in banned' \/ record'[held].list = "active"
      BY <2>1, <2>3, <3>1 DEF Unlearnable
    <3>2. CASE ~(held.server \in banned' \/ record'[held].list = "active")
      <4>1. PICK c \in Entry : /\ c # held /\ c.server = held.server
                               /\ record[c].list = "active"
        BY <2>1, <2>3, <3>2, ReportRecords
      <4>2. record'[c].list = "active"
        BY <4>1, ReportRecords DEF IsLearned
      <4> QED
        BY <2>1, <2>3, <4>1, <4>2 DEF Unlearnable
    <3> QED
      BY <3>1, <3>2
  <2> QED
    BY <2>2, <2>3
<1> QED
  BY <1>1, <1>2

LEMMA AskInit == Init => RequestInv /\ AskInv
<1> SUFFICES ASSUME Init PROVE RequestInv /\ AskInv
  OBVIOUS
<1>1. ASSUME NEW e \in Entry
      PROVE  record[e].retry = Retry /\ record[e].age = Retry + 1
  BY DEF Init, ClientInit, Fresh
<1>2. \A s \in Server : accepted[s] = NoEntry
  BY DEF Init
<1> QED
  BY <1>1, <1>2, TimesAssumption DEF Init, RequestInv, AskInv, NotAskedTooSoon

LEMMA AskAsks ==
  ASSUME TypeInv, RequestInv, AskInv, NEW e \in Entry, ClientAsks(e)
  PROVE  AskInv'
<1>1. /\ ~waiting /\ record[e].list # "none" /\ record[e].age > record[e].retry
      /\ UNCHANGED <<record, banned, recent, accepted>>
  BY DEF ClientAsks, Ask, MayAsk, Due
<1>2. accepted[e.server] # e
  <2>1. /\ e.server \in Server /\ recent[e.server] \in 0 .. Lifetime
        /\ record[e].age \in Nat /\ record[e].retry \in Nat
    BY State, RecordOf, TypesSplit DEF NetTypes
  <2>2. ~NotDueYet(e, e.server)
    BY <1>1, <2>1, NetAssumption, TimesAssumption DEF AskInv, NotDueYet
  <2> QED
    BY <2>1, <2>2, EntryAssumption DEF AskInv
<1>3. NotAskedTooSoon'
  BY <1>1, <1>2, RequestSent DEF AskInv, NotAskedTooSoon
<1>4. ASSUME NEW s \in Server, accepted[s] # NoEntry PROVE NotDueYet(accepted[s], s)'
  BY <1>1, <1>4 DEF AskInv, NotDueYet, Unlearnable
<1> QED
  BY <1>1, <1>3, <1>4 DEF AskInv

LEMMA AskReports == ASSUME TypeInv, RequestInv, AskInv, ClientReports PROVE AskInv'
<1>1. /\ requests \subseteq RequestSet /\ recent \in [Server -> 0 .. Lifetime]
      /\ accepted \in [Server -> Entry \cup {NoEntry}]
  BY TypesSplit DEF NetTypes
<1>2. held \in Entry /\ waiting /\ UNCHANGED <<recent, accepted>>
  BY ReportStops, State
<1>3. /\ Fresh.retry = Retry /\ Fresh.age = Retry + 1
      /\ Learned.retry = Retry /\ Learned.list = "prob" /\ Fresh.list = "none"
  BY LearnedRecord DEF Fresh
<1>4. ASSUME NEW e \in Entry
      PROVE  record'[e].retry >= Retry /\ (record'[e].list = "none" => record'[e].age > Retry)
  <2>1. record[e].retry >= Retry /\ (record[e].list = "none" => record[e].age > Retry)
    BY DEF AskInv
  <2> QED
    BY <1>3, <2>1, ReportRecords, TimesAssumption DEF IsLearned
<1>5. ASSUME NEW s \in Server, accepted[s] # NoEntry
      PROVE  accepted[s].server = s /\ NotDueYet(accepted[s], s)'
  <2>0. PICK e \in Entry : e = accepted[s]
    BY <1>1, <1>5
  <2>1. e.server = s /\ NotDueYet(e, s) /\ recent[s] \in 0 .. Lifetime
    BY <1>1, <1>5, <2>0 DEF AskInv
  <2> SUFFICES NotDueYet(e, s)'
    BY <1>2, <2>0, <2>1 DEF NotDueYet, Unlearnable
  <2>2. CASE e = held
    <3>1. CASE record'[held].age = 0
      BY <1>2, <2>1, <2>2, <3>1 DEF NotDueYet
    <3>2. CASE record'[held].age # 0
      <4>1. record'[held].list = "none"
        BY <1>3, <3>2, ReportRecords
      <4>2. Unlearnable(e)'
        <5>1. CASE held.server \in banned'
          BY <2>2, <5>1 DEF Unlearnable
        <5>2. CASE held.server \notin banned'
          <6>1. PICK d \in Entry : /\ d # held /\ d.server = held.server
                                   /\ record[d].list = "active"
            BY <3>2, <5>2, ReportRecords
          <6>2. record'[d].list = "active"
            BY <6>1, ReportRecords DEF IsLearned
          <6> QED
            BY <2>2, <6>1, <6>2 DEF Unlearnable
        <5> QED
          BY <5>1, <5>2
      <4> QED
        BY <2>2, <4>1, <4>2 DEF NotDueYet
    <3> QED
      BY <3>1, <3>2
  <2>3. CASE e # held
    <3>1. CASE record[e].list = "none" /\ Unlearnable(e)
      <4>1. record'[e] = record[e]
        BY <2>1, <2>3, <3>1, ReportRecords DEF IsLearned
      <4> QED
        BY <2>1, <3>1, <4>1, UnlearnableStays DEF NotDueYet
    <3>2. CASE record[e].age <= recent[s]
      <4>1. record[e].list # "none"
        <5>1. record[e].age \in Nat /\ (record[e].list = "none" => record[e].age > Retry)
          BY <2>1, State, RecordOf DEF AskInv
        <5> QED
          BY <2>1, <3>2, <5>1, NetAssumption, TimesAssumption
      <4>2. record'[e] = record[e]
        BY <2>1, <2>3, <4>1, ReportRecords DEF IsLearned
      <4> QED
        BY <1>2, <3>2, <4>2 DEF NotDueYet
    <3> QED
      BY <2>1, <2>3, <3>1, <3>2 DEF NotDueYet
  <2> QED
    BY <2>2, <2>3
<1>6. NotAskedTooSoon'
  BY <1>1, ReportStops, RequestsOverdue DEF NotAskedTooSoon
<1> QED
  BY <1>2, <1>4, <1>5, <1>6 DEF AskInv

LEMMA AskAnswers ==
  ASSUME TypeInv, RequestInv, AskInv,
         NEW r \in requests, NEW answered \in SUBSET (r.types \cap Supports[r.to]),
         NEW valid \in BOOLEAN, NEW busy \in BOOLEAN, ServerAnswers(r, answered, valid, busy)
  PROVE  AskInv'
<1>1. /\ r \in RequestSet /\ r.to \in Server /\ r.by \in Entry /\ r.overdue \in BOOLEAN
      /\ requests \subseteq RequestSet
      /\ recent \in [Server -> 0 .. Lifetime] /\ accepted \in [Server -> Entry \cup {NoEntry}]
  BY TypesSplit DEF NetTypes, RequestSet
<1>2. /\ UNCHANGED <<record, banned, waiting, held>> /\ requests' = requests \ {r}
      /\ recent' = [recent EXCEPT ![r.to] = 0]
      /\ accepted' = [accepted EXCEPT ![r.to] = IF r.overdue THEN NoEntry ELSE r.by]
  BY DEF ServerAnswers, clientVars
<1>3. ASSUME NEW s \in Server, accepted'[s] # NoEntry
      PROVE  accepted'[s].server = s /\ NotDueYet(accepted[s], s)'
  <2>1. CASE s = r.to
    <3>1. accepted'[s] = r.by /\ ~r.overdue
      BY <1>1, <1>2, <1>3, <2>1
    <3>2. r.by.server = s /\ waiting /\ held = r.by
      BY <2>1, <3>1 DEF RequestInv
    <3> QED
      BY <1>2, <3>1, <3>2 DEF NotDueYet
  <2>2. CASE s # r.to
    <3>1. accepted'[s] = accepted[s] /\ recent'[s] = recent[s]
      BY <1>1, <1>2, <2>2
    <3> QED
      BY <1>2, <1>3, <3>1 DEF AskInv, NotDueYet, Unlearnable
  <2> QED
    BY <2>1, <2>2
<1>4. NotAskedTooSoon'
  <2> SUFFICES ASSUME NEW q \in requests, q # r, ~q.overdue PROVE accepted'[q.to] # q.by
    BY <1>2 DEF NotAskedTooSoon
  <2>1. q \in RequestSet /\ q.to \in Server /\ q.by \in Entry
    BY <1>1 DEF RequestSet
  <2>2. accepted[q.to] # q.by /\ r.overdue
    BY DEF AskInv, NotAskedTooSoon, RequestInv
  <2> QED
    BY <1>1, <1>2, <2>1, <2>2, EntryAssumption
<1> QED
  BY <1>2, <1>3, <1>4 DEF AskInv

LEMMA AskRefused ==
  ASSUME TypeInv, RequestInv, AskInv, NEW r \in requests, HostRefuses(r)
  PROVE  AskInv'
<1>1. /\ requests \subseteq RequestSet /\ r.to \in Server
      /\ recent \in [Server -> 0 .. Lifetime] /\ accepted \in [Server -> Entry \cup {NoEntry}]
  BY TypesSplit DEF NetTypes, RequestSet
<1>2. /\ recent' = [recent EXCEPT ![r.to] = Lifetime]
      /\ accepted' = [accepted EXCEPT ![r.to] = NoEntry]
  BY DEF HostRefuses
<1>3. UNCHANGED <<record, banned>>
  BY RefusedReceive DEF clientVars
<1>4. ASSUME NEW s \in Server, accepted'[s] # NoEntry
      PROVE  accepted'[s].server = s /\ NotDueYet(accepted[s], s)'
  <2>1. s # r.to /\ accepted'[s] = accepted[s] /\ recent'[s] = recent[s]
    BY <1>1, <1>2, <1>4
  <2>2. accepted[s].server = s /\ NotDueYet(accepted[s], s)
    BY <1>4, <2>1 DEF AskInv
  <2>3. waiting /\ held = accepted[s] => waiting' /\ held' = held
    BY <2>1, <2>2, RefusedReceive DEF clientVars
  <2> QED
    BY <1>3, <2>1, <2>2, <2>3 DEF NotDueYet, Unlearnable
<1>5. NotAskedTooSoon'
  <2>1. CASE waiting /\ held.server = r.to
    BY <1>1, <2>1, RefusedReceive, RequestsOverdue DEF NotAskedTooSoon
  <2>2. CASE ~(waiting /\ held.server = r.to)
    <3>0. requests' = requests \ {r}
      BY <2>2, RefusedReceive
    <3> SUFFICES ASSUME NEW q \in requests, ~q.overdue PROVE accepted'[q.to] # q.by
      BY <3>0 DEF NotAskedTooSoon
    <3>1. q \in RequestSet /\ q.to \in Server /\ q.by \in Entry
      BY <1>1 DEF RequestSet
    <3>2. accepted[q.to] # q.by
      BY DEF AskInv, NotAskedTooSoon
    <3> QED
      BY <1>1, <1>2, <3>1, <3>2, EntryAssumption
  <2> QED
    BY <2>1, <2>2
<1> QED
  BY <1>3, <1>4, <1>5 DEF AskInv

LEMMA AskTick == ASSUME TypeInv, AskInv, Tick PROVE AskInv'
<1>1. /\ requests \subseteq RequestSet
      /\ recent \in [Server -> 0 .. Lifetime] /\ accepted \in [Server -> Entry \cup {NoEntry}]
      /\ Lifetime \in Nat
  BY TypesSplit, NetAssumption DEF NetTypes
<1>2. UNCHANGED <<requests, banned, waiting, held>>
  BY DEF Tick, Pass, net
<1>3. ASSUME NEW e \in Entry
      PROVE  record'[e].retry >= Retry /\ (record'[e].list = "none" => record'[e].age > Retry)
  <2>1. record[e].age \in Nat
    BY State, RecordOf
  <2> QED
    BY <2>1, TickRecords, TimesAssumption DEF AskInv
<1>4. \A s \in Server : accepted'[s] # NoEntry =>
        accepted'[s] = accepted[s] /\ recent'[s] = recent[s] + 1
  BY <1>1 DEF Tick
<1>5. ASSUME NEW s \in Server, accepted'[s] # NoEntry
      PROVE  accepted'[s].server = s /\ NotDueYet(accepted[s], s)'
  <2>1. /\ accepted'[s] = accepted[s] /\ recent'[s] = recent[s] + 1 /\ recent[s] \in Nat
        /\ accepted[s] \in Entry
    BY <1>1, <1>4, <1>5
  <2>2. accepted[s].server = s /\ NotDueYet(accepted[s], s)
    BY <1>5, <2>1 DEF AskInv
  <2>3. record[accepted[s]].age <= recent[s] => record'[accepted[s]].age <= recent'[s]
    <3>1. record[accepted[s]].age \in Nat
      BY <2>1, State, RecordOf
    <3> QED
      BY <2>1, <3>1, TickRecords
  <2>4. Unlearnable(accepted[s]) => Unlearnable(accepted[s])'
    BY <1>2, <2>1, TickRecords DEF Unlearnable
  <2> QED
    BY <1>2, <2>1, <2>2, <2>3, <2>4, TickRecords DEF NotDueYet
<1>6. NotAskedTooSoon'
  <2> SUFFICES ASSUME NEW q \in requests, ~q.overdue PROVE accepted'[q.to] # q.by
    BY <1>2 DEF NotAskedTooSoon
  <2>1. q.to \in Server /\ q.by \in Entry /\ accepted[q.to] # q.by
    BY <1>1 DEF RequestSet, AskInv, NotAskedTooSoon
  <2> QED
    BY <1>4, <2>1, EntryAssumption
<1> QED
  BY <1>3, <1>5, <1>6 DEF AskInv

LEMMA AskQuiet ==
  ASSUME AskInv, UNCHANGED <<record, banned, waiting, held, recent, accepted>>,
         requests' \subseteq requests
  PROVE  AskInv'
BY DEF AskInv, NotDueYet, Unlearnable, NotAskedTooSoon

LEMMA AskStep == ASSUME TypeInv, RequestInv, AskInv, [Next]_vars PROVE AskInv'
<1>1. ASSUME NEW e \in Entry, ClientAsks(e) PROVE AskInv'
  BY <1>1, AskAsks
<1>2. ASSUME NEW r \in requests, HostRefuses(r) PROVE AskInv'
  BY <1>2, AskRefused
<1>3. ASSUME NEW r \in requests, NEW answered \in SUBSET (r.types \cap Supports[r.to]),
             NEW valid \in BOOLEAN, NEW busy \in BOOLEAN, ServerAnswers(r, answered, valid, busy)
      PROVE  AskInv'
  BY <1>3, AskAnswers
<1>4. ASSUME NEW e \in Entry, ClientCannotAsk(e) PROVE AskInv'
  BY <1>4, AskQuiet DEF ClientCannotAsk, AskFails, net, history
<1>5. ASSUME NEW r \in requests, ServerIgnores(r) PROVE AskInv'
  BY <1>5, AskQuiet DEF ServerIgnores, clientVars, history
<1>6. ASSUME NEW p \in responses, Deliver(p) PROVE AskInv'
  BY <1>6, AskQuiet DEF Deliver, Arrive, history
<1>7. CASE Lose \/ UNCHANGED vars
  BY <1>7, AskQuiet DEF Lose, vars, clientVars, net, history
<1> QED
  BY <1>1, <1>2, <1>3, <1>4, <1>5, <1>6, <1>7, AskReports, AskTick DEF Next

(* The client does not ask a server that will ignore it: the server        *)
(* forgets no later than the client's retry time ends, as long as          *)
(* Lifetime <= Retry (60 seconds each in the source).                      *)
THEOREM AskedInTime == Spec => []NotAskedTooSoon
<1>1. Init => TypeInv /\ RequestInv /\ AskInv
  BY TypeInit, AskInit
<1>2. TypeInv /\ RequestInv /\ AskInv /\ [Next]_vars => (TypeInv /\ RequestInv /\ AskInv)'
  BY TypeStep, RequestStep, AskStep
<1>3. AskInv => NotAskedTooSoon
  BY DEF AskInv
<1> QED
  BY <1>1, <1>2, <1>3, PTL DEF Spec
-----------------------------------------------------------------------------
(* What the packets say stays true.                                        *)
LEMMA PacketInit == Init => PacketInv
<1> SUFFICES ASSUME Init PROVE PacketInv
  OBVIOUS
<1>1. \A e \in Entry : record[e].types = PeerType
  BY DEF Init, ClientInit, Fresh
<1>2. \A v6 \in BOOLEAN : DOMAIN queue[v6] = {}
  BY DEF Init, ClientInit
<1> QED
  BY <1>1, <1>2 DEF Init, ClientInit, PacketInv

(* Only a report and the passing of time touch the records.                *)
LEMMA RecordStep ==
  ASSUME TypeInv, [Next]_vars
  PROVE  ClientReports \/ Tick \/ UNCHANGED <<record, banned>>
<1>1. ASSUME NEW e \in Entry, ClientAsks(e) \/ ClientCannotAsk(e) PROVE UNCHANGED <<record, banned>>
  BY <1>1 DEF ClientAsks, ClientCannotAsk, Ask, AskFails
<1>2. ASSUME NEW r \in requests, HostRefuses(r) PROVE UNCHANGED <<record, banned>>
  BY <1>2, RefusedReceive DEF clientVars
<1>3. ASSUME NEW r \in requests, NEW answered \in SUBSET (r.types \cap Supports[r.to]),
             NEW valid \in BOOLEAN, NEW busy \in BOOLEAN, ServerAnswers(r, answered, valid, busy)
      PROVE  UNCHANGED <<record, banned>>
  BY <1>3 DEF ServerAnswers, clientVars
<1>4. ASSUME NEW r \in requests, ServerIgnores(r) PROVE UNCHANGED <<record, banned>>
  BY <1>4 DEF ServerIgnores, clientVars
<1>5. ASSUME NEW p \in responses, Deliver(p) PROVE UNCHANGED <<record, banned>>
  BY <1>5 DEF Deliver, Arrive
<1>6. CASE Lose \/ UNCHANGED vars
  BY <1>6 DEF Lose, vars, clientVars
<1> QED
  BY <1>1, <1>2, <1>3, <1>4, <1>5, <1>6 DEF Next

LEMMA FreshIsFull == /\ Fresh.types = PeerType /\ Fresh.list = "none"
                     /\ Learned.types = PeerType /\ Learned.list = "prob"
BY LearnedRecord DEF Fresh

(* A record that is listed loses types only, or its server is banned.      *)
LEMMA TypesShrink ==
  ASSUME TypeInv, PacketInv, [Next]_vars, NEW e \in Entry
  PROVE  /\ record'[e].list = "none" => record'[e].types = PeerType
         /\ ListedOnce(e) => /\ Gone(e) => Gone(e)'
                             /\ record'[e].types \subseteq record[e].types \/ Gone(e)'
<1>1. record[e].list = "none" => record[e].types = PeerType
  BY DEF PacketInv
<1>2. CASE ClientReports
  <2>0. held \in Entry /\ record[held].list # "none"
    BY <1>2, ReportStops, State
  <2>1. CASE e = held
    <3>1. record'[held].list = "none" => record'[held].types = PeerType
      BY <1>2, <2>1, ReportRecords, FreshIsFull
    <3>2. ~Gone(e)
      BY <2>0, <2>1 DEF Gone
    <3>3. ASSUME ListedOnce(e) PROVE record'[e].types \subseteq record[e].types \/ Gone(e)'
      BY <1>2, <2>0, <2>1, <3>3, ReportRecords, FreshIsFull DEF ListedOnce, Gone
    <3> QED
      BY <2>1, <3>1, <3>2, <3>3
  <2>2. CASE e # held
    <3>1. CASE record'[e] = record[e]
      BY <1>1, <1>2, <3>1, ReportRecords DEF Gone
    <3>2. CASE IsLearned(e)
      BY <1>1, <3>2, FreshIsFull DEF IsLearned, Gone, Unlearnable
    <3> QED
      BY <1>2, <2>2, <3>1, <3>2, ReportRecords
  <2> QED
    BY <2>1, <2>2
<1>3. CASE Tick
  BY <1>1, <1>3, TickRecords DEF Gone, Tick, Pass
<1>4. CASE UNCHANGED <<record, banned>>
  BY <1>1, <1>4 DEF Gone
<1> QED
  BY <1>2, <1>3, <1>4, RecordStep

LEMMA TrueStays ==
  ASSUME TypeInv, PacketInv, [Next]_vars, NEW packet \in Response, TrueOf(packet)
  PROVE  TrueOf(packet)'
<1>1. responded \subseteq responded'
  BY DEF Next, ClientAsks, ClientCannotAsk, ClientReports, ServerIgnores, ServerAnswers,
         HostRefuses, Deliver, Lose, Tick, vars, history
<1>2. ASSUME NEW e \in Entry, ListedOnce(e), Told(e, packet.rejected)
      PROVE  Told(e, packet.rejected)'
  BY <1>2, TypesShrink DEF Told
<1> QED
  BY <1>1, <1>2 DEF TrueOf, ListedOnce

(* Where requests come from.                                               *)
LEMMA RequestOrigin ==
  ASSUME TypeInv, [Next]_vars, NEW q \in requests'
  PROVE  \/ \E r \in requests : q.by = r.by /\ q.types = r.types
         \/ q.by \in Entry /\ q.types = record[q.by].types /\ UNCHANGED <<record, banned>>
<1>0. requests \subseteq RequestSet
  BY TypesSplit DEF NetTypes
<1>1. ASSUME NEW rs \in SUBSET requests, q \in Overdue(rs)
      PROVE  \E r \in requests : q.by = r.by /\ q.types = r.types
  <2>1. PICK r \in rs : q = [r EXCEPT !.overdue = TRUE]
    BY <1>1 DEF Overdue
  <2>2. r \in requests /\ r \in RequestSet
    BY <1>0
  <2> QED
    BY <2>1, <2>2 DEF RequestSet
<1>2. ASSUME NEW e \in Entry, ClientAsks(e)
      PROVE  \/ q \in requests
             \/ q.by = e /\ q.types = record[e].types /\ UNCHANGED <<record, banned>>
  BY <1>2, RequestSent DEF ClientAsks, Ask
<1>3. CASE ClientReports
  BY <1>1, <1>3, ReportStops
<1>4. ASSUME NEW r \in requests, HostRefuses(r)
      PROVE  q \in requests \/ q \in Overdue(requests \ {r})
  BY <1>4, RefusedReceive
<1>5. \/ \E e \in Entry : ClientAsks(e)
      \/ ClientReports
      \/ \E r \in requests : HostRefuses(r)
      \/ requests' \subseteq requests
  BY DEF Next, ClientCannotAsk, ServerIgnores, ServerAnswers, Deliver, Lose, Tick, vars, net
<1> QED
  BY <1>1, <1>2, <1>3, <1>4, <1>5

(* What a request asks for is what its entry still wants, or more.         *)
LEMMA AsksAllStep ==
  ASSUME TypeInv, RequestInv, PacketInv, [Next]_vars,
         NEW q \in requests', ListedOnce(q.by)
  PROVE  AsksAll(q.by, q.types)'
<1>1. q.by \in Entry
  BY TypeStep, TypesSplitNext DEF NetTypes, RequestSet
<1>2. AsksAll(q.by, q.types)
  <2>1. CASE \E r \in requests : q.by = r.by /\ q.types = r.types
    BY <2>1 DEF PacketInv
  <2>2. CASE q.types = record[q.by].types
    BY <2>2 DEF AsksAll
  <2> QED
    BY <2>1, <2>2, RequestOrigin
<1> QED
  BY <1>1, <1>2, TypesShrink DEF AsksAll

(* A server tells the truth about itself.                                  *)
LEMMA AnswerIsTrue ==
  ASSUME TypeInv, RequestInv, PacketInv,
         NEW r \in requests, NEW answered \in SUBSET (r.types \cap Supports[r.to]),
         NEW valid \in BOOLEAN, NEW busy \in BOOLEAN, ServerAnswers(r, answered, valid, busy)
  PROVE  TrueOf(Answer(r, answered, valid, busy))'
<1> DEFINE packet == Answer(r, answered, valid, busy)
<1>1. /\ packet.from = r.to /\ packet.valid = valid
      /\ packet.rejected = r.types \ Supports[r.to]
  BY DEF Answer
<1>2. /\ r.to = r.by.server /\ r.by \in Entry
      /\ ListedOnce(r.by) => AsksAll(r.by, r.types)
  BY TypesSplit DEF NetTypes, RequestSet, RequestInv, PacketInv
<1>3. /\ UNCHANGED <<record, banned>>
      /\ valid => r.to \in responded'
  BY DEF ServerAnswers, clientVars
<1> HIDE DEF packet
<1>4. ASSUME NEW e \in Entry, e.server = r.to, ListedOnce(e) PROVE Told(e, packet.rejected)'
  <2>1. e = r.by
    BY <1>2, <1>4 DEF ListedOnce
  <2>2. Told(e, r.types \ Supports[r.to])'
    BY <1>2, <1>3, <1>4, <2>1 DEF AsksAll, Told, Gone
  <2> QED
    BY <1>1, <2>2
<1>5. TrueOf(packet)'
  BY <1>1, <1>3, <1>4 DEF TrueOf, ListedOnce
<1> QED
  BY <1>5 DEF packet

LEMMA ResponsesTrue ==
  ASSUME TypeInv, RequestInv, PacketInv, [Next]_vars, NEW p \in responses'
  PROVE  TrueOf(p.packet)'
<1>0. responses \subseteq OnTheWay
  BY TypesSplit DEF NetTypes
<1>1. ASSUME NEW q \in responses, p.packet = q.packet PROVE TrueOf(p.packet)'
  <2>1. q.packet \in Response /\ TrueOf(q.packet)
    BY <1>0 DEF PacketInv, OnTheWay
  <2> QED
    BY <1>1, <2>1, TrueStays
<1>2. ASSUME NEW r \in requests, NEW answered \in SUBSET (r.types \cap Supports[r.to]),
             NEW valid \in BOOLEAN, NEW busy \in BOOLEAN, ServerAnswers(r, answered, valid, busy)
      PROVE  TrueOf(p.packet)'
  <2>1. CASE p \in responses
    BY <1>1, <2>1
  <2>2. CASE p \notin responses
    <3>1. p.packet = Answer(r, answered, valid, busy)
      BY <1>2, <2>2 DEF ServerAnswers
    <3>2. TrueOf(Answer(r, answered, valid, busy))'
      BY <1>2, AnswerIsTrue
    <3> QED
      BY <3>1, <3>2 DEF Answer, TrueOf, Told
  <2> QED
    BY <2>1, <2>2
<1>3. ASSUME NEW q \in responses, Deliver(q) PROVE \E c \in responses : p.packet = c.packet
  <2>1. q \in OnTheWay /\ [q EXCEPT !.twice = FALSE].packet = q.packet
    BY <1>0 DEF OnTheWay
  <2> QED
    BY <1>3, <2>1 DEF Deliver
<1>4. \/ responses' \subseteq responses
      \/ \E q \in responses : Deliver(q)
      \/ \E r \in requests : \E answered \in SUBSET (r.types \cap Supports[r.to]),
                                valid, busy \in BOOLEAN : ServerAnswers(r, answered, valid, busy)
  <2>1. CASE ClientReports
    BY <2>1, ReportStops
  <2>2. CASE ~ClientReports
    BY <2>2 DEF Next, ClientAsks, ClientCannotAsk, ServerIgnores, HostRefuses, Lose, Tick,
                vars, net
  <2> QED
    BY <2>1, <2>2
<1> QED
  BY <1>1, <1>2, <1>3, <1>4

(* Where queued packets come from: they were queued, or just arrive.       *)
LEMMA QueueOrigin ==
  ASSUME TypeInv, [Next]_vars, NEW v6 \in BOOLEAN, NEW i \in DOMAIN queue'[v6]
  PROVE  \/ \E j \in DOMAIN queue[v6] : queue'[v6][i] = queue[v6][j]
         \/ /\ \E p \in responses : queue'[v6][i] = p.packet
            /\ connected[v6] = queue'[v6][i].from
            /\ UNCHANGED <<waiting, held, connected, old>>
<1>1. CASE queue' = queue
  BY <1>1
<1>2. CASE ClientReports
  BY <1>2, ReportQueue, QueueStep
<1>3. ASSUME NEW p \in responses, Deliver(p)
      PROVE  \/ \E j \in DOMAIN queue[v6] : queue'[v6][i] = queue[v6][j]
             \/ /\ queue'[v6][i] = p.packet /\ connected[v6] = p.packet.from
                /\ UNCHANGED <<waiting, held, connected, old>>
  <2>1. p.packet \in Response /\ Arrive(p.packet)
    BY <1>3, TypesSplit DEF NetTypes, OnTheWay, Deliver
  <2>2. UNCHANGED <<waiting, held, connected, old>>
    BY <1>3 DEF Deliver, Arrive, history
  <2> QED
    BY <2>1, <2>2, ArriveEffect
<1>4. \/ queue' = queue
      \/ ClientReports
      \/ \E p \in responses : Deliver(p)
  <2>1. ASSUME NEW r \in requests, HostRefuses(r) PROVE queue' = queue
    BY <2>1, RefusedReceive DEF clientVars
  <2> QED
    BY <2>1 DEF Next, ClientAsks, Ask, ClientCannotAsk, AskFails, ServerIgnores, ServerAnswers,
                Lose, Tick, Pass, vars, clientVars
<1> QED
  BY <1>1, <1>2, <1>3, <1>4

LEMMA QueuesTrue ==
  ASSUME TypeInv, RequestInv, PacketInv, [Next]_vars,
         NEW v6 \in BOOLEAN, NEW i \in DOMAIN queue'[v6]
  PROVE  TrueOf(queue[v6][i])'
<1>1. PICK packet \in Response : queue'[v6][i] = packet /\ TrueOf(packet)
  <2>1. CASE \E j \in DOMAIN queue[v6] : queue'[v6][i] = queue[v6][j]
    <3>1. \A j \in DOMAIN queue[v6] : queue[v6][j] \in Response /\ TrueOf(queue[v6][j])
      BY State DEF PacketInv
    <3> QED
      BY <2>1, <3>1
  <2>2. CASE \E p \in responses : queue'[v6][i] = p.packet
    BY <2>2, TypesSplit DEF NetTypes, OnTheWay, PacketInv
  <2> QED
    BY <2>1, <2>2, QueueOrigin
<1>2. TrueOf(packet)'
  BY <1>1, TrueStays
<1> QED
  BY <1>1, <1>2 DEF TrueOf, Told

(* What the client waits for can only come from the server it asked,       *)
(* unless the socket held a packet before.                                 *)
LEMMA WaitingStep ==
  ASSUME TypeInv, PacketInv, [Next]_vars, waiting'
  PROVE  /\ connected'[Socket(held')] = held'.server
         /\ old' = 0 => \A i \in DOMAIN queue'[Socket(held')] :
                          queue'[Socket(held')][i].from = held'.server
<1>1. ASSUME NEW e \in Entry, ClientAsks(e)
      PROVE  /\ connected'[Socket(held')] = held'.server
             /\ old' = 0 => \A i \in DOMAIN queue'[Socket(held')] :
                              queue'[Socket(held')][i].from = held'.server
  <2>1. /\ held' = e /\ queue' = queue /\ old' = Len(queue[Socket(e)])
        /\ queue[Socket(e)] \in Seq(Response)
    BY <1>1, State DEF ClientAsks, Ask
  <2> QED
    BY <1>1, <2>1, RequestSent
<1>2. CASE UNCHANGED <<waiting, held, connected, old>>
  <2>1. /\ connected[Socket(held)] = held.server /\ Socket(held) \in BOOLEAN
        /\ old = 0 => \A i \in DOMAIN queue[Socket(held)] :
                        queue[Socket(held)][i].from = held.server
    BY <1>2, State DEF PacketInv
  <2>2. held' = held /\ connected' = connected /\ old' = old
    BY <1>2
  <2>3. ASSUME old = 0, NEW i \in DOMAIN queue'[Socket(held)]
        PROVE  queue'[Socket(held)][i].from = held.server
    BY <2>1, <2>3, QueueOrigin
  <2> QED
    BY <2>1, <2>2, <2>3
<1>3. \/ \E e \in Entry : ClientAsks(e)
      \/ UNCHANGED <<waiting, held, connected, old>>
  <2>1. ~ClientReports
    BY ReportStops
  <2>2. ASSUME NEW r \in requests, HostRefuses(r) PROVE UNCHANGED <<waiting, held, connected, old>>
    BY <2>2, RefusedReceive DEF clientVars
  <2>3. ASSUME NEW e \in Entry PROVE ~ClientCannotAsk(e)
    BY DEF ClientCannotAsk, AskFails, MayAsk
  <2> QED
    BY <2>1, <2>2, <2>3 DEF Next, ServerIgnores, ServerAnswers, Deliver, Arrive, Lose, Tick,
                            Pass, vars, clientVars, history
<1> QED
  BY <1>1, <1>2, <1>3

LEMMA PacketStep == ASSUME TypeInv, RequestInv, PacketInv, [Next]_vars PROVE PacketInv'
<1>1. \A e \in Entry : record'[e].list = "none" => record'[e].types = PeerType
  BY TypesShrink
<1>2. \A r \in requests' : ListedOnce(r.by) => AsksAll(r.by, r.types)'
  BY AsksAllStep
<1>3. \A p \in responses' : TrueOf(p.packet)'
  BY ResponsesTrue
<1>4. \A v6 \in BOOLEAN : \A i \in DOMAIN queue'[v6] : TrueOf(queue[v6][i])'
  BY QueuesTrue
<1> QED
  BY <1>1, <1>2, <1>3, <1>4, WaitingStep DEF PacketInv, ListedOnce, Socket

(* What the client takes for the answer is the asked server's own, and     *)
(* true.                                                                   *)
LEMMA ReceivedIsTrue ==
  ASSUME TypeInv, PacketInv, waiting, queue[Socket(held)] # <<>>
  PROVE  /\ Received \in Response /\ TrueOf(Received)
         /\ old = 0 => Received.from = held.server
<1>1. Socket(held) \in BOOLEAN /\ queue[Socket(held)] \in Seq(Response)
  BY State
<1>2. 1 \in DOMAIN queue[Socket(held)] /\ Received = queue[Socket(held)][1]
  BY <1>1 DEF Received
<1> QED
  BY <1>1, <1>2 DEF PacketInv

LEMMA Invariant == Spec => [](TypeInv /\ RequestInv /\ PacketInv)
<1>1. Init => TypeInv /\ RequestInv /\ PacketInv
  BY TypeInit, AskInit, PacketInit
<1>2. TypeInv /\ RequestInv /\ PacketInv /\ [Next]_vars => (TypeInv /\ RequestInv /\ PacketInv)'
  BY TypeStep, RequestStep, PacketStep
<1> QED
  BY <1>1, <1>2, PTL DEF Spec

(* A server becomes active only by an answer of its own, whatever the      *)
(* network does with the packets, unless its socket held an old packet     *)
(* when it was asked.                                                      *)
THEOREM CreditWhereDue == Spec => CreditIsDue
<1> DEFINE Due1 == \A e \in Listed("prob") :
                     record'[e].list = "active" => e.server \in responded \/ old > 0
<1>1. TypeInv /\ PacketInv /\ [Next]_vars => [Due1]_vars
  <2> SUFFICES ASSUME TypeInv, PacketInv, [Next]_vars,
                      NEW e \in Entry, record[e].list = "prob", record'[e].list = "active",
                      ~(old > 0)
               PROVE  e.server \in responded
    BY DEF Listed
  <2>0. old = 0
    BY TypesSplit DEF NetTypes
  <2>1. ClientReports
    BY RecordStep, TickRecords
  <2>2. PICK learned \in SUBSET Entry : HandleResponse(learned)
    <3>1. held \in Entry
      BY <2>1, ReportStops, State
    <3>2. ~IncrementServerFailCount(held)
      BY <3>1, FailureEffect, FreshIsFull
    <3> QED
      BY <2>1, <3>2 DEF ClientReports, TimeOut, HandleInvalid
  <2>3. e = held
    BY <2>2, SuccessEffect, FreshIsFull DEF IsLearned
  <2>4. Received.valid /\ waiting /\ queue[Socket(held)] # <<>>
    BY <2>2 DEF HandleResponse, Consume, StopWaiting
  <2>5. TrueOf(Received) /\ Received.from = held.server
    BY <2>0, <2>4, ReceivedIsTrue
  <2> QED
    BY <2>3, <2>4, <2>5 DEF TrueOf
<1>2. CreditIsDue <=> [][Due1]_vars
  BY DEF CreditIsDue
<1> QED
  BY <1>1, <1>2, Invariant, PTL DEF Spec

(* A record never regains a type while it is listed; and unless its socket *)
(* held an old packet, it loses none that its server supports, and becomes *)
(* active with none that it does not (client.cpp:143-145).                 *)
THEOREM RejectionsKept == Spec => RejectionsAreKept
<1> DEFINE Kept ==
      \A e \in Entry :
        record[e].list # "none" /\ record'[e].list # "none" =>
          /\ record'[e].types \subseteq record[e].types
          /\ old = 0 => record[e].types \cap Supports[e.server] \subseteq record'[e].types
          /\ old = 0 /\ record[e].list = "prob" /\ record'[e].list = "active" /\ ListedOnce(e)
               => record'[e].types \subseteq Supports[e.server]
<1>1. TypeInv /\ PacketInv /\ [Next]_vars => [Kept]_vars
  <2> SUFFICES ASSUME TypeInv, PacketInv, [Next]_vars,
                      NEW e \in Entry, record[e].list # "none", record'[e].list # "none"
      PROVE /\ record'[e].types \subseteq record[e].types
            /\ old = 0 => record[e].types \cap Supports[e.server] \subseteq record'[e].types
            /\ old = 0 /\ record[e].list = "prob" /\ record'[e].list = "active" /\ ListedOnce(e)
                 => record'[e].types \subseteq Supports[e.server]
    OBVIOUS
  <2> DEFINE Unchanged == record'[e].types = record[e].types /\ record'[e].list = record[e].list
  <2>1. CASE Unchanged
    BY <2>1
  <2>2. CASE ~Unchanged
    <3> HIDE DEF Unchanged
    <3>1. ClientReports
      BY <2>2, RecordStep, TickRecords DEF Unchanged
    <3>2. held \in Entry /\ waiting
      BY <3>1, ReportStops, State
    <3>3. ~IncrementServerFailCount(held)
      BY <2>2, <3>2, FailureEffect, FreshIsFull DEF Unchanged
    <3>4. PICK learned \in SUBSET Entry : HandleResponse(learned)
      BY <3>1, <3>3 DEF ClientReports, TimeOut, HandleInvalid
    <3>5. e = held
      BY <2>2, <3>4, SuccessEffect DEF IsLearned, Unchanged
    <3>6. record'[e].types = record[e].types \ Received.rejected
      BY <3>4, <3>5, SuccessEffect, FreshIsFull
    <3>7. queue[Socket(held)] # <<>>
      BY <3>4 DEF HandleResponse, Consume
    <3>8. TrueOf(Received) /\ (old = 0 => Received.from = held.server)
      BY <3>2, <3>7, ReceivedIsTrue
    <3>9. old = 0 => Received.rejected \cap Supports[e.server] = {}
      BY <3>5, <3>8 DEF TrueOf
    <3>10. old = 0 /\ ListedOnce(e) => record[e].types \ Received.rejected \subseteq Supports[e.server]
      BY <3>5, <3>8 DEF TrueOf, Told, Gone
    <3> QED
      BY <3>6, <3>9, <3>10
  <2> QED
    BY <2>1, <2>2
<1>2. RejectionsAreKept <=> [][Kept]_vars
  BY DEF RejectionsAreKept
<1> QED
  BY <1>1, <1>2, Invariant, PTL DEF Spec
=============================================================================
