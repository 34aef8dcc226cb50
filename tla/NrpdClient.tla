----------------------------- MODULE NrpdClient -----------------------------
(***************************************************************************)
(* The client thread (src/client.cpp): it asks one server after the other, *)
(* waits for one packet on the socket, and takes what comes for the        *)
(* answer.  For each server it keeps when it reported last, how long to    *)
(* wait, how often it failed, and which types it has rejected.             *)
(*                                                                         *)
(* The lists are those of NrpdConfig.tla without their iterators: any      *)
(* server that is due may be the next.  A server may be listed as          *)
(* probationary twice; each listing is an entry with a record of its own.  *)
(* Servers differ in their hosts.  Bans last longer than what is modelled. *)
(*                                                                         *)
(* There is a socket for each protocol, which connect() points at one      *)
(* server: the kernel puts a packet into the queue of the socket if it     *)
(* comes from that server, and keeps what is queued when the socket is     *)
(* connected to another.  Time is counted since the last report.           *)
(***************************************************************************)
EXTENDS Integers, Sequences

CONSTANTS
  Server,       \* records [v6, id]: servers, each of another host
  Entry,        \* records [server, copy]: the listings there may be
  NoEntry,      \* no entry is held
  NoServer,     \* a socket that is not connected
  Seeds,        \* the entries in m_activeServers when the program starts
  PeerType,     \* the peers messages of the protocols the client is enabled for
  Retry,        \* CLIENT_MIN_RETRY_SECONDS
  Timeout,      \* CLIENT_RESPONSE_TIMEOUT_SECONDS
  MaxTimeouts,  \* CLIENT_MAX_SERVER_TIMEOUT_COUNT
  MaxQueue      \* bound: packets waiting in a socket

ASSUME EntryAssumption ==
  /\ Seeds \subseteq Entry
  /\ NoEntry \notin Entry /\ NoServer \notin Server
  /\ \A s \in Server : s.v6 \in BOOLEAN
  /\ \A e \in Entry : e.server \in Server
  /\ \A e, d \in Seeds : e.server = d.server => e = d
ASSUME TimesAssumption ==
  /\ Retry \in Nat \ {0} /\ Timeout \in Nat
  /\ MaxTimeouts \in Nat \ {0} /\ MaxQueue \in Nat \ {0}

VARIABLES
  record,     \* the ServerRecord of each entry
  banned,     \* servers in m_bannedServers
  waiting,    \* the loop is in recv()
  held,       \* the entry the loop is using
  waited,     \* how long recv() has been waiting
  connected,  \* the server each socket is connected to, by v6
  queue       \* the packets waiting in each socket

clientVars == <<record, banned, waiting, held, waited, connected, queue>>

(* lastaccessTime as the time since then, which does not matter any more   *)
(* once the server is due: a record starts with the beginning of the clock.*)
(* The list is where the record is; probationary is its flag.              *)
Fresh == [list |-> "none", probationary |-> TRUE, fails |-> 0,
          age |-> Retry + 1, retry |-> Retry, types |-> PeerType]

Response == [from : Server, valid : BOOLEAN, busy : BOOLEAN,
             rejected : SUBSET PeerType, answered : SUBSET PeerType]

Listed(list) == {e \in Entry : record[e].list = list}
Socket(e) == e.server.v6

ClientInit ==
  /\ record = [e \in Entry |-> [Fresh EXCEPT !.list = IF e \in Seeds THEN "active" ELSE "none"]]
  /\ banned = {}
  /\ waiting = FALSE
  /\ held = NoEntry
  /\ waited = 0
  /\ connected = [v6 \in BOOLEAN |-> NoServer]
  /\ queue = [v6 \in BOOLEAN |-> <<>>]
-----------------------------------------------------------------------------
(* The server may be asked again.                                          *)
Due(e) == record[e].age > record[e].retry

(* GetNextServer.                                                          *)
MayAsk(e) == ~waiting /\ record[e].list # "none" /\ Due(e)

(* ConstructRequest: entropy, and the peers the server has not rejected.   *)
(* send() takes it where the socket is connected to.  (The entry it is     *)
(* for, and whether it is overdue, are for the properties.)                *)
Request(e) == [to |-> connected'[Socket(e)], types |-> record[e].types,
               by |-> e, overdue |-> FALSE]

(* A mistake: connecting only a socket that is not yet connected.          *)
ConnectOnce(e) ==
  connected' = [connected EXCEPT ![Socket(e)] = IF @ = NoServer THEN e.server ELSE @]
ConnectServer(e) == connected' = [connected EXCEPT ![Socket(e)] = e.server]

(* From GetNextServer to recv().  What the socket's queue holds stays.     *)
Ask(e) ==
  /\ MayAsk(e)
  /\ ConnectServer(e)
  /\ waiting' = TRUE
  /\ held' = e
  /\ waited' = 0
  /\ UNCHANGED <<record, banned, queue>>

(* connect() or send() fails, and the loop continues without a report.     *)
AskFails(e) ==
  /\ MayAsk(e)
  /\ ConnectServer(e) \/ UNCHANGED connected
  /\ UNCHANGED <<record, banned, waiting, held, waited, queue>>

(* recv() returns; the mistake forgets to.                                 *)
StopWaitingHolds ==
  /\ waiting
  /\ waiting' = FALSE
  /\ waited' = 0
  /\ UNCHANGED <<held, connected>>
StopWaiting ==
  /\ waiting
  /\ waiting' = FALSE
  /\ held' = NoEntry
  /\ waited' = 0
  /\ UNCHANGED connected

(* retryTime *= 1.25, where the operand becomes a whole number of seconds  *)
(* before it multiplies.                                                   *)
BackedOff(seconds) == seconds * (5 \div 4)

(* IncrementServerFailCount.  The mistakes: not to take the time, and not  *)
(* to count the failures of a probationary server.                         *)
FailedUntimed(r) ==
  [r EXCEPT !.fails = IF @ < MaxTimeouts THEN @ + 1 ELSE @, !.retry = BackedOff(@)]
FailedUncounted(r) ==
  [r EXCEPT !.fails = IF @ < MaxTimeouts /\ ~r.probationary THEN @ + 1 ELSE @,
            !.age = 0, !.retry = BackedOff(@)]
Failed(r) ==
  [r EXCEPT !.fails = IF @ < MaxTimeouts THEN @ + 1 ELSE @,
            !.age = 0, !.retry = BackedOff(@)]

(* At the limit the server is banned, and its entry removed from the list  *)
(* that its flag names.                                                    *)
IncrementServerFailCount(e) ==
  LET r == Failed(record[e])
      atLimit == r.fails + 1 >= MaxTimeouts
      removed == r.probationary <=> r.list = "prob"
  IN  /\ record' = [record EXCEPT ![e] = IF atLimit /\ removed THEN Fresh ELSE r]
      /\ banned' = IF atLimit THEN banned \cup {e.server} ELSE banned

(* recv() times out.                                                       *)
TimeOut ==
  /\ StopWaiting
  /\ queue[Socket(held)] = <<>>
  /\ waited = Timeout
  /\ IncrementServerFailCount(held)
  /\ UNCHANGED queue

(* recv() fails otherwise: the loop continues without a report.            *)
RecvFails ==
  /\ StopWaiting
  /\ queue[Socket(held)] = <<>>
  /\ UNCHANGED <<record, banned, queue>>

(* The first packet in the queue, whoever sent it.                         *)
Received == Head(queue[Socket(held)])
Consume ==
  /\ StopWaiting
  /\ queue[Socket(held)] # <<>>
  /\ queue' = [queue EXCEPT ![Socket(held)] = Tail(@)]

(* ParseRejectMessage.                                                     *)
Rejected(r, packet) ==
  [r EXCEPT !.types = @ \ packet.rejected,
            !.retry = IF packet.busy THEN BackedOff(@) ELSE @]

(* AddServersFromMessage: servers that are neither banned nor active.  The *)
(* mistake is not to ask whether they are banned.                          *)
TypeOf(s) == IF s.v6 THEN "ip6peers" ELSE "ip4peers"
MayAddBanned(e, packet) ==
  /\ TypeOf(e.server) \in packet.answered
  /\ record[e].list = "none"
  /\ \A d \in Listed("active") : d.server # e.server
MayAdd(e, packet) ==
  /\ TypeOf(e.server) \in packet.answered
  /\ e.server \notin banned
  /\ record[e].list = "none"
  /\ \A d \in Listed("active") : d.server # e.server

(* MarkServerSuccessful.  A probationary entry moves to the active list,   *)
(* unless the server is there.  The mistake moves a new record there.      *)
SuccessfulAnew(r, isActive) ==
  CASE r.list = "active" -> [r EXCEPT !.fails = 0, !.age = 0, !.probationary = FALSE]
    [] r.list = "prob" /\ isActive -> Fresh
    [] OTHER -> [Fresh EXCEPT !.list = "active", !.age = 0, !.probationary = FALSE]
Successful(r, isActive) ==
  CASE r.list = "active" -> [r EXCEPT !.fails = 0, !.age = 0, !.probationary = FALSE]
    [] r.list = "prob" /\ isActive -> Fresh
    [] OTHER -> [r EXCEPT !.list = "active", !.fails = 0, !.age = 0, !.probationary = FALSE]

(* A valid packet: ParseResponse, which may add servers, and then          *)
(* MarkServerSuccessful.                                                   *)
HandleResponse(learned) ==
  /\ Consume
  /\ Received.valid
  /\ \A e \in learned : e # held /\ MayAdd(e, Received)
  /\ LET isActive == \E d \in Listed("active") : d # held /\ d.server = held.server
     IN  record' = [e \in Entry |->
                      IF e = held
                      THEN Successful(Rejected(record[e], Received), isActive)
                      ELSE IF e \in learned THEN [Fresh EXCEPT !.list = "prob"]
                      ELSE record[e]]
  /\ UNCHANGED banned

(* A packet that ValidateResponsePacket refuses.                           *)
HandleInvalid ==
  /\ Consume
  /\ ~Received.valid
  /\ IncrementServerFailCount(held)

(* The kernel, when a packet arrives: the queue, if the socket is          *)
(* connected to its sender.                                                *)
Arrive(packet) ==
  LET v6 == packet.from.v6
  IN  /\ queue' = IF connected[v6] = packet.from /\ Len(queue[v6]) < MaxQueue
                  THEN [queue EXCEPT ![v6] = Append(@, packet)]
                  ELSE queue
      /\ UNCHANGED <<record, banned, waiting, held, waited, connected>>

(* Time passes.  recv() returns as soon as it can.                         *)
Pass ==
  /\ waiting => waited < Timeout /\ queue[Socket(held)] = <<>>
  /\ record' = [e \in Entry |->
                  [record[e] EXCEPT !.age = IF Due(e) THEN @ ELSE @ + 1]]
  /\ waited' = IF waiting THEN waited + 1 ELSE waited
  /\ UNCHANGED <<banned, waiting, held, connected, queue>>
-----------------------------------------------------------------------------
(* Every variable of the client has its type.                              *)
ClientTypeOK ==
  /\ record \in [Entry -> [list : {"none", "prob", "active"}, probationary : BOOLEAN,
                           fails : 0 .. MaxTimeouts, age : Nat, retry : Nat,
                           types : SUBSET PeerType]]
  /\ banned \subseteq Server
  /\ waiting \in BOOLEAN
  /\ held \in Entry \cup {NoEntry}
  /\ waited \in 0 .. Timeout
  /\ connected \in [BOOLEAN -> Server \cup {NoServer}]
  /\ queue \in [BOOLEAN -> Seq(Response)]
  /\ waiting <=> held # NoEntry
  /\ waiting => record[held].list # "none"
=============================================================================
