------------------------------ MODULE Exchange ------------------------------
(***************************************************************************)
(* A client and its servers over a network that loses, delays, reorders    *)
(* and duplicates packets.  A server remembers the client for a while and  *)
(* ignores what it asks in that time (server.cpp:463-469), which the       *)
(* client's retry time is to avoid.  A server process may end and start    *)
(* again, which it does with an empty memory.                              *)
(*                                                                         *)
(* The time since a server accepted the client stands for its entry in     *)
(* m_recentClients, which RateLimit of MruCache.tla says is enough.  The   *)
(* servers run this program or another one: they reject the types they do  *)
(* not support, may answer fewer than they do, may say that they are busy, *)
(* and may send something invalid.                                         *)
(***************************************************************************)
EXTENDS NrpdClient, FiniteSets

CONSTANTS
  Lifetime,      \* the server's memory of a client, 60 seconds
  Supports,      \* the types each server supports
  Invalid,       \* servers whose answers may be invalid
  Busy,          \* servers that may say so
  MaxNet,        \* bound: packets in the network, each way
  MaxRefusals    \* bound: requests that are refused or fail to be sent

ASSUME NetAssumption ==
  /\ Lifetime \in Nat /\ Lifetime <= Retry
  /\ Supports \in [Server -> SUBSET PeerType]
  /\ MaxNet \in Nat /\ MaxRefusals \in Nat

VARIABLES
  requests,   \* requests on their way
  responses,  \* responses on their way, and whether they come twice
  recent,     \* the time since each server accepted the client, up to Lifetime
  refusals,   \* how often a request was refused or not sent
  responded,  \* history: servers that have sent a valid answer
  old,        \* history: packets in the socket when the request was sent
  accepted    \* history: the entry each server accepted a request in time for

net == <<requests, responses>>
history == <<responded, old, accepted>>
vars == <<clientVars, net, recent, refusals, history>>

Init ==
  /\ ClientInit
  /\ requests = {}
  /\ responses = {}
  /\ recent = [s \in Server |-> Lifetime]
  /\ refusals = 0
  /\ responded = {}
  /\ old = 0
  /\ accepted = [s \in Server |-> NoEntry]

Room(packets) == Cardinality(packets) < MaxNet
-----------------------------------------------------------------------------
(* What does not fit into the bounded network is lost.                     *)
ClientAsks(e) ==
  /\ Ask(e)
  /\ requests' = IF Room(requests) THEN requests \cup {Request(e)} ELSE requests
  /\ old' = Len(queue[Socket(e)])
  /\ UNCHANGED <<responses, recent, refusals, responded, accepted>>

ClientCannotAsk(e) ==
  /\ refusals < MaxRefusals
  /\ refusals' = refusals + 1
  /\ AskFails(e)
  /\ UNCHANGED <<net, recent, history>>

(* The client waits no longer, and a request still on its way is overdue.  *)
Overdue(rs) == {[r EXCEPT !.overdue = TRUE] : r \in rs}

ClientReports ==
  /\ \/ TimeOut
     \/ HandleInvalid
     \/ \E learned \in SUBSET Entry : HandleResponse(learned)
  /\ requests' = Overdue(requests)
  /\ old' = 0
  /\ UNCHANGED <<responses, recent, refusals, responded, accepted>>

(* A server ignores a client it has heard from recently.                   *)
ServerIgnores(r) ==
  /\ recent[r.to] < Lifetime
  /\ requests' = requests \ {r}
  /\ UNCHANGED <<clientVars, responses, recent, refusals, history>>

Answer(r, answered, valid, busy) ==
  [from |-> r.to, valid |-> valid, busy |-> busy,
   rejected |-> r.types \ Supports[r.to], answered |-> answered]

(* Or answers it: what it supports, as far as it has anything and there is *)
(* room; and rejects what it does not.                                     *)
ServerAnswers(r, answered, valid, busy) ==
  /\ recent[r.to] >= Lifetime
  /\ recent' = [recent EXCEPT ![r.to] = 0]
  /\ valid \/ r.to \in Invalid
  /\ busy => r.to \in Busy
  /\ requests' = requests \ {r}
  /\ \E twice \in BOOLEAN :
       responses' = IF Room(responses)
                    THEN responses \cup
                           {[packet |-> Answer(r, answered, valid, busy), twice |-> twice]}
                    ELSE responses
  /\ responded' = IF valid THEN responded \cup {r.to} ELSE responded
  /\ accepted' = [accepted EXCEPT ![r.to] = IF r.overdue THEN NoEntry ELSE r.by]
  /\ UNCHANGED <<clientVars, refusals, old>>

(* No process has the port: the host refuses the packet, and the client's  *)
(* recv() fails if it still waits.  The next process starts anew.          *)
HostRefuses(r) ==
  /\ refusals < MaxRefusals
  /\ refusals' = refusals + 1
  /\ recent' = [recent EXCEPT ![r.to] = Lifetime]
  /\ accepted' = [accepted EXCEPT ![r.to] = NoEntry]
  /\ IF waiting /\ held.server = r.to
     THEN RecvFails /\ old' = 0 /\ requests' = Overdue(requests \ {r})
     ELSE UNCHANGED <<clientVars, old>> /\ requests' = requests \ {r}
  /\ UNCHANGED <<responses, responded>>

(* The network delivers a packet, perhaps once more later, or loses it.    *)
Deliver(p) ==
  /\ Arrive(p.packet)
  /\ responses' = (responses \ {p}) \cup (IF p.twice THEN {[p EXCEPT !.twice = FALSE]} ELSE {})
  /\ UNCHANGED <<requests, recent, refusals, history>>

Lose ==
  /\ \/ \E r \in requests : requests' = requests \ {r} /\ UNCHANGED responses
     \/ \E p \in responses : responses' = responses \ {p} /\ UNCHANGED requests
  /\ UNCHANGED <<clientVars, recent, refusals, history>>

Tick ==
  /\ Pass
  /\ recent' = [s \in Server |-> IF recent[s] < Lifetime THEN recent[s] + 1 ELSE recent[s]]
  /\ accepted' = [s \in Server |-> IF recent'[s] < Lifetime THEN accepted[s] ELSE NoEntry]
  /\ UNCHANGED <<net, refusals, responded, old>>

Next ==
  \/ \E e \in Entry : ClientAsks(e) \/ ClientCannotAsk(e)
  \/ ClientReports
  \/ \E r \in requests : \/ ServerIgnores(r)
                         \/ HostRefuses(r)
                         \/ \E answered \in SUBSET (r.types \cap Supports[r.to]),
                               valid, busy \in BOOLEAN :
                              ServerAnswers(r, answered, valid, busy)
  \/ \E p \in responses : Deliver(p)
  \/ Lose
  \/ Tick

Spec == Init /\ [][Next]_vars

(* Time passes, recv() returns, and the list of probationary servers is    *)
(* served again and again, which is NeitherListStarves of NrpdConfig.tla.  *)
(* The network and the servers do as they like.                            *)
FairSpec ==
  /\ Spec
  /\ WF_vars(Tick)
  /\ WF_vars(ClientReports)
  /\ SF_vars(\E e \in Listed("prob") : ClientAsks(e))
-----------------------------------------------------------------------------
(* Every variable has its type.                                            *)
TypeOK ==
  /\ ClientTypeOK
  /\ requests \subseteq [to : Server, by : Entry, types : SUBSET PeerType, overdue : BOOLEAN]
  /\ responses \subseteq [packet : Response, twice : BOOLEAN]
  /\ recent \in [Server -> 0 .. Lifetime]
  /\ refusals \in 0 .. MaxRefusals
  /\ responded \subseteq Server
  /\ old \in 0 .. MaxQueue
  /\ accepted \in [Server -> Entry \cup {NoEntry}]

(* A server is taken for proven good, and handed on to others, only when   *)
(* it has answered (config.h:47, 134), unless its socket held an old       *)
(* packet when it was asked: what comes from another server while the      *)
(* client waits, late or twice, does no harm.                              *)
CreditIsDue ==
  [][\A e \in Listed("prob") :
       record'[e].list = "active" => e.server \in responded \/ old > 0]_vars

(* Types that a server has rejected are not asked of it again              *)
(* (client.cpp:143-145).  A record never regains a type.  Under the        *)
(* condition of CreditIsDue it loses none that its server supports, since  *)
(* the rejection was that server's own, and a server that becomes active   *)
(* is from then on asked for nothing else, since the record moves along.   *)
(* (With two listings of a server, the answer to a request for the one may *)
(* be taken for the other's, which has not rejected as much.)              *)
ListedOnce(e) == \A d \in Entry : d.server = e.server => d = e
RejectionsAreKept ==
  [][\A e \in Entry :
       record[e].list # "none" /\ record'[e].list # "none" =>
         /\ record'[e].types \subseteq record[e].types
         /\ old = 0 => record[e].types \cap Supports[e.server] \subseteq record'[e].types
         /\ old = 0 /\ record[e].list = "prob" /\ record'[e].list = "active" /\ ListedOnce(e)
              => record'[e].types \subseteq Supports[e.server]]_vars

(* The client does not ask a server that will ignore it                    *)
(* (client.cpp:493 against server.cpp:463): while a server remembers a     *)
(* request for an entry, no other is on its way for that entry.  Excepted  *)
(* are requests that come, or came, when the client did not wait any more; *)
(* and a server that is listed twice is asked for each of its entries.     *)
NotAskedTooSoon ==
  \A r \in requests : r.overdue \/ accepted[r.to] # r.by

(* The life of a server is that of ServerLife.tla, which NrpdConfig        *)
(* implements too: what stands here for its lists and its iterators does   *)
(* nothing to a server that they would not do (config.cpp:478-683).        *)
SameHost(s, t) == s = t
ServersOf(entries) == {e.server : e \in entries}
Unproven == {e \in Listed("active") : record[e].probationary}
Life == INSTANCE ServerLife
          WITH Seeds <- ServersOf(Seeds),
               active <- ServersOf(Listed("active")), unproven <- ServersOf(Unproven),
               onProbation <- ServersOf(Listed("prob")), lapsed <- {}
ImplementsServerLife == Life!Spec

(* A server is on probation until it responds or has failed often enough   *)
(* (config.h:134), however little gets through, unless its host goes on    *)
(* refusing for ever.                                                      *)
ProbationEnds ==
  \A e \in Entry : record[e].list = "prob" ~> record[e].list # "prob"
-----------------------------------------------------------------------------
(* What the comments say and the code does not do.                         *)

(* "Adds servers to probationary list until they respond, or fail 5 times  *)
(* in a row" (config.h:134): a server that becomes active has responded.   *)
ActiveServersHaveResponded ==
  [][\A e \in Listed("prob") :
       record'[e].list = "active" => e.server \in responded]_vars
=============================================================================
