----------------------------- MODULE NrpdConfig -----------------------------
(***************************************************************************)
(* NrpdConfig (src/config.h, src/config.cpp): the servers a client knows,  *)
(* and the life of one of them.  A server is learned from a peers message  *)
(* as probationary, becomes active when it answers, and is banned and      *)
(* removed when it fails too often.                                        *)
(*                                                                         *)
(* The lists are driven by the client thread (src/client.cpp:476-640),     *)
(* whose loop is the variable phase: GetNextServer hands out a reference,  *)
(* and the loop either drops it, or reports a failure, or parses the       *)
(* response, which may add servers, and then reports a success.  In this   *)
(* module every call is one step; ConfigThreads.tla interleaves the steps  *)
(* of the server thread, which reads the active list.                      *)
(*                                                                         *)
(* m_bannedServers is the MruCache of 24 hours, through its abstract       *)
(* specification.  Two uses of the iterators are undefined in C++: taking  *)
(* prev() of begin(), whose outcomes in this build are modelled            *)
(* (PrevActive), and using an iterator to an erased element, or front() of *)
(* an empty list, after which the model stops with a fault.  Comparing a   *)
(* server with *end() of a list, undefined too, compares it with members   *)
(* of NrpdConfig that follow the list, and is taken to find it different.  *)
(***************************************************************************)
EXTENDS Integers, FiniteSets, SequencesExt

CONSTANTS
  Server,           \* records [v6, host, port]: addresses of servers
  Seeds,            \* the servers in m_activeServers when the program starts
  MaxTimeouts,      \* CLIENT_MAX_SERVER_TIMEOUT_COUNT
  End, Dangling,    \* m_activeIterator at end(), or at an erased element
  MaxProbationary,  \* bound: length of the probationary list
  CountDepth        \* bound: how far below zero a cached count goes

Address == [v6 : BOOLEAN, host : Nat, port : Nat]

SameHost(s, t) == s.v6 = t.v6 /\ s.host = t.host

ASSUME ServerAssumption ==
  /\ Server \subseteq Address
  /\ IsFiniteSet(Server)
  /\ End \notin Server /\ Dangling \notin Server /\ End # Dangling
ASSUME SeedsAssumption ==
  /\ Seeds \subseteq Server
  /\ \A s, t \in Seeds : SameHost(s, t) => s = t
ASSUME LimitsAssumption ==
  /\ MaxTimeouts \in Nat \ {0}
  /\ MaxProbationary \in Nat
  /\ CountDepth \in Nat \ {0}

VARIABLES
  active,      \* m_activeServers: a record for each address in the set
  prob,        \* m_probationaryServers: a list of records with address
  activeIt,    \* m_activeIterator: an address of active, End or Dangling
  probIt,      \* m_probationaryIterator: a position of prob, 0 for end()
  prevProb,    \* m_prevReturnedProbationary
  count,       \* m_countIp4Servers and m_countIp6Servers, by v6
  banned,      \* m_bannedServers
  phase,       \* where the client loop is
  held,        \* the list the reference held by the client points into
  fault        \* the undefined behaviour met, or "none"

lists == <<active, prob, activeIt, probIt>>
vars == <<lists, prevProb, count, banned, phase, held, fault>>

Banned == INSTANCE ExpiringSet
            WITH Key <- Server, entry <- banned, answer <- "unused"

(* failureCount only matters up to the limit, where it saturates.          *)
ActiveRecord == [fails : 0 .. MaxTimeouts, probationary : BOOLEAN]
ProbRecord == [addr : Server, fails : 0 .. MaxTimeouts]

(* Every record is constructed with the probationary flag set, those that  *)
(* are put straight into the active list included.                         *)
Init ==
  /\ active = [s \in Seeds |-> [fails |-> 0, probationary |-> TRUE]]
  /\ prob = <<>>
  /\ activeIt = End
  /\ probIt = 0
  /\ prevProb = TRUE
  /\ count = [f \in BOOLEAN |-> -1]
  /\ banned = [s \in Server |-> "absent"]
  /\ phase = "idle"
  /\ held = "none"
  /\ fault = "none"
-----------------------------------------------------------------------------
(* The order of the set: IPv4 before IPv6, then by address; the port does  *)
(* not matter, so the set holds one server of a host.                      *)
Before(s, t) == (~s.v6 /\ t.v6) \/ (s.v6 = t.v6 /\ s.host < t.host)

Firsts(S) == {s \in S : \A t \in S : ~Before(t, s)}
Lasts(S) == {s \in S : \A t \in S : ~Before(s, t)}

(* A mistake: the iterator starts over on every call.                      *)
NextActiveStartsOver ==
  IF DOMAIN active = {} THEN {End} ELSE Firsts(DOMAIN active)

(* Where the iterators go: to the next element, cyclically.                *)
NextActive ==
  LET A == DOMAIN active
      later == {t \in A : activeIt # End /\ Before(activeIt, t)}
  IN  IF A = {} THEN {End} ELSE IF later # {} THEN Firsts(later) ELSE Firsts(A)

NextProb == IF probIt < Len(prob) THEN probIt + 1
            ELSE IF prob = <<>> THEN 0 ELSE 1

(* prev(m_activeIterator), of which begin() has none.  libstdc++ then      *)
(* yields end(), or, when the tree's root is its leftmost node, the very   *)
(* element that is about to be erased.                                     *)
PrevActive ==
  LET A == DOMAIN active
      earlier == {t \in A : Before(t, activeIt)}
  IN  IF earlier # {} THEN Lasts(earlier)
      ELSE CASE Cardinality(A) = 1 -> {Dangling}
             [] Cardinality(A) = 2 -> {Dangling, End}
             [] OTHER -> {End}

(* The record the client's reference points to.                            *)
Current == IF held = "active" THEN activeIt ELSE prob[probIt].addr
Fails == IF held = "active" THEN active[activeIt].fails ELSE prob[probIt].fails
Flagged == held = "prob" \/ active[activeIt].probationary

(* The server under the iterator, and a list without a server; the mistake *)
(* is not to look at the protocol.                                         *)
UnderProbIt(s) == probIt # 0 /\ prob[probIt].addr = s
WithoutAddress(list, s) == SelectSeq(list, LAMBDA r : r.addr.host # s.host)

(* list::remove, which goes along the list: what it keeps of the first n.  *)
KeptUpTo(list, s) ==
  LET kept[n \in 0 .. Len(list)] ==
        IF n = 0 THEN <<>>
        ELSE IF list[n].addr = s THEN kept[n - 1]
        ELSE Append(kept[n - 1], list[n])
  IN  kept
Without(list, s) == KeptUpTo(list, s)[Len(list)]

(* A mistake: leaving the iterator where it was.                           *)
EraseProbInPlace(s) ==
  /\ prob' = Without(prob, s)
  /\ UNCHANGED probIt

(* Erasing a server from the probationary list: the element under the      *)
(* iterator if it is that server, and then the iterator steps back; else   *)
(* every element equal to it, and the iterator stays where it is.          *)
EraseProb(s) ==
  \/ /\ UnderProbIt(s)
     /\ prob' = RemoveAt(prob, probIt)
     /\ probIt' = probIt - 1
  \/ /\ ~UnderProbIt(s)
     /\ prob' = Without(prob, s)
     /\ probIt' = Len(KeptUpTo(prob, s)[probIt])

(* A mistake: the counter of the other protocol goes down.                 *)
UncountOther(s) ==
  /\ count[~s.v6] > -CountDepth
  /\ count' = [count EXCEPT ![~s.v6] = @ - 1]

(* m_countIp?Servers -= 1                                                  *)
Uncount(s) ==
  /\ count[s.v6] > -CountDepth
  /\ count' = [count EXCEPT ![s.v6] = @ - 1]

NumActive(f) == Cardinality({s \in DOMAIN active : s.v6 = f})
-----------------------------------------------------------------------------
(* GetNextServer returns a reference into one of the lists, and remembers  *)
(* into which; the mistake does not.                                       *)
TakeActiveForgets == held' = "active" /\ UNCHANGED prevProb
TakeActive == held' = "active" /\ prevProb' = FALSE
TakeProb == held' = "prob" /\ prevProb' = TRUE

(* GetNextServer: both iterators advance, whichever is used.  It returns   *)
(* from the list it did not return from last, if that one has a server.    *)
GetNextServer ==
  /\ phase = "idle"
  /\ fault = "none"
  /\ activeIt # Dangling
  /\ activeIt' \in NextActive
  /\ probIt' = NextProb
  /\ \/ activeIt' # End /\ (prevProb \/ probIt' = 0) /\ TakeActive
     \/ probIt' # 0 /\ (~prevProb \/ activeIt' = End) /\ TakeProb
  /\ phase' = "chosen"
  /\ UNCHANGED <<active, prob, count, banned, fault>>

(* GetNextServer with nothing to return: m_configuredServers is never      *)
(* filled, so that its front() does not exist.  Or next() of an iterator   *)
(* whose element has been erased.                                          *)
GetNextServerFaults ==
  /\ phase = "idle"
  /\ fault = "none"
  /\ \/ activeIt = Dangling /\ fault' = "erased iterator"
     \/ activeIt # Dangling /\ DOMAIN active = {} /\ prob = <<>> /\ fault' = "no server"
  /\ UNCHANGED <<lists, prevProb, count, banned, phase, held>>

Drop == phase' = "idle" /\ held' = "none"

(* The loop continues without reporting anything: it is too soon to ask    *)
(* this server again, the request or the connection could not be made, or  *)
(* recv failed with another error than a timeout.                          *)
Continue ==
  /\ phase = "chosen"
  /\ Drop
  /\ UNCHANGED <<lists, prevProb, count, banned, fault>>

(* IncrementServerFailCount below the limit.                               *)
TooManyFails == Fails + 2 >= MaxTimeouts

CountFailure ==
  IF held = "active"
  THEN /\ active' = [active EXCEPT ![activeIt].fails = IF @ < MaxTimeouts THEN @ + 1 ELSE @]
       /\ UNCHANGED prob
  ELSE /\ prob' = [prob EXCEPT ![probIt].fails = @ + 1]
       /\ UNCHANGED active

(* IncrementServerFailCount, called when the server timed out or sent an   *)
(* invalid response.  At the limit the server is banned and removed from   *)
(* the list its probationary flag names, not the one it is in.             *)
IncrementServerFailCount ==
  /\ phase = "chosen"
  /\ Drop
  /\ \/ /\ ~TooManyFails
        /\ CountFailure
        /\ UNCHANGED <<activeIt, probIt, count, banned>>
     \/ /\ TooManyFails
        /\ Flagged
        /\ banned' = Banned!Added(Current)
        /\ EraseProb(Current)
        /\ IF UnderProbIt(Current) THEN Uncount(Current) ELSE UNCHANGED count
        /\ active' = IF held = "prob" THEN active
                     ELSE [active EXCEPT ![activeIt].fails = IF @ < MaxTimeouts THEN @ + 1 ELSE @]
        /\ UNCHANGED activeIt
     \/ /\ TooManyFails
        /\ ~Flagged
        /\ banned' = Banned!Added(Current)
        /\ Uncount(Current)
        /\ active' = [s \in DOMAIN active \ {Current} |-> active[s]]
        /\ activeIt' \in PrevActive
        /\ UNCHANGED <<prob, probIt>>
  /\ UNCHANGED <<prevProb, fault>>

(* A valid response arrived; ParseResponse starts.                         *)
ParseResponse ==
  /\ phase = "chosen"
  /\ phase' = "parsing"
  /\ UNCHANGED <<lists, prevProb, count, banned, held, fault>>

(* A server that is neither banned nor active; the mistake is not to ask   *)
(* whether it is banned.                                                   *)
MayAddBanned(s) == \A t \in DOMAIN active : ~SameHost(s, t)
MayAdd(s) == ~Banned!Live(s) /\ \A t \in DOMAIN active : ~SameHost(s, t)

(* A mistake: learning a server restarts the list.                         *)
AddServerRestarts(s) ==
  /\ phase = "parsing"
  /\ MayAdd(s)
  /\ Len(prob) < MaxProbationary
  /\ prob' = Append(prob, [addr |-> s, fails |-> 0])
  /\ probIt' = 0
  /\ UNCHANGED <<active, activeIt, prevProb, count, banned, phase, held, fault>>

(* AddServersFromMessage, for one entry of a peers message: its loop does  *)
(* this for each.  The list itself is not searched.                        *)
AddServer(s) ==
  /\ phase = "parsing"
  /\ MayAdd(s)
  /\ Len(prob) < MaxProbationary
  /\ prob' = Append(prob, [addr |-> s, fails |-> 0])
  /\ UNCHANGED <<active, activeIt, probIt, prevProb, count, banned, phase, held, fault>>

(* MarkServerSuccessful, at the end of a response.  A flagged server is    *)
(* copied into the active list, unless its host is there, and erased from  *)
(* the probationary one.                                                   *)
MarkServerSuccessful ==
  /\ phase = "parsing"
  /\ Drop
  /\ \/ /\ ~Flagged
        /\ active' = [active EXCEPT ![activeIt].fails = 0]
        /\ UNCHANGED <<prob, probIt, count>>
     \/ /\ Flagged
        /\ \E t \in DOMAIN active : SameHost(Current, t)
        /\ active' = IF held = "prob" THEN active
                     ELSE [active EXCEPT ![activeIt] = [fails |-> 0, probationary |-> FALSE]]
        /\ EraseProb(Current)
        /\ UNCHANGED count
     \/ /\ Flagged
        /\ \A t \in DOMAIN active : ~SameHost(Current, t)
        /\ active' = [s \in DOMAIN active \cup {Current} |->
                        IF s = Current THEN [fails |-> 0, probationary |-> FALSE]
                                       ELSE active[s]]
        /\ EraseProb(Current)
        /\ count' = [count EXCEPT ![Current.v6] = @ + 1]
  /\ UNCHANGED <<activeIt, prevProb, banned, fault>>

(* ActiveServerCount: a cached count is used while it is above -1.         *)
ActiveServerCount(f) ==
  /\ fault = "none"
  /\ count[f] <= -1
  /\ count' = [count EXCEPT ![f] = NumActive(f)]
  /\ UNCHANGED <<lists, prevProb, banned, phase, held, fault>>

(* The ban of a server ends, and a cleaner of the cache erases its entry.  *)
BanChanges(s) ==
  /\ fault = "none"
  /\ Banned!Expire({s}) \/ Banned!Evict({s})
  /\ UNCHANGED <<lists, prevProb, count, phase, held, fault>>

ClientNext ==
  \/ GetNextServer
  \/ GetNextServerFaults
  \/ Continue
  \/ IncrementServerFailCount
  \/ ParseResponse
  \/ \E s \in Server : AddServer(s)
  \/ MarkServerSuccessful

Next ==
  \/ ClientNext
  \/ \E f \in BOOLEAN : ActiveServerCount(f)
  \/ \E s \in Server : BanChanges(s)

Spec == Init /\ [][Next]_vars

(* The client thread is scheduled, and recv has a timeout: the loop always *)
(* takes another step.  Which one, the network decides.                    *)
FairSpec == Spec /\ WF_vars(ClientNext)
-----------------------------------------------------------------------------
(* Every variable has its type; the set holds one server of a host.        *)
TypeOK ==
  /\ DOMAIN active \subseteq Server
  /\ active \in [DOMAIN active -> ActiveRecord]
  /\ \A s, t \in DOMAIN active : SameHost(s, t) => s = t
  /\ prob \in Seq(ProbRecord)
  /\ activeIt \in Server \cup {End, Dangling}
  /\ probIt \in 0 .. Len(prob)
  /\ prevProb \in BOOLEAN
  /\ count \in [BOOLEAN -> Int]
  /\ banned \in [Server -> {"absent", "live", "stale"}]
  /\ phase \in {"idle", "chosen", "parsing"}
  /\ held \in {"none", "active", "prob"}
  /\ fault \in {"none", "erased iterator", "no server"}

(* From GetNextServer until the outcome is reported, the client uses a     *)
(* reference into one of the lists (client.cpp:489-587), across the calls  *)
(* that add servers: what it points to is there all that time.             *)
HeldActiveIsListed == held = "active" => activeIt \in DOMAIN active
HeldProbIsListed == held = "prob" => probIt \in 1 .. Len(prob)
HeldIsListed ==
  /\ phase = "idle" <=> held = "none"
  /\ HeldActiveIsListed
  /\ HeldProbIsListed

(* The cached count of a protocol never exceeds the number of active       *)
(* servers of that protocol: whoever sizes a message by it finds as many   *)
(* servers to copy (config.cpp:243-382).                                   *)
CountNeverOverstates == \A f \in BOOLEAN : count[f] <= NumActive(f)

HostListed(s) ==
  \/ \E t \in DOMAIN active : SameHost(s, t)
  \/ \E i \in 1 .. Len(prob) : SameHost(s, prob[i].addr)

(* A host the client knows is forgotten only when the server it was using  *)
(* failed for the last time, and then that server is on the banned list:   *)
(* neither the move between the lists nor the removal of duplicates loses  *)
(* a host (config.cpp:478-607).                                            *)
HostsAreNotLost ==
  [][\A s \in Server :
       HostListed(s) /\ ~HostListed(s)' =>
         /\ phase = "chosen" /\ TooManyFails
         /\ SameHost(s, Current)
         /\ banned'[Current] # "absent"]_vars

(* The life of a server is that of ServerLife.tla, whatever becomes of the *)
(* lists' order, the iterators and duplicates (config.cpp:478-683).  Seen  *)
(* from there, a server is on probation once, and active as an address.    *)
Unproven == {s \in DOMAIN active : active[s].probationary}
OnProbation == {prob[i].addr : i \in 1 .. Len(prob)}
BannedAs(status) == {s \in Server : banned[s] = status}
Life == INSTANCE ServerLife
          WITH active <- DOMAIN active, unproven <- Unproven, onProbation <- OnProbation,
               banned <- BannedAs("live"), lapsed <- BannedAs("stale")
ImplementsServerLife == Life!Spec

(* GetNextServer alternates: as long as a list has servers, it is served   *)
(* again and again (config.h:127-128).                                     *)
Stopped == fault # "none"
NeitherListStarves ==
  /\ []<>(Stopped \/ prob = <<>> \/ held = "prob")
  /\ []<>(Stopped \/ DOMAIN active = {} \/ held = "active")

(* While no server is probationary, the active ones are visited in turn:   *)
(* removals by iterator make the loop skip nobody for ever.  (While there  *)
(* is one, every other advance of m_activeIterator is not used, so that    *)
(* the same half of the active servers may be returned for ever.)          *)
ActiveServersTakeTurns ==
  \A s \in Server :
    <>[](s \in DOMAIN active /\ prob = <<>>)
      => []<>(Stopped \/ (held = "active" /\ activeIt = s))
-----------------------------------------------------------------------------
(* What the comments say and the code does not do.                         *)

(* "May delete the server pointed to by serv" (config.h:139): and then the *)
(* lists are still good for the next GetNextServer.                        *)
ActiveIteratorValid == activeIt # Dangling
=============================================================================
