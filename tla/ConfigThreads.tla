--------------------------- MODULE ConfigThreads ---------------------------
(***************************************************************************)
(* The two threads of the program on one NrpdConfig: the client thread     *)
(* runs the loop of NrpdConfig.tla, one call at a time, while the server   *)
(* thread answers peers requests from the active list                      *)
(* (NrpdServer::GeneratePeersResponse, src/server.cpp:177-239, which calls *)
(* NrpdConfig::ActiveServerCount and GetServerList).                       *)
(*                                                                         *)
(* Granularity of the server thread.  ActiveServerCount loads the atomic   *)
(* count twice, once to test it and once to return it; when it has to      *)
(* count, it does so under m_activeMutex and stores the result after       *)
(* releasing it.  GetServerList copies under the mutex.  Each of these is  *)
(* a step.  A call of the client thread stays one step: it takes the mutex *)
(* where it changes the list, and the count changes in the same section.   *)
(***************************************************************************)
EXTENDS NrpdConfig

CONSTANTS
  MaxWant,      \* bound: the number of peers a client asks for
  MaxRoom       \* bound: the number of entries that fit in the response

ASSUME RequestAssumption == MaxWant \in Nat /\ MaxRoom \in Nat

VARIABLES
  pc,           \* where the server thread is
  caller,       \* which of the two calls of ActiveServerCount it is in
  req,          \* the request: the protocol, the number wanted, the room
  n,            \* what ActiveServerCount returns or is about to store
  msgCount,     \* entries the response will claim
  reply,        \* entries of the buffer, filled in it and read from it
  disturbed,    \* history: the client changed list or count since req came
  shrunk,       \* history: it lowered the count of req since req came
  overtaken     \* history: it did while a count waited to be stored

serverVars == <<pc, caller, req, n, msgCount, reply>>
history == <<disturbed, shrunk, overtaken>>
threadVars == <<vars, serverVars, history>>

Request == [f : BOOLEAN, want : 0 .. MaxWant, room : 0 .. MaxRoom]
NoReply == [allocated |-> 0, filled |-> 0, read |-> 0]

ThreadsInit ==
  /\ Init
  /\ pc = "idle"
  /\ caller = "size"
  /\ req = [f |-> FALSE, want |-> 0, room |-> 0]
  /\ n = 0
  /\ msgCount = 0
  /\ reply = NoReply
  /\ disturbed = FALSE
  /\ shrunk = FALSE
  /\ overtaken = FALSE

Lesser(a, b) == IF a < b THEN a ELSE b
-----------------------------------------------------------------------------
Receive(r) ==
  /\ pc = "idle"
  /\ fault = "none"
  /\ pc' = "test"
  /\ caller' = "size"
  /\ req' = r
  /\ reply' = NoReply
  /\ disturbed' = FALSE
  /\ shrunk' = FALSE
  /\ UNCHANGED <<vars, n, msgCount, overtaken>>

(* ActiveServerCount, in four steps.                                       *)
TestCount ==
  /\ pc = "test"
  /\ pc' = IF count[req.f] > -1 THEN "load" ELSE "recount"
  /\ UNCHANGED <<vars, caller, req, n, msgCount, reply, history>>

LoadCount ==
  /\ pc = "load"
  /\ n' = count[req.f]
  /\ pc' = caller
  /\ UNCHANGED <<vars, caller, req, msgCount, reply, history>>

Recount ==
  /\ pc = "recount"
  /\ n' = NumActive(req.f)
  /\ pc' = "store"
  /\ UNCHANGED <<vars, caller, req, msgCount, reply, history>>

StoreCount ==
  /\ pc = "store"
  /\ count' = [count EXCEPT ![req.f] = n]
  /\ pc' = caller
  /\ UNCHANGED <<lists, prevProb, banned, phase, held, fault,
                 caller, req, n, msgCount, reply, history>>

(* GeneratePeersResponse once it knows the count: how many entries the     *)
(* message will have.  CalculateMessageSize takes a negative number for a  *)
(* huge one, and gives as many as fit.  A mistake: to a client that does   *)
(* not say how many it wants, as many as fit, whatever there is.           *)
EntriesThatFit ==
  LET wanted == IF req.want = 0 THEN req.room ELSE Lesser(n, req.want)
  IN  IF wanted \in 0 .. req.room THEN wanted ELSE req.room
Entries ==
  LET wanted == IF req.want = 0 THEN n ELSE Lesser(n, req.want)
  IN  IF wanted \in 0 .. req.room THEN wanted ELSE req.room

SizeMessage ==
  /\ pc = "size"
  /\ msgCount' = Entries
  /\ \/ Entries = 0 /\ pc' = "idle" /\ UNCHANGED caller
     \/ Entries # 0 /\ pc' = "test" /\ caller' = "list"
  /\ UNCHANGED <<vars, req, n, reply, history>>

(* GetServerList returns nothing when nothing is counted; testing only for *)
(* zero is a mistake.                                                      *)
NoServersIsZero == n = 0
NoServers == n <= 0

(* How many servers the loop copies into a buffer for that many; a         *)
(* mistake: stopping one early.                                            *)
CopiedShort(actual) == Lesser(actual - 1, NumActive(req.f))
Copied(actual) == Lesser(actual, NumActive(req.f))

(* GetServerList makes a buffer for as many entries as are counted now, if *)
(* they are fewer than asked for, and fills it from the list, with zeros   *)
(* beyond it.  GenerateResponsePeersMessage then reads the msgCount        *)
(* entries of its message out of that buffer, however many it has: the     *)
(* size of the buffer is returned, but not looked at.                      *)
CopyList ==
  /\ pc = "list"
  /\ \/ NoServers /\ UNCHANGED reply
     \/ /\ ~NoServers
        /\ LET actual == Lesser(n, msgCount)
           IN  reply' = [allocated |-> actual,
                         filled |-> Copied(actual),
                         read |-> msgCount]
  /\ pc' = "idle"
  /\ UNCHANGED <<vars, caller, req, n, msgCount, history>>

Respond ==
  \/ TestCount
  \/ LoadCount
  \/ Recount
  \/ StoreCount
  \/ SizeMessage
  \/ CopyList

(* The client thread runs, and the history notes what it disturbs.         *)
ClientThread ==
  /\ ClientNext \/ \E s \in Server : BanChanges(s)
  /\ LET changes == active' # active \/ count' # count
     IN  /\ disturbed' = (disturbed \/ changes)
         /\ shrunk' = (shrunk \/ count'[req.f] < count[req.f])
         /\ overtaken' = (overtaken \/ (changes /\ pc = "store"))
  /\ UNCHANGED serverVars

ThreadsNext ==
  \/ ClientThread
  \/ \E r \in Request : Receive(r)
  \/ fault = "none" /\ Respond

ThreadsSpec == ThreadsInit /\ [][ThreadsNext]_threadVars
-----------------------------------------------------------------------------
ThreadsTypeOK ==
  /\ TypeOK
  /\ pc \in {"idle", "test", "load", "recount", "store", "size", "list"}
  /\ caller \in {"size", "list"}
  /\ req \in Request
  /\ n \in Int
  /\ msgCount \in 0 .. MaxRoom
  /\ reply \in [allocated : Nat, filled : Nat, read : 0 .. MaxRoom]
  /\ disturbed \in BOOLEAN /\ shrunk \in BOOLEAN /\ overtaken \in BOOLEAN

(* The message is read from beyond the end of the buffer in one case only: *)
(* the client thread lowered the count while the response was made         *)
(* (config.cpp:319-330, protocol.cpp:376).  Neither the servers that it    *)
(* adds, nor a count that the server thread itself stores too late, does   *)
(* that.                                                                   *)
ReadsPastOnlyIfShrunk == reply.read > reply.allocated => shrunk

(* The cached count gets ahead of the list in one way only: at some time,  *)
(* the client thread changed the list after the server thread had counted  *)
(* it, and before it stored the count (config.cpp:279-288).                *)
OverstatesOnlyWhenOvertaken == ~overtaken => CountNeverOverstates

(* A response made while the client thread left the list alone, with a     *)
(* count that was never overtaken, has an entry for each server that the   *)
(* buffer was made for and filled with.                                    *)
SteadyReplyIsExact ==
  ~overtaken /\ ~disturbed =>
    reply.read = reply.filled /\ reply.read = reply.allocated
-----------------------------------------------------------------------------
(* "Exit the loop when requested count of servers are copied"              *)
(* (config.cpp:373): the buffer that GetServerList returns has the entries *)
(* that its caller asked for, all of which it then reads                   *)
(* (server.cpp:229-231).                                                   *)
RequestedAreThere == reply.read <= reply.allocated
=============================================================================
