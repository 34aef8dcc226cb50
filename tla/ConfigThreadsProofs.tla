------------------------ MODULE ConfigThreadsProofs ------------------------
(***************************************************************************)
(* Proofs about the two threads on one NrpdConfig, for any servers, limits *)
(* and requests.                                                           *)
(*                                                                         *)
(* The client thread's steps are those of NrpdConfig, so that what they do *)
(* to the cached counts is taken from NrpdConfigProofs.  That gives the    *)
(* bound on the counts only as long as the bound held before; what holds   *)
(* in any case, also after a count was overtaken, is ListInv.              *)
(***************************************************************************)
EXTENDS ConfigThreads, NrpdConfigProofs

USE DEF history

(* The list is finite and the counts are integers, overtaken or not.       *)
ListInv ==
  /\ IsFiniteSet(DOMAIN active)
  /\ count \in [BOOLEAN -> Int]

(* What is counted is a natural number.                                    *)
LEMMA NumActiveType ==
  ASSUME ListInv, NEW f PROVE NumActive(f) \in Nat
<1>1. IsFiniteSet({s \in DOMAIN active : s.v6 = f})
  BY FS_Subset DEF ListInv
<1> QED
  BY <1>1, FS_CardinalityType DEF NumActive

(* A step of the client thread that leaves the active list alone.          *)
QuietStep ==
  \/ GetNextServer
  \/ GetNextServerFaults
  \/ Continue
  \/ ParseResponse
  \/ \E s \in Server : AddServer(s)
  \/ \E s \in Server : BanChanges(s)

LEMMA QuietKeeps == QuietStep => active' = active /\ count' = count
BY DEF QuietStep, GetNextServer, GetNextServerFaults, Continue, ParseResponse,
       AddServer, BanChanges, lists

LEMMA ClientSteps ==
  ASSUME ClientNext \/ \E s \in Server : BanChanges(s)
  PROVE  QuietStep \/ IncrementServerFailCount \/ MarkServerSuccessful
BY DEF ClientNext, QuietStep

LEMMA ListFail == ListInv /\ IncrementServerFailCount => ListInv'
<1> SUFFICES ASSUME ListInv, IncrementServerFailCount PROVE ListInv'
  OBVIOUS
<1>1. \/ DOMAIN active' = DOMAIN active
      \/ DOMAIN active' = DOMAIN active \ {Current}
  BY DEF IncrementServerFailCount, CountFailure
<1>2. IsFiniteSet(DOMAIN active')
  BY <1>1, FS_RemoveElement DEF ListInv
<1>3. Uncount(Current) \/ count' = count
  BY DEF IncrementServerFailCount
<1>4. count' \in [BOOLEAN -> Int]
  BY <1>3, UncountLowers DEF ListInv
<1> QED
  BY <1>2, <1>4 DEF ListInv

LEMMA ListMark == ListInv /\ MarkServerSuccessful => ListInv'
<1> SUFFICES ASSUME ListInv, MarkServerSuccessful PROVE ListInv'
  OBVIOUS
<1>1. \/ DOMAIN active' = DOMAIN active
      \/ DOMAIN active' = DOMAIN active \cup {Current}
  BY DEF MarkServerSuccessful
<1>2. IsFiniteSet(DOMAIN active')
  BY <1>1, FS_AddElement DEF ListInv
<1>3. \/ count' = count
      \/ count' = [count EXCEPT ![Current.v6] = @ + 1]
  BY DEF MarkServerSuccessful
<1>4. count' \in [BOOLEAN -> Int]
  <2>1. CASE count' = count
    BY <2>1 DEF ListInv
  <2>2. CASE count' = [count EXCEPT ![Current.v6] = @ + 1]
    <3>1. count' = [f \in BOOLEAN |->
                      IF f = Current.v6 THEN count[f] + 1 ELSE count[f]]
      BY <2>2 DEF ListInv
    <3>2. \A f \in BOOLEAN :
            (IF f = Current.v6 THEN count[f] + 1 ELSE count[f]) \in Int
      BY DEF ListInv
    <3> QED
      BY <3>1, <3>2
  <2> QED
    BY <1>3, <2>1, <2>2
<1> QED
  BY <1>2, <1>4 DEF ListInv
-----------------------------------------------------------------------------
(* Where the server thread is.  msgCount is fixed when the second call of  *)
(* ActiveServerCount starts, and only the list phase reads it.             *)
ServerInv ==
  /\ ListInv
  /\ caller \in {"size", "list"}
  /\ req \in Request
  /\ n \in Int
  /\ msgCount \in Nat
  /\ reply \in [allocated : Int, filled : Int, read : Nat]
  /\ pc = "list" => caller = "list"

(* The number of entries is one the message has room for.                  *)
LEMMA EntriesFit ==
  ASSUME req \in Request, n \in Int
  PROVE  Entries \in Nat /\ Entries <= req.room
<1>1. req.want \in Nat /\ req.room \in Nat
  BY RequestAssumption DEF Request
<1> DEFINE w == IF req.want = 0 THEN n ELSE Lesser(n, req.want)
<1>2. w \in Int
  BY <1>1 DEF Lesser
<1>3. Entries = IF w \in 0 .. req.room THEN w ELSE req.room
  BY DEF Entries
<1> HIDE DEF w
<1> QED
  BY <1>1, <1>2, <1>3

LEMMA ServerInit == ThreadsInit => ServerInv
<1> SUFFICES ASSUME ThreadsInit PROVE ServerInv
  OBVIOUS
<1>1. ListInv
  BY CountInit DEF ThreadsInit, CountInv, ListInv
<1>2. req \in Request
  BY RequestAssumption DEF ThreadsInit, Request
<1> QED
  BY <1>1, <1>2 DEF ThreadsInit, ServerInv, NoReply

LEMMA ServerStep == ServerInv /\ [ThreadsNext]_threadVars => ServerInv'
<1> SUFFICES ASSUME ServerInv, [ThreadsNext]_threadVars PROVE ServerInv'
  OBVIOUS
<1> USE DEF ServerInv
<1>1. CASE ClientThread
  <2>1. UNCHANGED serverVars
    BY <1>1 DEF ClientThread
  <2>2. QuietStep \/ IncrementServerFailCount \/ MarkServerSuccessful
    BY <1>1, ClientSteps DEF ClientThread
  <2>3. ListInv'
    <3>1. CASE QuietStep
      BY <3>1, QuietKeeps DEF ListInv
    <3> QED
      BY <2>2, <3>1, ListFail, ListMark
  <2> QED
    BY <2>1, <2>3 DEF serverVars
<1>2. CASE \E r \in Request : Receive(r)
  BY <1>2 DEF Receive, NoReply, ListInv, vars, lists
<1>3. CASE TestCount
  BY <1>3 DEF TestCount, ListInv, vars, lists
<1>4. CASE LoadCount
  <2>1. count[req.f] \in Int
    BY DEF ListInv, Request
  <2> QED
    BY <1>4, <2>1 DEF LoadCount, ListInv, vars, lists
<1>5. CASE Recount
  <2>1. NumActive(req.f) \in Nat
    BY NumActiveType
  <2> QED
    BY <1>5, <2>1 DEF Recount, ListInv, vars, lists
<1>6. CASE StoreCount
  <2>1. count' \in [BOOLEAN -> Int]
    BY <1>6 DEF StoreCount, ListInv
  <2>2. ListInv'
    BY <1>6, <2>1 DEF StoreCount, ListInv, lists
  <2> QED
    BY <1>6, <2>2 DEF StoreCount
<1>7. CASE SizeMessage
  <2>1. msgCount' \in Nat /\ msgCount' <= req.room
    BY <1>7, EntriesFit DEF SizeMessage
  <2>2. ListInv'
    BY <1>7 DEF SizeMessage, ListInv, vars, lists
  <2> QED
    BY <1>7, <2>1, <2>2 DEF SizeMessage
<1>8. CASE CopyList
  <2>1. reply' \in [allocated : Int, filled : Int, read : Nat]
    <3>1. NumActive(req.f) \in Int /\ Lesser(n, msgCount) \in Int
      BY NumActiveType DEF Lesser
    <3>2. Copied(Lesser(n, msgCount)) \in Int
      BY <3>1 DEF Copied, Lesser
    <3> QED
      BY <1>8, <3>1, <3>2 DEF CopyList
  <2> QED
    BY <1>8, <2>1 DEF CopyList, ListInv, vars, lists
<1>9. CASE UNCHANGED threadVars
  BY <1>9 DEF threadVars, serverVars, ListInv, vars, lists
<1> QED
  BY <1>1, <1>2, <1>3, <1>4, <1>5, <1>6, <1>7, <1>8, <1>9
     DEF ThreadsNext, Respond
-----------------------------------------------------------------------------
(* A response that is made while the count does not go down, from the      *)
(* request to the copy: the second count is not below the first one, and   *)
(* neither is below the entries of the message.                            *)
Grows ==
  /\ pc = "load" => count[req.f] > -1
  /\ pc = "store" => caller = "size" /\ n > -1
  /\ pc = "size" => n > -1 /\ n <= count[req.f]
  /\ caller = "list" /\ pc # "idle" =>
       /\ pc \in {"test", "load", "list"}
       /\ msgCount > 0 /\ msgCount <= count[req.f]
  /\ pc = "list" => msgCount <= n
  /\ reply.read <= reply.allocated

GrowsInv == ServerInv /\ (~shrunk => Grows)

(* A message is sized by no more than the count.                           *)
LEMMA EntriesAreCounted ==
  ASSUME req \in Request, n \in Nat
  PROVE  Entries <= n
<1>1. req.want \in Nat /\ req.room \in Nat
  BY RequestAssumption DEF Request
<1> DEFINE w == IF req.want = 0 THEN n ELSE Lesser(n, req.want)
<1>2. w \in Nat /\ w <= n
  BY <1>1 DEF Lesser
<1>3. Entries = IF w \in 0 .. req.room THEN w ELSE req.room
  BY DEF Entries
<1> HIDE DEF w
<1> QED
  BY <1>1, <1>2, <1>3

LEMMA GrowsInit == ThreadsInit => GrowsInv
BY ServerInit DEF ThreadsInit, GrowsInv, Grows, NoReply

LEMMA GrowsStep == GrowsInv /\ [ThreadsNext]_threadVars => GrowsInv'
<1> SUFFICES ASSUME GrowsInv, [ThreadsNext]_threadVars, ~shrunk'
             PROVE  Grows'
  BY ServerStep DEF GrowsInv
<1>1. ServerInv /\ ServerInv'
  BY ServerStep DEF GrowsInv
<1>2. count[req.f] \in Int /\ count'[req.f] \in Int /\ n \in Int /\ msgCount \in Int
  BY <1>1 DEF ServerInv, ListInv, Request
<1>3. CASE ClientThread
  <2>1. UNCHANGED <<pc, caller, req, n, msgCount, reply>>
    BY <1>3 DEF ClientThread, serverVars
  <2>2. ~shrunk /\ ~(count'[req.f] < count[req.f])
    <3>1. shrunk' = (shrunk \/ count'[req.f] < count[req.f])
      BY <1>3 DEF ClientThread
    <3> QED
      BY <3>1
  <2>3. count[req.f] <= count'[req.f]
    BY <1>2, <2>2
  <2>4. Grows
    BY <2>2 DEF GrowsInv
  <2> QED
    BY <1>2, <2>1, <2>3, <2>4 DEF Grows
<1>4. CASE \E r \in Request : Receive(r)
  BY <1>4 DEF Receive, Grows, NoReply
<1>5. ASSUME \/ TestCount \/ LoadCount \/ Recount \/ StoreCount
             \/ SizeMessage \/ CopyList \/ UNCHANGED threadVars
      PROVE  Grows
  <2>1. shrunk' = shrunk
    BY <1>5 DEF TestCount, LoadCount, Recount, StoreCount, SizeMessage,
                CopyList, threadVars, history
  <2> QED
    BY <2>1 DEF GrowsInv
<1>6. CASE TestCount
  BY <1>1, <1>2, <1>5, <1>6 DEF TestCount, Grows, vars, ServerInv
<1>7. CASE LoadCount
  BY <1>1, <1>2, <1>5, <1>7 DEF LoadCount, Grows, vars, ServerInv
<1>8. CASE Recount
  <2>1. NumActive(req.f) \in Nat
    BY <1>1, NumActiveType DEF ServerInv
  <2> QED
    BY <1>1, <1>2, <1>5, <1>8, <2>1 DEF Recount, Grows, vars, ServerInv
<1>9. CASE StoreCount
  <2>1. caller = "size" /\ pc' = "size" /\ n > -1
    BY <1>5, <1>9 DEF StoreCount, Grows
  <2>2. count'[req.f] = n
    BY <1>1, <1>9 DEF StoreCount, ServerInv, ListInv, Request
  <2> QED
    BY <1>2, <1>5, <1>9, <2>1, <2>2 DEF StoreCount, Grows
<1>10. CASE SizeMessage
  <2>1. n \in Nat /\ n <= count[req.f]
    BY <1>2, <1>5, <1>10 DEF SizeMessage, Grows
  <2>2. Entries \in Nat /\ Entries <= n
    BY <1>1, <2>1, EntriesFit, EntriesAreCounted DEF ServerInv
  <2>3. Entries <= count[req.f]
    BY <1>2, <2>1, <2>2
  <2> QED
    BY <1>5, <1>10, <2>2, <2>3 DEF SizeMessage, Grows, vars
<1>11. CASE CopyList
  <2>1. pc' = "idle" /\ UNCHANGED <<count, req>>
    BY <1>11 DEF CopyList, vars
  <2>2. reply'.read <= reply'.allocated
    <3>1. CASE reply' = reply
      BY <1>5, <1>11, <3>1 DEF Grows
    <3>2. CASE reply' # reply
      <4>1. msgCount <= n
        BY <1>5, <1>11 DEF CopyList, Grows
      <4>2. Lesser(n, msgCount) = msgCount
        BY <1>2, <4>1 DEF Lesser
      <4>3. reply'.read = msgCount /\ reply'.allocated = msgCount
        BY <1>11, <3>2, <4>2 DEF CopyList
      <4> QED
        BY <1>2, <4>3
    <3> QED
      BY <3>1, <3>2
  <2> QED
    BY <2>1, <2>2 DEF Grows
<1>12. CASE UNCHANGED threadVars
  BY <1>5, <1>12 DEF threadVars, serverVars, vars, Grows
<1> QED
  BY <1>3, <1>4, <1>6, <1>7, <1>8, <1>9, <1>10, <1>11, <1>12
     DEF ThreadsNext, Respond

(* The message is read from beyond the end of the buffer only if the       *)
(* client thread lowered the count since the request came: not because of  *)
(* servers that it added in between, nor because of a count that was       *)
(* overtaken, in this response or before, for any list, request and room   *)
(* (config.cpp:319-330, protocol.cpp:376).                                 *)
THEOREM ReadsPastOnlyWhenShrunk == ThreadsSpec => []ReadsPastOnlyIfShrunk
<1>1. GrowsInv => ReadsPastOnlyIfShrunk
  <2> SUFFICES ASSUME GrowsInv, ~shrunk PROVE ~(reply.read > reply.allocated)
    BY DEF ReadsPastOnlyIfShrunk
  <2>1. reply.read <= reply.allocated
    BY DEF GrowsInv, Grows
  <2>2. reply.read \in Int /\ reply.allocated \in Int
    BY DEF GrowsInv, ServerInv
  <2> QED
    BY <2>1, <2>2
<1> QED
  BY <1>1, GrowsInit, GrowsStep, PTL DEF ThreadsSpec
-----------------------------------------------------------------------------
(* Until a count is overtaken, no count is ahead of the list, and a count  *)
(* that waits to be stored is still the right one.                         *)
AheadInv ==
  /\ ServerInv
  /\ overtaken \in BOOLEAN
  /\ ~overtaken => CountNeverOverstates
  /\ ~overtaken /\ pc = "store" => n = NumActive(req.f)

LEMMA AheadInit == ThreadsInit => AheadInv
BY CountInit, ServerInit DEF ThreadsInit, CountInv, AheadInv

LEMMA AheadStep == AheadInv /\ [ThreadsNext]_threadVars => AheadInv'
<1> SUFFICES ASSUME AheadInv, [ThreadsNext]_threadVars PROVE AheadInv'
  OBVIOUS
<1>1. ServerInv'
  BY ServerStep DEF AheadInv
<1>2. CASE ClientThread
  <2>1. /\ pc' = pc /\ n' = n /\ req' = req /\ overtaken' \in BOOLEAN
        /\ ~overtaken' => /\ ~overtaken
                          /\ pc = "store" => active' = active
    BY <1>2 DEF ClientThread, serverVars, AheadInv
  <2>2. ASSUME ~overtaken PROVE CountNeverOverstates'
    <3>1. CountInv
      BY <2>2 DEF AheadInv, ServerInv, ListInv, CountInv
    <3>2. QuietStep \/ IncrementServerFailCount \/ MarkServerSuccessful
      BY <1>2, ClientSteps DEF ClientThread
    <3>3. CASE QuietStep
      BY <3>3, <3>1, QuietKeeps DEF CountInv, CountNeverOverstates, NumActive
    <3>4. CASE IncrementServerFailCount \/ MarkServerSuccessful
      BY <3>4, <3>1, CountFail, CountMark DEF CountInv
    <3> QED
      BY <3>2, <3>3, <3>4
  <2>3. ~overtaken' /\ pc' = "store" => n' = NumActive(req.f)'
    BY <2>1 DEF AheadInv, NumActive
  <2> QED
    BY <1>1, <2>1, <2>2, <2>3 DEF AheadInv
<1>3. CASE Recount
  BY <1>1, <1>3 DEF Recount, vars, lists, AheadInv, CountNeverOverstates, NumActive
<1>4. CASE StoreCount
  <2>1. /\ active' = active /\ overtaken' = overtaken
        /\ count' = [count EXCEPT ![req.f] = n]
        /\ pc = "store" /\ pc' \in {"size", "list"}
    BY <1>4 DEF StoreCount, lists, AheadInv, ServerInv
  <2>2. ASSUME ~overtaken, NEW f \in BOOLEAN PROVE count'[f] <= NumActive(f)'
    <3>1. count'[f] = IF f = req.f THEN n ELSE count[f]
      BY <2>1 DEF AheadInv, ServerInv, ListInv
    <3>2. NumActive(f) \in Nat /\ NumActive(f)' = NumActive(f)
      BY <2>1, NumActiveType DEF AheadInv, ServerInv, NumActive
    <3>3. count[f] <= NumActive(f)
      BY <2>2 DEF AheadInv, CountNeverOverstates
    <3>4. f = req.f => n = NumActive(f)
      BY <2>1, <2>2 DEF AheadInv
    <3> QED
      BY <3>1, <3>2, <3>3, <3>4
  <2> QED
    BY <1>1, <2>1, <2>2 DEF AheadInv, CountNeverOverstates
<1>5. CASE \/ \E r \in Request : Receive(r)
           \/ TestCount \/ LoadCount \/ SizeMessage \/ CopyList
           \/ UNCHANGED threadVars
  <2>1. /\ active' = active /\ count' = count /\ overtaken' = overtaken
        /\ pc' = "store" => pc = "store" /\ n' = n /\ req' = req
    BY <1>5 DEF Receive, TestCount, LoadCount, SizeMessage, CopyList,
                threadVars, serverVars, vars, lists, AheadInv, ServerInv
  <2> QED
    BY <1>1, <2>1 DEF AheadInv, CountNeverOverstates, NumActive
<1> QED
  BY <1>2, <1>3, <1>4, <1>5 DEF ThreadsNext, Respond

(* A cached count that is ahead of the list was stored by the server       *)
(* thread after the client thread had changed the list that it counted:    *)
(* there is no other way to one (config.cpp:279-288).                      *)
THEOREM OverstatesOnlyIfOvertaken == ThreadsSpec => []OverstatesOnlyWhenOvertaken
<1>1. AheadInv => OverstatesOnlyWhenOvertaken
  BY DEF AheadInv, OverstatesOnlyWhenOvertaken
<1> QED
  BY <1>1, AheadInit, AheadStep, PTL DEF ThreadsSpec
-----------------------------------------------------------------------------
(* A request the client thread has not disturbed: what was tested is what  *)
(* is loaded, the count is the one the message was sized by, and it is     *)
(* still cached when the list is copied.                                   *)
Steady ==
  /\ pc = "load" => count[req.f] > -1
  /\ pc = "store" => caller = "size"
  /\ pc \in {"size", "list"} => n = count[req.f] /\ n > -1
  /\ caller = "list" /\ pc # "idle" =>
       /\ pc \in {"test", "load", "list"}
       /\ msgCount > 0 /\ msgCount <= count[req.f]
  /\ reply.read = reply.filled /\ reply.read = reply.allocated

SteadyInv == AheadInv /\ (~overtaken /\ ~disturbed => Steady)

LEMMA SteadyInit == ThreadsInit => SteadyInv
BY AheadInit DEF ThreadsInit, SteadyInv, Steady, NoReply

LEMMA SteadyStep == SteadyInv /\ [ThreadsNext]_threadVars => SteadyInv'
<1> SUFFICES ASSUME SteadyInv, [ThreadsNext]_threadVars,
                    ~overtaken', ~disturbed'
             PROVE  Steady'
  BY AheadStep DEF SteadyInv
<1>1. AheadInv /\ ServerInv
  BY DEF SteadyInv, AheadInv
<1>2. CASE ClientThread
  <2>1. /\ UNCHANGED <<pc, caller, req, n, msgCount, reply, count>>
        /\ ~overtaken /\ ~disturbed
    BY <1>2 DEF ClientThread, serverVars, SteadyInv, AheadInv
  <2> QED
    BY <2>1 DEF SteadyInv, Steady
<1>3. CASE \E r \in Request : Receive(r)
  BY <1>3 DEF Receive, Steady, NoReply
<1>4. ASSUME \/ TestCount \/ LoadCount \/ Recount \/ StoreCount
             \/ SizeMessage \/ CopyList \/ UNCHANGED threadVars
      PROVE  Steady
  <2>1. overtaken' = overtaken /\ disturbed' = disturbed
    BY <1>4 DEF TestCount, LoadCount, Recount, StoreCount, SizeMessage,
                CopyList, threadVars
  <2> QED
    BY <2>1 DEF SteadyInv
<1>5. count[req.f] \in Int /\ count[req.f] <= NumActive(req.f)
      /\ NumActive(req.f) \in Nat
  <2>1. CASE ~overtaken
    BY <1>1, <2>1, NumActiveType
       DEF AheadInv, ServerInv, ListInv, CountNeverOverstates, Request
  <2>2. CASE overtaken
    <3>1. \E r \in Request : Receive(r)
      BY <1>1, <2>2 DEF ThreadsNext, Respond, ClientThread, TestCount, LoadCount,
                 Recount, StoreCount, SizeMessage, CopyList, threadVars, AheadInv
    <3> QED
      BY <2>2, <3>1 DEF Receive
  <2> QED
    BY <1>1, <2>1, <2>2 DEF AheadInv
<1>6. CASE TestCount
  BY <1>1, <1>4, <1>5, <1>6 DEF TestCount, Steady, vars, ServerInv
<1>7. CASE LoadCount
  BY <1>1, <1>4, <1>5, <1>7 DEF LoadCount, Steady, vars, ServerInv
<1>8. CASE Recount
  BY <1>1, <1>4, <1>5, <1>8 DEF Recount, Steady, vars, ServerInv
<1>9. CASE StoreCount
  <2>1. n = NumActive(req.f) /\ caller = "size" /\ pc' = "size"
    BY <1>1, <1>4, <1>9 DEF StoreCount, Steady, AheadInv
  <2>2. count'[req.f] = n
    BY <1>1, <1>9 DEF StoreCount, ServerInv, ListInv, Request
  <2> QED
    BY <1>4, <1>5, <1>9, <2>1, <2>2 DEF StoreCount, Steady
<1>10. CASE SizeMessage
  <2>1. n = count[req.f] /\ n \in Nat
    BY <1>4, <1>5, <1>10 DEF SizeMessage, Steady
  <2>2. Entries \in Nat /\ Entries <= n
    BY <1>1, <2>1, EntriesFit, EntriesAreCounted DEF ServerInv
  <2> QED
    BY <1>4, <1>10, <2>1, <2>2 DEF SizeMessage, Steady, vars
<1>11. CASE CopyList
  <2>1. pc' = "idle" /\ UNCHANGED <<count, req, n>>
    BY <1>11 DEF CopyList, vars
  <2>2. n = count[req.f] /\ 0 < msgCount /\ msgCount <= n /\ msgCount \in Nat
    BY <1>1, <1>4, <1>11 DEF CopyList, Steady, ServerInv
  <2>3. Lesser(n, msgCount) = msgCount /\ Lesser(msgCount, NumActive(req.f)) = msgCount
    BY <1>5, <2>2 DEF Lesser
  <2>4. reply' = [allocated |-> msgCount, filled |-> msgCount, read |-> msgCount]
    BY <1>5, <1>11, <2>2, <2>3 DEF CopyList, NoServers, Copied
  <2> QED
    BY <2>1, <2>4 DEF Steady
<1>12. CASE UNCHANGED threadVars
  BY <1>4, <1>12 DEF threadVars, serverVars, vars, Steady
<1> QED
  BY <1>2, <1>3, <1>6, <1>7, <1>8, <1>9, <1>10, <1>11, <1>12
     DEF ThreadsNext, Respond

(* A response that was made while nobody touched the list claims what it   *)
(* holds: no count, request or room makes it pad or cut a message.         *)
THEOREM SteadyIsExact == ThreadsSpec => []SteadyReplyIsExact
<1>1. SteadyInv => SteadyReplyIsExact
  BY DEF SteadyInv, Steady, SteadyReplyIsExact
<1> QED
  BY <1>1, SteadyInit, SteadyStep, PTL DEF ThreadsSpec
-----------------------------------------------------------------------------
(* Types.  The lists are as safe as with the client thread alone: the      *)
(* server thread only stores a count.                                      *)
ThreadInv == SafeInv /\ ThreadsTypeOK

LEMMA NoReplyType == /\ NoReply \in [allocated : Nat, filled : Nat, read : 0 .. MaxRoom]
                     /\ 0 \in 0 .. MaxRoom
<1>1. 0 \in 0 .. MaxRoom
  BY RequestAssumption
<1> QED
  BY <1>1 DEF NoReply

LEMMA ThreadInit == ThreadsInit => ThreadInv
<1> SUFFICES ASSUME ThreadsInit PROVE ThreadInv
  OBVIOUS
<1>1. SafeInv
  BY SafeInit DEF ThreadsInit
<1>2. req \in Request
  BY RequestAssumption DEF ThreadsInit, Request
<1>3. /\ pc = "idle" /\ caller = "size" /\ n = 0 /\ msgCount = 0 /\ reply = NoReply
      /\ disturbed = FALSE /\ shrunk = FALSE /\ overtaken = FALSE
  BY DEF ThreadsInit
<1>4. TypeOK
  BY <1>1 DEF SafeInv
<1>5. ThreadsTypeOK
  <2>1. reply \in [allocated : Nat, filled : Nat, read : 0 .. MaxRoom]
    BY <1>3, NoReplyType
  <2>2. msgCount \in 0 .. MaxRoom /\ n \in Int
    BY <1>3, NoReplyType
  <2>3. disturbed \in BOOLEAN /\ shrunk \in BOOLEAN /\ overtaken \in BOOLEAN
    BY <1>3, Zenon
  <2>4. pc \in {"idle", "test", "load", "recount", "store", "size", "list"}
        /\ caller \in {"size", "list"}
    BY <1>3
  <2> QED
    BY <1>2, <1>4, <2>1, <2>2, <2>3, <2>4 DEF ThreadsTypeOK
<1> QED
  BY <1>1, <1>5 DEF ThreadInv

(* A step that leaves NrpdConfig alone.                                    *)
LEMMA SameConfig ==
  ASSUME SafeInv, UNCHANGED vars PROVE SafeInv' /\ TypeOK'
<1>1. SafeInv'
  BY SafeRest
<1> QED
  BY <1>1 DEF SafeInv

LEMMA ReplyType ==
  ASSUME ThreadInv, ServerInv, CopyList
  PROVE  reply' \in [allocated : Nat, filled : Nat, read : 0 .. MaxRoom]
<1> DEFINE actual == Lesser(n, msgCount)
<1>1. CASE NoServers
  BY <1>1 DEF CopyList, ThreadInv, ThreadsTypeOK
<1>2. CASE ~NoServers
  <2>1. n \in Nat /\ msgCount \in 0 .. MaxRoom /\ NumActive(req.f) \in Nat
    BY <1>2, NumActiveType DEF NoServers, ServerInv, ThreadInv, ThreadsTypeOK
  <2>2. actual \in Nat
    BY <2>1 DEF Lesser
  <2>3. reply' = [allocated |-> actual, filled |-> Copied(actual), read |-> msgCount]
    BY <1>2 DEF CopyList
  <2> HIDE DEF actual
  <2>4. Copied(actual) \in Nat
    BY <2>1, <2>2 DEF Copied, Lesser
  <2> QED
    BY <2>1, <2>2, <2>3, <2>4
<1> QED
  BY <1>1, <1>2

LEMMA ThreadStep == ThreadInv /\ ServerInv /\ [ThreadsNext]_threadVars => ThreadInv'
<1> SUFFICES ASSUME ThreadInv, ServerInv, [ThreadsNext]_threadVars PROVE ThreadInv'
  OBVIOUS
<1> DEFINE ServerTypes ==
             /\ pc \in {"idle", "test", "load", "recount", "store", "size", "list"}
             /\ caller \in {"size", "list"}
             /\ req \in Request
             /\ n \in Int
             /\ msgCount \in 0 .. MaxRoom
             /\ reply \in [allocated : Nat, filled : Nat, read : 0 .. MaxRoom]
             /\ disturbed \in BOOLEAN /\ shrunk \in BOOLEAN /\ overtaken \in BOOLEAN
<1>1. SafeInv /\ ServerTypes
  BY DEF ThreadInv, ThreadsTypeOK
<1>2. SafeInv' /\ ServerTypes' => ThreadInv'
  BY DEF ThreadInv, ThreadsTypeOK, SafeInv
<1>3. CASE ClientThread
  <2>1. SafeInv'
    BY <1>1, <1>3, SafeClient DEF ClientThread
  <2>2. ServerTypes'
    BY <1>1, <1>3 DEF ClientThread, serverVars
  <2> QED
    BY <1>2, <2>1, <2>2
<1>4. CASE \E r \in Request : Receive(r)
  <2>1. SafeInv'
    BY <1>1, <1>4, SameConfig DEF Receive
  <2>2. PICK r \in Request : Receive(r)
    BY <1>4
  <2>3. ServerTypes'
    BY <1>1, <2>2, NoReplyType DEF Receive
  <2> QED
    BY <1>2, <2>1, <2>3
<1>5. CASE TestCount
  BY <1>1, <1>2, <1>5, SameConfig DEF TestCount
<1>6. CASE LoadCount
  <2>1. count[req.f] \in Int
    BY DEF ServerInv, ListInv, Request
  <2> QED
    BY <1>1, <1>2, <1>6, <2>1, SameConfig DEF LoadCount
<1>7. CASE Recount
  <2>1. NumActive(req.f) \in Int
    BY NumActiveType DEF ServerInv
  <2> QED
    BY <1>1, <1>2, <1>7, <2>1, SameConfig DEF Recount
<1>8. CASE StoreCount
  <2>1. count' \in [BOOLEAN -> Int]
    BY <1>8 DEF StoreCount, ServerInv, ListInv
  <2>2. TypeOK'
    BY <1>1, <1>8, <2>1 DEF StoreCount, lists, SafeInv, TypeOK
  <2>3. SafeInv'
    BY <1>1, <1>8, <2>2, SafeQuiet DEF StoreCount
  <2> QED
    BY <1>1, <1>2, <1>8, <2>3 DEF StoreCount
<1>9. CASE SizeMessage
  <2>1. msgCount' \in 0 .. MaxRoom
    <3>1. Entries \in Nat /\ Entries <= req.room /\ req.room \in 0 .. MaxRoom
      BY <1>1, EntriesFit DEF Request
    <3> QED
      BY <1>9, <3>1, RequestAssumption DEF SizeMessage
  <2> QED
    BY <1>1, <1>2, <1>9, <2>1, SameConfig DEF SizeMessage
<1>10. CASE CopyList
  <2>1. reply' \in [allocated : Nat, filled : Nat, read : 0 .. MaxRoom]
    BY <1>10, ReplyType
  <2> QED
    BY <1>1, <1>2, <1>10, <2>1, SameConfig DEF CopyList
<1>11. CASE UNCHANGED threadVars
  BY <1>1, <1>2, <1>11, SameConfig DEF threadVars, serverVars
<1> QED
  BY <1>3, <1>4, <1>5, <1>6, <1>7, <1>8, <1>9, <1>10, <1>11 DEF ThreadsNext, Respond

LEMMA ThreadInvariant == ThreadsSpec => []ThreadInv
<1>1. ThreadInv /\ ServerInv /\ [ThreadsNext]_threadVars => (ThreadInv /\ ServerInv)'
  BY ThreadStep, ServerStep
<1> QED
  BY <1>1, ThreadInit, ServerInit, PTL DEF ThreadsSpec

(* Every variable of both threads has its type, whatever their             *)
(* interleaving.                                                           *)
THEOREM ThreadsTypeCorrect == ThreadsSpec => []ThreadsTypeOK
<1>1. ThreadInv => ThreadsTypeOK
  BY DEF ThreadInv
<1> QED
  BY <1>1, ThreadInvariant, PTL

(* The reference that the client thread holds into one of the lists stays  *)
(* valid beside the server thread, which counts and copies the active one. *)
THEOREM ThreadsKeepHeldListed == ThreadsSpec => []HeldIsListed
<1>1. ThreadInv => HeldIsListed
  BY DEF ThreadInv, SafeInv
<1> QED
  BY <1>1, ThreadInvariant, PTL
-----------------------------------------------------------------------------
(* What the server thread does leaves the lists alone.                     *)
LEMMA ListSteps ==
  [ThreadsNext]_threadVars =>
    ClientNext \/ (\E s \in Server : BanChanges(s)) \/ UNCHANGED <<active, prob, banned>>
BY DEF ThreadsNext, ClientThread, Receive, Respond, TestCount, LoadCount, Recount,
       StoreCount, SizeMessage, CopyList, threadVars, serverVars, vars, lists

(* Beside the server thread no host is lost either.                        *)
THEOREM ThreadsLoseNoHost == ThreadsSpec => HostsAreNotLost
<1> DEFINE Kept1 ==
      \A s \in Server :
        HostListed(s) /\ ~HostListed(s)' =>
          /\ phase = "chosen" /\ TooManyFails
          /\ SameHost(s, Current)
          /\ banned'[Current] # "absent"
<1>1. ThreadInv /\ [ThreadsNext]_threadVars => [Kept1]_vars
  BY ListSteps, HostLost DEF ThreadInv
<1>2. HostsAreNotLost <=> [][Kept1]_vars
  BY DEF HostsAreNotLost
<1> QED
  BY <1>1, <1>2, ThreadInvariant, PTL DEF ThreadsSpec

(* Nor does a server live differently: with both threads at work, however  *)
(* their steps alternate, the lists implement ServerLife.                  *)
THEOREM ThreadsRefinement == ThreadsSpec => ImplementsServerLife
<1>1. ThreadsInit => Life!Init /\ UnprovenInv
  BY LifeInit, UnprovenInit DEF ThreadsInit
<1>2. ThreadInv /\ UnprovenInv /\ [ThreadsNext]_threadVars
        => [Life!Next]_Life!vars /\ UnprovenInv'
  <2> SUFFICES ASSUME ThreadInv, UnprovenInv, [ThreadsNext]_threadVars
               PROVE  [Life!Next]_Life!vars /\ UnprovenInv'
    OBVIOUS
  <2>1. LifeInv
    BY DEF LifeInv, ThreadInv
  <2>2. CASE ClientNext \/ \E s \in Server : BanChanges(s)
    BY <2>1, <2>2, LifeClient
  <2>3. CASE UNCHANGED <<active, prob, banned>>
    BY <2>3, LifeQuiet, UnprovenStep
  <2> QED
    BY <2>2, <2>3, ListSteps
<1> QED
  BY <1>1, <1>2, ThreadInvariant, PTL DEF ThreadsSpec, ImplementsServerLife, Life!Spec
=============================================================================
