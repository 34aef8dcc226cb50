------------------------- MODULE ExchangeLifeProofs -------------------------
(***************************************************************************)
(* Proofs about Exchange: the life of its servers is that of ServerLife,   *)
(* and probation gets shorter with every report of a failure.              *)
(*                                                                         *)
(* ServerLife speaks of servers, Exchange of entries.  What links the two  *)
(* is that a server has one active entry at most, so that taking an entry  *)
(* out of the active list takes the server out; and that whatever is on    *)
(* probation has its flag set, so that giving it up removes it from there. *)
(***************************************************************************)
EXTENDS ExchangeProofs

FlagInv ==
  /\ \A e, d \in Listed("active") : e.server = d.server => e = d
  /\ \A e \in Listed("prob") : record[e].probationary

LEMMA FlagInit == Init => FlagInv
BY EntryAssumption DEF Init, ClientInit, FlagInv, Listed, Fresh

LEMMA LifeInit == Init => Life!Init
<1> SUFFICES ASSUME Init PROVE Life!Init
  OBVIOUS
<1>1. record = [e \in Entry |-> [Fresh EXCEPT !.list = IF e \in Seeds THEN "active" ELSE "none"]]
  BY DEF Init, ClientInit
<1>2. \A e \in Entry : /\ record[e].list = (IF e \in Seeds THEN "active" ELSE "none")
                       /\ record[e].probationary
  BY <1>1 DEF Fresh
<1>3. Listed("active") = Seeds /\ Unproven = Seeds /\ Listed("prob") = {}
  BY <1>2, EntryAssumption DEF Listed, Unproven
<1>4. banned = {}
  BY DEF Init, ClientInit
<1> QED
  BY <1>3, <1>4 DEF Life!Init, ServersOf

(* Lists and flags before and after a step that changes one entry, and     *)
(* puts the learned ones on probation.                                     *)
Others(e, learned) ==
  \A d \in Entry \ {e} :
    IF d \in learned
    THEN record[d].list = "none" /\ record'[d].list = "prob" /\ record'[d].probationary
    ELSE record'[d].list = record[d].list /\ record'[d].probationary = record[d].probationary

LEMMA SameLists ==
  ASSUME FlagInv, banned' = banned,
         \A e \in Entry : /\ record'[e].list = record[e].list
                          /\ record'[e].probationary = record[e].probationary
  PROVE  UNCHANGED Life!vars /\ FlagInv'
<1>1. \A list : Listed(list)' = Listed(list)
  BY DEF Listed
<1>2. Unproven' = Unproven
  BY <1>1 DEF Unproven, Listed
<1>3. FlagInv'
  BY <1>1 DEF FlagInv, Listed
<1> QED
  BY <1>1, <1>2, <1>3 DEF Life!vars, ServersOf

LEMMA FreshFlag == Fresh.list = "none" /\ Learned.list = "prob" /\ Learned.probationary
BY FreshType DEF Fresh, Learned, ServerRecord

LEMMA FailedFlag ==
  ASSUME NEW r \in ServerRecord PROVE Failed(r).probationary = r.probationary
BY DEF Failed, ServerRecord

LEMMA SuccessfulFlag ==
  ASSUME NEW r \in ServerRecord, NEW isActive \in BOOLEAN
  PROVE  \/ r.list = "prob" /\ isActive /\ Successful(r, isActive).list = "none"
         \/ /\ ~(r.list = "prob" /\ isActive)
            /\ Successful(r, isActive).list = "active"
            /\ Successful(r, isActive).probationary = FALSE
<1>1. CASE r.list = "prob" /\ isActive
  BY <1>1, FreshFlag DEF Successful
<1>2. CASE ~(r.list = "prob" /\ isActive)
  <2>1. Successful(r, isActive) =
          [list |-> "active", probationary |-> FALSE, fails |-> 0, age |-> 0,
           retry |-> r.retry, types |-> r.types]
    BY <1>2 DEF Successful, ServerRecord
  <2> QED
    BY <1>2, <2>1
<1> QED
  BY <1>1, <1>2
-----------------------------------------------------------------------------
(* A failure: the entry stays as it is, or its server is banned, and then  *)
(* an entry whose flag names the list it is in is gone.                    *)
LEMMA FailureOnLists ==
  ASSUME TypeInv, NEW e \in Entry, IncrementServerFailCount(e)
  PROVE  /\ Others(e, {})
         /\ \/ /\ banned' = banned
               /\ record'[e].list = record[e].list
               /\ record'[e].probationary = record[e].probationary
            \/ /\ banned' = banned \cup {e.server}
               /\ IF record[e].probationary <=> record[e].list = "prob"
                  THEN record'[e].list = "none"
                  ELSE /\ record'[e].list = record[e].list
                       /\ record'[e].probationary = record[e].probationary
<1> DEFINE r == Failed(record[e])
           atLimit == r.fails + 1 >= MaxTimeouts
           removed == r.probationary <=> r.list = "prob"
<1>1. record[e] \in ServerRecord /\ record \in [Entry -> ServerRecord]
  BY State
<1>2. r.list = record[e].list /\ r.probationary = record[e].probationary
  BY <1>1, FailedRecord, FailedFlag
<1>3. /\ record' = [record EXCEPT ![e] = IF atLimit /\ removed THEN Fresh ELSE r]
      /\ banned' = IF atLimit THEN banned \cup {e.server} ELSE banned
  BY DEF IncrementServerFailCount
<1> HIDE DEF r, atLimit
<1>4. /\ record'[e] = IF atLimit /\ removed THEN Fresh ELSE r
      /\ \A d \in Entry \ {e} : record'[d] = record[d]
  BY <1>1, <1>3
<1>5. Others(e, {})
  BY <1>4 DEF Others
<1> QED
  BY <1>2, <1>3, <1>4, <1>5, FreshFlag

(* Servers of entries, when one entry is taken out.                        *)
LEMMA ServersWithout ==
  ASSUME NEW L, NEW e \in L
  PROVE  /\ ServersOf(L \ {e}) \in {ServersOf(L), ServersOf(L) \ {e.server}}
         /\ (\A d \in L : d.server = e.server => d = e) =>
              ServersOf(L \ {e}) = ServersOf(L) \ {e.server}
<1>1. /\ ServersOf(L \ {e}) \subseteq ServersOf(L)
      /\ ServersOf(L) \ {e.server} \subseteq ServersOf(L \ {e})
  BY DEF ServersOf
<1>2. (\A d \in L : d.server = e.server => d = e) => e.server \notin ServersOf(L \ {e})
  BY DEF ServersOf
<1> QED
  BY <1>1, <1>2

(* The lists and the unproven after a step that changes one entry, by      *)
(* where that entry was and is.                                            *)
LEMMA ListsAfter ==
  ASSUME NEW e \in Entry, NEW learned \in SUBSET (Entry \ {e}), Others(e, learned)
  PROVE  /\ Listed("active")' = (Listed("active") \ {e})
                                   \cup (IF record'[e].list = "active" THEN {e} ELSE {})
         /\ Unproven' = (Unproven \ {e})
              \cup (IF record'[e].list = "active" /\ record'[e].probationary THEN {e} ELSE {})
         /\ Listed("prob")' = (Listed("prob") \ {e}) \cup learned
                                \cup (IF record'[e].list = "prob" THEN {e} ELSE {})
         /\ \A d \in learned : d \in Listed("prob")' /\ record'[d].probationary
         /\ \A d \in Listed("prob") \ {e} : record'[d].probationary = record[d].probationary
<1>1. \A d \in Entry \ {e} :
        /\ record'[d].list = "active" <=> record[d].list = "active"
        /\ record[d].list = "active" => record'[d].probationary = record[d].probationary
        /\ record'[d].list = "prob" <=> record[d].list = "prob" \/ d \in learned
        /\ d \in learned => record'[d].probationary
        /\ record[d].list = "prob" => record'[d].probationary = record[d].probationary
  BY DEF Others
<1>2. \A d \in Entry : d \in Listed("active")' <=>
        d \in Listed("active") \ {e} \/ (d = e /\ record'[e].list = "active")
  BY <1>1 DEF Listed
<1>3. \A d \in Entry : d \in Listed("prob")' <=>
        \/ d \in Listed("prob") \ {e} \/ d \in learned
        \/ d = e /\ record'[e].list = "prob"
  BY <1>1 DEF Listed
<1>4. \A d \in Entry : d \in Unproven' <=>
        \/ d \in Unproven \ {e}
        \/ d = e /\ record'[e].list = "active" /\ record'[e].probationary
  BY <1>1 DEF Unproven, Listed
<1>5. /\ \A list : Listed(list) \subseteq Entry /\ Listed(list)' \subseteq Entry
      /\ Unproven \subseteq Entry /\ Unproven' \subseteq Entry
  BY DEF Listed, Unproven
<1>6. Listed("active")' = (Listed("active") \ {e})
                            \cup (IF record'[e].list = "active" THEN {e} ELSE {})
  BY <1>2, <1>5
<1>7. Listed("prob")' = (Listed("prob") \ {e}) \cup learned
                          \cup (IF record'[e].list = "prob" THEN {e} ELSE {})
  BY <1>3, <1>5
<1>8. Unproven' = (Unproven \ {e})
        \cup (IF record'[e].list = "active" /\ record'[e].probationary THEN {e} ELSE {})
  BY <1>4, <1>5
<1>9. \A d \in learned : d \in Listed("prob")' /\ record'[d].probationary
  BY <1>1 DEF Listed
<1>10. \A d \in Listed("prob") \ {e} : record'[d].probationary = record[d].probationary
  BY <1>1 DEF Listed
<1> QED
  BY <1>6, <1>7, <1>8, <1>9, <1>10

(* The flags stay right, if the entry that changes does not become a       *)
(* second active one of its server.                                        *)
LEMMA FlagStep ==
  ASSUME FlagInv, NEW e \in Entry, NEW learned \in SUBSET (Entry \ {e}), Others(e, learned),
         record'[e].list = "active" =>
           \A d \in Listed("active") : d.server = e.server => d = e,
         record'[e].list = "prob" => record'[e].probationary
  PROVE  FlagInv'
<1>1. ASSUME NEW a \in Listed("active")', NEW d \in Listed("active")', a.server = d.server
      PROVE  a = d
  BY <1>1, ListsAfter DEF FlagInv
<1>2. ASSUME NEW d \in Listed("prob")' PROVE record'[d].probationary
  BY <1>2, ListsAfter DEF FlagInv
<1> QED
  BY <1>1, <1>2 DEF FlagInv

LEMMA LifeFailure ==
  ASSUME TypeInv, FlagInv, waiting, IncrementServerFailCount(held)
  PROVE  /\ UNCHANGED Life!vars \/ Life!GiveUp(held.server)
         /\ FlagInv'
<1> DEFINE e == held
           s == held.server
           P == Listed("prob")
           A == Listed("active")
<1>1. e \in Entry /\ record[e].list \in {"prob", "active"}
  BY State, RecordOf
<1>2. Others(e, {}) /\ {} \in SUBSET (Entry \ {e})
  BY <1>1, FailureOnLists
<1>3. /\ Listed("active")' = (A \ {e}) \cup (IF record'[e].list = "active" THEN {e} ELSE {})
      /\ Unproven' = (Unproven \ {e})
           \cup (IF record'[e].list = "active" /\ record'[e].probationary THEN {e} ELSE {})
      /\ Listed("prob")' = (P \ {e}) \cup {} \cup (IF record'[e].list = "prob" THEN {e} ELSE {})
  BY <1>1, <1>2, ListsAfter
<1>4. CASE /\ banned' = banned
           /\ record'[e].list = record[e].list
           /\ record'[e].probationary = record[e].probationary
  <2>1. \A d \in Entry : /\ record'[d].list = record[d].list
                         /\ record'[d].probationary = record[d].probationary
    BY <1>2, <1>4 DEF Others
  <2> QED
    BY <1>4, <2>1, SameLists
<1>5. CASE /\ banned' = banned \cup {s}
           /\ IF record[e].probationary <=> record[e].list = "prob"
              THEN record'[e].list = "none"
              ELSE /\ record'[e].list = record[e].list
                   /\ record'[e].probationary = record[e].probationary
  <2>1. CASE record[e].list = "prob"
    <3>1. e \in P /\ e \notin A /\ e \notin Unproven /\ record[e].probationary
      BY <1>1, <2>1 DEF FlagInv, Listed, Unproven
    <3>2. record'[e].list = "none"
      BY <1>5, <2>1, <3>1
    <3>3. Listed("active")' = A /\ Unproven' = Unproven /\ Listed("prob")' = P \ {e}
      <4> HIDE DEF A, P
      <4> QED
        BY <1>3, <3>1, <3>2
    <3>4. ServersOf(P \ {e}) \in {ServersOf(P), ServersOf(P) \ {s}} /\ s \in ServersOf(P)
      BY <3>1, ServersWithout DEF ServersOf
    <3>5. Life!GiveUp(s)
      BY <1>5, <3>3, <3>4 DEF Life!GiveUp, Life!OneLess, ServersOf
    <3>6. FlagInv'
      BY <1>1, <1>2, <3>2, FlagStep
    <3> QED
      BY <3>5, <3>6
  <2>2. CASE record[e].list = "active" /\ record[e].probationary
    <3>1. e \in A /\ e \in Unproven /\ s \in ServersOf(A) /\ s \in ServersOf(Unproven)
      BY <1>1, <2>2 DEF Listed, Unproven, ServersOf
    <3>2. \A d \in Entry : /\ record'[d].list = record[d].list
                           /\ record'[d].probationary = record[d].probationary
      BY <1>2, <1>5, <2>2 DEF Others
    <3>3. Listed("active")' = A /\ Unproven' = Unproven /\ Listed("prob")' = P
      BY <3>2 DEF Listed, Unproven
    <3>4. Life!GiveUp(s)
      BY <1>5, <3>1, <3>3 DEF Life!GiveUp, ServersOf
    <3>5. FlagInv'
      BY <3>2, <3>3 DEF FlagInv, Listed
    <3> QED
      BY <3>4, <3>5
  <2>3. CASE record[e].list = "active" /\ ~record[e].probationary
    <3>1. e \in A /\ e \notin P /\ e \notin Unproven /\ s \in ServersOf(A)
      BY <1>1, <2>3 DEF Listed, Unproven, ServersOf
    <3>2. record'[e].list = "none"
      BY <1>5, <2>3
    <3>3. Listed("active")' = A \ {e} /\ Unproven' = Unproven /\ Listed("prob")' = P
      <4> HIDE DEF A, P
      <4> QED
        BY <1>3, <3>1, <3>2
    <3>4. \A d \in A : d.server = s => d = e
      BY <3>1 DEF FlagInv
    <3>5. ServersOf(A \ {e}) = ServersOf(A) \ {s}
      BY <3>1, <3>4, ServersWithout
    <3>6. s \notin ServersOf(Unproven)
      BY <3>1, <3>4 DEF ServersOf, Unproven
    <3>7. Life!GiveUp(s)
      BY <1>5, <3>1, <3>3, <3>5, <3>6 DEF Life!GiveUp, ServersOf
    <3>8. FlagInv'
      BY <1>1, <1>2, <3>2, FlagStep
    <3> QED
      BY <3>7, <3>8
  <2> QED
    BY <1>1, <2>1, <2>2, <2>3
<1> QED
  BY <1>1, <1>4, <1>5, FailureOnLists

(* A success: the server may be active already, in another entry; servers  *)
(* learned from its response are neither banned nor active.                *)
IsActive == \E d \in Listed("active") : d # held /\ d.server = held.server

LEMMA SuccessOnLists ==
  ASSUME TypeInv, NEW learned \in SUBSET Entry, HandleResponse(learned)
  PROVE  /\ held \in Entry /\ banned' = banned
         /\ record[held].list \in {"prob", "active"}
         /\ learned \in SUBSET (Entry \ {held}) /\ Others(held, learned)
         /\ ServersOf(learned) \in SUBSET Life!Learnable
         /\ \/ record[held].list = "prob" /\ IsActive /\ record'[held].list = "none"
            \/ /\ ~(record[held].list = "prob" /\ IsActive)
               /\ record'[held].list = "active"
               /\ record'[held].probationary = FALSE
<1>1. /\ waiting /\ banned' = banned
      /\ held \in Entry /\ record[held] \in ServerRecord
      /\ record[held].list \in {"prob", "active"}
  <2>1. waiting /\ banned' = banned
    BY DEF HandleResponse, Consume, StopWaiting
  <2> QED
    BY <2>1, State, RecordOf
<1>2. Received \in Response
  <2>1. queue[Socket(held)] \in Seq(Response) /\ queue[Socket(held)] # <<>>
    BY <1>1, State DEF HandleResponse, Consume
  <2> QED
    BY <2>1 DEF Received
<1> DEFINE r == Rejected(record[held], Received)
           mine == Successful(r, IsActive)
<1>3. record' = [e \in Entry |-> IF e = held THEN mine
                                 ELSE IF e \in learned THEN Learned
                                 ELSE record[e]]
  BY DEF HandleResponse, Learned, IsActive
<1>4. r \in ServerRecord /\ r.list = record[held].list
  BY <1>1, <1>2, RejectedRecord
<1> HIDE DEF r
<1>5. \/ r.list = "prob" /\ IsActive /\ mine.list = "none"
      \/ /\ ~(r.list = "prob" /\ IsActive)
         /\ mine.list = "active" /\ mine.probationary = FALSE
  <2>1. IsActive \in BOOLEAN
    BY DEF IsActive
  <2> QED
    BY <1>4, <2>1, SuccessfulFlag
<1> HIDE DEF mine
<1>6. record'[held] = mine
  BY <1>1, <1>3
<1>7. \A e \in learned : e # held /\ MayAdd(e, Received)
  BY DEF HandleResponse
<1>8. ServersOf(learned) \in SUBSET Life!Learnable
  <2>1. ASSUME NEW e \in learned PROVE e.server \in Life!Learnable
    <3>1. e.server \in Server
      BY State
    <3>2. e.server \notin banned /\ \A d \in Listed("active") : d.server # e.server
      BY <1>7 DEF MayAdd
    <3> QED
      BY <3>1, <3>2 DEF Life!Learnable, Life!HostIsActive, SameHost, ServersOf
  <2> QED
    BY <2>1 DEF ServersOf
<1>9. Others(held, learned)
  <2>1. ASSUME NEW d \in Entry \ {held}, d \in learned
        PROVE  record[d].list = "none" /\ record'[d].list = "prob" /\ record'[d].probationary
    BY <1>3, <1>7, <2>1, FreshFlag DEF MayAdd
  <2>2. ASSUME NEW d \in Entry \ {held}, d \notin learned
        PROVE  record'[d] = record[d]
    BY <1>3, <2>2
  <2> QED
    BY <2>1, <2>2 DEF Others
<1> QED
  BY <1>1, <1>4, <1>5, <1>6, <1>7, <1>8, <1>9

LEMMA LifeSuccess ==
  ASSUME TypeInv, FlagInv, NEW learned \in SUBSET Entry, HandleResponse(learned)
  PROVE  /\ \/ Life!Prove(held.server, ServersOf(learned))
            \/ Life!Promote(held.server, ServersOf(learned))
         /\ FlagInv'
<1> DEFINE e == held
           s == held.server
           P == Listed("prob")
           A == Listed("active")
<1>1. /\ e \in Entry /\ banned' = banned /\ record[e].list \in {"prob", "active"}
      /\ learned \in SUBSET (Entry \ {e}) /\ Others(e, learned)
      /\ ServersOf(learned) \subseteq Life!Learnable
  BY SuccessOnLists
<1>2. /\ Listed("active")' = (A \ {e}) \cup (IF record'[e].list = "active" THEN {e} ELSE {})
      /\ Unproven' = (Unproven \ {e})
           \cup (IF record'[e].list = "active" /\ record'[e].probationary THEN {e} ELSE {})
      /\ Listed("prob")' = (P \ {e}) \cup learned
                             \cup (IF record'[e].list = "prob" THEN {e} ELSE {})
  BY <1>1, ListsAfter
<1>3. \/ record[e].list = "prob" /\ IsActive /\ record'[e].list = "none"
      \/ /\ ~(record[e].list = "prob" /\ IsActive)
         /\ record'[e].list = "active"
         /\ record'[e].probationary = FALSE
  BY SuccessOnLists
<1>4. \A L, M : ServersOf(L \cup M) = ServersOf(L) \cup ServersOf(M)
  BY DEF ServersOf
<1>5. CASE record[e].list = "active"
  <2>1. e \in A /\ e \notin P /\ s \in ServersOf(A) /\ \A d \in A : d.server = s => d = e
    BY <1>1, <1>5 DEF Listed, ServersOf, FlagInv
  <2>2. record'[e].list = "active" /\ record'[e].probationary = FALSE
    BY <1>3, <1>5
  <2>3. Listed("active")' = A /\ Unproven' = Unproven \ {e} /\ Listed("prob")' = P \cup learned
    <3> HIDE DEF A, P
    <3> QED
      BY <1>2, <2>1, <2>2
  <2>4. ServersOf(Unproven \ {e}) = ServersOf(Unproven) \ {s}
    <3>1. \A d \in Unproven : d.server = s => d = e
      BY <2>1 DEF Unproven
    <3>2. CASE e \in Unproven
      BY <3>1, <3>2, ServersWithout
    <3>3. CASE e \notin Unproven
      <4>1. Unproven \ {e} = Unproven /\ s \notin ServersOf(Unproven)
        BY <3>1, <3>3 DEF ServersOf
      <4>2. ServersOf(Unproven) \ {s} = ServersOf(Unproven)
        BY <4>1
      <4> QED
        BY <4>1, <4>2
    <3> QED
      BY <3>2, <3>3
  <2>5. ServersOf(P \cup learned) = ServersOf(P) \cup ServersOf(learned)
    BY <1>4
  <2>6. Life!Prove(s, ServersOf(learned))
    BY <1>1, <2>1, <2>3, <2>4, <2>5 DEF Life!Prove, ServersOf
  <2>7. FlagInv'
    BY <1>1, <2>1, <2>2, FlagStep
  <2> QED
    BY <2>6, <2>7
<1>6. CASE record[e].list = "prob"
  <2>1. e \in P /\ e \notin A /\ e \notin Unproven /\ s \in ServersOf(P)
    BY <1>1, <1>6 DEF Listed, Unproven, ServersOf
  <2>2. ServersOf(P \ {e}) \in Life!OneLess(ServersOf(P), s)
    BY <2>1, ServersWithout DEF Life!OneLess
  <2>3. Unproven' = Unproven /\ Listed("prob")' = (P \ {e}) \cup learned
    <3>1. ~(record'[e].list = "active" /\ record'[e].probationary) /\ record'[e].list # "prob"
      BY <1>3
    <3> HIDE DEF A, P
    <3> QED
      BY <1>2, <2>1, <3>1
  <2>4. ServersOf((P \ {e}) \cup learned) = ServersOf(P \ {e}) \cup ServersOf(learned)
    BY <1>4
  <2>5. IsActive <=> Life!HostIsActive(s)
    BY <2>1 DEF IsActive, Life!HostIsActive, SameHost, ServersOf
  <2>6. ServersOf(Listed("active")') =
          IF Life!HostIsActive(s) THEN ServersOf(A) ELSE ServersOf(A) \cup {s}
    <3>1. CASE IsActive
      <4>1. Listed("active")' = A
        <5>1. record'[e].list = "none"
          BY <1>3, <1>6, <3>1
        <5> HIDE DEF A, P
        <5> QED
          BY <1>2, <2>1, <5>1
      <4> QED
        BY <2>5, <3>1, <4>1
    <3>2. CASE ~IsActive
      <4>1. Listed("active")' = A \cup {e}
        <5>1. record'[e].list = "active"
          BY <1>3, <3>2
        <5> HIDE DEF A, P
        <5> QED
          BY <1>2, <2>1, <5>1
      <4>2. ServersOf({e}) = {s}
        BY DEF ServersOf
      <4> QED
        BY <1>4, <2>5, <3>2, <4>1, <4>2
    <3> QED
      BY <3>1, <3>2
  <2>7. Life!Promote(s, ServersOf(learned))
    <3> HIDE DEF A, P
    <3>1. /\ ServersOf(Unproven)' = ServersOf(Unproven)
          /\ ServersOf(Listed("prob"))' = ServersOf(P \ {e}) \cup ServersOf(learned)
          /\ ServersOf(Listed("active"))' = ServersOf(Listed("active")')
      BY <2>3, <2>4 DEF ServersOf
    <3> QED
      BY <1>1, <2>1, <2>2, <2>6, <3>1 DEF Life!Promote, A, P
  <2>8. FlagInv'
    <3>1. record'[e].list = "active" => \A d \in Listed("active") : d.server = e.server => d = e
      BY <1>3, <1>6 DEF IsActive
    <3>2. record'[e].list # "prob"
      BY <1>3
    <3> QED
      BY <1>1, <3>1, <3>2, FlagStep
  <2> QED
    BY <2>7, <2>8
<1> QED
  BY <1>1, <1>5, <1>6
-----------------------------------------------------------------------------
LEMMA TickFlags ==
  ASSUME TypeInv, Tick, NEW e \in Entry
  PROVE  /\ record'[e].probationary = record[e].probationary
         /\ record'[e].fails = record[e].fails
<1>1. record'[e] = [record[e] EXCEPT !.age = IF Due(e) THEN @ ELSE @ + 1]
  BY DEF Tick, Pass
<1>2. record[e] \in ServerRecord
  BY State
<1> QED
  BY <1>1, <1>2 DEF ServerRecord

(* What a report is.                                                       *)
LEMMA ReportKinds ==
  ASSUME TypeInv, ClientReports
  PROVE  /\ waiting /\ held \in Entry
         /\ \/ IncrementServerFailCount(held)
            \/ \E learned \in SUBSET Entry : HandleResponse(learned)
<1>1. waiting /\ held \in Entry
  BY ReportStops, State
<1> QED
  BY <1>1 DEF ClientReports, TimeOut, HandleInvalid

LEMMA LifeStep ==
  ASSUME TypeInv, FlagInv, [Next]_vars
  PROVE  /\ [Life!Next]_Life!vars
         /\ FlagInv'
<1>1. CASE ClientReports
  <2>1. held.server \in Server
    BY <1>1, ReportKinds, State
  <2>2. CASE IncrementServerFailCount(held)
    <3>1. /\ UNCHANGED Life!vars \/ Life!GiveUp(held.server)
          /\ FlagInv'
      BY <1>1, <2>2, ReportKinds, LifeFailure
    <3>2. Life!GiveUp(held.server) => Life!Next
      BY <2>1 DEF Life!Next
    <3> QED
      BY <3>1, <3>2
  <2>3. ASSUME NEW learned \in SUBSET Entry, HandleResponse(learned)
        PROVE  Life!Next /\ FlagInv'
    <3>1. /\ \/ Life!Prove(held.server, ServersOf(learned))
             \/ Life!Promote(held.server, ServersOf(learned))
          /\ FlagInv'
      BY <2>3, LifeSuccess
    <3>2. ServersOf(learned) \in SUBSET Server
      BY State DEF ServersOf
    <3> QED
      BY <2>1, <3>1, <3>2 DEF Life!Next
  <2> QED
    BY <1>1, <2>2, <2>3, ReportKinds
<1>2. CASE Tick
  <2>1. banned' = banned
    BY <1>2 DEF Tick, Pass
  <2> QED
    BY <1>2, <2>1, TickRecords, TickFlags, SameLists
<1>3. CASE UNCHANGED <<record, banned>>
  BY <1>3, SameLists
<1> QED
  BY <1>1, <1>2, <1>3, RecordStep

LEMMA LifeInvariant == Spec => [](TypeInv /\ FlagInv)
<1>1. Init => TypeInv /\ FlagInv
  BY TypeInit, FlagInit
<1>2. TypeInv /\ FlagInv /\ [Next]_vars => (TypeInv /\ FlagInv)'
  BY TypeStep, LifeStep
<1> QED
  BY <1>1, <1>2, PTL DEF Spec

(* Whatever the network and the servers do, a server lives with the client *)
(* as ServerLife says: it is active after it has proven itself, or as a    *)
(* seed; it is banned when it is given up; it is not taken from a message  *)
(* while it is banned or active (config.cpp:478-683).                      *)
THEOREM Refinement == Spec => ImplementsServerLife
<1>1. Init => Life!Init
  BY LifeInit
<1>2. TypeInv /\ FlagInv /\ [Next]_vars => [Life!Next]_Life!vars
  BY LifeStep
<1> QED
  BY <1>1, <1>2, LifeInvariant, PTL DEF Spec, ImplementsServerLife, Life!Spec
-----------------------------------------------------------------------------
(* What an entry on probation has left: failures before it is given up,    *)
(* and refusals, which the client does not count.                          *)
ProbationLeft(e) == (MaxTimeouts - record[e].fails) + (MaxRefusals - refusals)

ProbationShortens ==
  \A e \in Listed("prob") :
    record'[e].list = "prob" =>
      /\ ProbationLeft(e)' <= ProbationLeft(e)
      /\ waiting /\ held = e /\ ~waiting' => ProbationLeft(e)' < ProbationLeft(e)

LEMMA LeftIsNat ==
  ASSUME TypeInv, NEW e \in Entry
  PROVE  /\ record[e].fails \in 0 .. MaxTimeouts /\ refusals \in 0 .. MaxRefusals
         /\ MaxTimeouts \in Nat /\ MaxRefusals \in Nat
         /\ ProbationLeft(e) \in Nat
<1>1. record[e].fails \in 0 .. MaxTimeouts
  BY State, RecordOf
<1>2. refusals \in 0 .. MaxRefusals
  BY TypesSplit DEF NetTypes
<1>3. MaxTimeouts \in Nat /\ MaxRefusals \in Nat
  BY TimesAssumption, NetAssumption
<1> QED
  BY <1>1, <1>2, <1>3 DEF ProbationLeft

LEMMA RefusalsStep ==
  ASSUME TypeInv, [Next]_vars
  PROVE  /\ refusals' \in {refusals, refusals + 1}
         /\ waiting /\ ~waiting' => ClientReports \/ refusals' = refusals + 1
<1>1. refusals' \in {refusals, refusals + 1}
  BY DEF Next, ClientAsks, ClientCannotAsk, ClientReports, ServerIgnores, ServerAnswers,
         HostRefuses, Deliver, Lose, Tick, vars
<1>2. ClientReports \/ waiting' = waiting \/ waiting' = TRUE \/ refusals' = refusals + 1
  BY DEF Next, ClientAsks, ClientCannotAsk, ServerIgnores, ServerAnswers, HostRefuses,
         Deliver, Lose, Tick, Ask, Arrive, Pass, vars, clientVars
<1> QED
  BY <1>1, <1>2

(* A failure counts, or it is the last.                                    *)
LEMMA FailureCounts ==
  ASSUME TypeInv, FlagInv, NEW e \in Listed("prob"), IncrementServerFailCount(e),
         record'[e].list = "prob"
  PROVE  record'[e].fails = record[e].fails + 1
<1> DEFINE r == Failed(record[e])
           atLimit == r.fails + 1 >= MaxTimeouts
<1>1. /\ e \in Entry /\ record[e] \in ServerRecord /\ record \in [Entry -> ServerRecord]
      /\ record[e].list = "prob" /\ record[e].probationary
  BY State DEF Listed, FlagInv
<1>2. /\ r.list = "prob" /\ r.probationary = record[e].probationary
      /\ r.fails = IF record[e].fails < MaxTimeouts
                   THEN record[e].fails + 1 ELSE record[e].fails
  <2>1. r.fails = IF record[e].fails < MaxTimeouts
                  THEN record[e].fails + 1 ELSE record[e].fails
    BY <1>1 DEF Failed, ServerRecord
  <2> QED
    BY <1>1, <2>1, FailedRecord, FailedFlag
<1>3. record' = [record EXCEPT ![e] = IF atLimit /\ (r.probationary <=> r.list = "prob")
                                      THEN Fresh ELSE r]
  BY DEF IncrementServerFailCount
<1> HIDE DEF r
<1>4. record'[e] = IF atLimit THEN Fresh ELSE r
  BY <1>1, <1>2, <1>3
<1>5. ~atLimit /\ record'[e] = r
  BY <1>4, FreshFlag
<1>6. record[e].fails \in 0 .. MaxTimeouts /\ MaxTimeouts \in Nat
  BY <1>1, LeftIsNat
<1> QED
  BY <1>2, <1>5, <1>6

LEMMA Less ==
  ASSUME NEW m \in Nat, NEW n \in Nat, NEW f \in Nat, NEW q \in Nat,
         NEW g \in {f, f + 1}, NEW r \in {q, q + 1}
  PROVE  /\ (m - g) + (n - r) <= (m - f) + (n - q)
         /\ g = f + 1 \/ r = q + 1 => (m - g) + (n - r) < (m - f) + (n - q)
OBVIOUS

(* While a server is on probation, a step never gives it time back, and    *)
(* when the client has asked it and waits no longer, with whatever result, *)
(* it has less left or is off the list (config.h:134).  So it leaves the   *)
(* list if it is asked again and again, which is what ProbationEnds takes  *)
(* from the fairness of the client's loop.                                 *)
THEOREM ProbationGetsShorter ==
  Spec => /\ [](\A e \in Entry : ProbationLeft(e) \in Nat)
          /\ [][ProbationShortens]_vars
<1>1. TypeInv => \A e \in Entry : ProbationLeft(e) \in Nat
  BY LeftIsNat
<1>2. TypeInv /\ FlagInv /\ [Next]_vars => ProbationShortens
  <2> SUFFICES ASSUME TypeInv, FlagInv, [Next]_vars,
                      NEW e \in Entry, record[e].list = "prob", record'[e].list = "prob"
               PROVE  /\ ProbationLeft(e)' <= ProbationLeft(e)
                      /\ waiting /\ held = e /\ ~waiting' =>
                           ProbationLeft(e)' < ProbationLeft(e)
    BY DEF ProbationShortens, Listed
  <2>1. /\ record'[e].fails \in {record[e].fails, record[e].fails + 1}
        /\ ClientReports /\ held = e => record'[e].fails = record[e].fails + 1
    <3>1. CASE ClientReports
      <4>1. held \in Entry /\ e \in Listed("prob")
        BY <3>1, ReportKinds DEF Listed
      <4>2. CASE IncrementServerFailCount(held)
        <5>1. CASE e = held
          BY <4>1, <4>2, <5>1, FailureCounts
        <5>2. CASE e # held
          BY <4>1, <4>2, <5>2, FailureEffect
        <5> QED
          BY <5>1, <5>2
      <4>3. ASSUME NEW learned \in SUBSET Entry, HandleResponse(learned)
            PROVE  e # held /\ record'[e] = record[e]
        <5>1. e # held
          BY <4>3, SuccessEffect, FreshFlag
        <5> QED
          BY <4>3, <5>1, SuccessEffect DEF IsLearned
      <4> QED
        BY <3>1, <4>2, <4>3, ReportKinds
    <3>2. CASE Tick /\ ~ClientReports
      BY <3>2, TickFlags
    <3>3. CASE UNCHANGED <<record, banned>> /\ ~ClientReports
      BY <3>3
    <3> QED
      BY <3>1, <3>2, <3>3, RecordStep
  <2>2. /\ refusals' \in {refusals, refusals + 1}
        /\ waiting /\ ~waiting' => ClientReports \/ refusals' = refusals + 1
    BY RefusalsStep
  <2>3. /\ record[e].fails \in 0 .. MaxTimeouts /\ refusals \in 0 .. MaxRefusals
        /\ MaxTimeouts \in Nat /\ MaxRefusals \in Nat
    BY LeftIsNat
  <2>4. /\ ProbationLeft(e)' <= ProbationLeft(e)
        /\ \/ record'[e].fails = record[e].fails + 1
           \/ refusals' = refusals + 1
           => ProbationLeft(e)' < ProbationLeft(e)
    BY <2>1, <2>2, <2>3, Less DEF ProbationLeft
  <2> QED
    BY <2>1, <2>2, <2>4
<1> QED
  BY <1>1, <1>2, LifeInvariant, PTL DEF Spec
=============================================================================
