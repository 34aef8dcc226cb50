--------------------------- MODULE MruCacheProofs ---------------------------
(***************************************************************************)
(* Proofs about MruCache, for any addresses, lifetime, number of cleaner   *)
(* threads and length of the run.  The rate limit rests on one invariant,  *)
(* StampIsSince: the stamp of a key is the time it was last accepted, or   *)
(* the entry has been erased after its lifetime was over.                  *)
(***************************************************************************)
EXTENDS MruCache, TLAPS

USE LifetimeAssumption, MaxTimeAssumption DEF Time, NoStamp

(* Every operation of MruCache and every step of a cleaner keeps the types *)
(* and never stores a cleaning time later than the clock.                  *)
LEMMA TypeStep == TypeOK /\ [Next]_vars => TypeOK'
<1> SUFFICES ASSUME TypeOK, [Next]_vars PROVE TypeOK'
  OBVIOUS
<1> USE DEF TypeOK, cleaning
<1>1. ASSUME NEW k \in Key, IsPresentAdd(k) PROVE TypeOK'
  BY <1>1 DEF IsPresentAdd, Present, Inserted, Expired
<1>2. ASSUME NEW k \in Key, IsPresent(k) PROVE TypeOK'
  BY <1>2 DEF IsPresent, Present, Inserted, Expired
<1>3. ASSUME NEW k \in Key, Add(k) PROVE TypeOK'
  BY <1>3 DEF Add, AddStamp
<1>4. CASE ScheduleCleaning
  BY <1>4 DEF ScheduleCleaning
<1>5. ASSUME NEW c \in Cleaner, CleanSweep(c) PROVE TypeOK'
  BY <1>5 DEF CleanSweep, Swept
<1>6. ASSUME NEW c \in Cleaner, CleanStamp(c) PROVE TypeOK'
  BY <1>6 DEF CleanStamp
<1>7. CASE Tick
  BY <1>7 DEF Tick
<1>8. CASE UNCHANGED vars
  BY <1>8 DEF vars
<1> QED
  BY <1>1, <1>2, <1>3, <1>4, <1>5, <1>6, <1>7, <1>8 DEF Next, Background

LEMMA TypeInit == Init => TypeOK
<1> SUFFICES ASSUME Init PROVE TypeOK
  OBVIOUS
<1> USE DEF Init
<1>1. clock \in Time /\ lastClean \in 0 .. clock
  OBVIOUS
<1>5. scheduling \in BOOLEAN
  OBVIOUS
<1>2. starting \subseteq Cleaner /\ sweptAt \in [Cleaner -> Time \cup {NoStamp}]
  OBVIOUS
<1>3. /\ stamp \in [Key -> Time \cup {NoStamp}] /\ since \in [Key -> Time \cup {NoStamp}]
      /\ added \subseteq Key
  OBVIOUS
<1>4. answer \in [key : Key, present : BOOLEAN] \cup {[key |-> "none"]}
  OBVIOUS
<1> QED
  BY <1>1, <1>2, <1>3, <1>4, <1>5 DEF TypeOK

(* Every variable keeps its type under every sequence of calls to          *)
(* MruCache, with any number of cleaners.                                  *)
THEOREM TypeCorrect == Spec => []TypeOK
  BY TypeInit, TypeStep, PTL DEF Spec

-----------------------------------------------------------------------------
(* The inductive invariant.                                                *)
StampIsSince ==
  \A k \in Key :
    /\ since[k] <= clock
    /\ stamp[k] = since[k] \/ (~Inserted(k) /\ clock > since[k] + Lifetime)

(* The invariant is kept because the queries stamp what they accept or add *)
(* at the same instant and a cleaner erases only what is past its lifetime.*)
LEMMA StampStep ==
  TypeOK /\ StampIsSince /\ [Next]_vars => StampIsSince'
<1> SUFFICES ASSUME TypeOK, StampIsSince, [Next]_vars,
                    NEW k \in Key
             PROVE  /\ since'[k] <= clock'
                    /\ \/ stamp'[k] = since'[k]
                       \/ ~Inserted(k)' /\ clock' > since'[k] + Lifetime
  BY DEF StampIsSince
<1> USE DEF TypeOK, StampIsSince, Inserted, cleaning
<1>1. ASSUME NEW a \in Key, IsPresentAdd(a) \/ Add(a)
      PROVE  since'[k] <= clock' /\ (stamp'[k] = since'[k] \/ UNCHANGED <<stamp[k], since[k], clock>>)
  BY <1>1 DEF IsPresentAdd, Add, AddStamp
<1>2. ASSUME NEW c \in Cleaner, CleanSweep(c)
      PROVE  /\ UNCHANGED <<since, clock>>
             /\ stamp'[k] = IF Cleanable(k) THEN NoStamp ELSE stamp[k]
  BY <1>2 DEF CleanSweep, Swept
<1>3. CASE Tick
  BY <1>3 DEF Tick
<1>4. CASE \/ ScheduleCleaning
           \/ \E c \in Cleaner : CleanStamp(c)
           \/ \E a \in Key : IsPresent(a)
           \/ UNCHANGED vars
  BY <1>4 DEF ScheduleCleaning, CleanStamp, IsPresent, vars
<1>5. ASSUME NEW c \in Cleaner, CleanSweep(c)
      PROVE  /\ since'[k] <= clock'
             /\ \/ stamp'[k] = since'[k]
                \/ ~Inserted(k)' /\ clock' > since'[k] + Lifetime
  BY <1>2, <1>5 DEF Cleanable
<1>6. ASSUME NEW a \in Key, IsPresentAdd(a) \/ Add(a)
      PROVE  /\ since'[k] <= clock'
             /\ \/ stamp'[k] = since'[k]
                \/ ~Inserted(k)' /\ clock' > since'[k] + Lifetime
  BY <1>1, <1>6
<1> QED
  BY <1>3, <1>4, <1>5, <1>6 DEF Next, Background

LEMMA StampInvariant == Spec => [](TypeOK /\ StampIsSince)
<1>1. Init => TypeOK /\ StampIsSince
  BY TypeInit DEF Init, StampIsSince
<1>2. TypeOK /\ StampIsSince /\ [Next]_vars => (TypeOK /\ StampIsSince)'
  BY TypeStep, StampStep
<1> QED
  BY <1>1, <1>2, PTL DEF Spec

(* For a lifetime after a key was accepted or newly added it is reported:  *)
(* the server ignores the client, the configuration skips the server.      *)
THEOREM RecentStays == Spec => []RecentStaysPresent
<1>1. TypeOK /\ StampIsSince => RecentStaysPresent
  BY DEF TypeOK, StampIsSince, RecentStaysPresent, Present, Expired, Inserted
<1> QED
  BY <1>1, StampInvariant, PTL

(* Who waited a lifetime since it was accepted or added is not reported.   *)
THEOREM PresentIsRecent == Spec => []PresentOnlyIfRecent
<1>1. TypeOK /\ StampIsSince => PresentOnlyIfRecent
  BY DEF TypeOK, StampIsSince, PresentOnlyIfRecent, Present, Expired, Inserted
<1> QED
  BY <1>1, StampInvariant, PTL

(* Two acceptances of one key are at least a lifetime apart.               *)
THEOREM RateIsLimited == Spec => RateLimit
<1> DEFINE Spaced == \A k \in Key : since'[k] # since[k] /\ since[k] # NoStamp
                                      => clock >= since[k] + Lifetime
<1>1. TypeOK /\ StampIsSince /\ [Next]_vars => [Spaced]_vars
  <2> SUFFICES ASSUME TypeOK, StampIsSince, Next,
                      NEW k \in Key, since'[k] # since[k], since[k] # NoStamp
               PROVE  clock >= since[k] + Lifetime
    OBVIOUS
  <2>1. PICK a \in Key : IsPresentAdd(a) \/ Add(a)
    BY DEF Next, Background, ScheduleCleaning, CleanSweep, CleanStamp, IsPresent, Tick
  <2>2. a = k /\ ~Present(k)
    BY <2>1 DEF IsPresentAdd, Add, Present, TypeOK
  <2> QED
    BY <2>2 DEF TypeOK, StampIsSince, Present, Expired, Inserted
<1>2. RateLimit <=> [][Spaced]_vars
  BY DEF RateLimit
<1> QED
  BY <1>1, <1>2, StampInvariant, PTL DEF Spec
-----------------------------------------------------------------------------
(* The three statuses, each by the test the code makes.                    *)
LEMMA StatusCases ==
  ASSUME NEW k \in Key
  PROVE  /\ EntryStatus[k] = "absent" <=> ~Inserted(k)
         /\ EntryStatus[k] = "live" <=> Present(k)
         /\ EntryStatus[k] = "stale" <=> Inserted(k) /\ ~Present(k)
         /\ Promise!Live(k) <=> Present(k)
  BY DEF EntryStatus, Present, Promise!Live

(* The same as an equality of truth values, for the answers.               *)
LEMMA LiveIsPresent == ASSUME NEW k \in Key PROVE Promise!Live(k) = Present(k)
<1>1. Promise!Live(k) \in BOOLEAN /\ Present(k) \in BOOLEAN
  BY DEF Promise!Live, Present
<1>2. Promise!Live(k) <=> Present(k)
  BY StatusCases, Zenon
<1>3. CASE Present(k)
  BY <1>1, <1>2, <1>3, Zenon
<1>4. CASE ~Present(k)
  BY <1>1, <1>2, <1>4, Zenon
<1> QED
  BY <1>3, <1>4, Zenon

(* When neither the clock nor the stamps change, no status does.           *)
LEMMA StatusSame == UNCHANGED <<clock, stamp>> => UNCHANGED EntryStatus
  BY DEF EntryStatus, Present, Inserted, Expired

(* A query that finds the key expired or missing stamps it: it becomes     *)
(* live.  One that finds it live changes nothing.                          *)
LEMMA RefineIsPresentAdd ==
  ASSUME TypeOK, NEW a \in Key, IsPresentAdd(a)
  PROVE  Promise!IsPresentAdd(a)
<1>1. answer' = [key |-> a, present |-> Promise!Live(a)]
  BY LiveIsPresent, Zenon DEF IsPresentAdd
<1>2. CASE Present(a)
  <2>1. UNCHANGED EntryStatus
    BY <1>2, StatusSame DEF IsPresentAdd
  <2>2. EntryStatus[a] = "live"
    BY <1>2, StatusCases
  <2> QED
    BY <1>1, <2>1, <2>2 DEF Promise!IsPresentAdd, EntryStatus
<1>3. CASE ~Present(a)
  <2>1. clock' = clock /\ stamp' = [stamp EXCEPT ![a] = clock]
    BY <1>3 DEF IsPresentAdd
  <2>2. Inserted(a)' /\ Present(a)'
    BY <2>1 DEF TypeOK, Inserted, Present, Expired
  <2>3. EntryStatus' = [EntryStatus EXCEPT ![a] = "live"]
    BY <2>1, <2>2 DEF EntryStatus, Inserted, Present, Expired, TypeOK
  <2> QED
    BY <1>1, <2>3 DEF Promise!IsPresentAdd
<1> QED
  BY <1>2, <1>3

LEMMA RefineAdd ==
  ASSUME TypeOK, NEW a \in Key, Add(a)
  PROVE  Promise!Add(a)
<1>1. clock' = clock /\ stamp' = AddStamp(a) /\ answer' = answer
  BY DEF Add
<1>2. CASE Inserted(a)
  <2>1. stamp' = stamp
    BY <1>1, <1>2 DEF AddStamp, TypeOK
  <2>2. UNCHANGED EntryStatus
    BY <1>1, <2>1, StatusSame
  <2>3. EntryStatus[a] # "absent"
    BY <1>2, StatusCases
  <2> QED
    BY <1>1, <2>2, <2>3 DEF Promise!Add, Promise!Added, EntryStatus
<1>3. CASE ~Inserted(a)
  <2>1. stamp' = [stamp EXCEPT ![a] = clock]
    BY <1>1, <1>3 DEF AddStamp
  <2>2. Inserted(a)' /\ Present(a)'
    BY <1>1, <2>1 DEF TypeOK, Inserted, Present, Expired
  <2>3. EntryStatus' = [EntryStatus EXCEPT ![a] = "live"]
    BY <1>1, <2>1, <2>2 DEF EntryStatus, Inserted, Present, Expired, TypeOK
  <2>4. EntryStatus[a] = "absent"
    BY <1>3, StatusCases
  <2> QED
    BY <1>1, <2>3, <2>4 DEF Promise!Add, Promise!Added
<1> QED
  BY <1>2, <1>3

(* A sweep erases the keys that are past their lifetime by more than an    *)
(* instant: stale keys all, though perhaps not all the stale ones.         *)
LEMMA RefineSweep ==
  ASSUME TypeOK, NEW c \in Cleaner, CleanSweep(c)
  PROVE  [Promise!Next]_Promise!vars
<1> DEFINE S == {k \in Key : Cleanable(k)}
<1>1. clock' = clock /\ stamp' = Swept /\ answer' = answer
  BY DEF CleanSweep
<1>2. \A k \in S : EntryStatus[k] = "stale"
  BY DEF Cleanable, EntryStatus, Inserted, Present, Expired, TypeOK
<1>3. EntryStatus' = [k \in Key |-> IF k \in S THEN "absent" ELSE EntryStatus[k]]
  BY <1>1 DEF Swept, EntryStatus, Inserted, Present, Expired
<1>4. CASE S = {}
  <2>1. EntryStatus' = EntryStatus
    BY <1>3, <1>4 DEF EntryStatus
  <2> QED
    BY <1>1, <2>1 DEF Promise!vars
<1>5. CASE S # {}
  <2>1. Promise!Evict(S)
    BY <1>1, <1>2, <1>3, <1>5 DEF Promise!Evict
  <2> QED
    BY <2>1 DEF Promise!Next
<1> QED
  BY <1>4, <1>5

(* When the clock ticks, the keys whose lifetime ends become stale.        *)
LEMMA RefineTick ==
  ASSUME TypeOK, Tick
  PROVE  [Promise!Next]_Promise!vars
<1> DEFINE S == {k \in Key : Present(k) /\ ~Present(k)'}
<1>1. clock' = clock + 1 /\ stamp' = stamp /\ answer' = answer
  BY DEF Tick
<1>2. \A k \in S : Promise!Live(k)
  BY StatusCases
<1>3. \A k \in Key : Present(k)' => Present(k)
  BY <1>1 DEF Present, Inserted, Expired, TypeOK
<1>4. \A k \in Key : Inserted(k)' <=> Inserted(k)
  BY <1>1 DEF Inserted
<1>5. EntryStatus' = [k \in Key |-> IF k \in S THEN "stale" ELSE EntryStatus[k]]
  <2>1. ASSUME NEW k \in Key
        PROVE  EntryStatus'[k] = IF k \in S THEN "stale" ELSE EntryStatus[k]
    <3>1. EntryStatus'[k] = IF ~Inserted(k)' THEN "absent"
                            ELSE IF Present(k)' THEN "live" ELSE "stale"
      BY DEF EntryStatus, Present
    <3>2. EntryStatus[k] = IF ~Inserted(k) THEN "absent"
                           ELSE IF Present(k) THEN "live" ELSE "stale"
      BY DEF EntryStatus, Present
    <3>3. Present(k) => Inserted(k)
      BY DEF Present
    <3> QED
      BY <1>3, <1>4, <3>1, <3>2, <3>3
  <2> QED
    BY <2>1 DEF EntryStatus
<1>6. CASE S = {}
  <2>1. EntryStatus' = EntryStatus
    BY <1>5, <1>6 DEF EntryStatus
  <2> QED
    BY <1>1, <2>1 DEF Promise!vars
<1>7. CASE S # {}
  <2>1. Promise!Expire(S)
    BY <1>1, <1>2, <1>5, <1>7 DEF Promise!Expire
  <2> QED
    BY <2>1 DEF Promise!Next
<1> QED
  BY <1>6, <1>7

(* Every step of the cache, whoever takes it, is a step of the expiring    *)
(* set or changes nothing that a caller can tell.                          *)
THEOREM Refinement == Spec => ImplementsExpiringSet
<1>1. Init => Promise!Init
  <2> SUFFICES ASSUME Init PROVE Promise!Init
    OBVIOUS
  <2>1. \A k \in Key : ~Inserted(k)
    BY DEF Init, Inserted
  <2>2. EntryStatus = [k \in Key |-> "absent"]
    BY <2>1 DEF EntryStatus, Present
  <2> QED
    BY <2>2, Zenon DEF Init, Promise!Init, Promise!NoAnswer
<1>2. TypeOK /\ [Next]_vars => [Promise!Next]_Promise!vars
  <2> SUFFICES ASSUME TypeOK, [Next]_vars PROVE [Promise!Next]_Promise!vars
    OBVIOUS
  <2>1. ASSUME NEW k \in Key, IsPresentAdd(k) PROVE [Promise!Next]_Promise!vars
    BY <2>1, RefineIsPresentAdd DEF Promise!Next
  <2>2. ASSUME NEW k \in Key, IsPresent(k) PROVE [Promise!Next]_Promise!vars
    <3>1. UNCHANGED EntryStatus
      BY <2>2, StatusSame DEF IsPresent
    <3>2. Promise!IsPresent(k)
      BY <2>2, <3>1, LiveIsPresent, Zenon DEF IsPresent, Promise!IsPresent
    <3> QED
      BY <3>2 DEF Promise!Next
  <2>3. ASSUME NEW k \in Key, Add(k) PROVE [Promise!Next]_Promise!vars
    BY <2>3, RefineAdd DEF Promise!Next
  <2>4. ASSUME NEW c \in Cleaner, CleanSweep(c)
        PROVE  [Promise!Next]_Promise!vars
    BY <2>4, RefineSweep
  <2>5. CASE Tick
    BY <2>5, RefineTick
  <2>6. CASE \/ ScheduleCleaning
             \/ \E c \in Cleaner : CleanStamp(c)
             \/ UNCHANGED vars
    <3>1. UNCHANGED <<clock, stamp, answer>>
      BY <2>6 DEF ScheduleCleaning, CleanStamp, vars
    <3> QED
      BY <3>1, StatusSame DEF Promise!vars
  <2> QED
    BY <2>1, <2>2, <2>3, <2>4, <2>5, <2>6 DEF Next, Background
<1> QED
  BY <1>1, <1>2, TypeCorrect, PTL DEF Spec, ImplementsExpiringSet, Promise!Spec
=============================================================================
