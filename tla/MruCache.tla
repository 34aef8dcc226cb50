------------------------------ MODULE MruCache ------------------------------
(***************************************************************************)
(* MruCache<Key> (src/mrucache.h): a map from addresses to the time they   *)
(* were inserted, queried by one thread and swept by detached cleaner      *)
(* threads that the queries themselves start.                              *)
(*                                                                         *)
(* Granularity.  Everything an operation does under m_mutex is one step;   *)
(* the readings of s_clock inside one critical section are one reading.    *)
(* ScheduleCleaning runs after the lock is released and reads              *)
(* m_lastCleanTime without it: a step of its own.  A cleaner thread is two *)
(* steps, the sweep under the lock and the unlocked store to               *)
(* m_lastCleanTime; between them, and before the sweep, anything may       *)
(* happen, another cleaner's whole run included.  The store may carry any  *)
(* reading of the clock taken since the sweep, so that m_lastCleanTime can *)
(* move backwards when two cleaners store in the other order.              *)
(*                                                                         *)
(* The program has two caches, each called by one thread: m_recentClients  *)
(* of the server, which only calls IsPresentAdd, and m_bannedServers of    *)
(* the configuration, which calls Add and IsPresent (BanSpec).  Spec       *)
(* allows every operation in any order, as the tests do.                   *)
(***************************************************************************)
EXTENDS Integers

CONSTANTS
  Key,           \* the addresses
  Lifetime,      \* m_lifetimeSeconds, which is also m_cleanIntervalSeconds
  MaxTime,       \* bound: the clock stops here
  Cleaner        \* bound: the cleaner threads that can exist at one time

ASSUME LifetimeAssumption == Lifetime \in Nat \ {0}
ASSUME MaxTimeAssumption == MaxTime \in Nat

VARIABLES
  clock,         \* s_clock
  stamp,         \* m_recentClients: the time of a key's entry, or NoStamp
  lastClean,     \* m_lastCleanTime
  scheduling,    \* the caller has unlocked and is about to ScheduleCleaning
  starting,      \* the cleaner threads that have not swept yet
  sweptAt,       \* when a cleaner that has yet to store the time swept
  answer,        \* what the last query returned
  since,         \* history: when the key was last accepted, or newly added
  added          \* history: the keys Add was called with at this instant

vars == <<clock, stamp, lastClean, scheduling, starting, sweptAt, answer, since, added>>
cleaning == <<lastClean, starting, sweptAt>>

Time == 0 .. MaxTime
NoStamp == -1

Init ==
  /\ clock = 0
  /\ stamp = [k \in Key |-> NoStamp]
  /\ lastClean = 0
  /\ scheduling = FALSE
  /\ starting = {}
  /\ sweptAt = [c \in Cleaner |-> NoStamp]
  /\ answer = [key |-> "none"]
  /\ since = [k \in Key |-> NoStamp]
  /\ added = {}

Inserted(k) == stamp[k] # NoStamp

(* The test of IsPresentAdd and IsPresent; the mistake is an instant late. *)
ExpiredLate(k) == clock > stamp[k] + Lifetime
Expired(k) == clock >= stamp[k] + Lifetime

(* The test of Clean, later by one instant than that of the queries; the   *)
(* mistake is to leave out the lifetime.                                   *)
CleanableAtOnce(k) == Inserted(k) /\ clock > stamp[k]
Cleanable(k) == Inserted(k) /\ clock > stamp[k] + Lifetime

Present(k) == Inserted(k) /\ ~Expired(k)

(* A mistake: letting the key through as soon as the clock has moved.      *)
IsPresentAddAgain(k) ==
  /\ ~scheduling
  /\ answer' = [key |-> k, present |-> Inserted(k) /\ clock = stamp[k]]
  /\ stamp' = [stamp EXCEPT ![k] = clock]
  /\ since' = [since EXCEPT ![k] = clock]
  /\ scheduling' = TRUE
  /\ UNCHANGED <<clock, cleaning, added>>

(* A key not in the map is emplaced, an expired one is stamped again: both *)
(* are answered "not present".  A live one keeps its stamp.                *)
IsPresentAdd(k) ==
  /\ ~scheduling
  /\ answer' = [key |-> k, present |-> Present(k)]
  /\ \/ /\ Present(k)
        /\ UNCHANGED <<stamp, since>>
     \/ /\ ~Present(k)
        /\ stamp' = [stamp EXCEPT ![k] = clock]
        /\ since' = [since EXCEPT ![k] = clock]
  /\ scheduling' = TRUE
  /\ UNCHANGED <<clock, cleaning, added>>

(* A mistake: not looking at the age of the entry.                         *)
IsPresentForever(k) ==
  /\ ~scheduling
  /\ answer' = [key |-> k, present |-> Inserted(k)]
  /\ scheduling' = TRUE
  /\ UNCHANGED <<clock, stamp, cleaning, since, added>>

IsPresent(k) ==
  /\ ~scheduling
  /\ answer' = [key |-> k, present |-> Present(k)]
  /\ scheduling' = TRUE
  /\ UNCHANGED <<clock, stamp, cleaning, since, added>>

(* emplace() leaves an entry that is already there as it is, expired or    *)
(* not, and Add does not look at what emplace() returned.                  *)
AddStamp(k) == [stamp EXCEPT ![k] = IF Inserted(k) THEN @ ELSE clock]

Add(k) ==
  /\ ~scheduling
  /\ stamp' = AddStamp(k)
  /\ since' = [since EXCEPT ![k] = IF Inserted(k) THEN @ ELSE clock]
  /\ added' = added \cup {k}
  /\ UNCHANGED <<clock, cleaning, scheduling, answer>>

(* Nothing records that a cleaner is running: until one has written        *)
(* m_lastCleanTime, every query starts another.                            *)
CleaningDue == clock >= lastClean + Lifetime

Idle(c) == c \notin starting /\ sweptAt[c] = NoStamp

ScheduleCleaning ==
  /\ scheduling
  /\ scheduling' = FALSE
  /\ \/ CleaningDue /\ \E c \in Cleaner : Idle(c) /\ starting' = starting \cup {c}
     \/ ~CleaningDue /\ UNCHANGED starting
  /\ UNCHANGED <<clock, stamp, lastClean, sweptAt, answer, since, added>>

(* A mistake: the loop of Clean ends with the first entry it erases.       *)
SweptOnce ==
  IF \E k \in Key : Cleanable(k)
  THEN [stamp EXCEPT ![CHOOSE k \in Key : Cleanable(k)] = NoStamp]
  ELSE stamp

Swept == [k \in Key |-> IF Cleanable(k) THEN NoStamp ELSE stamp[k]]

CleanSweep(c) ==
  /\ c \in starting
  /\ stamp' = Swept
  /\ starting' = starting \ {c}
  /\ sweptAt' = [sweptAt EXCEPT ![c] = clock]
  /\ UNCHANGED <<clock, lastClean, scheduling, answer, since, added>>

(* A mistake: storing when the next cleaning is due.                       *)
CleanStampNext(c) ==
  /\ sweptAt[c] # NoStamp
  /\ lastClean' = clock + Lifetime
  /\ sweptAt' = [sweptAt EXCEPT ![c] = NoStamp]
  /\ UNCHANGED <<clock, stamp, scheduling, starting, answer, since, added>>

CleanStamp(c) ==
  /\ sweptAt[c] # NoStamp
  /\ lastClean' \in sweptAt[c] .. clock
  /\ sweptAt' = [sweptAt EXCEPT ![c] = NoStamp]
  /\ UNCHANGED <<clock, stamp, scheduling, starting, answer, since, added>>

Tick ==
  /\ clock < MaxTime
  /\ clock' = clock + 1
  /\ added' = {}
  /\ UNCHANGED <<stamp, cleaning, scheduling, answer, since>>

Background ==
  \/ ScheduleCleaning
  \/ \E c \in Cleaner : CleanSweep(c) \/ CleanStamp(c)
  \/ Tick

BanNext == Background \/ \E k \in Key : Add(k) \/ IsPresent(k)
Next == Background \/ \E k \in Key : IsPresentAdd(k) \/ IsPresent(k) \/ Add(k)

BanSpec == Init /\ [][BanNext]_vars
Spec == Init /\ [][Next]_vars

(* A thread that was started runs: the scheduler is fair to the cleaners   *)
(* and to the caller's own continuation, never to the arrival of calls.    *)
FairSpec ==
  /\ Spec
  /\ WF_vars(ScheduleCleaning)
  /\ \A c \in Cleaner : WF_vars(CleanSweep(c)) /\ WF_vars(CleanStamp(c))
-----------------------------------------------------------------------------
(* Every variable has its type; the time of the last cleaning is never in  *)
(* the future, however late a cleaner stores it.                           *)
TypeOK ==
  /\ clock \in Time
  /\ stamp \in [Key -> Time \cup {NoStamp}]
  /\ lastClean \in 0 .. clock
  /\ scheduling \in BOOLEAN
  /\ starting \subseteq Cleaner
  /\ sweptAt \in [Cleaner -> Time \cup {NoStamp}]
  /\ answer \in [key : Key, present : BOOLEAN] \cup {[key |-> "none"]}
  /\ since \in [Key -> Time \cup {NoStamp}]
  /\ added \subseteq Key

(* For a lifetime after a key was accepted (answered "not present" by      *)
(* IsPresentAdd) or newly added, the cache reports it: no cleaner, however *)
(* late, erases an entry that is still due, and no call leaves an old      *)
(* stamp.                                                                  *)
RecentStaysPresent ==
  \A k \in Key :
    since[k] # NoStamp /\ clock < since[k] + Lifetime => Present(k)

(* The converse: a key is reported only within a lifetime of having been   *)
(* accepted or newly added.  Who waited long enough is never ignored.      *)
PresentOnlyIfRecent ==
  \A k \in Key :
    Present(k) => since[k] # NoStamp /\ clock < since[k] + Lifetime

(* The rate limit: between two calls that accept the same key lies at      *)
(* least one lifetime, whatever the cleaners did in between.               *)
RateLimit ==
  [][\A k \in Key :
       since'[k] # since[k] /\ since[k] # NoStamp
         => clock >= since[k] + Lifetime]_vars

(* "Bad servers are banned for 24hrs" (src/config.cpp:158): a key just     *)
(* added is present, whatever the cache held of it.                        *)
AddTakesEffect == \A k \in added : Present(k)

(* Once a cleaner thread has been started, every entry that is overdue is  *)
(* erased or renewed; the thread is never stuck behind the queries.        *)
CleanerDelivers ==
  \A k \in Key : (starting # {} /\ Cleanable(k)) ~> ~Cleanable(k)
-----------------------------------------------------------------------------
(* Refinement: the status of a key, seen through its stamp and the clock.  *)
EntryStatus ==
  [k \in Key |-> CASE ~Inserted(k) -> "absent"
                   [] Present(k)   -> "live"
                   [] OTHER        -> "stale"]

Promise == INSTANCE ExpiringSet WITH entry <- EntryStatus, answer <- answer

(* Time stamps, the clock and the cleaners implement the expiring set.     *)
ImplementsExpiringSet == Promise!Spec
=============================================================================
