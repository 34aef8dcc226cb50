---------------------------- MODULE ExpiringSet ----------------------------
(***************************************************************************)
(* What MruCache (src/mrucache.h) promises its callers, with neither a     *)
(* clock nor a cleaner thread.  A key is "absent" from the map, "live"     *)
(* (inserted less than a lifetime ago) or "stale" (its lifetime is over    *)
(* but the entry is still in the map).  A stale key looks absent to every  *)
(* query; it differs from an absent one in a single operation, Add, which  *)
(* leaves the entry it finds alone.                                        *)
(*                                                                         *)
(* MruCache.tla shows that the code, with time stamps, the caller's calls  *)
(* and any number of detached cleaner threads, implements this module; the *)
(* modules of the server and of the configuration use it for               *)
(* m_recentClients and m_bannedServers.                                    *)
(***************************************************************************)
CONSTANT Key          \* addresses (sockaddr_storage or ServerRecord)

VARIABLES
  entry,              \* the state of each key's entry
  answer              \* what the last query answered, and for which key

vars == <<entry, answer>>

Status == {"absent", "live", "stale"}

(* The answers callers have seen: a key and whether it was "present", or   *)
(* no answer yet.                                                          *)
Answer == [key : Key, present : BOOLEAN]
NoAnswer == [key |-> "none"]

Init ==
  /\ entry = [k \in Key |-> "absent"]
  /\ answer = NoAnswer

Live(k) == entry[k] = "live"

(* IsPresentAdd: test and insert in one step.  A key that is not live is   *)
(* live afterwards, for a new lifetime.                                    *)
IsPresentAdd(k) ==
  /\ answer' = [key |-> k, present |-> Live(k)]
  /\ entry' = [entry EXCEPT ![k] = "live"]

(* IsPresent: a query that changes nothing.                                *)
IsPresent(k) ==
  /\ answer' = [key |-> k, present |-> Live(k)]
  /\ UNCHANGED entry

(* The entry Add leaves: only an absent key gets a new lifetime.           *)
Added(k) == [entry EXCEPT ![k] = IF @ = "absent" THEN "live" ELSE @]

Add(k) ==
  /\ entry' = Added(k)
  /\ UNCHANGED answer

(* Time passes and the lifetime of the live keys in S ends.                *)
Expire(S) ==
  /\ S # {}
  /\ \A k \in S : Live(k)
  /\ entry' = [k \in Key |-> IF k \in S THEN "stale" ELSE entry[k]]
  /\ UNCHANGED answer

(* A cleaner erases the stale keys in S.                                   *)
Evict(S) ==
  /\ S # {}
  /\ \A k \in S : entry[k] = "stale"
  /\ entry' = [k \in Key |-> IF k \in S THEN "absent" ELSE entry[k]]
  /\ UNCHANGED answer

Next ==
  \/ \E k \in Key : IsPresentAdd(k) \/ IsPresent(k) \/ Add(k)
  \/ \E S \in SUBSET Key : Expire(S) \/ Evict(S)

Spec == Init /\ [][Next]_vars
=============================================================================
