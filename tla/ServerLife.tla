----------------------------- MODULE ServerLife -----------------------------
(***************************************************************************)
(* The life of a server, as the comments of src/config.h tell it (lines    *)
(* 128-148) and the lists of NrpdConfig keep it, without the order of the  *)
(* lists, the iterators, the counts, the clock and the network.            *)
(*                                                                         *)
(* A server is learned from the answer of another; it is on probation      *)
(* until it answers, which makes it active, or is given up, which bans it. *)
(* Only a server that the program started with is active without having    *)
(* answered.  It is unproven until it does, and while it is, it can be     *)
(* banned but is not removed.                                              *)
(*                                                                         *)
(* Both NrpdConfig, where every call is a step, and Exchange, where a      *)
(* whole response is one, are shown to implement this module.              *)
(***************************************************************************)
CONSTANTS
  Server,           \* the servers there are
  Seeds,            \* those that are active when the program starts
  SameHost(_, _)    \* two servers that cannot be active together

VARIABLES
  active,           \* servers in m_activeServers
  unproven,         \* those of them whose probationary flag is still set
  onProbation,      \* servers in m_probationaryServers
  banned,           \* servers in m_bannedServers
  lapsed            \* servers there whose ban has ended

vars == <<active, unproven, onProbation, banned, lapsed>>

Init ==
  /\ active = Seeds
  /\ unproven = Seeds
  /\ onProbation = {}
  /\ banned = {}
  /\ lapsed = {}

HostIsActive(s) == \E t \in active : SameHost(s, t)

(* What AddServersFromMessage takes from a message.                        *)
Learnable == {s \in Server \ banned : ~HostIsActive(s)}

(* A list that held s, perhaps twice, after one s was taken out.           *)
OneLess(S, s) == {S, S \ {s}}

(* While the response of s is parsed, servers are learned from it.         *)
Learn(s, learned) ==
  /\ s \in active \cup onProbation
  /\ learned \subseteq Learnable
  /\ onProbation' = onProbation \cup learned
  /\ UNCHANGED <<active, unproven, banned, lapsed>>

(* MarkServerSuccessful for an active server, and what was learned.        *)
Prove(s, learned) ==
  /\ s \in active
  /\ learned \subseteq Learnable
  /\ onProbation' = onProbation \cup learned
  /\ unproven' = unproven \ {s}
  /\ UNCHANGED <<active, banned, lapsed>>

(* And for one on probation, which becomes active if its host is not.      *)
Promote(s, learned) ==
  /\ s \in onProbation
  /\ learned \subseteq Learnable
  /\ active' = IF HostIsActive(s) THEN active ELSE active \cup {s}
  /\ \E rest \in OneLess(onProbation, s) : onProbation' = rest \cup learned
  /\ UNCHANGED <<unproven, banned, lapsed>>

(* IncrementServerFailCount at the limit.  A ban that ended but is not yet *)
(* swept away is not renewed (MruCache::Add).                              *)
GiveUp(s) ==
  /\ \/ /\ s \in onProbation
        /\ onProbation' \in OneLess(onProbation, s)
        /\ UNCHANGED active
     \/ /\ s \in active
        /\ active' = IF s \in unproven THEN active ELSE active \ {s}
        /\ UNCHANGED onProbation
  /\ banned' = IF s \in lapsed THEN banned ELSE banned \cup {s}
  /\ UNCHANGED <<unproven, lapsed>>

(* m_bannedServers, by itself.                                             *)
EndBan(s) ==
  /\ s \in banned
  /\ banned' = banned \ {s}
  /\ lapsed' = lapsed \cup {s}
  /\ UNCHANGED <<active, unproven, onProbation>>

ForgetBan(s) ==
  /\ s \in lapsed
  /\ lapsed' = lapsed \ {s}
  /\ UNCHANGED <<active, unproven, onProbation, banned>>

Next ==
  \E s \in Server :
    \/ \E learned \in SUBSET Server :
         Learn(s, learned) \/ Prove(s, learned) \/ Promote(s, learned)
    \/ GiveUp(s) \/ EndBan(s) \/ ForgetBan(s)

Spec == Init /\ [][Next]_vars
=============================================================================
