-------------------------- MODULE NrpdConfigProofs --------------------------
(***************************************************************************)
(* Proofs about NrpdConfig, for any set of servers and any limits.         *)
(*                                                                         *)
(* CountNeverOverstates is inductive once two facts are carried with it:   *)
(* the active list is finite, and the counts are integers.  The cached     *)
(* count and the list then move together or the count falls behind, and    *)
(* ActiveServerCount only ever sets it to what the list holds.             *)
(*                                                                         *)
(* That the client's reference stays valid in either list, SafeInv, needs  *)
(* what std::list::remove leaves of the probationary one, which is proved  *)
(* by induction over the list (Kept).                                      *)
(***************************************************************************)
EXTENDS NrpdConfig, Induction, FiniteSetTheorems, SequenceTheorems, TLAPS

(* The active servers of a protocol in a set of servers.                   *)
OfProtocol(S, f) == {s \in S : s.v6 = f}

(* Adding a server to a set raises the count of its protocol by one and    *)
(* leaves the other alone.                                                 *)
LEMMA AddOne ==
  ASSUME NEW S, IsFiniteSet(S), NEW x, x \notin S, NEW f
  PROVE  Cardinality(OfProtocol(S \cup {x}, f)) =
           IF x.v6 = f THEN Cardinality(OfProtocol(S, f)) + 1
                       ELSE Cardinality(OfProtocol(S, f))
<1>1. IsFiniteSet(OfProtocol(S, f)) /\ x \notin OfProtocol(S, f)
  BY FS_Subset DEF OfProtocol
<1>2. CASE x.v6 = f
  <2>1. OfProtocol(S \cup {x}, f) = OfProtocol(S, f) \cup {x}
    BY <1>2 DEF OfProtocol
  <2> QED
    BY <1>1, <1>2, <2>1, FS_AddElement
<1>3. CASE x.v6 # f
  <2>1. OfProtocol(S \cup {x}, f) = OfProtocol(S, f)
    BY <1>3 DEF OfProtocol
  <2> QED
    BY <1>3, <2>1
<1> QED
  BY <1>2, <1>3

(* Removing one lowers the count of its protocol by one at most.           *)
LEMMA RemoveOne ==
  ASSUME NEW S, IsFiniteSet(S), NEW x, NEW f
  PROVE  /\ IsFiniteSet(S \ {x})
         /\ Cardinality(OfProtocol(S \ {x}, f)) \in Nat
         /\ Cardinality(OfProtocol(S, f)) \in Nat
         /\ Cardinality(OfProtocol(S \ {x}, f)) >=
              Cardinality(OfProtocol(S, f)) - 1
         /\ x.v6 # f => OfProtocol(S \ {x}, f) = OfProtocol(S, f)
<1>1. IsFiniteSet(S \ {x})
  BY FS_RemoveElement
<1>2. IsFiniteSet(OfProtocol(S, f))
  BY FS_Subset DEF OfProtocol
<1>3. OfProtocol(S \ {x}, f) = OfProtocol(S, f) \ {x}
  BY DEF OfProtocol
<1>4. Cardinality(OfProtocol(S, f)) \in Nat
  BY <1>2, FS_CardinalityType
<1>5. /\ IsFiniteSet(OfProtocol(S, f) \ {x})
      /\ Cardinality(OfProtocol(S, f) \ {x}) =
           IF x \in OfProtocol(S, f) THEN Cardinality(OfProtocol(S, f)) - 1
                                     ELSE Cardinality(OfProtocol(S, f))
  BY <1>2, FS_RemoveElement
<1>6. Cardinality(OfProtocol(S, f) \ {x}) \in Nat
  BY <1>5, FS_CardinalityType
<1>7. x.v6 # f => OfProtocol(S \ {x}, f) = OfProtocol(S, f)
  BY DEF OfProtocol
<1>8. Cardinality(OfProtocol(S \ {x}, f)) = Cardinality(OfProtocol(S, f) \ {x})
  BY <1>3
<1>9. Cardinality(OfProtocol(S, f) \ {x}) >= Cardinality(OfProtocol(S, f)) - 1
  BY <1>4, <1>5
<1>10. Cardinality(OfProtocol(S \ {x}, f)) >= Cardinality(OfProtocol(S, f)) - 1
  BY <1>8, <1>9
<1> QED
  BY <1>1, <1>4, <1>6, <1>7, <1>8, <1>10

(* The inductive invariant.                                                *)
CountInv ==
  /\ IsFiniteSet(DOMAIN active)
  /\ count \in [BOOLEAN -> Int]
  /\ CountNeverOverstates

LEMMA CountInit == Init => CountInv
<1> SUFFICES ASSUME Init PROVE CountInv
  OBVIOUS
<1>1. DOMAIN active = Seeds /\ IsFiniteSet(Seeds)
  BY SeedsAssumption, ServerAssumption, FS_Subset DEF Init
<1>2. ASSUME NEW f \in BOOLEAN PROVE count[f] <= NumActive(f)
  <2>1. IsFiniteSet({s \in DOMAIN active : s.v6 = f})
    BY <1>1, FS_Subset
  <2>2. NumActive(f) \in Nat
    BY <2>1, FS_CardinalityType DEF NumActive
  <2>3. count[f] = -1
    BY DEF Init
  <2> QED
    BY <2>2, <2>3
<1>3. count \in [BOOLEAN -> Int]
  BY DEF Init
<1> QED
  BY <1>1, <1>2, <1>3 DEF CountInv, CountNeverOverstates

(* A step that keeps the addresses of the list and lowers no bound.        *)
LEMMA SameAddresses ==
  ASSUME CountInv, DOMAIN active' = DOMAIN active,
         count' \in [BOOLEAN -> Int],
         \A f \in BOOLEAN : count'[f] <= count[f]
  PROVE  CountInv'
<1>1. ASSUME NEW f \in BOOLEAN
      PROVE  NumActive(f)' = NumActive(f) /\ NumActive(f) \in Nat
  <2>1. IsFiniteSet({s \in DOMAIN active : s.v6 = f})
    BY FS_Subset DEF CountInv
  <2> QED
    BY <2>1, FS_CardinalityType DEF NumActive
<1>2. ASSUME NEW f \in BOOLEAN PROVE count'[f] <= NumActive(f)'
  BY <1>1 DEF CountInv, CountNeverOverstates
<1> QED
  BY <1>2 DEF CountInv, CountNeverOverstates

(* Uncount keeps the counts integers and raises none.                      *)
LEMMA UncountLowers ==
  ASSUME count \in [BOOLEAN -> Int], NEW s, Uncount(s)
  PROVE  /\ count' \in [BOOLEAN -> Int]
         /\ \A f \in BOOLEAN : count'[f] = IF f = s.v6 THEN count[f] - 1 ELSE count[f]
<1>1. count' = [count EXCEPT ![s.v6] = count[s.v6] - 1]
  BY DEF Uncount
<1>2. count' = [f \in BOOLEAN |-> IF f = s.v6 THEN count[f] - 1 ELSE count[f]]
  BY <1>1
<1>3. \A f \in BOOLEAN : count[f] - 1 \in Int /\ count[f] \in Int
  OBVIOUS
<1>4. \A f \in BOOLEAN : (IF f = s.v6 THEN count[f] - 1 ELSE count[f]) \in Int
  BY <1>3
<1>5. count' \in [BOOLEAN -> Int]
  BY <1>2, <1>4
<1> QED
  BY <1>2, <1>5

LEMMA CountFail == CountInv /\ IncrementServerFailCount => CountInv'
<1> SUFFICES ASSUME CountInv, IncrementServerFailCount PROVE CountInv'
  OBVIOUS
<1>1. CASE ~TooManyFails
  <2>1. DOMAIN active' = DOMAIN active /\ count' = count
    BY <1>1 DEF IncrementServerFailCount, CountFailure
  <2> QED
    BY <2>1, SameAddresses DEF CountInv
<1>2. CASE TooManyFails /\ Flagged
  <2>1. DOMAIN active' = DOMAIN active
    BY <1>2 DEF IncrementServerFailCount
  <2>2. Uncount(Current) \/ count' = count
    BY <1>2 DEF IncrementServerFailCount
  <2>3. count' \in [BOOLEAN -> Int] /\ \A f \in BOOLEAN : count'[f] <= count[f]
    BY <2>2, UncountLowers DEF CountInv
  <2> QED
    BY <2>1, <2>3, SameAddresses
<1>3. CASE TooManyFails /\ ~Flagged
  <2>1. DOMAIN active' = DOMAIN active \ {Current} /\ Uncount(Current)
    BY <1>3 DEF IncrementServerFailCount
  <2>2. IsFiniteSet(DOMAIN active')
    BY <2>1, FS_RemoveElement DEF CountInv
  <2>3. ASSUME NEW f \in BOOLEAN PROVE count'[f] <= NumActive(f)'
    <3>1. NumActive(f) = Cardinality(OfProtocol(DOMAIN active, f))
      BY DEF NumActive, OfProtocol
    <3>2. NumActive(f)' = Cardinality(OfProtocol(DOMAIN active \ {Current}, f))
      BY <2>1 DEF NumActive, OfProtocol
    <3>3. count[f] \in Int /\ count[f] <= NumActive(f)
      BY DEF CountInv, CountNeverOverstates
    <3>4. count'[f] = IF f = Current.v6 THEN count[f] - 1 ELSE count[f]
      BY <2>1, UncountLowers DEF CountInv
    <3>5. CASE f = Current.v6
      BY <3>1, <3>2, <3>3, <3>4, <3>5, RemoveOne DEF CountInv
    <3>6. CASE f # Current.v6
      BY <3>1, <3>2, <3>3, <3>4, <3>6, RemoveOne DEF CountInv
    <3> QED
      BY <3>5, <3>6
  <2>4. count' \in [BOOLEAN -> Int]
    BY <2>1, UncountLowers DEF CountInv
  <2> QED
    BY <2>2, <2>3, <2>4 DEF CountInv, CountNeverOverstates
<1> QED
  BY <1>1, <1>2, <1>3

LEMMA CountMark == CountInv /\ MarkServerSuccessful => CountInv'
<1> SUFFICES ASSUME CountInv, MarkServerSuccessful PROVE CountInv'
  OBVIOUS
<1>1. CASE DOMAIN active' = DOMAIN active /\ count' = count
  BY <1>1, SameAddresses DEF CountInv
<1>2. CASE /\ \A t \in DOMAIN active : ~SameHost(Current, t)
           /\ DOMAIN active' = DOMAIN active \cup {Current}
           /\ count' = [count EXCEPT ![Current.v6] = @ + 1]
  <2>1. Current \notin DOMAIN active
    BY <1>2 DEF SameHost
  <2>2. IsFiniteSet(DOMAIN active')
    BY <1>2, FS_AddElement DEF CountInv
  <2>3. ASSUME NEW f \in BOOLEAN PROVE count'[f] <= NumActive(f)'
    <3>1. NumActive(f) = Cardinality(OfProtocol(DOMAIN active, f))
      BY DEF NumActive, OfProtocol
    <3>2. NumActive(f)' = Cardinality(OfProtocol(DOMAIN active \cup {Current}, f))
      BY <1>2 DEF NumActive, OfProtocol
    <3>3. /\ NumActive(f) \in Nat
          /\ count[f] \in Int /\ count[f] <= NumActive(f)
      <4>1. IsFiniteSet({s \in DOMAIN active : s.v6 = f})
        BY FS_Subset DEF CountInv
      <4> QED
        BY <4>1, FS_CardinalityType DEF CountInv, CountNeverOverstates, NumActive
    <3>4. count'[f] = IF f = Current.v6 THEN count[f] + 1 ELSE count[f]
      BY <1>2 DEF CountInv
    <3>5. NumActive(f)' = IF Current.v6 = f THEN NumActive(f) + 1 ELSE NumActive(f)
      BY <2>1, <3>1, <3>2, AddOne DEF CountInv
    <3> QED
      BY <3>3, <3>4, <3>5
  <2>4. count' \in [BOOLEAN -> Int]
    <3>1. count' = [f \in BOOLEAN |-> IF f = Current.v6 THEN count[f] + 1 ELSE count[f]]
      BY <1>2 DEF CountInv
    <3>2. \A f \in BOOLEAN : (IF f = Current.v6 THEN count[f] + 1 ELSE count[f]) \in Int
      BY DEF CountInv
    <3> QED
      BY <3>1, <3>2
  <2> QED
    BY <2>2, <2>3, <2>4 DEF CountInv, CountNeverOverstates
<1> QED
  <2>1. CASE ~Flagged
    BY <1>1, <2>1 DEF MarkServerSuccessful
  <2>2. CASE Flagged /\ \E t \in DOMAIN active : SameHost(Current, t)
    BY <1>1, <2>2 DEF MarkServerSuccessful
  <2>3. CASE Flagged /\ \A t \in DOMAIN active : ~SameHost(Current, t)
    BY <1>2, <2>3 DEF MarkServerSuccessful
  <2> QED
    BY <2>1, <2>2, <2>3

LEMMA CountRecount ==
  ASSUME CountInv, NEW g \in BOOLEAN, ActiveServerCount(g)
  PROVE  CountInv'
<1>1. active' = active /\ count' = [count EXCEPT ![g] = NumActive(g)]
  BY DEF ActiveServerCount, lists
<1>2. ASSUME NEW f \in BOOLEAN
      PROVE  NumActive(f)' = NumActive(f) /\ NumActive(f) \in Nat
  <2>1. IsFiniteSet({s \in DOMAIN active : s.v6 = f})
    BY FS_Subset DEF CountInv
  <2> QED
    BY <1>1, <2>1, FS_CardinalityType DEF NumActive
<1> QED
  BY <1>1, <1>2 DEF CountInv, CountNeverOverstates

LEMMA CountStep == CountInv /\ [Next]_vars => CountInv'
<1> SUFFICES ASSUME CountInv, [Next]_vars PROVE CountInv'
  OBVIOUS
<1>1. CASE \/ GetNextServer
           \/ GetNextServerFaults
           \/ Continue
           \/ ParseResponse
           \/ \E s \in Server : AddServer(s)
           \/ \E s \in Server : BanChanges(s)
           \/ UNCHANGED vars
  <2>1. active' = active /\ count' = count
    BY <1>1 DEF GetNextServer, GetNextServerFaults, Continue, ParseResponse,
                AddServer, BanChanges, lists, vars
  <2> QED
    BY <2>1, SameAddresses DEF CountInv
<1>2. CASE IncrementServerFailCount
  BY <1>2, CountFail
<1>3. CASE MarkServerSuccessful
  BY <1>3, CountMark
<1>4. CASE \E f \in BOOLEAN : ActiveServerCount(f)
  BY <1>4, CountRecount
<1> QED
  BY <1>1, <1>2, <1>3, <1>4 DEF Next, ClientNext

(* A message sized by the cached count finds as many servers to copy.      *)
THEOREM NeverOverstates == Spec => []CountNeverOverstates
<1>1. CountInv => CountNeverOverstates
  BY DEF CountInv
<1> QED
  BY <1>1, CountInit, CountStep, PTL DEF Spec
-----------------------------------------------------------------------------
(* The probationary list: what erasing from it leaves.                     *)
LEMMA KeptDefined ==
  ASSUME NEW list \in Seq(ProbRecord), NEW s
  PROVE  KeptUpTo(list, s) =
           [n \in 0 .. Len(list) |->
              IF n = 0 THEN <<>>
              ELSE IF list[n].addr = s THEN KeptUpTo(list, s)[n - 1]
              ELSE Append(KeptUpTo(list, s)[n - 1], list[n])]
<1> DEFINE N == Len(list)
           Lists == Seq(ProbRecord)
           step == [n \in 1 .. N |-> [q \in Lists |->
                      IF list[n].addr = s THEN q ELSE Append(q, list[n])]]
<1>1. N \in Nat /\ <<>> \in Lists
  OBVIOUS
<1>2. \A n \in 1 .. N, q \in Lists : Append(q, list[n]) \in Lists
  OBVIOUS
<1> HIDE DEF N, Lists
<1>3. step \in [1 .. N -> [Lists -> Lists]]
  BY <1>2
<1>4. \A n \in 1 .. N, q \in Lists :
        step[n][q] = IF list[n].addr = s THEN q ELSE Append(q, list[n])
  OBVIOUS
<1> HIDE DEF step
<1>5. PICK g \in [0 .. N -> Lists] :
        g[0] = <<>> /\ \A n \in 1 .. N : g[n] = step[n][g[n - 1]]
  <2>1. Runs(N, Lists, <<>>, step) # {}
    BY <1>1, <1>3, Recursion
  <2> QED
    BY <2>1 DEF Runs
<1>6. ASSUME NEW n \in 1 .. N
      PROVE  g[n] = IF list[n].addr = s THEN g[n - 1] ELSE Append(g[n - 1], list[n])
  <2>1. n - 1 \in 0 .. N /\ g[n - 1] \in Lists
    BY <1>1, <1>5
  <2> QED
    BY <1>4, <1>5, <2>1
<1>7. \A n \in 0 .. N : g[n] = IF n = 0 THEN <<>>
                               ELSE IF list[n].addr = s THEN g[n - 1]
                               ELSE Append(g[n - 1], list[n])
  <2>1. \A n \in 0 .. N : n = 0 \/ n \in 1 .. N
    BY <1>1
  <2> QED
    BY <1>5, <1>6, <2>1, Zenon
<1>8. g = [n \in 0 .. N |-> IF n = 0 THEN <<>>
                            ELSE IF list[n].addr = s THEN g[n - 1]
                            ELSE Append(g[n - 1], list[n])]
  <2>1. g = [n \in 0 .. N |-> g[n]]
    BY <1>5
  <2> QED
    BY <1>7, <2>1, Zenon
<1> QED
  BY <1>8 DEF KeptUpTo, N

(* Every server but s is kept, nothing else is, and the first n servers    *)
(* leave no more than all of them.                                         *)
LEMMA Kept ==
  ASSUME NEW list \in Seq(ProbRecord), NEW s
  PROVE  /\ Without(list, s) \in Seq(ProbRecord)
         /\ \A n \in 0 .. Len(list) : Len(KeptUpTo(list, s)[n]) \in 0 .. Len(Without(list, s))
         /\ \A i \in 1 .. Len(list) : list[i].addr # s =>
              \E j \in 1 .. Len(Without(list, s)) : Without(list, s)[j] = list[i]
<1> DEFINE N == Len(list)
           kept == KeptUpTo(list, s)
           All(m) == \A i \in 1 .. m : list[i].addr # s =>
                       \E j \in 1 .. Len(kept[m]) : kept[m][j] = list[i]
           S == {m \in Nat : m <= N =>
                   /\ kept[m] \in Seq(ProbRecord)
                   /\ \A n \in 0 .. m : Len(kept[n]) \in 0 .. Len(kept[m])
                   /\ All(m)}
<1>1. N \in Nat /\ \A n \in 1 .. N : list[n] \in ProbRecord
  OBVIOUS
<1>2. /\ kept[0] = <<>>
      /\ \A n \in 1 .. N : kept[n] = IF list[n].addr = s THEN kept[n - 1]
                                     ELSE Append(kept[n - 1], list[n])
  BY KeptDefined, <1>1
<1> HIDE DEF kept, N
<1>3. 0 \in S
  <2>1. kept[0] \in Seq(ProbRecord) /\ Len(kept[0]) = 0
    BY <1>2
  <2> QED
    BY <2>1
<1>4. ASSUME NEW m \in Nat, m \in S, m + 1 <= N
      PROVE  /\ kept[m + 1] \in Seq(ProbRecord)
             /\ \A n \in 0 .. (m + 1) : Len(kept[n]) \in 0 .. Len(kept[m + 1])
             /\ All(m + 1)
  <2>1. /\ kept[m] \in Seq(ProbRecord) /\ All(m)
        /\ \A n \in 0 .. m : Len(kept[n]) \in 0 .. Len(kept[m])
    BY <1>1, <1>4
  <2>2. /\ kept[m + 1] = IF list[m + 1].addr = s THEN kept[m] ELSE Append(kept[m], list[m + 1])
        /\ list[m + 1] \in ProbRecord
    BY <1>1, <1>2, <1>4
  <2>3. CASE list[m + 1].addr = s
    BY <2>1, <2>2, <2>3
  <2>4. CASE list[m + 1].addr # s
    <3>1. kept[m + 1] = Append(kept[m], list[m + 1])
      BY <2>2, <2>4
    <3>2. /\ kept[m + 1] \in Seq(ProbRecord) /\ Len(kept[m + 1]) = Len(kept[m]) + 1
          /\ kept[m + 1][Len(kept[m]) + 1] = list[m + 1]
          /\ \A j \in 1 .. Len(kept[m]) : kept[m + 1][j] = kept[m][j]
      BY <2>1, <2>2, <3>1
    <3>3. \A n \in 0 .. (m + 1) : Len(kept[n]) \in 0 .. Len(kept[m + 1])
      BY <2>1, <3>2
    <3>4. ASSUME NEW i \in 1 .. (m + 1), list[i].addr # s
          PROVE  \E j \in 1 .. Len(kept[m + 1]) : kept[m + 1][j] = list[i]
      <4>1. CASE i = m + 1
        BY <2>1, <3>2, <4>1
      <4>2. CASE i # m + 1
        <5>1. PICK j \in 1 .. Len(kept[m]) : kept[m][j] = list[i]
          BY <2>1, <3>4, <4>2
        <5> QED
          BY <2>1, <3>2, <5>1
      <4> QED
        BY <4>1, <4>2
    <3> QED
      BY <3>2, <3>3, <3>4
  <2> QED
    BY <2>3, <2>4
<1>5. \A m \in Nat : m \in S => m + 1 \in S
  <2> HIDE DEF All
  <2> QED
    BY <1>4
<1>6. N \in S
  <2> HIDE DEF S
  <2> QED
    BY <1>1, <1>3, <1>5, Induction
<1>7. /\ kept[N] \in Seq(ProbRecord)
      /\ \A n \in 0 .. N : Len(kept[n]) \in 0 .. Len(kept[N])
      /\ All(N)
  BY <1>1, <1>6
<1>8. Without(list, s) = kept[N]
  BY DEF Without, kept, N
<1> QED
  BY <1>7, <1>8 DEF kept, N

LEMMA Removed ==
  ASSUME NEW S, NEW list \in Seq(S), NEW p \in 0 .. Len(list), p # 0
  PROVE  /\ p \in 1 .. Len(list) /\ Len(list) \in Nat
         /\ RemoveAt(list, p) \in Seq(S)
         /\ Len(RemoveAt(list, p)) = Len(list) - 1
         /\ \A j \in 1 .. (p - 1) : RemoveAt(list, p)[j] = list[j]
         /\ \A j \in p .. (Len(list) - 1) : RemoveAt(list, p)[j] = list[j + 1]
<1> DEFINE front == SubSeq(list, 1, p - 1)
           back == SubSeq(list, p + 1, Len(list))
<1>1. p \in 1 .. Len(list) /\ Len(list) \in Nat
  OBVIOUS
<1>2. /\ front \in Seq(S) /\ Len(front) = p - 1
      /\ \A j \in 1 .. (p - 1) : front[j] = list[j]
  BY <1>1
<1>3. /\ back \in Seq(S) /\ Len(back) = Len(list) - p
      /\ \A j \in 1 .. (Len(list) - p) : back[j] = list[j + p]
  BY <1>1
<1> HIDE DEF front, back
<1>4. /\ front \o back \in Seq(S) /\ Len(front \o back) = Len(list) - 1
      /\ \A j \in 1 .. (p - 1) : (front \o back)[j] = front[j]
      /\ \A j \in p .. (Len(list) - 1) : (front \o back)[j] = back[j - (p - 1)]
  <2>1. /\ front \o back \in Seq(S) /\ Len(front \o back) = Len(front) + Len(back)
        /\ \A j \in 1 .. (Len(front) + Len(back)) :
             (front \o back)[j] = IF j <= Len(front) THEN front[j] ELSE back[j - Len(front)]
    BY <1>2, <1>3, ConcatProperties
  <2> DEFINE L == Len(list)
             joined == front \o back
  <2>2. /\ L \in Nat /\ p \in Nat /\ 1 <= p /\ p <= L
        /\ Len(front) = p - 1 /\ Len(back) = L - p
    BY <1>1, <1>2, <1>3
  <2> HIDE DEF L, joined
  <2>3. /\ joined \in Seq(S) /\ Len(joined) = L - 1
        /\ \A j \in 1 .. (L - 1) : joined[j] = IF j <= p - 1 THEN front[j] ELSE back[j - (p - 1)]
    <3>1. Len(front) + Len(back) = L - 1
      BY <2>2
    <3> QED
      BY <2>1, <2>2, <3>1 DEF joined
  <2>4. ASSUME NEW j \in 1 .. (p - 1) PROVE joined[j] = front[j]
    <3>1. j \in 1 .. (L - 1) /\ j <= p - 1
      BY <2>2
    <3> QED
      BY <2>3, <3>1
  <2>5. ASSUME NEW j \in p .. (L - 1) PROVE joined[j] = back[j - (p - 1)]
    <3>1. j \in 1 .. (L - 1) /\ ~(j <= p - 1)
      BY <2>2
    <3> QED
      BY <2>3, <3>1
  <2> QED
    BY <2>3, <2>4, <2>5 DEF L, joined
<1>5. \A j \in p .. (Len(list) - 1) : back[j - (p - 1)] = list[j + 1]
  BY <1>1, <1>3
<1>6. RemoveAt(list, p) = front \o back
  BY DEF RemoveAt, front, back
<1> QED
  BY <1>1, <1>2, <1>4, <1>5, <1>6

(* Erasing from the probationary list loses no other server, and leaves    *)
(* the iterator at a position of the list or at its end.                   *)
LEMMA Erased ==
  ASSUME prob \in Seq(ProbRecord), probIt \in 0 .. Len(prob), NEW s, EraseProb(s)
  PROVE  /\ prob' \in Seq(ProbRecord)
         /\ probIt' \in 0 .. Len(prob')
         /\ \A i \in 1 .. Len(prob) : prob[i].addr # s =>
              \E j \in 1 .. Len(prob') : prob'[j] = prob[i]
<1>1. CASE UnderProbIt(s)
  <2>1. probIt # 0 /\ prob[probIt].addr = s /\ prob' = RemoveAt(prob, probIt) /\ probIt' = probIt - 1
    BY <1>1 DEF EraseProb, UnderProbIt
  <2>2. /\ probIt \in 1 .. Len(prob) /\ Len(prob) \in Nat
        /\ prob' \in Seq(ProbRecord) /\ Len(prob') = Len(prob) - 1
        /\ \A j \in 1 .. (probIt - 1) : prob'[j] = prob[j]
        /\ \A j \in probIt .. (Len(prob) - 1) : prob'[j] = prob[j + 1]
    BY <2>1, Removed
  <2>3. ASSUME NEW i \in 1 .. Len(prob), prob[i].addr # s
        PROVE  \E j \in 1 .. Len(prob') : prob'[j] = prob[i]
    <3>1. CASE i < probIt
      <4>1. i \in 1 .. Len(prob') /\ prob'[i] = prob[i]
        BY <2>1, <2>2, <3>1
      <4> QED
        BY <4>1
    <3>2. CASE i > probIt
      <4>1. i - 1 \in 1 .. Len(prob') /\ prob'[i - 1] = prob[i]
        BY <2>1, <2>2, <3>2
      <4> QED
        BY <4>1
    <3> QED
      BY <2>1, <2>3, <3>1, <3>2
  <2> QED
    BY <2>1, <2>2, <2>3
<1>2. CASE ~UnderProbIt(s)
  <2>1. prob' = Without(prob, s) /\ probIt' = Len(KeptUpTo(prob, s)[probIt])
    BY <1>2 DEF EraseProb
  <2> QED
    BY <2>1, Kept
<1> QED
  BY <1>1, <1>2
-----------------------------------------------------------------------------
(* Types, and the reference that the client holds: the two need each       *)
(* other, since what a step does to the record under the reference is only *)
(* right where there is one.                                               *)
SafeInv == TypeOK /\ HeldIsListed

LEMMA HeldRecord ==
  ASSUME SafeInv, held # "none"
  PROVE  /\ Current \in Server
         /\ \/ /\ held = "active" /\ Current = activeIt
               /\ activeIt \in DOMAIN active /\ active[activeIt] \in ActiveRecord
            \/ /\ held = "prob" /\ Current = prob[probIt].addr
               /\ probIt \in 1 .. Len(prob) /\ prob[probIt] \in ProbRecord
<1>1. CASE held = "active"
  BY <1>1 DEF SafeInv, TypeOK, HeldIsListed, HeldActiveIsListed, Current
<1>2. CASE held = "prob"
  <2>1. probIt \in 1 .. Len(prob) /\ prob[probIt] \in ProbRecord
    <3>1. prob \in Seq(ProbRecord) /\ probIt \in 1 .. Len(prob)
      BY <1>2 DEF SafeInv, TypeOK, HeldIsListed, HeldProbIsListed
    <3> QED
      BY <3>1
  <2> QED
    BY <1>2, <2>1 DEF Current, ProbRecord
<1> QED
  BY <1>1, <1>2 DEF SafeInv, TypeOK

LEMMA SafeInit == Init => SafeInv
<1> SUFFICES ASSUME Init PROVE SafeInv
  OBVIOUS
<1>1. DOMAIN active = Seeds /\ active \in [Seeds -> ActiveRecord]
  BY LimitsAssumption DEF Init, ActiveRecord
<1>2. prob \in Seq(ProbRecord) /\ probIt \in 0 .. Len(prob)
  BY DEF Init
<1> QED
  BY <1>1, <1>2, SeedsAssumption
     DEF Init, SafeInv, TypeOK, HeldIsListed, HeldActiveIsListed, HeldProbIsListed

LEMMA SafeGetNext == ASSUME SafeInv, GetNextServer PROVE SafeInv'
<1>1. activeIt' \in DOMAIN active \cup {End} /\ DOMAIN active \subseteq Server
  BY DEF GetNextServer, NextActive, Firsts, SafeInv, TypeOK
<1>2. probIt' \in 0 .. Len(prob)
  BY DEF GetNextServer, NextProb, SafeInv, TypeOK
<1>3. UNCHANGED <<active, prob, count, banned, fault>> /\ phase' = "chosen"
  BY DEF GetNextServer
<1>4. \/ held' = "active" /\ prevProb' = FALSE /\ activeIt' # End
      \/ held' = "prob" /\ prevProb' = TRUE /\ probIt' # 0
  BY DEF GetNextServer, TakeActive, TakeProb
<1>5. TypeOK'
  BY <1>1, <1>2, <1>3, <1>4 DEF SafeInv, TypeOK
<1>6. held' = "prob" => probIt' \in 1 .. Len(prob')
  <2>1. prob \in Seq(ProbRecord) /\ prob' = prob
    BY <1>3 DEF SafeInv, TypeOK
  <2> QED
    BY <1>2, <1>4, <2>1
<1> QED
  BY <1>1, <1>3, <1>4, <1>5, <1>6
     DEF SafeInv, HeldIsListed, HeldActiveIsListed, HeldProbIsListed

(* A report lets the reference go.                                         *)
LEMMA Dropped ==
  ASSUME Drop, TypeOK' PROVE SafeInv'
BY DEF Drop, SafeInv, HeldIsListed, HeldActiveIsListed, HeldProbIsListed

LEMMA BannedType ==
  ASSUME SafeInv, NEW s \in Server
  PROVE  /\ Banned!Added(s) \in [Server -> {"absent", "live", "stale"}]
         /\ Banned!Added(s)[s] # "absent"
BY DEF SafeInv, TypeOK, Banned!Added

LEMMA ChangedRecord ==
  ASSUME SafeInv, NEW s \in DOMAIN active, NEW r \in ActiveRecord,
         active' = [active EXCEPT ![s] = r]
  PROVE  DOMAIN active' = DOMAIN active /\ active' \in [DOMAIN active -> ActiveRecord]
BY DEF SafeInv, TypeOK

(* A failure counted in the active list.                                   *)
LEMMA FailureInActive ==
  ASSUME SafeInv, activeIt \in DOMAIN active,
         active' = [active EXCEPT ![activeIt].fails = IF @ < MaxTimeouts THEN @ + 1 ELSE @]
  PROVE  DOMAIN active' = DOMAIN active /\ active' \in [DOMAIN active -> ActiveRecord]
<1> DEFINE r == active[activeIt]
           fails == IF r.fails < MaxTimeouts THEN r.fails + 1 ELSE r.fails
<1>1. r \in ActiveRecord
  BY DEF SafeInv, TypeOK
<1>2. fails \in 0 .. MaxTimeouts
  BY <1>1, LimitsAssumption DEF ActiveRecord
<1>3. active' = [active EXCEPT ![activeIt] = [r EXCEPT !.fails = fails]]
  OBVIOUS
<1> HIDE DEF fails, r
<1>4. [r EXCEPT !.fails = fails] \in ActiveRecord
  BY <1>1, <1>2 DEF ActiveRecord
<1> QED
  BY <1>3, <1>4, ChangedRecord

LEMMA CountFailureType ==
  ASSUME SafeInv, held # "none", ~TooManyFails, CountFailure
  PROVE  /\ DOMAIN active' = DOMAIN active /\ active' \in [DOMAIN active -> ActiveRecord]
         /\ prob' \in Seq(ProbRecord) /\ Len(prob') = Len(prob)
         /\ \A i \in 1 .. Len(prob) : prob'[i].addr = prob[i].addr
<1>1. CASE held = "active"
  <2>1. activeIt \in DOMAIN active /\ prob' = prob
    BY <1>1, HeldRecord DEF CountFailure
  <2> QED
    BY <1>1, <2>1, FailureInActive DEF CountFailure, SafeInv, TypeOK
<1>2. CASE held # "active"
  <2> DEFINE r == prob[probIt]
             s == [r EXCEPT !.fails = r.fails + 1]
  <2>1. /\ probIt \in 1 .. Len(prob) /\ r \in ProbRecord /\ held = "prob"
        /\ prob \in Seq(ProbRecord)
    BY <1>2, HeldRecord DEF SafeInv, TypeOK
  <2>2. r.fails \in 0 .. MaxTimeouts /\ r.fails + 1 <= MaxTimeouts
    BY <2>1, LimitsAssumption DEF ProbRecord, TooManyFails, Fails
  <2>3. active' = active /\ prob' = [prob EXCEPT ![probIt] = s]
    BY <1>2 DEF CountFailure
  <2> HIDE DEF r
  <2>4. s \in ProbRecord /\ s.addr = r.addr
    BY <2>1, <2>2 DEF ProbRecord
  <2> HIDE DEF s
  <2>5. /\ prob' \in Seq(ProbRecord) /\ Len(prob') = Len(prob)
        /\ \A i \in 1 .. Len(prob) : prob'[i] = IF i = probIt THEN s ELSE prob[i]
    BY <2>1, <2>3, <2>4
  <2> QED
    BY <2>3, <2>4, <2>5 DEF r, SafeInv, TypeOK
<1> QED
  BY <1>1, <1>2

LEMMA SafeFail == ASSUME SafeInv, IncrementServerFailCount PROVE SafeInv'
<1>1. /\ held # "none" /\ Drop /\ phase = "chosen" /\ UNCHANGED <<prevProb, fault>>
      /\ Current \in Server
  <2>1. held # "none"
    BY DEF IncrementServerFailCount, SafeInv, HeldIsListed
  <2> QED
    BY <2>1, HeldRecord DEF IncrementServerFailCount
<1>2. CASE ~TooManyFails
  <2>1. CountFailure /\ UNCHANGED <<activeIt, probIt, count, banned>>
    BY <1>2 DEF IncrementServerFailCount
  <2>2. TypeOK'
    BY <1>1, <1>2, <2>1, CountFailureType DEF Drop, SafeInv, TypeOK
  <2> QED
    BY <1>1, <2>2, Dropped
<1>3. CASE TooManyFails /\ Flagged
  <2>1. /\ EraseProb(Current) /\ UNCHANGED activeIt /\ banned' = Banned!Added(Current)
        /\ Uncount(Current) \/ count' = count
    BY <1>3 DEF IncrementServerFailCount
  <2>2. prob' \in Seq(ProbRecord) /\ probIt' \in 0 .. Len(prob')
    BY <2>1, Erased DEF SafeInv, TypeOK
  <2>3. DOMAIN active' = DOMAIN active /\ active' \in [DOMAIN active -> ActiveRecord]
    <3>1. CASE held = "prob"
      BY <1>3, <3>1 DEF IncrementServerFailCount, SafeInv, TypeOK
    <3>2. CASE held # "prob"
      BY <1>1, <1>3, <3>2, HeldRecord, FailureInActive DEF IncrementServerFailCount
    <3> QED
      BY <3>1, <3>2
  <2>4. count' \in [BOOLEAN -> Int]
    BY <2>1, UncountLowers DEF SafeInv, TypeOK
  <2>5. banned' \in [Server -> {"absent", "live", "stale"}]
    BY <1>1, <2>1, BannedType
  <2>6. TypeOK'
    BY <1>1, <2>1, <2>2, <2>3, <2>4, <2>5 DEF Drop, SafeInv, TypeOK
  <2> QED
    BY <1>1, <2>6, Dropped
<1>4. CASE TooManyFails /\ ~Flagged
  <2>1. /\ banned' = Banned!Added(Current) /\ Uncount(Current)
        /\ active' = [s \in DOMAIN active \ {Current} |-> active[s]]
        /\ activeIt' \in PrevActive /\ UNCHANGED <<prob, probIt>>
    BY <1>4 DEF IncrementServerFailCount
  <2>2. activeIt' \in Server \cup {End, Dangling}
    BY <2>1 DEF PrevActive, Lasts, SafeInv, TypeOK
  <2>3. count' \in [BOOLEAN -> Int]
    BY <2>1, UncountLowers DEF SafeInv, TypeOK
  <2>4. banned' \in [Server -> {"absent", "live", "stale"}]
    BY <1>1, <2>1, BannedType
  <2>5. /\ DOMAIN active' \subseteq DOMAIN active
        /\ active' \in [DOMAIN active' -> ActiveRecord]
    BY <2>1 DEF SafeInv, TypeOK
  <2>6. TypeOK'
    BY <1>1, <2>1, <2>2, <2>3, <2>4, <2>5 DEF Drop, SafeInv, TypeOK
  <2> QED
    BY <1>1, <2>6, Dropped
<1> QED
  BY <1>2, <1>3, <1>4

LEMMA SafeMark == ASSUME SafeInv, MarkServerSuccessful PROVE SafeInv'
<1>1. /\ held # "none" /\ Drop /\ Current \in Server
      /\ UNCHANGED <<activeIt, prevProb, banned, fault>>
  <2>1. held # "none"
    BY DEF MarkServerSuccessful, SafeInv, HeldIsListed
  <2> QED
    BY <2>1, HeldRecord DEF MarkServerSuccessful
<1> DEFINE good == [fails |-> 0, probationary |-> FALSE]
<1>2. good \in ActiveRecord
  BY LimitsAssumption DEF ActiveRecord
<1> HIDE DEF good
<1>3. CASE ~Flagged
  <2>1. activeIt \in DOMAIN active /\ active[activeIt] \in ActiveRecord
    BY <1>1, <1>3, HeldRecord DEF Flagged
  <2>2. [active[activeIt] EXCEPT !.fails = 0] \in ActiveRecord
    BY <2>1, LimitsAssumption DEF ActiveRecord
  <2>3. /\ active' = [active EXCEPT ![activeIt] = [active[activeIt] EXCEPT !.fails = 0]]
        /\ UNCHANGED <<prob, probIt, count>>
    BY <1>3 DEF MarkServerSuccessful
  <2>4. DOMAIN active' = DOMAIN active /\ active' \in [DOMAIN active -> ActiveRecord]
    BY <2>1, <2>2, <2>3, ChangedRecord
  <2>5. TypeOK'
    BY <1>1, <2>3, <2>4 DEF Drop, SafeInv, TypeOK
  <2> QED
    BY <1>1, <2>5, Dropped
<1>4. CASE Flagged /\ \E t \in DOMAIN active : SameHost(Current, t)
  <2>1. EraseProb(Current) /\ UNCHANGED count
    BY <1>4 DEF MarkServerSuccessful
  <2>2. prob' \in Seq(ProbRecord) /\ probIt' \in 0 .. Len(prob')
    BY <2>1, Erased DEF SafeInv, TypeOK
  <2>3. DOMAIN active' = DOMAIN active /\ active' \in [DOMAIN active -> ActiveRecord]
    <3>1. CASE held = "prob"
      BY <1>4, <3>1 DEF MarkServerSuccessful, SafeInv, TypeOK
    <3>2. CASE held # "prob"
      <4>1. activeIt \in DOMAIN active /\ active' = [active EXCEPT ![activeIt] = good]
        BY <1>1, <1>4, <3>2, HeldRecord DEF MarkServerSuccessful, good
      <4> QED
        BY <1>2, <4>1, ChangedRecord
    <3> QED
      BY <3>1, <3>2
  <2>4. TypeOK'
    BY <1>1, <2>1, <2>2, <2>3 DEF Drop, SafeInv, TypeOK
  <2> QED
    BY <1>1, <2>4, Dropped
<1>5. CASE Flagged /\ \A t \in DOMAIN active : ~SameHost(Current, t)
  <2>1. /\ EraseProb(Current) /\ count' = [count EXCEPT ![Current.v6] = @ + 1]
        /\ active' = [s \in DOMAIN active \cup {Current} |->
                        IF s = Current THEN good ELSE active[s]]
    BY <1>5 DEF MarkServerSuccessful, good
  <2>2. prob' \in Seq(ProbRecord) /\ probIt' \in 0 .. Len(prob')
    BY <2>1, Erased DEF SafeInv, TypeOK
  <2>3. /\ DOMAIN active' = DOMAIN active \cup {Current}
        /\ active' \in [DOMAIN active' -> ActiveRecord]
    BY <1>2, <2>1 DEF SafeInv, TypeOK
  <2>4. \A s, t \in DOMAIN active' : SameHost(s, t) => s = t
    BY <1>5, <2>3 DEF SafeInv, TypeOK, SameHost
  <2>5. count' \in [BOOLEAN -> Int]
    <3>1. count \in [BOOLEAN -> Int]
      BY DEF SafeInv, TypeOK
    <3>2. count' = [f \in BOOLEAN |-> IF f = Current.v6 THEN count[f] + 1 ELSE count[f]]
      BY <2>1, <3>1
    <3>3. \A f \in BOOLEAN : (IF f = Current.v6 THEN count[f] + 1 ELSE count[f]) \in Int
      BY <3>1
    <3> QED
      BY <3>2, <3>3
  <2>6. TypeOK'
    BY <1>1, <2>2, <2>3, <2>4, <2>5 DEF Drop, SafeInv, TypeOK
  <2> QED
    BY <1>1, <2>6, Dropped
<1> QED
  BY <1>3, <1>4, <1>5

LEMMA SafeAdd == ASSUME SafeInv, NEW s \in Server, AddServer(s) PROVE SafeInv'
<1>1. /\ prob' = Append(prob, [addr |-> s, fails |-> 0])
      /\ UNCHANGED <<active, activeIt, probIt, prevProb, count, banned, phase, held, fault>>
  BY DEF AddServer
<1>2. [addr |-> s, fails |-> 0] \in ProbRecord
  BY LimitsAssumption DEF ProbRecord
<1>3. prob \in Seq(ProbRecord) /\ probIt \in 0 .. Len(prob)
  BY DEF SafeInv, TypeOK
<1>4. prob' \in Seq(ProbRecord) /\ Len(prob') = Len(prob) + 1
  BY <1>1, <1>2, <1>3
<1>5. probIt' \in 0 .. Len(prob')
  BY <1>1, <1>3, <1>4
<1>6. TypeOK'
  BY <1>1, <1>4, <1>5 DEF SafeInv, TypeOK
<1>7. held' = "prob" => probIt' \in 1 .. Len(prob')
  <2>1. held = "prob" => probIt \in 1 .. Len(prob)
    BY DEF SafeInv, HeldIsListed, HeldProbIsListed
  <2> QED
    BY <1>1, <1>3, <1>4, <2>1
<1> QED
  BY <1>1, <1>6, <1>7 DEF SafeInv, HeldIsListed, HeldActiveIsListed, HeldProbIsListed

(* Steps that leave the lists and the reference alone.                     *)
LEMMA SafeQuiet ==
  ASSUME SafeInv, UNCHANGED lists, TypeOK',
         \/ UNCHANGED <<phase, held>>
         \/ phase = "chosen" /\ phase' = "parsing" /\ held' = held
  PROVE  SafeInv'
BY DEF SafeInv, lists, HeldIsListed, HeldActiveIsListed, HeldProbIsListed

LEMMA SafeRecount ==
  ASSUME SafeInv, NEW f \in BOOLEAN, NumActive(f) \in Int, ActiveServerCount(f)
  PROVE  SafeInv'
<1>1. count' \in [BOOLEAN -> Int]
  BY DEF ActiveServerCount, SafeInv, TypeOK
<1>2. TypeOK'
  BY <1>1 DEF ActiveServerCount, lists, SafeInv, TypeOK
<1> QED
  BY <1>2, SafeQuiet DEF ActiveServerCount

LEMMA SafeBan ==
  ASSUME SafeInv, NEW s \in Server, BanChanges(s)
  PROVE  SafeInv'
<1>1. banned' \in [Server -> {"absent", "live", "stale"}]
  BY DEF BanChanges, Banned!Expire, Banned!Evict, SafeInv, TypeOK
<1>2. TypeOK'
  BY <1>1 DEF BanChanges, lists, SafeInv, TypeOK
<1> QED
  BY <1>2, SafeQuiet DEF BanChanges

LEMMA SafeRest ==
  ASSUME SafeInv, GetNextServerFaults \/ ParseResponse \/ UNCHANGED vars
  PROVE  SafeInv'
<1>1. TypeOK'
  BY DEF GetNextServerFaults, ParseResponse, vars, lists, SafeInv, TypeOK
<1> QED
  BY <1>1, SafeQuiet DEF GetNextServerFaults, ParseResponse, vars

LEMMA SafeContinue == ASSUME SafeInv, Continue PROVE SafeInv'
<1>1. TypeOK'
  BY DEF Continue, Drop, lists, SafeInv, TypeOK
<1> QED
  BY <1>1, Dropped DEF Continue

(* Any step but the recount of the server thread, which needs the list to  *)
(* be finite.                                                              *)
LEMMA SafeClient ==
  ASSUME SafeInv, ClientNext \/ \E s \in Server : BanChanges(s)
  PROVE  SafeInv'
BY SafeGetNext, SafeFail, SafeMark, SafeAdd, SafeBan, SafeRest, SafeContinue DEF ClientNext

LEMMA SafeStep == ASSUME SafeInv, CountInv, [Next]_vars PROVE SafeInv'
<1>1. ASSUME NEW f \in BOOLEAN, ActiveServerCount(f) PROVE SafeInv'
  <2>1. IsFiniteSet({s \in DOMAIN active : s.v6 = f})
    BY FS_Subset DEF CountInv
  <2>2. NumActive(f) \in Int
    BY <2>1, FS_CardinalityType DEF NumActive
  <2> QED
    BY <1>1, <2>2, SafeRecount
<1> QED
  BY <1>1, SafeClient, SafeRest DEF Next

LEMMA SafeInvariant == Spec => []SafeInv
<1>1. SafeInv /\ CountInv /\ [Next]_vars => (SafeInv /\ CountInv)'
  BY SafeStep, CountStep
<1> QED
  BY <1>1, SafeInit, CountInit, PTL DEF Spec

(* Every variable has its type, and the active list one server of a host.  *)
THEOREM TypeCorrect == Spec => []TypeOK
<1>1. SafeInv => TypeOK
  BY DEF SafeInv
<1> QED
  BY <1>1, SafeInvariant, PTL

(* What the client's reference points to stays in its list until the       *)
(* outcome is reported, whichever the list is.                             *)
THEOREM HeldStaysListed == Spec => []HeldIsListed
<1>1. SafeInv => HeldIsListed
  BY DEF SafeInv
<1> QED
  BY <1>1, SafeInvariant, PTL
-----------------------------------------------------------------------------
(* A step after which a host is listed no more.                            *)
LEMMA HostLost ==
  ASSUME SafeInv, NEW s \in Server, HostListed(s), ~HostListed(s)',
         ClientNext \/ (\E t \in Server : BanChanges(t)) \/ UNCHANGED <<active, prob>>
  PROVE  /\ phase = "chosen" /\ TooManyFails
         /\ SameHost(s, Current)
         /\ banned'[Current] # "absent"
<1>0. prob \in Seq(ProbRecord) /\ probIt \in 0 .. Len(prob)
  BY DEF SafeInv, TypeOK
<1>1. CASE IncrementServerFailCount
  <2>1. /\ held # "none" /\ phase = "chosen"
    BY <1>1 DEF IncrementServerFailCount, SafeInv, HeldIsListed
  <2>2. Current \in Server
    BY <2>1, HeldRecord
  <2>3. CASE ~TooManyFails
    <3>1. CountFailure
      BY <1>1, <2>3 DEF IncrementServerFailCount
    <3>2. HostListed(s)'
      BY <2>1, <2>3, <3>1, CountFailureType DEF HostListed
    <3> QED
      BY <3>2
  <2>4. CASE TooManyFails
    <3>1. banned'[Current] # "absent"
      BY <1>1, <2>2, <2>4, BannedType DEF IncrementServerFailCount
    <3>2. SameHost(s, Current)
      <4>1. CASE Flagged
        <5>1. EraseProb(Current) /\ DOMAIN active' = DOMAIN active
          BY <1>1, <2>4, <4>1 DEF IncrementServerFailCount
        <5> QED
          BY <1>0, <5>1, Erased DEF HostListed
      <4>2. CASE ~Flagged
        <5>1. DOMAIN active' = DOMAIN active \ {Current} /\ prob' = prob
          BY <1>1, <2>4, <4>2 DEF IncrementServerFailCount
        <5> QED
          BY <5>1 DEF HostListed
      <4> QED
        BY <4>1, <4>2
    <3> QED
      BY <2>1, <2>4, <3>1, <3>2
  <2> QED
    BY <2>3, <2>4
<1>2. CASE MarkServerSuccessful
  <2>1. DOMAIN active \subseteq DOMAIN active'
    BY <1>2 DEF MarkServerSuccessful
  <2>2. PICK i \in 1 .. Len(prob) : /\ SameHost(s, prob[i].addr)
                                    /\ \A j \in 1 .. Len(prob') : prob'[j] # prob[i]
    BY <2>1 DEF HostListed
  <2>3. EraseProb(Current) /\ \E t \in DOMAIN active' : SameHost(Current, t)
    <3>1. prob' # prob
      BY <2>2
    <3> QED
      BY <1>2, <3>1 DEF MarkServerSuccessful, SameHost
  <2>4. prob[i].addr = Current
    BY <1>0, <2>2, <2>3, Erased
  <2>5. HostListed(s)'
    BY <2>2, <2>3, <2>4 DEF HostListed, SameHost
  <2> QED
    BY <2>5
<1>3. CASE \E a \in Server : AddServer(a)
  <2>1. PICK a \in Server : AddServer(a)
    BY <1>3
  <2>2. active' = active /\ prob' = Append(prob, [addr |-> a, fails |-> 0])
    BY <2>1 DEF AddServer
  <2>3. \A i \in 1 .. Len(prob) : i \in 1 .. Len(prob') /\ prob'[i] = prob[i]
    BY <1>0, <2>2
  <2> QED
    BY <2>2, <2>3 DEF HostListed
<1>4. CASE UNCHANGED <<active, prob>>
  BY <1>4 DEF HostListed
<1> QED
  BY <1>1, <1>2, <1>3, <1>4
     DEF ClientNext, GetNextServer, GetNextServerFaults, Continue, ParseResponse,
         BanChanges, lists

(* No host is lost but by a failure at the limit.                          *)
THEOREM NoHostIsLost == Spec => HostsAreNotLost
<1> DEFINE Kept1 ==
      \A s \in Server :
        HostListed(s) /\ ~HostListed(s)' =>
          /\ phase = "chosen" /\ TooManyFails
          /\ SameHost(s, Current)
          /\ banned'[Current] # "absent"
<1>1. SafeInv /\ [Next]_vars => [Kept1]_vars
  <2>1. [Next]_vars => \/ ClientNext \/ \E t \in Server : BanChanges(t)
                       \/ UNCHANGED <<active, prob>>
    BY DEF Next, ActiveServerCount, vars, lists
  <2> QED
    BY <2>1, HostLost
<1>2. HostsAreNotLost <=> [][Kept1]_vars
  BY DEF HostsAreNotLost
<1> QED
  BY <1>1, <1>2, SafeInvariant, PTL DEF Spec
-----------------------------------------------------------------------------
(* The life of a server.  What remove leaves was in the list before.       *)
LEMMA KeptFrom ==
  ASSUME NEW list \in Seq(ProbRecord), NEW s
  PROVE  \A j \in 1 .. Len(Without(list, s)) :
           \E i \in 1 .. Len(list) : Without(list, s)[j] = list[i]
<1> DEFINE N == Len(list)
           kept == KeptUpTo(list, s)
           From(m) == \A j \in 1 .. Len(kept[m]) : \E i \in 1 .. m : kept[m][j] = list[i]
           S == {m \in Nat : m <= N => kept[m] \in Seq(ProbRecord) /\ From(m)}
<1>1. N \in Nat /\ \A n \in 1 .. N : list[n] \in ProbRecord
  OBVIOUS
<1>2. /\ kept[0] = <<>>
      /\ \A n \in 1 .. N : kept[n] = IF list[n].addr = s THEN kept[n - 1]
                                     ELSE Append(kept[n - 1], list[n])
  BY KeptDefined, <1>1
<1> HIDE DEF kept, N
<1>3. 0 \in S
  <2>1. kept[0] \in Seq(ProbRecord) /\ Len(kept[0]) = 0
    BY <1>2
  <2> QED
    BY <2>1
<1>4. ASSUME NEW m \in Nat, m \in S, m + 1 <= N
      PROVE  kept[m + 1] \in Seq(ProbRecord) /\ From(m + 1)
  <2>1. kept[m] \in Seq(ProbRecord) /\ From(m)
    BY <1>1, <1>4
  <2>2. /\ kept[m + 1] = IF list[m + 1].addr = s THEN kept[m] ELSE Append(kept[m], list[m + 1])
        /\ list[m + 1] \in ProbRecord
    BY <1>1, <1>2, <1>4
  <2>3. CASE list[m + 1].addr = s
    BY <2>1, <2>2, <2>3
  <2>4. CASE list[m + 1].addr # s
    <3>1. /\ kept[m + 1] \in Seq(ProbRecord) /\ Len(kept[m + 1]) = Len(kept[m]) + 1
          /\ kept[m + 1][Len(kept[m]) + 1] = list[m + 1]
          /\ \A j \in 1 .. Len(kept[m]) : kept[m + 1][j] = kept[m][j]
      BY <2>1, <2>2, <2>4
    <3>2. ASSUME NEW j \in 1 .. Len(kept[m + 1])
          PROVE  \E i \in 1 .. (m + 1) : kept[m + 1][j] = list[i]
      <4>1. CASE j = Len(kept[m]) + 1
        BY <3>1, <4>1
      <4>2. CASE j # Len(kept[m]) + 1
        <5>1. j \in 1 .. Len(kept[m])
          BY <2>1, <3>1, <4>2
        <5> QED
          BY <2>1, <3>1, <5>1
      <4> QED
        BY <4>1, <4>2
    <3> QED
      BY <3>1, <3>2
  <2> QED
    BY <2>3, <2>4
<1>5. \A m \in Nat : m \in S => m + 1 \in S
  <2> HIDE DEF From
  <2> QED
    BY <1>4
<1>6. N \in S
  <2> HIDE DEF S
  <2> QED
    BY <1>1, <1>3, <1>5, Induction
<1>7. From(N)
  BY <1>1, <1>6
<1>8. Without(list, s) = kept[N]
  BY DEF Without, kept, N
<1> QED
  BY <1>7, <1>8 DEF N

(* Erasing a server leaves the set of the others as it was, and of that    *)
(* server perhaps another listing.                                         *)
LEMMA ErasedSet ==
  ASSUME prob \in Seq(ProbRecord), probIt \in 0 .. Len(prob), NEW s, EraseProb(s)
  PROVE  OnProbation' \in {OnProbation, OnProbation \ {s}}
<1>1. ASSUME NEW j \in 1 .. Len(prob')
      PROVE  \E i \in 1 .. Len(prob) : prob'[j] = prob[i]
  <2>1. CASE UnderProbIt(s)
    <3>1. probIt # 0 /\ prob' = RemoveAt(prob, probIt)
      BY <2>1 DEF EraseProb, UnderProbIt
    <3>2. /\ probIt \in 1 .. Len(prob) /\ Len(prob) \in Nat /\ Len(prob') = Len(prob) - 1
          /\ \A k \in 1 .. (probIt - 1) : prob'[k] = prob[k]
          /\ \A k \in probIt .. (Len(prob) - 1) : prob'[k] = prob[k + 1]
      BY <3>1, Removed
    <3>3. CASE j < probIt
      <4>1. j \in 1 .. Len(prob) /\ prob'[j] = prob[j]
        BY <3>2, <3>3
      <4> QED
        BY <4>1
    <3>4. CASE j >= probIt
      <4>1. j + 1 \in 1 .. Len(prob) /\ prob'[j] = prob[j + 1]
        BY <3>2, <3>4
      <4> QED
        BY <4>1
    <3> QED
      BY <3>2, <3>3, <3>4
  <2>2. CASE ~UnderProbIt(s)
    <3>1. prob' = Without(prob, s)
      BY <2>2 DEF EraseProb
    <3> QED
      BY <3>1, KeptFrom
  <2> QED
    BY <2>1, <2>2
<1>2. OnProbation' \subseteq OnProbation
  BY <1>1 DEF OnProbation
<1>3. OnProbation \ {s} \subseteq OnProbation'
  BY Erased DEF OnProbation
<1> QED
  BY <1>2, <1>3

(* A server that never answered since it was active at the start is not    *)
(* listed a second time: its host is active.                               *)
UnprovenInv == \A s \in Unproven, t \in OnProbation : ~SameHost(s, t)

LifeInv == SafeInv /\ UnprovenInv

LEMMA NotTwice == ASSUME LifeInv, NEW s \in Unproven PROVE s \notin OnProbation
<1>1. SameHost(s, s)
  BY DEF SameHost
<1> QED
  BY <1>1 DEF LifeInv, UnprovenInv

LEMMA UnprovenInit == Init => UnprovenInv
BY DEF Init, UnprovenInv, OnProbation

(* What the steps do to the lists as ServerLife sees them.                 *)
LEMMA Known ==
  ASSUME SafeInv, held # "none"
  PROVE  /\ Current \in Server
         /\ held = "prob" => Current \in OnProbation /\ Flagged
         /\ held # "prob" => /\ held = "active" /\ Current = activeIt
                             /\ Current \in DOMAIN active
                             /\ Flagged <=> Current \in Unproven
BY HeldRecord DEF OnProbation, Unproven, Flagged, Current

LEMMA RecordsKept ==
  ASSUME DOMAIN active' = DOMAIN active,
         \A s \in DOMAIN active : active'[s].probationary = active[s].probationary
  PROVE  Unproven' = Unproven
BY DEF Unproven

(* A failure of an active server that is counted keeps its flag.           *)
LEMMA CountedInActive ==
  ASSUME SafeInv, activeIt \in DOMAIN active,
         active' = [active EXCEPT ![activeIt].fails = IF @ < MaxTimeouts THEN @ + 1 ELSE @]
  PROVE  DOMAIN active' = DOMAIN active /\ Unproven' = Unproven
<1> DEFINE r == active[activeIt]
           fails == IF r.fails < MaxTimeouts THEN r.fails + 1 ELSE r.fails
<1>1. r \in ActiveRecord
  BY DEF SafeInv, TypeOK
<1>2. active' = [active EXCEPT ![activeIt] = [r EXCEPT !.fails = fails]]
  OBVIOUS
<1> HIDE DEF fails, r
<1>3. [r EXCEPT !.fails = fails].probationary = r.probationary
  BY <1>1 DEF ActiveRecord
<1>4. \A s \in DOMAIN active :
        active'[s] = IF s = activeIt THEN [r EXCEPT !.fails = fails] ELSE active[s]
  BY <1>2
<1>5. \A s \in DOMAIN active : active'[s].probationary = active[s].probationary
  BY <1>3, <1>4 DEF r
<1> QED
  BY <1>2, <1>5, RecordsKept

LEMMA CountedFailure ==
  ASSUME SafeInv, held # "none", ~TooManyFails, CountFailure
  PROVE  DOMAIN active' = DOMAIN active /\ Unproven' = Unproven /\ OnProbation' = OnProbation
<1>1. CASE held = "active"
  <2>1. activeIt \in DOMAIN active /\ prob' = prob
    BY <1>1, HeldRecord DEF CountFailure
  <2> QED
    BY <1>1, <2>1, CountedInActive DEF CountFailure, OnProbation
<1>2. CASE held # "active"
  <2>1. active' = active
    BY <1>2 DEF CountFailure
  <2> QED
    BY <2>1, CountFailureType DEF OnProbation, Unproven
<1> QED
  BY <1>1, <1>2

(* The bans, as sets, after a server was given up.                         *)
LEMMA BannedSets ==
  ASSUME SafeInv, NEW s \in Server, banned' = Banned!Added(s)
  PROVE  /\ BannedAs("live")' = IF s \in BannedAs("stale") THEN BannedAs("live")
                                ELSE BannedAs("live") \cup {s}
         /\ BannedAs("stale")' = BannedAs("stale")
<1>1. banned \in [Server -> {"absent", "live", "stale"}]
  BY DEF SafeInv, TypeOK
<1>2. \A t \in Server : banned'[t] = IF t = s /\ banned[s] = "absent" THEN "live" ELSE banned[t]
  BY <1>1 DEF Banned!Added
<1> QED
  BY <1>1, <1>2 DEF BannedAs

(* IncrementServerFailCount counts the failure, or gives the server up.    *)
LEMMA LifeFail ==
  ASSUME LifeInv, IncrementServerFailCount
  PROVE  \/ UNCHANGED Life!vars
         \/ Life!GiveUp(Current)
<1>1. SafeInv /\ held # "none" /\ prob \in Seq(ProbRecord) /\ probIt \in 0 .. Len(prob)
  BY DEF IncrementServerFailCount, LifeInv, SafeInv, HeldIsListed, TypeOK
<1>2. Current \in Server
  BY <1>1, Known
<1>3. CASE ~TooManyFails
  <2>1. CountFailure /\ UNCHANGED banned
    BY <1>3 DEF IncrementServerFailCount
  <2>2. BannedAs("live")' = BannedAs("live") /\ BannedAs("stale")' = BannedAs("stale")
    BY <2>1 DEF BannedAs
  <2> QED
    BY <1>1, <1>3, <2>1, <2>2, CountedFailure DEF Life!vars
<1>4. CASE TooManyFails
  <2>1. banned' = Banned!Added(Current)
    BY <1>4 DEF IncrementServerFailCount
  <2>2. /\ BannedAs("live")' = IF Current \in BannedAs("stale") THEN BannedAs("live")
                               ELSE BannedAs("live") \cup {Current}
        /\ BannedAs("stale")' = BannedAs("stale")
    BY <1>1, <1>2, <2>1, BannedSets
  <2>3. CASE held = "prob"
    <3>1. Current \in OnProbation /\ Flagged
      BY <1>1, <2>3, Known
    <3>2. EraseProb(Current) /\ active' = active
      BY <1>4, <2>3, <3>1 DEF IncrementServerFailCount
    <3>3. OnProbation' \in {OnProbation, OnProbation \ {Current}} /\ Unproven' = Unproven
      BY <1>1, <3>2, ErasedSet DEF Unproven
    <3> QED
      BY <2>2, <3>1, <3>2, <3>3 DEF Life!GiveUp, Life!OneLess
  <2>4. CASE held # "prob" /\ Flagged
    <3>1. /\ activeIt \in DOMAIN active /\ Current = activeIt
          /\ Current \in DOMAIN active /\ Current \in Unproven
      BY <1>1, <2>4, Known
    <3>2. EraseProb(Current)
      BY <1>4, <2>4 DEF IncrementServerFailCount
    <3>3. Current \notin OnProbation
      BY <3>1, NotTwice
    <3>4. OnProbation' = OnProbation
      <4>1. OnProbation' \in {OnProbation, OnProbation \ {Current}}
        BY <1>1, <3>2, ErasedSet
      <4>2. OnProbation \ {Current} = OnProbation
        BY <3>3
      <4> QED
        BY <4>1, <4>2
    <3>5. DOMAIN active' = DOMAIN active /\ Unproven' = Unproven
      BY <1>1, <1>4, <2>4, <3>1, CountedInActive DEF IncrementServerFailCount
    <3> QED
      BY <2>2, <3>1, <3>4, <3>5 DEF Life!GiveUp
  <2>5. CASE held # "prob" /\ ~Flagged
    <3>1. Current \in DOMAIN active /\ Current \notin Unproven
      BY <1>1, <2>5, Known
    <3>2. active' = [s \in DOMAIN active \ {Current} |-> active[s]] /\ prob' = prob
      BY <1>4, <2>5 DEF IncrementServerFailCount
    <3>3. DOMAIN active' = DOMAIN active \ {Current}
      BY <3>2
    <3>4. Unproven' = Unproven
      BY <3>1, <3>2 DEF Unproven
    <3>5. OnProbation' = OnProbation
      BY <3>2 DEF OnProbation
    <3> QED
      BY <2>2, <3>1, <3>3, <3>4, <3>5 DEF Life!GiveUp
  <2> QED
    BY <2>3, <2>4, <2>5
<1> QED
  BY <1>3, <1>4

(* MarkServerSuccessful proves the server, or promotes it.                 *)
LEMMA LifeMark ==
  ASSUME LifeInv, MarkServerSuccessful
  PROVE  \/ Life!Prove(Current, {})
         \/ Life!Promote(Current, {})
<1>1. SafeInv /\ held # "none" /\ prob \in Seq(ProbRecord) /\ probIt \in 0 .. Len(prob)
  BY DEF MarkServerSuccessful, LifeInv, SafeInv, HeldIsListed, TypeOK
<1>2. UNCHANGED banned
  BY DEF MarkServerSuccessful
<1>3. BannedAs("live")' = BannedAs("live") /\ BannedAs("stale")' = BannedAs("stale")
  BY <1>2 DEF BannedAs
<1>4. CASE held = "prob"
  <2>1. Current \in OnProbation /\ Flagged
    BY <1>1, <1>4, Known
  <2>2. EraseProb(Current)
    BY <2>1 DEF MarkServerSuccessful
  <2>3. OnProbation' \in {OnProbation, OnProbation \ {Current}}
    BY <1>1, <2>2, ErasedSet
  <2>4. CASE \E t \in DOMAIN active : SameHost(Current, t)
    <3>1. active' = active
      BY <1>4, <2>1, <2>4 DEF MarkServerSuccessful
    <3>2. Unproven' = Unproven
      BY <3>1 DEF Unproven
    <3> QED
      BY <1>3, <2>1, <2>3, <2>4, <3>1, <3>2 DEF Life!Promote, Life!OneLess, Life!HostIsActive
  <2>5. CASE \A t \in DOMAIN active : ~SameHost(Current, t)
    <3>1. active' = [s \in DOMAIN active \cup {Current} |->
                       IF s = Current THEN [fails |-> 0, probationary |-> FALSE] ELSE active[s]]
      BY <2>1, <2>5 DEF MarkServerSuccessful
    <3>2. DOMAIN active' = DOMAIN active \cup {Current} /\ Current \notin DOMAIN active
      BY <2>5, <3>1 DEF SameHost
    <3>3. Unproven' = Unproven
      BY <3>1, <3>2 DEF Unproven
    <3> QED
      BY <1>3, <2>1, <2>3, <2>5, <3>2, <3>3 DEF Life!Promote, Life!OneLess, Life!HostIsActive
  <2> QED
    BY <2>4, <2>5
<1>5. CASE held # "prob"
  <2>1. /\ held = "active" /\ Current = activeIt /\ Current \in DOMAIN active
        /\ Flagged <=> Current \in Unproven
        /\ active[Current] \in ActiveRecord
    BY <1>1, <1>5, Known, HeldRecord
  <2>2. CASE ~Flagged
    <3>1. active' = [active EXCEPT ![Current].fails = 0] /\ prob' = prob
      BY <2>1, <2>2 DEF MarkServerSuccessful
    <3>2. DOMAIN active' = DOMAIN active /\ OnProbation' = OnProbation
      BY <3>1 DEF OnProbation
    <3>3. [active[Current] EXCEPT !.fails = 0].probationary = active[Current].probationary
      BY <2>1 DEF ActiveRecord
    <3>4. \A s \in DOMAIN active :
            active'[s] = IF s = Current THEN [active[Current] EXCEPT !.fails = 0] ELSE active[s]
      BY <3>1
    <3>5. Unproven' = Unproven
      BY <3>2, <3>3, <3>4, RecordsKept
    <3>6. Unproven' = Unproven \ {Current}
      BY <2>1, <2>2, <3>5
    <3> QED
      BY <1>3, <2>1, <3>2, <3>6 DEF Life!Prove
  <2>3. CASE Flagged
    <3>1. \E t \in DOMAIN active : SameHost(Current, t)
      BY <2>1 DEF SameHost
    <3>2. /\ active' = [active EXCEPT ![Current] = [fails |-> 0, probationary |-> FALSE]]
          /\ EraseProb(Current)
      BY <2>1, <2>3, <3>1 DEF MarkServerSuccessful
    <3>3. Current \notin OnProbation
      BY <2>1, <2>3, NotTwice
    <3>4. OnProbation' = OnProbation
      <4>1. OnProbation' \in {OnProbation, OnProbation \ {Current}}
        BY <1>1, <3>2, ErasedSet
      <4>2. OnProbation \ {Current} = OnProbation
        BY <3>3
      <4> QED
        BY <4>1, <4>2
    <3>5. DOMAIN active' = DOMAIN active /\ Unproven' = Unproven \ {Current}
      BY <3>2 DEF Unproven
    <3> QED
      BY <1>3, <2>1, <3>4, <3>5 DEF Life!Prove
  <2> QED
    BY <2>2, <2>3
<1> QED
  BY <1>4, <1>5

(* AddServersFromMessage learns from the server that the client holds.     *)
LEMMA LifeAdd ==
  ASSUME SafeInv, NEW s \in Server, AddServer(s)
  PROVE  /\ Current \in Server
         /\ Life!Learn(Current, {s})
<1>1. held # "none" /\ prob \in Seq(ProbRecord)
  BY DEF AddServer, SafeInv, HeldIsListed, TypeOK
<1>2. Current \in Server /\ Current \in DOMAIN active \cup OnProbation
  BY <1>1, Known
<1>3. /\ prob' = Append(prob, [addr |-> s, fails |-> 0])
      /\ UNCHANGED <<active, banned>> /\ MayAdd(s)
  BY DEF AddServer
<1>4. OnProbation' = OnProbation \cup {s}
  <2>1. /\ Len(prob') = Len(prob) + 1 /\ Len(prob) \in Nat
        /\ \A i \in 1 .. Len(prob) : prob'[i] = prob[i]
        /\ prob'[Len(prob) + 1].addr = s
    BY <1>1, <1>3
  <2>2. \A i : i \in 1 .. Len(prob') <=> i \in 1 .. Len(prob) \/ i = Len(prob) + 1
    BY <2>1
  <2> QED
    BY <2>1, <2>2 DEF OnProbation
<1>5. s \in Life!Learnable
  BY <1>3 DEF MayAdd, Banned!Live, BannedAs, Life!Learnable, Life!HostIsActive
<1>6. Unproven' = Unproven /\ UNCHANGED <<BannedAs("live"), BannedAs("stale")>>
  BY <1>3 DEF Unproven, BannedAs
<1> QED
  BY <1>2, <1>3, <1>4, <1>5, <1>6 DEF Life!Learn

(* The cache ends bans and sweeps them away.                               *)
LEMMA LifeBan ==
  ASSUME SafeInv, NEW s \in Server, BanChanges(s)
  PROVE  Life!EndBan(s) \/ Life!ForgetBan(s)
<1>1. banned \in [Server -> {"absent", "live", "stale"}] /\ UNCHANGED <<active, prob>>
  BY DEF BanChanges, SafeInv, TypeOK, lists
<1>2. Unproven' = Unproven /\ OnProbation' = OnProbation /\ DOMAIN active' = DOMAIN active
  BY <1>1 DEF Unproven, OnProbation
<1>3. CASE Banned!Expire({s})
  BY <1>1, <1>2, <1>3 DEF Banned!Expire, Banned!Live, BannedAs, Life!EndBan
<1>4. CASE Banned!Evict({s})
  BY <1>1, <1>2, <1>4 DEF Banned!Evict, BannedAs, Life!ForgetBan
<1> QED
  BY <1>3, <1>4 DEF BanChanges

LEMMA LifeQuiet ==
  ASSUME UNCHANGED <<active, prob, banned>> PROVE UNCHANGED Life!vars
BY DEF Life!vars, Unproven, OnProbation, BannedAs

(* Whatever step of ServerLife it is, what is learned is of no active host.*)
LEMMA UnprovenStep ==
  ASSUME UnprovenInv,
         \/ UNCHANGED Life!vars
         \/ \E s \in Server :
              \/ \E learned \in SUBSET Server :
                   Life!Learn(s, learned) \/ Life!Prove(s, learned) \/ Life!Promote(s, learned)
              \/ Life!GiveUp(s) \/ Life!EndBan(s) \/ Life!ForgetBan(s)
  PROVE  UnprovenInv'
<1>1. /\ Unproven' \subseteq Unproven
      /\ OnProbation' \subseteq OnProbation \cup Life!Learnable
  BY DEF Life!vars, Life!Learn, Life!Prove, Life!Promote, Life!GiveUp, Life!EndBan,
         Life!ForgetBan, Life!OneLess
<1>2. ASSUME NEW s \in Unproven, NEW t \in Life!Learnable PROVE ~SameHost(s, t)
  BY DEF Unproven, Life!Learnable, Life!HostIsActive, SameHost
<1> QED
  BY <1>1, <1>2 DEF UnprovenInv

(* A step of the client, or the end of a ban, is a step of ServerLife.     *)
LEMMA LifeClient ==
  ASSUME LifeInv, ClientNext \/ \E s \in Server : BanChanges(s)
  PROVE  [Life!Next]_Life!vars /\ UnprovenInv'
<1>1. SafeInv /\ UnprovenInv
  BY DEF LifeInv
<1>2. CASE IncrementServerFailCount
  <2>1. held # "none"
    BY <1>1, <1>2 DEF IncrementServerFailCount, SafeInv, HeldIsListed
  <2>2. Current \in Server
    BY <1>1, <2>1, Known
  <2>3. UNCHANGED Life!vars \/ Life!GiveUp(Current)
    BY <1>2, LifeFail
  <2> QED
    BY <1>1, <2>2, <2>3, UnprovenStep DEF Life!Next
<1>3. CASE MarkServerSuccessful
  <2>1. held # "none"
    BY <1>1, <1>3 DEF MarkServerSuccessful, SafeInv, HeldIsListed
  <2>2. Current \in Server
    BY <1>1, <2>1, Known
  <2>3. Life!Prove(Current, {}) \/ Life!Promote(Current, {})
    BY <1>3, LifeMark
  <2>4. {} \in SUBSET Server
    OBVIOUS
  <2> QED
    BY <1>1, <2>2, <2>3, <2>4, UnprovenStep DEF Life!Next
<1>4. CASE \E s \in Server : AddServer(s)
  <2>1. PICK s \in Server : AddServer(s)
    BY <1>4
  <2>2. Current \in Server /\ Life!Learn(Current, {s}) /\ {s} \in SUBSET Server
    BY <1>1, <2>1, LifeAdd
  <2> QED
    BY <1>1, <2>2, UnprovenStep DEF Life!Next
<1>5. CASE \E s \in Server : BanChanges(s)
  <2>1. PICK s \in Server : Life!EndBan(s) \/ Life!ForgetBan(s)
    BY <1>1, <1>5, LifeBan
  <2> QED
    BY <1>1, <2>1, UnprovenStep DEF Life!Next
<1>6. CASE GetNextServer \/ GetNextServerFaults \/ Continue \/ ParseResponse
  <2>1. UNCHANGED <<active, prob, banned>>
    BY <1>6 DEF GetNextServer, GetNextServerFaults, Continue, ParseResponse, lists
  <2> QED
    BY <1>1, <2>1, LifeQuiet, UnprovenStep
<1> QED
  BY <1>2, <1>3, <1>4, <1>5, <1>6 DEF ClientNext

LEMMA LifeStep ==
  ASSUME LifeInv, [Next]_vars
  PROVE  [Life!Next]_Life!vars /\ UnprovenInv'
<1>1. CASE ClientNext \/ \E s \in Server : BanChanges(s)
  BY <1>1, LifeClient
<1>2. CASE (\E f \in BOOLEAN : ActiveServerCount(f)) \/ UNCHANGED vars
  <2>1. UNCHANGED <<active, prob, banned>>
    BY <1>2 DEF ActiveServerCount, vars, lists
  <2> QED
    BY <2>1, LifeQuiet, UnprovenStep DEF LifeInv
<1> QED
  BY <1>1, <1>2 DEF Next

LEMMA LifeInit == Init => Life!Init
<1> SUFFICES ASSUME Init PROVE Life!Init
  OBVIOUS
<1>1. DOMAIN active = Seeds /\ Unproven = Seeds
  BY DEF Init, Unproven
<1>2. OnProbation = {} /\ BannedAs("live") = {} /\ BannedAs("stale") = {}
  BY DEF Init, OnProbation, BannedAs
<1> QED
  BY <1>1, <1>2 DEF Life!Init

(* The lists, with their iterators, duplicates and flags, keep the life of *)
(* a server as ServerLife tells it.                                        *)
THEOREM Refinement == Spec => ImplementsServerLife
<1>1. LifeInv /\ [Next]_vars => [Life!Next]_Life!vars /\ UnprovenInv'
  BY LifeStep
<1>2. SafeInv /\ UnprovenInv <=> LifeInv
  BY DEF LifeInv
<1> QED
  BY <1>1, <1>2, LifeInit, UnprovenInit, SafeInvariant, PTL
     DEF Spec, ImplementsServerLife, Life!Spec
=============================================================================
