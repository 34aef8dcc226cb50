# A TLA+ verification of NRP-reference

NRP-reference is a small C++ program in which hosts exchange entropy and the
addresses of other hosts over UDP. One process runs a server thread and a
client thread on one shared configuration. This directory holds a TLA+ model of
the parts that keep state, the TLC runs that check it on small instances, and
TLAPS proofs of what matters most for instances of every size.

Paths like `config.cpp:485` are relative to `src/`.

## 1. The system

| part | state | operations |
|---|---|---|
| `MruCache` (`mrucache.h`) | map key → insertion time, time of the last cleaning; detached cleaner threads | `IsPresentAdd`, `IsPresent`, `Add`, `Clean` (cleaner thread), `ScheduleCleaning` |
| `NrpdConfig` (`config.h`, `config.cpp`) | set of active servers (ordered by host), list of probationary servers, an iterator into each, which list was served last, cached counts per protocol, banned servers (a `MruCache` of 24 hours) | `GetNextServer`, `AddServersFromMessage`, `IncrementServerFailCount`, `MarkServerSuccessful`, `ActiveServerCount`, `GetServerList` |
| `NrpdServer` (`server.cpp`) | recent clients (a `MruCache` of 60 seconds); during one turn: bytes remaining, messages, rejections | `ServerLoop`, `ParseMessages`, `GeneratePeersResponse`, `GenerateEntropyResponse`, the size helpers |
| `NrpdClient` (`client.cpp`) | the server in use; per server: last access, retry time, rejected types | `ClientLoop`, `ConstructRequest`, `ParseResponse`, `ParseRejectMessage`, entropy handling |
| `Protocol` (`protocol.h`, `protocol.cpp`) | none | validators and generators of packets and messages |
| `main.cpp`, `log.*` | none | start the threads, print lines |

How they interact:

* The **server thread** asks `m_recentClients` whether to ignore a client, then
  answers the messages of a request one by one. For a peers message it calls
  `ActiveServerCount` and `GetServerList`, which themselves count twice.
* The **client thread** takes a *reference* into one of the two lists
  (`GetNextServer`), sends a request, and then continues without a report,
  reports a failure, or parses the response (which may add servers) and reports
  a success. It asks and extends `m_bannedServers`.
* Both threads use the active list. The mutex `m_activeMutex` is held where
  the list is changed and where it is copied or counted, not where the client
  thread searches it; the counts are atomics, loaded and stored outside of it.
* Every query of a cache may start a detached **cleaner thread**; nothing
  records that one is running.

What is hard about it: the two threads on the counts and the list; cleaners that
run late, twice, and store `m_lastCleanTime` unlocked; iterators that survive
insertion and removal in both lists; a server that moves between lists ordered
by different equalities (`operator<` compares hosts, `operator==` host and
port); unsigned arithmetic on sizes and on a count that can be -1; room shared
between answers and rejections; walks that advance by lengths from the packet.

What makes each part correct:

* *Cache*: a key is reported for exactly one lifetime after it was accepted,
  whatever the cleaners do; what is overdue is erased.
* *Configuration*: the client's reference stays valid; hosts are forgotten only
  by a ban; the counts do not exceed the list; both lists, and every server in
  them, get their turns.
* *Both threads*: the counts and the copy of a response agree, and it is not
  read from beyond its buffer. Both fail when the client thread shortens the
  list in between, and only then.
* *Server*: a response fits into the packet and its headers tell its length
  and its messages; rejections get the room kept for them; what is sent back is
  a response, which fails when there is no message for it.
* *Packets*: the validators accept exactly the well-formed packets; what this
  program generates is among them, but for rejections of types it does not know;
  the walk over a packet ends, which fails for a length of 0 in a request; the
  second walk stays within what the first one checked.
* *Client and servers*: an answer counts for the server that gave it; what a
  server rejected is not asked of it again; no server is asked while it would
  ignore it; probation ends.

## 2. Modules

| module | models | extends / uses |
|---|---|---|
| `ExpiringSet` | what a `MruCache` promises, without clock or threads | – |
| `MruCache` | `mrucache.h` with its clock and cleaner threads | refines `ExpiringSet` |
| `ServerLife` | what becomes of a server: learned, proven, promoted, given up, banned | – |
| `NrpdConfig` | the lists of `config.cpp`, driven by the order of calls of `ClientLoop` | `ExpiringSet` for `m_bannedServers`; refines `ServerLife` |
| `ConfigThreads` | the server thread between the client thread's calls | extends `NrpdConfig` |
| `NrpdServer` | the server thread's loop and the accounting of a response | `ExpiringSet` for `m_recentClients` |
| `Protocol` | the generators, the validators, and the walks over a packet | – |
| `NrpdClient` | the client thread: records of servers, sockets, one request at a time | – |
| `Exchange` | the client and its servers over an unreliable network | extends `NrpdClient`; refines `ServerLife` |
| `MC*` | values of the constants for TLC | |
| `MruCacheProofs`, `NrpdConfigProofs`, `NrpdServerProofs`, `ConfigThreadsProofs`, `ProtocolProofs`, `ExchangeProofs` | theorems about the module of that name | each extends its module; `ConfigThreadsProofs` extends `NrpdConfigProofs` too |
| `ExchangeLifeProofs` | that `Exchange` refines `ServerLife`, and that probation gets shorter | extends `ExchangeProofs` |
| `Induction` | lemmas: induction over the numbers, loops as functions | used by the proofs about lists |

Next to some definitions stands a variant of it, announced in its comment as a
mistake (`ExpiredLate`, `UncountOther`, ...). No specification uses one: they
are the deliberate errors with which the runs are tested, each of which makes
one property fail.

### ExpiringSet and MruCache

`stamp` is the map `m_recentClients` (`NoStamp`: no entry), `lastClean` is
`m_lastCleanTime`, `clock` the steady clock. An operation's critical section is
one step (`IsPresentAdd`, `IsPresent`, `Add`). `ScheduleCleaning` reads
`m_lastCleanTime` after the unlock and is a step of its own, as is each half of
a cleaner: `CleanSweep` under the lock, `CleanStamp` storing without it any
clock reading since the sweep. `since` is a history variable. Queries and
additions are all in `Spec`, which `RateLimit` and its companions hold for as
well; `BanSpec` has only the calls that the banned list sees.

`ExpiringSet` replaces stamps by the statuses absent, live and stale. The
refinement (`EntryStatus`) is checked and proved, so that the other modules may
use the abstract set without a clock.

### ServerLife

The comments of `config.h:128-148` and the code of `config.cpp:478-683` say what
may become of a server; `ServerLife` says it of sets of servers: active, on
probation, banned. Servers are learned from a response if they are not banned
and their host is not active (`Learn`, `Prove` and `Promote` have `learned`,
since a response is parsed before its sender is reported); a response makes its
sender proven, or moves it from probation to the active servers; a failure at
the limit takes it out and bans it (`GiveUp`). What the lists really do shows in
three places. A seed is *unproven*, its flag set, until it first answers: given
up before that, it is banned and stays active (`config.cpp:491`). A server that
was on the probationary list twice may still be there after one of its entries
was taken out (`OneLess`). And a ban that has lapsed but was not swept is not
renewed (`lapsed`, the stale entries of the cache).

Two models of the same lists implement it: `NrpdConfig`, which has their order,
their iterators and one call per step, and `Exchange`, which has neither order
nor iterators but times, types and the network, and takes a response in one
step. So what `Exchange` leaves out of the lists is nothing that would let a
server become active, be forgotten or be learned again in another way. (Its bans
never end, so `lapsed` is empty there.)

### NrpdConfig

`active` maps each address of the set to its failure count and probationary
flag; `prob` is the list, with positions for iterators. `phase` and `held`
stand for the place in `ClientLoop` and its reference: since the loop calls
`IncrementServerFailCount` and `MarkServerSuccessful` right after
`GetNextServer`, the reference always points at one of the two iterators, and
the branches "iterators out of sync" (`config.cpp:511`, `:541`) are reached
only by a seeded server, which carries the probationary flag in the active
list. `failureCount` saturates at the limit. `AddServer` is one turn of the
loop of `AddServersFromMessage`.

Undefined behaviour: `prev()` of `begin()` is modelled by what libstdc++ does
(`PrevActive`: the header node, which is `end()`, or the root when the
root is leftmost); stepping back from the first probationary element reaches
`end()`. Using an erased iterator, or `front()` of the empty
`m_configuredServers`, stops the model with `fault`.

As committed, the program starts with no server at all: the line that would
fill the active list is a comment (`config.cpp:169`), so its first
`GetNextServer` evaluates `front()` of an empty list. `Seeds` stands for
that line; the runs have one or two seeds, the proofs any number, none included.

### ConfigThreads

The server thread's answer to one peers message, in steps at each unprotected
access: `TestCount` and `LoadCount` (the atomic is loaded twice,
`config.cpp:256-262`), `Recount` (under the mutex), `StoreCount` (after it),
`SizeMessage`, and `CopyList`; `ActiveServerCount` runs twice per message.
Between any two steps the client thread may complete a call. `reply` tells how
many entries the buffer of `GetServerList` has, how many of them are servers,
and how many `GenerateResponsePeersMessage` reads from it: as many as the message
was sized for, since the size of the buffer is not looked at (`protocol.cpp:376`,
`server.cpp:229-231`). `disturbed`, `shrunk` and `overtaken` are history
variables that say when the client thread mattered. `overtaken` stays set, like
the wrong count that it explains.

### NrpdServer

Messages are sizes and counts. One pass of the loop over the request is one
step: `AnswerPeers`, `AnswerEntropy` or `Reject`; `FinishParsing` puts the
rejections in front; `SendResponse` adds the packet header, or fails to, when
there is no message, and sends the packet, or fails to (`sendto`); the client is
remembered all the same. Invalid requests are dropped by the code before any state
changes and are left out. What the other thread and the random device do is a
choice: the counts (`PeerCounts`, with -1), the list becoming empty, a
short `read`. Peers messages may be rejected as well as answered, because
`m_enableIp4Peers` and `m_enableIp6Peers` are never initialised. `Byte` is
the number of values of a byte; counters are cut to one with `AsByte`.

### Protocol

A packet is its header and the headers found when each length is followed to
the next; a reject message has its set of rejections as well. A length may be
anything from 0, also less than the header of a message: of a request's message
that the server does not answer, none is checked (`protocol.cpp:122-134`). A
message of length 0 is followed by itself (`Endless`), so that it is the last one
of the list, and a walk that passes it stands on it again (`Current`). With a
length of 1 to 3 the next header overlaps; which header that is, is left open.

The packet is built by `ConstructRequest`, by `Answer` and `SendResponse`, whose
rejections may be of any type that the server does not answer (`Rejectable`, 11
standing for all that are not in the enum), or of any headers at all; then
`StartWalk`, `CheckMessage` and `EndWalk` are `ValidatePacket`, a message at a
time, and `ParseMessage` is the receiver's own walk, whose condition differs
between client and server. The server's also stops when no room for answers is
left (`server.cpp:334`): how much an answer takes is in `NrpdServer`, and here
it may stop after any message (`NoRoomLeft`). `pos` is the pointer that both
walks advance. `WellFormed` says without a walk what the first walk should
decide.

### NrpdClient and Exchange

`record` has, for each listing of a server, the fields of its `ServerRecord`:
the list it is in, the probationary flag, failures, the time since the last
report (`lastaccessTime`), `retryTime`, and the types not yet rejected. `Ask`
is a turn of `ClientLoop` up to `recv()`; `TimeOut`, `RecvFails`,
`HandleInvalid` and `HandleResponse` are the ways in which `recv()` and the
rest of the loop end, and `AskFails` the early continues before. A socket has
the server it is connected to and a queue: `Arrive` puts a packet there if it
comes from that server, `ConnectServer` leaves what is there, and `Consume`
takes the first, whoever sent it. `BackedOff` is `*= 1.25` on whole seconds,
which multiplies by one.

`Exchange` adds the network and the servers. A server's cache of recent clients
is the time since it accepted the client, `recent`, which is what `RateLimit`
says of the cache. `HostRefuses` is a server that does not run, whose next
process has an empty memory. The iterators of `NrpdConfig` are left out: any
server that is due may be next, and that probationary servers get their turn is
an assumption here, and a checked property there (`NeitherListStarves`).
`responded`, `old` and `accepted` are history variables.

## 3. Runs

| run | what it checks | bounds |
|---|---|---|
| `MruCacheRefines` | `TypeOK`, `RecentStaysPresent`, `PresentOnlyIfRecent`, `RateLimit`, `ImplementsExpiringSet`, `CleanerDelivers` | 2 addresses, 2 cleaners, lifetime 2, clock to 5 |
| `ConfigSafety` | `TypeOK`, `HeldIsListed`, `CountNeverOverstates`, `HostsAreNotLost`, `ImplementsServerLife` | two ports of one host and the same number in IPv6; 2 probationary, counts down to -2 |
| `ConfigLive` | `NeitherListStarves`, `ActiveServersTakeTurns` | 3 hosts, 2 seeded, 1 probationary |
| `ThreadsSafety` | `ThreadsTypeOK`, `ReadsPastOnlyIfShrunk`, `OverstatesOnlyWhenOvertaken`, `SteadyReplyIsExact` | 2 servers, 1 seeded, room for 2, asking for 0 or 1 |
| `ServerPackets` | `TypeOK`, `FitsIntoPacket`, `SentIsWellFormed`, `RejectionsFillPacket`, `CountsFitBytes` | packets of 20 and 31 bytes, bytes of 7 values, up to 6 messages |
| `Protocol` | `TypeOK`, `AcceptsTheWellFormed`, `GeneratedIsAccepted`, `ParsedIsWhatWasChecked`, `WalksEnd` | packets of up to 2 messages from anybody, 3 from the client; lengths from 0, counts up to 3 |
| `Exchange` | `TypeOK`, `NotAskedTooSoon`, `CreditIsDue`, `RejectionsAreKept`, `ImplementsServerLife`, `ProbationEnds` | a seeded server and one to learn, one packet on its way in each direction and one in the socket, one refusal |
| `MruCacheBan` | finds a violation of `AddTakesEffect` | 1 server |
| `ConfigIterator` | finds a violation of `ActiveIteratorValid` | 2 servers |
| `ThreadsBuffer` | finds a violation of `RequestedAreThere` | 2 servers, both seeded |
| `ZeroLength` | finds a violation of `MalformedAreIgnored` | packets of 1 message |
| `StrayResponse` | finds a violation of `ActiveServersHaveResponded` | 3 servers, one of them IPv6, one listed twice |

Why the bounds are enough. *Cache*: the clock runs past two lifetimes, so an
entry is accepted, expires, is swept or renewed and expires again; two cleaners
are what it takes to store in the wrong order. *Configuration*: the limit of
three timeouts removes a server at its second failure (the code adds one twice),
so that servers survive a failure and are removed; the addresses are those that
the two comparisons tell apart; two places in the probationary list hold a
duplicate. `CountDepth` stops a count from falling further below zero: at -1 it is
recounted, or raised to 0 by a success; every lower value is recounted, or
raised by one, and -2 stands for them all. *Threads*: one or two
servers let the list shrink and grow between any two steps; a limit of two
timeouts removes a server at its first failure, which keeps the runs short.
`CountDepth` of 1 keeps a server from being removed while the count is -1, so
that the run has only the longer forms of the race for the count, in which
another call comes first; the proof has them all. *Packets of the
server*: a few bytes leave every remainder after some answer, and with small
bytes a request of as many messages as a byte can count is rejected throughout;
the real sizes are covered by the proofs. *Protocol*: the lengths and counts that
no generator made lie on both sides of what is right for their type, types on
both sides of each limit, and packets claim to be shorter and longer than their
messages. The walk's count is an `int`, which only the walk that stands still
carries past a byte: the model counts no further than `ManyMessages`. *Exchange*: one packet each way and one in the socket already make a
late answer meet the next request, and a duplicate come after the client went
on; a request that is late meets the server's memory. Retry time, timeout and
memory are one unit each: the code's timeout is half of the other two, which
with finer units takes several times as many states. `Exchange` has one listing of each
server, and none says that it is busy, which changes nothing but `retryTime` and
that by a factor of one; `StrayResponse`, which ends early, has two listings of
one server, and a busy one.

Deadlock is not checked: the clock of `MruCache` stops at its bound,
`NrpdConfig` stops at a fault, a packet of `Protocol` is received once, and
the client of `Exchange` may run out of servers. `NrpdServer` waits for clients.

Fairness. `MruCache.FairSpec`: a started thread and the caller's own
continuation are scheduled; neither calls nor time are forced.
`NrpdConfig.FairSpec`: the client thread's loop always takes another step,
because `recv` has a timeout (`client.cpp:539-548`) and nothing else blocks;
which step is not assumed, so servers may fail or be skipped for ever.
`Protocol.FairSpec`: the receiver's loops run. `Exchange.FairSpec`: time passes,
`recv()` returns when it can or its time is up, and some probationary server is
asked again and again, if one can be again and again: that is what
`NeitherListStarves` gives. Nothing is assumed of the network and the servers.
Refusals are bounded (`MaxRefusals`): a host that refuses for ever is asked at
every turn and never counted as failed (`client.cpp:553`).

What the violations show:

* `MruCacheBan`: `Add` is `emplace`, which leaves an expired entry's old
  stamp. A server banned again before its entry is swept is not banned
  (`mrucache.h:151`, against "banned for 24hrs", `config.cpp:158`).
* `ConfigIterator`: after the first active server is removed the iterator is
  `end()`, or, with one or two servers, the erased element (`config.cpp:537`).
* `ThreadsBuffer`: a server removed between the two counts leaves the buffer with
  fewer entries than the message was sized for, all of which are then read from
  it (`protocol.cpp:376`, against "Exit the loop when requested count of servers
  are copied", `config.cpp:373`). It takes two servers: with one the second count
  is 0, and no response is made. That this happens in no other way is
  `ReadsPastOnlyIfShrunk`, checked and proved.
* `ZeroLength`: the walk of `ValidatePacket` never gets past a request's message
  of length 0 whose type is not one of the three that are answered
  (`protocol.cpp:171-182`, against "ignore malformed packets", `server.cpp:458`).
  That it stands still nowhere else is `WalksEnd`, checked, and
  `WalksGetShorter`, proved.
* `StrayResponse`: a packet that comes after the client stopped waiting, late or
  a second time, while the socket is still connected to its sender, is read as
  the answer of the next server (`client.cpp:251`, `:535`). That server
  becomes active without having answered ("until they respond", `config.h:134`),
  and takes the rejections too. Its own answer may then be read as that of
  the one after it.

Disagreements that are plain from the code and have no run: the first server
of an empty configuration (`config.cpp:441-445`: "guaranteed to be at least
one"); a server removed after the second count of a response and before the
list is copied leaves an entry of zeros (`config.cpp:319-349`, against "Valid IP4
hosts that speak NRP", `protocol.h:15`); a response without messages has no
header, and as much of the request as a header is long goes back instead
(`server.cpp:496`, against "Can't request or respond with nothing",
`protocol.cpp:160`; the second case of `SentIsWellFormed`); `retryTime *= 1.25`
multiplies by a whole number of seconds, that is by one (`client.cpp:358`,
`config.cpp:482`, against "clients should back off 1.25x", `protocol.h:28`);
removing a probationary server lowers the count of active ones, which
never included it (`config.cpp:500`; the cached count is then too low, down to
-1, where it is recounted); a server rejects types that it does not know, and
the validators refuse the response that does so, with the answers in it
(`server.cpp:361-364`, `protocol.cpp:252`; the exception in
`GeneratedIsAccepted`); a server listed twice as probationary (`config.cpp:647`:
"not banned or already added", but only the active list was searched); removal
at the fourth failure (`config.cpp:485`, against "5 times in a row",
`config.h:134`); a seeded server that fails is banned but stays listed, since
its flag sends the removal to the other list (`config.cpp:491`); a mapped IPv4
client gets the IPv6 size, since the prefix compared is all zeros
(`stdhelpers.h:89-93`).

## 4. Proofs

All theorems hold for every value of the constants allowed by the named
assumptions in the modules. Every safety property and every action property
that a passing run checks is also proved; what the runs add is liveness, and the
violations.

*Induction.* What a loop over a list computes is a function of the number of
rounds. To reason about it without a theorem that takes an operator for its
parameter, the property is made a set of numbers: a set that has zero, and with
each number the next one, has them all (`Induction`), because every set of
numbers has a least element (`Least`, from the library's well-foundedness of
`<`). `Recursion` gives the values of a loop, so that a function written by
recursion is what its definition says. The models write such loops as recursive
functions: `KeptUpTo`, what `remove` keeps of the first servers of a list, and
`Ends`, where each message of a packet ends.

*MruCacheProofs* (from `LifetimeAssumption`, `MaxTimeAssumption`).
`TypeCorrect`. `RecentStays`, `PresentIsRecent` and
`RateIsLimited`, all from one invariant, `StampIsSince`: a key's stamp is the
time it was last accepted, or its entry was erased after its lifetime was over.
The three properties speak of the history `since` and are not inductive: without
the link to the stamp, a sweep or a query says nothing about them.
`Refinement`: `Spec => ImplementsExpiringSet`; a sweep maps to `Evict` of what it
erased, a tick to `Expire` of what it ends, the rest of a cleaner to a stutter.

*NrpdConfigProofs* (from `ServerAssumption`, `SeedsAssumption`,
`LimitsAssumption`). `NeverOverstates`: with calls that do not overlap the
cached counts never exceed the list; the invariant (`CountInv`) adds that the
list is finite and the counts are integers, and the lemmas on `Cardinality` say
what one server more or less does. `TypeCorrect` and `HeldStaysListed`: the
reference stays valid in either list until its outcome is reported. The two need
each other (`SafeInv`), since what a step does to the record under the reference
is right only where there is one. `NoHostIsLost`: a host is forgotten only by a
failure at the limit, which bans it. These rest on what `remove` leaves of the
probationary list: every other server, and no more entries before an iterator
than there were kept (`Kept`, by induction over the list).

`Refinement`: `Spec => ImplementsServerLife`. Each of the client's calls maps to
an action of `ServerLife` or to a stutter, one lemma for each (`LifeFail`,
`LifeMark`, `LifeAdd`, `LifeBan`, `LifeQuiet`). It needs one more invariant,
`UnprovenInv`: no server whose flag is still set in the active list has its host
on probation as well. Without it, the failure of such a server, whose flag sends
the removal to the probationary list, could take it off that list while it
stays active (`config.cpp:491-519`). What `erase` and `remove` leave in the list as a set is
`ErasedSet`.

*NrpdServerProofs* (from `MtuAssumption`, `PeersAssumption`,
`AsksAssumption`). `AssertionHolds`: the assertion at `server.cpp:493`, for any
packet sizes and counts, -1 included; `NoCounterWraps`;
`ResponsesAreWellFormed`, with the response that has no messages.
The invariant is the bookkeeping of `ParseMessages`: bytes used plus bytes
remaining are the packet without its header, the messages handled and to come
are at most 255, and the lengths told by the messages add up to the bytes used.
`PeersAssumption` (no packet has room for more than 255 peers) is what keeps a
count from being cut to a byte; 532 and 1236 satisfy it. `RejectionsAreTold`: a
rejection is left out only when its message had no room. The invariant says that
none is listed until the reject message is made, which is the last one; that a
rejection left out had no room then is a lemma (`TooLittleIsLeft`).
`TypeCorrect`: the types of the server's variables.

*ConfigThreadsProofs* (from the assumptions of `NrpdConfig` and
`RequestAssumption`). `ReadsPastOnlyWhenShrunk`: the entries of a message are
missing from its buffer only if the client thread lowered the count since the
request came, whatever else it does. It is not enough that the count was right:
it may be wrong, and change when the server thread stores one too late. The
invariant follows the count from the first look at it to the second, and says
that without a shrinking the second is no smaller than what the message holds,
so that it never has to be counted anew in between.
`OverstatesOnlyIfOvertaken`: the invariant
adds that a count waiting to be stored is still right unless it was overtaken;
what the client thread does to the counts is cited from `NrpdConfigProofs`.
`SteadyIsExact`: if nothing was disturbed, the count that sized the message is
still cached, and not ahead of the list, when the list is copied.

`ThreadsTypeCorrect`, `ThreadsKeepHeldListed`, `ThreadsLoseNoHost` and
`ThreadsRefinement`: what `NrpdConfigProofs` shows of the reference, of hosts
and of the life of a server stays true beside the server thread. The client's
steps are cited from there (`SafeStep`, `HostLost`, `LifeStep`), and the server
thread changes nothing but a count (`ListSteps`).

*ProtocolProofs* (from `SizesAssumption`, `MessagesAssumption`, which says only
that the headers are headers: any length, type and count).
`AcceptsExactly`: `ValidatePacket`, which follows one length after the other,
accepts exactly the packets whose lengths add up, and refuses none of them.
The invariant says where a walk stands, `pos` being the end of the messages
passed (`WalkInv`), of which there may be fewer than it counts; that those
were acceptable, except that they may have had no length; and that the last of
them began inside the packet (`CheckInv`). This last part does two things. A walk
that ends beyond a packet with fewer messages would not, without it, contradict
its being well-formed; and a walk that ends has not passed a message without
length, since that would have ended where it began. Where messages end does not
decrease, by induction (`EndsGrow`). `Validated` shows that the validators of one
message decide what `MayBeAsked` and `MayBeAnswered` say, and what they let pass
besides (`StaysPut`). `GeneratedAccepted`: the generators build nothing else, by
adding up what each wrote, except when they reject an unknown type, and then the
response is refused. `ParsedWasChecked`: the second walk, which checks nothing,
stands at the end of checked messages, and ends at the end of the packet, unless
it is the server's and has no room left. `TypeCorrect`. `WalksGetShorter`: a
bound on the turns left falls with every turn, except where the walk stands still
on a message of length 0, where it stands after the turn as well.

*ExchangeProofs* (from `EntryAssumption`, `TimesAssumption`, `NetAssumption`,
which has `Lifetime <= Retry`, both 60 seconds in the source). `TypeCorrect`.
`AskedInTime`: no server is asked while it would ignore the request. The
invariant compares clocks: a server remembers the client for no longer than the
client waits for it, or since its last report (`AskInv`); and of the requests
on their way all but the one waited for are overdue (`RequestInv`).
`CreditWhereDue` and `RejectionsKept` need to know what is on its way
(`PacketInv`): every packet, in the network or in a socket, comes, if it is
valid, from a server that has responded, rejects nothing that this server
supports, and rejects all the rest of what its record still has, if it is
listed once; and what lies in the socket that the client reads is from the
server it asked, unless an old packet was there (`old > 0`). The violation run
`StrayResponse` shows what happens in that case.

*ExchangeLifeProofs* (from the same assumptions). `Refinement`:
`Spec => ImplementsServerLife`, with one action for each kind of report
(`LifeFailure`, `LifeSuccess`) and a stutter for all that the network, the
servers and the clock do. `Exchange` has entries where `ServerLife` has servers,
and what links them is `FlagInv`: a server has one active entry at most, so
that an entry taken out takes the server out; and every entry on probation has
its flag set, so that it is taken out when its server is given up.
`ProbationGetsShorter`, from `FlagInv` too: see below.

Only model-checked: the liveness properties (`CleanerDelivers`,
`NeitherListStarves`, `ActiveServersTakeTurns`, `WalksEnd`, `ProbationEnds`),
since the prover has no rule for fairness and `ENABLED`. For two of them the
bound that falls is proved, which leaves to fairness only that steps are taken.
A walk over a packet ends because each turn leaves fewer, or it stands still
(`WalksGetShorter` for `WalksEnd`).
Probation ends because a server that was asked has less of it left when the
client waits no longer, by a failure that counts or a refusal, of which there
are `MaxRefusals`, unless it left the list; and no other step gives any back
(`ProbationGetsShorter` in `ExchangeLifeProofs`). `CleanerDelivers` and the two
about turns have no such bound: they rest on the scheduling alone.

## 5. Not modelled

* `InitializeServer`, `InitializeClient`, the destructors, the random device and `ScrambleEntropy`:
  input and output, no state that the properties tell apart.
* `main.cpp`, the disabled `daemonize`, and logging.
* The contents of messages: sizes, types, counts and rejections only. The flags
  `signkey` and `shuttingdown` of a server are written and have no effect.
* In `Exchange`, the end of a ban, which takes a day.
* Allocation failure: `make_unique` throws.

## 6. How it was built, and what is left

In this order: 1. the cache and its refinement; 2. the lists of the
configuration; 3. both threads on them; 4. the server's accounting; 5. proofs
about these; 6. packets and their validation; 7. the client and its servers over
a network; 8. proofs of all safety and action properties, with induction over
lists; 9. the life of a server as an abstract specification, implemented by both
models of the lists, with both threads too, and the bound for probation.

Left for whoever goes on: the end of a ban in `Exchange`, which would make its
`lapsed` more than empty; and the contents of entropy messages, if something is
to be said about how received entropy is thinned out (`client.cpp:292`).
