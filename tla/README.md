# TLA+ development for GoDistributedSystem

The repository is a collection of distributed programs in Go. This directory
holds TLA+ specifications of them: the modules, the TLC instances that check
them, and TLAPS proofs. `PROJECT.json` lists, for every definition that models
code, the lines it models; this file says what is modelled, what the checks and
the proofs show, and what is left.

Line numbers refer to the repository at the commit beside which this directory
is kept. "CM" is the `ConsensusModule` type of `raft/part3` and `craft`.

## 1. Inventory

| Component | State | Operations | Interacts through |
|---|---|---|---|
| `raft/part3`: consensus module | term, vote, log (persisted by gob into a `Storage` map); commitIndex, lastApplied, state, nextIndex, matchIndex; the election timer | `startElection`, `RequestVote`, `startLeader`, `leaderSendAEs`, `AppendEntries`, `Submit`, `commitChanSender`, `Stop`, `restoreFromStorage` | net/rpc calls through `RPCProxy`, which delays them up to 75 ms and can drop them; `commitChan` to the client |
| `craft`: the same over Connect RPC | as above, and what part3 has too: the lock, `newCommitReadyChan` (16), `triggerAEChan` (1), `commitChan`, timers and loops as goroutines | as above; a dead CM answers with an error | Connect RPC; channels between its own goroutines |
| `raft/part4kv`: KV service and client | map key to value, commit subscriptions by log index; of a client: the assumed leader | handlers for put, get, CAS; `runUpdater`; the client's retry loop with a 50 ms timeout | HTTP between client and service; `Submit` and `commitChan` to the CM |
| `raft/part5kv`: the same with request IDs | in addition `lastRequestIDPerClient`, request IDs | in addition append, and duplicate detection | as above |
| `goraft`: a second Raft | term, vote and log in a file (a page, then fixed-size entries); commitIndex, lastApplied, per-member nextIndex, matchIndex, votedFor | main loop (`timeout`, `becomeLeader`, `heartbeat`, `advanceCommitIndex`), two RPC handlers, `Apply`, `persist`, `restore` | net/rpc without timeouts; a `StateMachine` under the lock |
| `torrent-client`: download | bounded work queue, unbuffered results channel; per worker a connection (choked, bitfield) and a pieceProgress (requested, downloaded, backlog, buf) | `startDownloadWorker`, `attemptDownloadPiece`, `readMessage`, `checkIntegrity`, `Download` | channels between workers and `Download`; TCP to peers that are not part of the program |
| `kademlia` | buckets of at most K contacts in heaps, a key-value map | `Join`, `AddContact`, `FindClosest`, `RecursiveFindNode`, `PingOldestContacts`, store | Connect RPC with timeouts; channels and an unprotected map between the goroutines of a lookup |
| `gossip` | map of peers and its lock | `Connect`, `BroadcastMessage`, `StartGossipLoop` | Connect RPC without timeouts |
| `hraftd` | a map under the third-party hashicorp/raft | get, set, delete, join, snapshot, restore | HTTP, hashicorp/raft |
| `raft/part1`, `part2` | earlier stages of part3 | | |
| `raft-example`, `k7`, `goraft/cmd`, visualisers, generated code | | a map over hashicorp/raft, a load generator, a front end, HTML from test logs, protobuf code | |

What is hard in this code, component by component (each at its line under
`hazards` in `PROJECT.json`):

* **Consensus module (part3).** Every RPC is spawned by a goroutine that reads the
  CM's state later, is handled by a peer later still, and answered when the CM may be
  something else; replies are checked against what was saved when the call began.
  Term and vote of a new candidate are not persisted. Old requests overtake new
  ones. A CM is stopped and restarted from storage between any two steps. Correct
  means: one leader per term, logs that match, committed entries that stay and
  are delivered alike everywhere, and a leader that brings diverged logs together.
* **The goroutines of a CM (craft).** `AppendEntries` sends a notification with the lock
  held, other goroutines after they have released it; timers and heartbeat loops of
  earlier terms end only when they look again; `Stop` closes a channel under them.
  Correct means: there is always an election timer, nothing is lost between a commit
  and the client, nobody waits for ever, and a shutdown is clean.
* **KV services.** A client that times out sends a request again that may have
  been executed; the handler waits for a log index, which may by then hold another
  command; submitting and subscribing are two steps; the duplicate table is
  rebuilt from the log after a restart. Correct means: an answer is the answer to the
  caller's own attempt, an attempt that is answered took effect once and in order,
  and with request IDs each request is executed once.
* **GoRaft.** The main loop acts on a state it read before it released the lock;
  what persist writes depends on how many entries a handler counted as new.
  Correct means: one vote per term across restarts, and a file that is at all times
  what the server knows.
* **Torrent download.** Workers fail between taking a piece and delivering it, the
  queue is bounded and closed under them, and peers may send anything. Correct
  means: no piece lost or downloaded into the wrong place, no worker that blocks
  or panics on the queue, the right file in the end, and an end.
* **Kademlia.** A pointer into a heap is kept across an unlock and a call; the
  goroutines of a lookup share a map without a lock and a channel with room for one.
  Correct means: every contact once and in its bucket, a ping that removes only who is
  silent, a lookup that returns what one of its branches found and leaves nothing behind.
* **Gossip.** A lock is held across calls that have no timeout, along a path of nodes
  that may close; a map is changed without its lock. Correct means: a broadcast reaches
  the peers and ends, peers that have ended are taken off.
* **hraftd.** Snapshots are written while commands are applied, a request of several keys
  is several commands, leadership is lost in between. Correct means: stores and snapshots
  are those of the log, and what was answered with 200 was done.

## 2. Modules

| Module | Models |
|---|---|
| `ConsensusModule`, `MCConsensusModule` | `raft/part3/raft.go`, `server.go`, `storage.go`; its instances |
| `ConsensusModuleProofs` | theorems about it |
| `Agreement` | abstract: what a cluster of CMs promises its clients |
| `ConsensusAgreement`, `MCConsensusAgreement` | the refinement of `Agreement` by `ConsensusModule` |
| `Craft`, `CraftProofs`, `MCCraft` | `craft`: one CM, its goroutines and channels |
| `ReplicatedLog`, `ReplicatedLogProofs` | what a cluster promises the service above it: logs, leaders that do not know that they have been replaced, a committed prefix |
| `KVService`, `KVServiceProofs`, `MCKVService` (over `ReplicatedLog`) | `raft/part5kv`: client, handlers, updater, store |
| `KVServicePlain`, `KVServicePlainProofs`, `MCKVPlain` (over `ReplicatedLog`) | `raft/part4kv` |
| `HRaftd`, `HRaftdProofs`, `MCHRaftd` (over `ReplicatedLog`) | `hraftd`: store, HTTP service, join |
| `GoRaft`, `GoRaftProofs`, `MCGoRaft` | `goraft/raft.go` |
| `TorrentDownload`, `TorrentDownloadProofs`, `MCTorrentDownload` | `torrent-client` p2p, client, message, bitfield |
| `ContactHeap`, `Kademlia`, `MCKademlia` | `kademlia`: a bucket as the array of its heap; a node and a lookup |
| `Gossip`, `MCGossip` | `gossip` |

**ConsensusModule.** The variables are the fields of the CM; `storage` is what
`persistToStorage` last wrote; `rv` and `ae` are the outstanding calls, one per
ordered pair of CMs and *lane*, a lane being one round of calls. An action is what
a goroutine does under one hold of `cm.mu`, so a call has four steps (spawned,
arguments built and sent, handled, reply handled) between which anything may
happen. A call may fail on the caller's side while the request still reaches the
peer ("orphan"). `Stop` makes a CM Dead, closing its connections; `Restart` builds a
new one from `storage`. A reply with a newer term revives a Dead CM as a follower,
as the code does. `SendAppendEntriesPanics` is the slice expression of
`leaderSendAEs` out of range: the goroutine does not check that the CM still leads,
and a follower's log may have been cut below `nextIndex`. The log's Go index n is
n + 1 in the model. `applied` is what was sent on `commitChan`; the notification
channels in between are abstracted to "the sender may run" (`Craft` has them).

**Agreement** has one growing sequence `chosen`, of which every CM delivers a prefix,
from the start again after a restart. `ConsensusAgreement` maps `delivered` to `applied`
and `chosen` to the history variable of that name, the longest prefix a leader has
committed, which `AppendEntriesReply` extends when the leader's commit index grows: `commitIndex` is not persisted, so that a cluster may forget for a while what it had
committed. `Implements` is the abstract specification, for the steps before a leadership was
forgotten and, of deliveries, before a request was misdated: two history variables, `forgotten`
and `misdated`, record these (see Findings).

**Craft** is one CM at the grain of its goroutines: a step is one hold of `cm.mu` or one
channel operation. The peers are the environment and may send what peers that obey the
protocol may; `PeerLeads` rules out a second leader of a term. An entry is its term.
`held` is `AppendEntries` waiting for room in `newCommitReadyChan` with the lock held, the
only place where the code does that. `ticking` counts the election timers by term and
`loop` the heartbeat loops, since old ones go on until they look again. The calls under way
are in slots: `LeaderSendAEs` waits for free ones where the code spawns without limit.

**ReplicatedLog** is what the services see of the CMs below them. A leader that has been replaced
and does not know goes on appending, and replicates to followers that have not heard of the
later term either (`Replicate`); it cannot commit, and takes nothing away that is committed.

**KVService and KVServicePlain.** A caller's request goes from service to service until
one answers (`Request`, `Retry`, `BailOut`). A handler submits, subscribes and waits in
separate steps. The handlers differ only in the command and are one action with
several kinds. `Update` is one iteration of `runUpdater`. The store has one key; in
`KVService` its value is the sequence of what was appended. `KVServicePlain` has crashes and
restarts as two steps, and the fault its tests inject: a service that does not answer.

**HRaftd** has a POST as one `Apply` per key, `Join` as its three calls of the library, and
snapshots in two steps, the clone and the write, between which commands are applied. The
library, which is not in the repository, is `ReplicatedLog`, with the configuration beside it:
`config` is the one committed last, `known` what each node uses, which is the last it has heard
of, committed or not (this is what `GetConfiguration` gives `Join`), and `proposed` those that
leaders have proposed since. `RemoveServer` and `AddVoter` return when theirs is committed, or
fail when the lead is lost, and the proposal may then still be committed or be lost.

**GoRaft.** As for the CM, an action is one hold of `s.mu`. `sawCandidate` is what
the main loop remembers between reading `s.state` and calling `becomeLeader`, the
one function for which the difference matters. `disk` is the metadata file: the page
(term, vote, log length) and the entries; `Written` keeps what an earlier, longer
log left behind the entries written. `Crash` is a process that ends and starts
again; a server whose file `restore` cannot read stays down. `s.log[0]`, always the
empty entry, is left out of the sequence, so indices are those of the code. `Apply` takes a list
of commands, which may be empty (`persist(true, 0)` then writes the whole log), and a request
carries at most `MaxEntries` entries (`MAX_APPEND_ENTRIES_BATCH`).

**TorrentDownload.** A worker's steps are its channel operations and one iteration
of the loop of `attemptDownloadPiece`: send the requests the pipeline has room for,
read one message. Content is abstracted to whether it is the right content, so that a
piece passes its SHA-1 exactly when all of it is good. The peer is the environment:
that of an honest worker answers what it is asked, any other may send any block,
choke, hang up or offer a wrong bitfield. A bitfield has as many bytes as its sender likes;
that of an honest peer has the bit of every piece, in `BitfieldBytes` bytes.

**Kademlia.** A bucket is the array of its heap, since `PingOldestContacts` keeps a pointer
to its first place: `ping.at` is what that place holds, until `append` moves the bucket to
another array (`moves`, a choice of the runtime). A lookup is a tree of calls (`frame`) and
of the goroutines they spawn (`branch`). `MapRace` is the runtime stopping the program
because two of them are at the map. `GetContacts` of this code answers with no contacts
(it keeps those that cannot be encoded), so only a node that runs other code,
`Foreign`, can answer with the target.

`StartPingTicker`, which calls `PingOldestContacts`, is called by nothing in the repository; the
model takes it to run. At this commit the package does not seem to build: `Node` has no field
`Addr` (utils.go:174). `FindClosest` takes the lock for each bucket, and is one snapshot here;
what it returns only decides whom a lookup asks.

**Gossip.** Any number of clients broadcast at once. A call of `BroadcastMessage` takes the node's
lock, forwards to peers one after the other and replies. The map of peers is by ID, and what is
learnt from `Connect` has ID 0: an answer's peers are written one after the other under that one
ID (gossip.go:104-110), each a step of its own (`Learn`). `Shutdown` stops accepting
requests and `Terminate` ends the process when the handlers under way have come back, as
`server.Shutdown` waits for them; `Crash` ends it at once. No node is a bootstrap node
(routes.go:80): `JoinGossip` makes an ID of the time, which never has the bit that says so.

## 3. Model checking

Each row is a run of `PROJECT.json`; run one with
`tlc -config <cfg> <module>`.

| Run | Instance | Shows |
|---|---|---|
| `cm_agreement` | 3 CMs in five situations: two elections with a heartbeat, a stop and a restart; two elections with a failed call; a leader with two lanes and two commands; replication and an election with a stop and restart; logs diverged over terms 1 to 4 (Figure 8 of the Raft paper) | `Implements`, `ChosenDurable`, `LeaderCompleteness`, `LogMatching`, `MatchIndexSound`, `NextIndexInRange`, `ElectionSafety`, `OneLeaderUnlessForgotten`, `TermGrows`, `TypeOK` |
| `cm_live` | diverged logs, a leader with an entry of its own term, rounds without bound, one failed call, one stop | `Replicates` |
| `cm_stale_votes` (violation) | 4 elections, no timing assumption | `ElectionSafety` fails |
| `craft` | one CM with one peer in six situations: a follower that commits faster than its client reads, a leader, a leader shut down, a change of lead, a revival after a shutdown, a restart; channels of capacity 1 | `TimerRuns`, `DeliveredDurable`, `WedgeNeedsBacklog`, `Delivers`, `SubmitReturns`, `StopReturns`, `TypeOK` |
| `craft_stop` (violation) | one leader, one command, one `Stop` | `CleanShutdown` fails |
| `kv_service` | 2 services, 2 clients (append, CAS), 3 attempts and 1, logs of 2, in two situations: leadership that moves and comes back; one that moves once, and a restart | `ExactlyOnce`, `AnswersItsOwn` |
| `kv_plain` | 2 services, 3 clients (put, CAS, get) in five situations: a crash during a request that is sent again, or during a write and a read; a service that does not answer; leadership that moves and comes back, for a request of three attempts or for two requests; and subscriptions left behind by entries that were lost (a state TLC reaches from the start) | `AttemptLinearizable`, `FailedIsNotRun` |
| `hraftd` | 3 nodes, 2 of them founders, 3 clients (a POST of two keys, a DELETE, joins new, repeated, clashing and concurrent) in three situations: snapshot and restart, two moves of leadership, a join during one | `StoreIsOfLog`, `AnsweredIsDone` |
| `torrent` | 2 workers, one honest, 2 pieces of 3 and 2 units, blocks of 2, 2 faults | the torrent properties, and `DownloadEnds` |
| `goraft` | 3 servers after a first election, 2 rounds of calls (vote, heartbeat, or `Apply` of none to two commands), requests of one entry, 1 crash, logs of 3 | `Durable`, `VotesOnce`, `TermGrows` |
| `kademlia` | keys of 3 bits, buckets of 3, 4 joins and a ping; a lookup of up to 5 goroutines, two of which go deeper, with a join and a ping | `TableSound`, `NotFoundMeansUnknown`, `RemovesUnresponsive`, `LookupCleansUp` |
| `gossip` | 3 nodes in three situations: two broadcasts at once over a chain, stars and cycles of peers, one node forwarding to one peer only; the loop of a node; both; one server that shuts down or process that ends | `BroadcastReaches`, `BroadcastEnds`, `SilentForgotten` |

**What the exceptions in the properties say.** Several properties are as strong as the
code allows and name what they except. `WedgeNeedsBacklog`: a CM *can* wedge, with
`AppendEntries` holding the lock and waiting for a full channel whose reader waits for the
lock; it takes more commits than the channel has room for. `DeliveredDurable` holds until
the channel is closed; afterwards a CM that a late reply has revived can deliver what it
has not stored. `SubmitReturns` is about a CM that leads: once it has lost the lead, the loop that
reads `triggerAEChan` has ended, and a caller of `Submit` may be stuck for good, although
craft.go:215 says that it "doesn't block". `StopReturns` counts from where `Stop` has the lock and
has marked the CM: on a wedged CM it never gets that far (craft.go:242). `Durable`: a file that
says the log is empty cannot be restored. `AttemptLinearizable` speaks of attempts: a request
that was sent again may have been executed by an earlier attempt as well, which for this service,
without request IDs, nothing prevents. `AnsweredIsDone`: a join that was told 200 because the
node is a member already may rest on a configuration that is never committed.
`PipelineBounded` is about well-behaved peers; p2p.go:19 states the bound of any client, but blocks
nobody asked for lower the backlog. `LookupCleansUp`: a third branch that finds the target blocks for ever.
`RemovesUnresponsive`: a bucket that changed during the ping may lose another contact.
`BroadcastEnds`: a broadcast that goes round in a circle of nodes deadlocks, and so do two that
wait for each other's locks. `BroadcastReaches` is about nodes that have no more peers than
`BROADCAST_COUNT` and peers known by their ID. `SilentForgotten`: what is kept under the ID of a
peer that has ended goes for good; its address may come back under the ID 0 for ever, and is
taken off each time.

**Bounds.** The bounds are named constants and stand in the guards. Three CMs are
the smallest cluster in which a majority excludes somebody. The deep situations of
replication need several elections first; rather than raising the bounds until TLC
reaches them, `MCConsensusModule` starts from such a situation, written out
(`LedInit`, `Diverged`): every one of these states can be reached from `Init`, and the
comments say how. Where several situations need different bounds, the MC module starts in
all of them, each with its own budget, in one run. Each property has a mutant, a plausible
mistake in the code (a vote not persisted, an old request that overwrites, a channel read
once too few), with which TLC finds it violated in the same instance: the bounds are large
enough for the hazard to bite. Channels of 16 are reduced to 1, which only makes
the wedge come sooner; `ReadyCap` stands in the property.
`Symmetry` is used only where no liveness is checked.
Deadlock is not checked where the instance stops for want of budget.

**Fairness.** `cm_live` assumes weak fairness of every call's next step (goroutines
are scheduled, a call is answered or fails), of the leader's heartbeat (a 50 ms
timer in the code) and of `commitChanSender`. It assumes nothing of elections, failures or
clients. In that instance a call that has failed is not answered, and there is one such.
`torrent` assumes that workers are scheduled, that an honest peer answers, and
strong fairness of taking a piece off the queue, since Go's channels serve waiting
receivers in order: a worker that always waits is not passed over for ever.
`craft` assumes that goroutines are scheduled, and strong fairness of the heartbeat loop's
receive from `triggerAEChan`, which competes with the timer in one `select`: `select` chooses
at random. It also assumes that calls end, which `context.Background()` does not guarantee: it
makes up for the slots of the model, which a loop would else wait for; in the code it would not
wait. Nothing is assumed of peers, elections or callers. `kademlia`: goroutines run
and calls end (they have a timeout). `gossip`: strong fairness of the steps of a call, which
compete for a mutex, since Go's mutex starves nobody; weak fairness of the loop's tick
and of its reaction to a call that fails.

**Timing.** `Timely` says that a CM's calls have ended when its election timer
fires. In the code the calls take at most 75 ms (`RPCProxy`) and the timer at least
150 ms, so this is what the program runs under; it is a bet on timing, not a
guarantee, and `cm_stale_votes` shows what it carries. `NextIndexInRange` and
`MatchIndexSound` rest on it too: it keeps a reply of an earlier leadership from being
handled in a later one; and `TermGrows`, which it spares the replies of older
elections. Likewise `LogStep` of the two KV services lets a service win back
the leadership only when none of its handlers waits for a commit: the client gives a handler
50 ms, an election takes at least 150 ms. Without it a handler could take another command of
its own service at the same index for the one it submitted.

### Findings

* `cm_stale_votes`: the reply handler of `startElection` compares a reply with the
  term of its own election and of the present checks only that the CM is a candidate
  (raft.go:502-513). A vote that arrives an election late is counted for the next term.
* `craft_stop`: a reply handler releases `cm.mu` and then sends on `newCommitReadyChan`
  (craft.go:584-585), which `Stop` may have closed in between (craft.go:249): the send panics.

Met while modelling, visible in the models and not stated as runs:

* part3's `startElection` persists neither the new term nor the CM's vote for itself
  (raft.go:471-481), although the fields are commented "Persistent Raft state on all
  servers". A leader that stops and restarts before it has stored anything may vote for
  another in the term it led, and a committed entry can be lost: j leads term 3 with an
  `AppendEntries` (term 3, from index 1, one entry X) on its way to k; j stops, restarts at
  term 2, and votes for i in term 3; i leads term 3 and commits Y and Z at k; then j's call
  arrives, is of k's term, and replaces Y, Z by X. The history variable `forgotten` records
  such leaderships. `ElectionSafety` and `LogMatching` hold with them;
  `OneLeaderUnlessForgotten`, `MatchIndexSound`, `LeaderCompleteness`, `ChosenDurable` and
  `Implements` are stated for behaviours without one.
* The goroutine of `leaderSendAEs` builds its arguments (raft.go:613) without looking again
  whether the CM still leads. A CM that has stepped down meanwhile sends a request of its *old*
  term with the entries of a *newer* one and the commit index it has learnt there. With five CMs
  this can make a CM deliver what was not chosen: s1 leads term 1, with s2 in that term too,
  takes `a`, sends it to s2 (the call is delayed) and spawns another round. s3 is elected
  in term 2 by s4 and s5, takes `b`, replicates it to s1 and s4 and commits it; s1 learns that
  index 1 is committed. Now s1's late goroutine sends s2 a request of term 1 with `b` and commit
  index 1, and s2, still in term 1, accepts it. Then the delayed request arrives, is of
  s2's term, and replaces `b` by `a`, which s2 takes for committed and delivers. This is a
  behaviour of 35 steps of the model with five CMs. With three, s3 would need the vote of s1,
  whose log is longer, or of s2, which must stay in term 1.
  The history variable `misdated` records requests of a term older than what they carry. What
  leaders hold and what is chosen is not affected; what *followers* take for committed, and
  deliver, is: `LeaderCompleteness` and `Implements` say so.
* A leader's `matchIndex` may be as large as its `nextIndex`, or larger: a conflict reply
  that was overtaken by the success of a later round sets `nextIndex` back. It does no
  harm, since both stay inside the log, which is what `NextIndexInRange` says.
* The handlers of both KV services take the command that is committed at their index for
  their own when it comes from the same service (part4kv kvservice.go:182-185, part5kv
  kvservice.go:196-199). With five servers a log of the minority may still hold an earlier
  command of the same service at that index, which can be committed in place of the
  handler's: it then answers OK for a command that is lost. The history field `alone` of a
  handler says that no such command was anywhere when it submitted, and `AttemptLinearizable` and
  `AnswersItsOwn` are about those; the instances of three servers cannot reach the other case.
* A request that part4kv's client sends again may be executed twice; a `Put` that is then answered
  reports its own value as the previous one (kvclient.go:49-52).
* Two gossip broadcasts that enter at different nodes hold a lock each and wait for the other's
  (routes.go:23-62), as does a single one in a circle of peers. A peer that has ended is learnt
  again under the ID 0 from those that have not noticed (gossip.go:104-110), for ever if two nodes
  tell each other.
* hraftd's `Join` looks at a configuration that may not be committed (store.go:193): a second join of
  a node is answered 200 while the first is still under way, and stays so when the
  leadership is lost and the first comes to nothing.
* A caller of craft's `Submit` that waits for room in `triggerAEChan` when the lead is lost is stuck
  (craft.go:229): the loop that would read has ended.
* part5kv's updater answers a duplicate with a command whose ServiceID is 0
  (kvservice.go:374-380); the handlers look at ServiceID first, so every service but
  number 0 reports "failed commit" where the code means to report "duplicate".
* GoRaft's `becomeLeader` looks neither at the state, which may have changed since the loop
  read it, nor at the term in which the votes it counts were given (raft.go:836-845): a server
  that has just voted for another in a newer term can make itself leader of that term.
* GoRaft's first persists write a page that announces one entry and no entry, so a server
  that restarts before it has appended anything cannot `restore` (`Crash` leaves it down).
* Kademlia's `GetContacts` keeps the contacts for which encoding *failed* (server.go:36-39).

## 4. Proofs

TLAPS checks the following for every value of the constants that satisfies the
named assumptions. The assumptions stand in the modules that declare the constants and TLC
evaluates them in the runs. Beyond types and finiteness they say: the requests of `HRaftd`
are ones its handlers accept (`RequestAssumption`, http/service.go:93); appended values are
sequences of pieces (`OpAssumption`; `Piece` is what a value is made of); a CM of `Craft` is
not its own peer (`PeerAssumption`); a log may have at least one entry (`LogBoundAssumption`).

No proof uses induction over data. Where an argument needs one, the least or the greatest
element of a set of numbers stands in for it (`HasLeast`): two logs that match at an index and
differ below have a greatest place where they differ, for example.

**ConsensusModuleProofs** (any finite, nonempty set of CMs, any number of lanes, any bounds). All but
`TypeCorrect` assume `Timely`.

* `TypeCorrect`: `Spec => []TypeOK`. One lemma per helper whose result is not
  obviously of its type (`MergeType`, `ConflictIndexType`, `CommittedType`, `ResumeType`),
  then one step per action.
* `ElectionSafe`: `ElectionSafety`, with failed calls, stops and
  restarts from storage. It is not inductive: that two leaders of one
  term are impossible comes from votes given long before. `ElectionInv` adds the
  history of granted votes and says: a vote binds its voter, in memory and in
  storage (`VotesBind`, the reason why `RequestVote` must persist); a reply that grants a
  vote is backed by one (`RepliesHonest`); a candidate's outstanding calls are of its
  present term (`CallsCurrent`, the one place where `Timely` is needed); a candidate or
  leader has voted for itself (`VotesForItself`); the voters an election has counted
  have voted for it (`CountHonest`); a leader has a majority behind it
  (`LeaderElected`). Two majorities meet (`QuorumsMeet`), the common voter is bound to
  both leaders or is one of them, and so they are one. Most actions cannot disturb
  any of this: `QuietStep` states what such an action does, once, and
  `StartElectionKeeps`, `RequestVoteKeeps`, `RequestVoteReplyKeeps` treat the three
  that can. The candidate's own vote, which is not persisted, is deliberately not part
  of the majority's bond; this is why the theorem says "at the same time".
* `TermsGrow`: no step but a restart takes a CM's term back. It needs
  `CallsCurrent` too: a reply handler compares with a saved term.
* `IndicesInRange`: `NextIndexInRange`. `NextInv` adds that a candidate has no
  `AppendEntries` outstanding that it would still react to (`CandidateQuiet`), and that what
  a leader's calls carry, and the conflict index of their answers, is inside its log
  (`CallsInside`). `AEFollows` says how one step may change a call, `LeadStep` what it may do
  to a leader; from these the invariant follows without looking at the action again.
* `OneLeader`: `OneLeaderUnlessForgotten`. `LeadershipInv` adds that whoever was ever
  elected had a majority (`ElectedBacked`), is bound to itself or has been succeeded
  (`ElectedHold`), that calls come only from the elected (`CallsElected`), and that the
  storage is not ahead of the memory (`StorageBehind`). `ElectionStep` sums up what any step
  does to terms, votes and storage of a CM: five cases instead of twenty actions.
* `LogsMatch`: `LogMatching`, with forgotten leaderships. A *link* is an entry with its
  place and the term of the entry before it; the links of a state are those of all logs
  and of all calls under way. `LinkInv` says that place and term determine the link
  (`LinksUnique`), which implies `LogMatching` (`LinksMatch`); that a term with entries
  has one owner, which no other can come to lead (`TermsOwned`, `Owns`: bound to itself, or
  succeeded by somebody who can write nothing in the term); that a leader's log covers
  all links of its term (`LeaderCovers`); and that the stored log is the log
  (`LogStored`). `MergeLinks` is the heart of it: the conflict search of `AppendEntries`,
  after the check of `prevLogTerm`, makes no link that was not there. So links are made only
  by `Submit`, beyond all of the leader's term (`SubmitKeeps`).

The rest is Raft's safety argument, for this code: forgotten leaderships excepted, as said. From
here on the proof does not look at actions but at what a step does: to a log (`LogStep`: it is
kept, the leader appends to it, a request is merged into it), to a call (`AEStep`), to a leader
(`LeaderStep`), to a candidate (`CandidateStep`), to what is committed and delivered
(`CommitStep`). Each is shown once for every action (`LogStepNext`, ...) and used for all
invariants.

* `MatchIndexTrue`: `MatchIndexSound`. `AckInv` says that what a leader has sent in its term is a
  part of its log (`SegmentsTrue`), so that an old request can only repeat what a newer one
  has said, and that whoever has confirmed n entries, by `matchIndex` or by an answer that has
  not been handled yet (`Acked`), stores a term at least the leader's and, if it is that term,
  the leader's first n entries (`AcksTrue`).
* `TermsInv`: terms do not decrease along a log (`TermsOrdered`), a leader has no entry newer
  than its term, and a candidate that does (one that a misdated request has reached) can no
  longer win (`CandidateNewest`, `Hopeless`): those who have the newer entry have the newer
  term too.
* A prefix p of a log is *firm* for a set A of CMs (`Firm`) when whoever was elected in p's last
  term or a newer one holds it, the CMs in A hold it and have stored a term that makes them keep
  it, nothing in a log or request of p's term or a newer one contradicts it, and a candidate of
  a newer term has no vote from A unless it holds p. What is firm stays firm, as long as the
  rest of a majority has not gone beyond p's term (`FirmStays`): this is where `UpToDate` in
  `RequestVote` is needed.
* Firmness for a majority cannot be established in one step, since confirmations arrive one by
  one while others campaign. `ChoosableInv` says what holds on the way: if a leader *could* still
  commit its first n entries, because each member of a majority has confirmed them or has
  not gone beyond the leader's term (`Choosable`), then they are firm for those who have confirmed.
  A new entry is firm for its leader (`FreshFirm`), and one confirmation adds one CM to A. The
  rule that only entries of the leader's own term are counted is what makes this true.
* `ChosenFirm`: what is chosen is firm for a majority. A commit is the case of `ChoosableInv`
  where all have confirmed; that the new and the old choice are prefixes of one another follows
  since both are firm and two majorities meet (`FirmsAgree`).
* `LeadersComplete` (`LeaderCompleteness`) and `ChosenStored` (`ChosenDurable`) follow: a leader was
  elected, so it holds what is firm; a majority's logs are its storage (`LogStored`).
* What a follower takes for committed needs more. `Dated`: without misdated requests no CM has an
  entry newer than the term it has stored. `KnowledgeTrue`: what a CM takes for committed is
  firm and in its log (`Knows`), what a request says is committed is firm and in the log of
  whoever accepts it (`Tells`), and what was delivered is a prefix of what is chosen. A request that
  carries less than the follower has cannot cut it below its commit index.
* `Refines`: `Implements`. `AgreementInv` is all of the above; `AgreementStep` maps every step to
  `Choose`, `Deliver`, `Reset` or a stuttering step of `Agreement`.

**TorrentDownloadProofs** (any workers, pieces, lengths and faults for which the
torrent is well formed):

* `Conservation` and `PutBackIsSafe`: every piece is in exactly one of the queue, one
  worker's hands and the file, and so the queue has room for whoever puts a piece
  back, and is not closed while anybody holds one. The inductive invariant is
  `QueueInv`: conservation, the types, and that the queue is closed exactly when all
  pieces are counted.
* `FileIsCorrect`: when Download returns, every unit of the file is right. `BufferInv`
  says that a buffer has the size of its piece and that what is reported has passed the
  hash; `FileInv` that a reported piece is in its place. `PiecesCover` is the
  arithmetic: the bounds of the pieces cover the file.
* `PipelineIsBounded`: `PipelineBounded`. `PipelineInv` says that what an honest peer was
  asked and has not answered is a chain of blocks without a gap, from what is downloaded to
  what is requested, as long as the backlog counts; so that nothing is outstanding when
  the piece is complete and the next one starts with a backlog of 0.
* `HonestConnects` says that neither theorem is empty for large torrents: the bitfield of an honest
  peer, of however many pieces, is one that `Connect` accepts.
* `TypeCorrect`.

**ReplicatedLogProofs** has the lemmas on the log below the services: an agreed prefix
stays, committed entries stay, leaders only append. The three modules below cite them.

* **HRaftdProofs**: `StoreTheorem` (`StoreIsOfLog`) and `AnsweredTheorem` (`AnsweredIsDone`).
  The store after n committed commands is a recursive function (`StoreAfter`); that it does
  not change when more is committed is proved with the least index where it would.
  `NodeInv` says that a node's store, its snapshot and the clone about to be written are each
  that of an index up to which its log agrees with the committed entries; `ChangeInv` that each key a
  handler has been through is committed, or waits in the log of a node that still leads;
  `WaitInv` that a handler that waits for `AddVoter` waits for a configuration with its node.
* **KVServicePlainProofs**: `LinearizableTheorem` and `FailedTheorem`. The invariant follows a
  command from the handler that submits it through the logs: a command that was not
  submitted is nowhere, one that was is at its index or nowhere (`Located`), one that was
  alone stays alone, and a subscription's channel holds what was committed at its index.
  `LastInv` says, of an attempt that was answered OK, that no handler and no log has it or a later
  one of its request, except as committed and once; `OrderInv` that the client has gone on to
  another request since.
* **KVServiceProofs**: `ExactlyOnceTheorem` and `AnswersItsOwnTheorem`. A service's table of
  last request IDs is that of the prefix it has applied (`IsLast`), what it ran was new to
  the table when it ran (`RanOnce`), and a handler is told "not a duplicate" only for a
  command that no earlier one of its client supersedes.

**GoRaftProofs** (any servers, terms and log lengths): `DurableTheorem`, `VotesOnceTheorem` and
`TermGrowsTheorem`. The file keeps old entries behind its length; `FileInv` says that term, vote
and, up to the length, the entries are those of the server, between any two handlers, and
`VotesKept` that every vote given is of a past term or the one the server has. `WrittenHolds` is
the heart of it: the last n entries, written over a file that has the others, make it hold the log;
n is 1 for a new leader, the size of the batch (or all, for an empty one) in `Apply`, and what
`NumNew` counts in a follower.

**CraftProofs** (any peers, any capacities of the channels): `TypeTheorem`,
`TimerRunsTheorem`, `DeliveredDurableTheorem` and `WedgeTheorem`. `IInv` counts the places a
commit notification can be in (the channel, the handlers about to send, the one that holds
the lock, the sender) against the commit index (`Backlog`), and relates what is delivered to
what is stored by `Begins`, which says that two logs share a prefix.

**Only model-checked**: liveness (`Replicates`, `Delivers`, `SubmitReturns`, `StopReturns`,
`DownloadEnds`, `LookupCleansUp`, `BroadcastEnds`, `SilentForgotten`), which is out of the
prover's reach, and `RemovesUnresponsive`, `TableSound` and `NotFoundMeansUnknown` of `Kademlia`,
whose heaps are written with recursive operators, which the prover does not accept.
`BroadcastReaches` of `Gossip` is a safety property that has no proof yet. Every safety property of
the other runs that are expected to pass is proved.

## 5. What is not modelled, and the plan

Theorems worth proving next: `BroadcastReaches` of `Gossip`; and that `ConsensusModule` implements
`ReplicatedLog`, which the services stand on, as it implements `Agreement`.

Modules worth extending: `GoRaft` with a `persist` of two writes and a crash between them, a
restart within the process (`Shutdown`, `Start`) and the wait of `Apply` for its result, and the
KV API above it; `KVService` with two callers that share a client; `Kademlia` with the
key-value map.

Not modelled, and why:

* That a request of part3 or goraft shares the array of the log and is encoded after the
  lock was released (part3 raft.go:619, goraft raft.go:699): a CM that steps down, cuts its log
  and appends in between would write into what is being sent. The models send what the
  goroutine saw under the lock.
* `raft/part1` and `part2`: earlier stages of part3, whose model contains them.
* `goraft/cmd/kvapi` and `stress`: a map over GoRaft; its answers depend on the wait of `Apply`.
* Kademlia's `Store` and `FindValue` (one map under one lock), the making and signing of keys,
  and the start and shutdown of its server; gossip's estimate of the number of nodes.
* hraftd's GET, a local read, and `-inmem`.
* `raft-example`, whose logic is a map under a third-party Raft, and `gossip/serf`, a
  demonstration of a third-party library.
* Parsing, trackers and handshakes of the torrent client, run once before the download.
* The load generator, the log visualisers and generated code.
