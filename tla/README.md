# A TLA+ verification of raft-kv

raft-kv is a replicated key-value store in C++ that speaks the Redis protocol and
replicates its writes with an implementation of Raft modelled on etcd's. This
directory holds TLA+ modules translated from its source, TLC configurations that
check them on small instances, and TLAPS proofs of the results that hold for every
instance. Paths below are relative to `raft-kv/` of the repository.

## 1. Inventory

| Component | State | Operations | Interacts with | What makes it correct |
|---|---|---|---|---|
| **Raft** (`raft/raft.cpp`) | term, vote, role, leader, votes received, a Progress per peer, the log, outgoing messages, proposal quota, timers | `tick`, `step` (one handler per message type and role), campaigns, `send` | RaftLog, Progress, RawNode | one leader per term; committed entries never change; nothing reaches `LOG_FATAL` |
| **RaftLog** (`raft/raft_log.cpp`) | committed and applied indexes over Unstable and Storage | `maybe_append`, `append`, `commit_to`, `restore`, `slice`, `term`, `next_entries` | Raft, Unstable, MemoryStorage | two halves read as one log |
| **Unstable, MemoryStorage** | entries and snapshot not yet saved / saved, with a dummy entry | `truncate_and_append`, `stable_to`, `restore` / `append`, `compact`, `create_snapshot`, `apply_snapshot` | RaftLog, RaftNode | nothing is lost or doubled where they meet |
| **Progress, InFlights** (`raft/progress.cpp`) | match, next, state, window of unacknowledged messages | `maybe_update`, `maybe_decreases_to`, `become_*`, `add`, `free_to` | Raft | match is true; the window is bounded and ordered |
| **RawNode, Ready** (`raft/node.cpp`, `raft/ready.cpp`) | previous soft and hard state | `propose`, `step`, `ready`, `advance`, `transfer_leadership`, constructors | Raft, RaftNode | what is handed out is saved, sent and applied once |
| **RaftNode** (`server/raft_node.cpp`) | applied and snapshot index | event loop, `pull_ready_events`, `maybe_trigger_snapshot`, `replay_WAL` | all of the above, WAL, Snapshotter, Transport, RedisStore | saved before sent; a restart finds what was promised |
| **WAL** (`wal/`) | one file, and the two buffers before it | `create`, `open`, `save`, `save_snapshot`, `read_all` | RaftNode | what a stopped process has promised is found again; what a kill leaves is a readable prefix |
| **Snapshotter** (`snap/`) | a file per snapshot | `save_snap`, `load` | RaftNode | a half-written file does no harm |
| **Transport** (`transport/`, `common/bytebuffer.cpp`) | a session with its send buffer per peer, a server session per connection | `send`, connect, write, read, reconnect | RaftNode | may lose and reorder, does not duplicate or make up; never falls silent |
| **RedisStore** (`server/redis_store.cpp`) | the map, pending requests, request ids | `set`, `del`, `get`, `keys`, `read_commit`, `get_snapshot`, `recover_from_snapshot` | RaftNode, RedisSession | the map is the replay of the log; an answer is given once and is true |
| **RedisSession** (`server/redis_session.cpp`) | a socket, its buffers, the RESP reader | the commands | RedisStore | replies in the order of the commands |
| **ReadOnly** (`raft/readonly.cpp`) | pending reads | `add_request`, `recv_ack`, `advance` | Raft | a read sees every earlier write |

A process has three threads. The raft thread runs RaftNode: ticks, proposals and
received messages are events of one `io_service`, and each ends with
`pull_ready_events`, which loops until nothing is left to save, send or apply. The
redis thread runs RedisStore and the sessions. The io thread runs the transport. They
post to each other; once, for a snapshot's data, the raft thread waits for the redis
thread. The hard behaviour is *between* nodes (lost and overtaking messages,
elections racing proposals, leadership transfers that get around the lease, followers
that lag behind a compaction), between the threads (a request's answer can come from
two places, a snapshot is taken while commits are queued), between the writes of one
event when the process is killed, and where Unstable and MemoryStorage meet.
`PROJECT.json` lists each hazard at its line.

## 2. Modules

| Module | Models |
|---|---|
| `Progress` | class Progress as records and operators; the window as a sequence |
| `RaftLog` | the log as Raft sees it, with the server's compaction and the replay of the WAL |
| `Raft` | the cluster: class Raft, RawNode, RaftNode's event loop, the network. Extends the two above |
| `MCRaft` | `Raft` for TLC: symmetry, a view |
| `InFlights` | the ring buffer behind the window; implements `Window` |
| `Window` | what InFlights promises: a bounded queue |
| `LogStorage` | RaftLog over Unstable and MemoryStorage during a Ready's life; implements `PlainLog` |
| `PlainLog` | what RaftLog promises: one log that only Raft's operations change |
| `MCLogStorage` | `LogStorage` for TLC: the leaders' logs |
| `WAL` | class WAL and its file as a record, with the places a write passes; reading it back |
| `NodeDisk` | one node's disk: RaftNode over `WAL` and the Snapshotter, stopped or killed between any two writes |
| `RedisStore` | the replicated map: RedisStore and RaftNode's side of it, two threads per node, over a log that Raft commits |
| `Glob` | the matcher of KEYS, and what a pattern means |
| `MCRedisStore` | `RedisStore` with `Glob` for TLC: keys and patterns |
| `Transport` | sessions, send buffers, connections, server sessions; implements `Network` |
| `Network` | what the transport promises Raft |
| `RaftProofs`, `RaftLogProofs`, `RaftSafetyProofs` | proofs about `Raft`: types, elections and flow control; the invariant of the logs; their safety |
| `InFlightsProofs` | proofs about `InFlights` |
| `LogStorageProofs`, `NodeDiskProofs`, `RedisStoreProofs`, `TransportProofs` | proofs about the module of that name |

### `Raft`

`node[i]` is node i's Raft object as a record with the code's field names. A method
is an operator from the old record to the new one, under the method's name
(`step`, `step_leader`, `handle_append_entries`, `become_candidate`, ...); messages
collect in the record's `msgs` as in `msgs_`. An action is one event:
`TickElection`, `LeaseExpires`, `TickHeartbeat`, `TickQuorum`, `Propose`,
`TransferLeadership`, `Restart` and `Deliver`. Each ends, in `Event`, with
`pull_ready_events`: the log is saved, committed entries are applied and taken off the
quota, a snapshot is made when due, and any subset of the messages reaches the
network, the rest is lost. `wire`, the messages in flight, is a bag: two that are
equal, such as the pre-vote answers of two rounds in one term, are delivered one by one,
and any message may overtake any other. `net` are its elements.

`Restart` is a signal that stops the process between two events, and a new start. What
`save` has to make durable (entries, term, vote) is then in the WAL. A HardState that
only raises the commit index is not (`is_must_sync`): it stays in `data_buffer`, which
`~WAL_File` drops, unless a later record takes it along. So the node comes back with its
commit index or an older one (`SavedCommits`). What a kill loses besides is the subject of
`NodeDisk`.

Abstractions, all of data: an entry is a term and a payload; sizes are counted in
entries; timers are the choice of when to tick, and the one comparison the lease makes
(`past`); a snapshot up to k is the first k entries; `votes_` is two sets; a Progress
exists only at a leader, which rebuilds all of them when it is elected. A node that
reached `LOG_FATAL` takes no further step. Bootstrap writes one committed
configuration entry per member, and membership then stays fixed.

`ballots`, `elected` and `peak` are histories that no action reads: every vote ever
recorded, every election ever won, and the highest commit index each node has ever had.
`StateMachineSafety`, `LeaderCompleteness` and `CommittedIsStable` speak of `peak`: an
entry that was handed to the store stays committed though a restart lowers the index.

What the code does against its own intent is modelled as the code does it: the answer
to a snapshot carries index 0 (`raft.cpp:1095`), `recent_active` is never cleared,
a forwarded transfer request names the forwarder, a pre-vote answer counts as a vote.

### `RaftLog`

`ents` keeps every entry from index 1 on; `offset` is the compacted prefix, which no
operator reads. `wal` is what a replay would yield: an append rewrites its tail, an
installed snapshot does not, so displaced entries above it come back on a restart.
`replay_WAL(l, c)` reads it back with commit index `c`.

### `LogStorage`

The life of a Ready in five steps: `TakeReady`, `ApplySnapshot`, `AppendEntries`,
`Publish` (with `maybe_trigger_snapshot`), `Advance`. RaftNode takes them without a
raft step in between; the applications in `tests/test_rawnode.cpp` propose between
`ready` and `advance`. The model allows appends, truncations and commits at every
point, which includes both. It restores snapshots only when no Ready is open, as in
RaftNode. With snapshots allowed there too, TLC finds that `stable_to` can take an
entry for saved that applying the snapshot then erases from storage: an application
that steps MsgSnap between `ready` and `advance` would lose it.

The entries that Raft may append come from `Logs`, the logs of leaders. They satisfy
Raft's log matching (checked as `LogMatching` in `Raft`), which `stable_to` needs:
it compares only the last entry's index and term.

### `WAL` and `NodeDisk`

Raft is reduced to what a Ready shows: HardState, log, received snapshots. An event
(`TermOrVote`, `AppendEntry`, `Commit`, `ReceiveSnapshot`) changes it within Raft's
rules (`Rising`: along what a leader has, and so along what is committed, terms never
fall); `pull_ready_events` then goes in single steps, `Save`, `SaveRecord`,
`OpenFile`, `WriteFile`, `Publish`, each one write. A record passes `data_buffer`
(until `sync`), the buffer of the FILE (until the C library writes it) and the file;
the code never calls fflush or fsync. `Stop` closes the file, `Kill` leaves any prefix
of the FILE's buffer, the next record possibly torn. `Start` is the constructor
of RaftNode: `load`, `read_all` with its truncation, `load_state`. `chosen` stands for
the cluster: an entry once committed stays committed. `damage` is history, what kills have
cost: records in the FILE's buffer ("lost"), the saving of a received snapshot
("install"), the time between the WAL's directory and its file ("create").

The properties say what that leaves. A stop loses nothing that was promised. A kill
may lose votes and acknowledged entries, which Raft does not allow and no property here
claims; but what is left is a prefix, in which no commit index is without its
entries, and the node starts again unless one of the three kinds of damage was done.
Losing an `install` also breaks `CommittedIsChosen` (run `disk_install`).

### `RedisStore`

`log` is what Raft has committed; `Choose` and `Lose` decide about proposals. Of each
node the redis thread works on `store` (the map, the pending requests, the queue of
posted handlers), the raft thread on `node` (posted proposals, applied and
snapshot index, the future it waits for). `Publish` posts commits and, when a
snapshot is due, `get_snapshot` behind them, and then waits; `SaveSnapshot` goes on
once the redis thread has run it. A session is any `Request` at any time.

A node hears of commits as long as the leader sends it MsgApps. `cut` are the nodes for
which that may have ended: the answer to a MsgSnap carries index 0 (`raft.cpp:1092`), so the
leader's Progress stays in Snapshot (`progress.cpp:132`), and a MsgSnap that is lost is
never reported (`raft_node.cpp:431`). `InstallSnapshot` and `LoseSnapshot` cut a node;
`Resume` ends that, when there is a new leader or a late MsgApp's answer, and may
never happen.

Modelled as the code does it: `del` is answered by the status of `propose`, before the
commit; ids start at 0 again with every process, so an entry of an earlier incarnation
that is published after the restart answers a request of the same id (`Impostor`; without
one, `SetIsApplied` says that OK to a set means that this request's own command is in the
map; `started` is history for it); a lost proposal is never answered; a received snapshot
answers nobody; and on a restart with entries above the snapshot the snapshot's data does
not reach the store (`raft_node.cpp:239`). The model leaves open whether there are
such entries, since a kill may have cost them. The last one is a loss of data: the map then
holds only what the WAL adds, and so does every later snapshot. No property catches it:
`whole` is history and marks the maps and snapshots that do not go back to such a start, and
`StoreIsReplay` and `Converges` speak only of those.

### `Glob`

`string_match_len` with characters as numbers, as a recursive function over positions
of pattern and string; `Matches` is the reference, a cut of the string into one piece per
token. They agree on all patterns of up to three tokens (stars, `?`, escaped and
plain characters, ranges, negated classes) for keys that are not empty. An empty
key is matched only by an empty pattern, not by `*`: the loop is not entered.

### `Transport`

One sender and one receiver. A frame is two units, meta and data; writes, breaks and
reads fall between units. `put` grows the buffer as ByteBuffer does; if a write is
outstanding then, the vector may have moved and the write reads freed memory: from then on
any unit of that write may be junk (`dangling`), and `grown` records it. The
refinement to `Network`, which lets anything happen after `damaged`, therefore
says: until a buffer grows under a write (4096 bytes at first), the transport is the
network of `Raft.tla`; `InOrder`, `LossNeedsABreak` and `SentIsSettled` are
claimed under the same condition. The theorems and runs about `Raft` inherit it.

## 3. Runs

All are breadth-first to the end within their bounds. `CHECK_DEADLOCK FALSE` is set
where the bounds themselves stop the model (or, in `node_disk`, a node may be dead); `inflights` checks for deadlock.

| Run | Instance | Shows |
|---|---|---|
| `raft_election` | 3 nodes, CheckQuorum, term 3, 2 messages in flight, 1 restart | `TypeOK`, `ElectionSafety`, `VoteIsStable`, and the inductive invariant `ElectionInv` |
| `raft_commit` | 3 nodes, term 5, 1 message, 2 heartbeats | `LeaderCompleteness`, `StateMachineSafety`. Five terms are what the overwritten-majority case of the Raft paper takes here; without the term check in `maybe_commit` it is found |
| `raft_replication` | 3 nodes, term 3, 2 messages, 1 proposal, 2 transfers | `LogMatching`, `MatchIsReal`, `NextInLog` (a leader's `next` for a follower stays within its own log), and `LeaderCompleteness` while transfers race proposals and elections |
| `raft_snapshot` | 3 nodes, CheckQuorum, SnapCount 3, CatchUp 0, term 3, 1 message, 1 proposal, 1 restart, 1 transfer, 1 heartbeat | `NoFatal`, `CommittedIsStable` with compacted logs, MsgSnap, replay with the commit index or an older one, and a transfer request forwarded to a leader that has lost its quorum. The three configuration entries and a leader's empty one are enough for a first snapshot; entries of another term then stand above it in a WAL |
| `raft_flow` | 2 nodes, pre-vote and CheckQuorum as the server sets them, term 3, window 2, 2 messages, 3 proposals, quota 2, 1 transfer, 1 heartbeat | `WindowOK`, `QuotaNeverOverestimates`, `OneVote`, the three that hold with pre-vote too |
| `inflights` | ring of 5, indexes 1..3 | `RingInv`, `RingIsAQueue` (refinement of `Window`); 5 makes the doubling buffer end at a size that is no power of two |
| `log_storage` | leaders' logs that part at indexes 2 and 3, a snapshot after two entries, one kept | `ReadsAreOneLog` (refinement of `PlainLog`), `SlicesAgree`, `NeverFatal`, `AppliedInOrder` |
| `node_disk` | term 2, 3 entries, 3 events, 2 restarts, a local snapshot every 2 entries, a full segment at 3 records | `StopKeepsPromises`, `CommittedIsChosen`, `DeathNeedsALoss`, `NoHoles`: two kills are enough for a torn tail that is overwritten and read again |
| `redis_store` | 2 nodes, 1 key, 1 value, 2 requests, 1 restart, a snapshot after every entry | `StoreIsReplay`, `AnsweredOnce`, `SetIsApplied`, `ErrorIsFinal`, `KeysExact`; under fairness `CommittedIsAnswered`, `Converges`. A set and a del of the key show every wrong order |
| `transport` | 3 messages and a debug frame, 1 break, a buffer of 4 units | `Implements` (refinement of `Network`), `InOrder`, `LossNeedsABreak`; under fairness `SentIsSettled`. Four units make two frames fit and the third grow the buffer |

Bounds are constants named in the modules: `MaxTerm`, `MaxNet`, `MaxProposals`,
`MaxRestarts`, `MaxTransfers`, `MaxBeats`, `MaxIndex`, `MaxEvents`, `MaxRequests`,
`MaxMessages`, `MaxTicks`, `MaxBreaks`. They stop actions from starting and change
none. Every property has a mutant, a definition `X_Y` before `X`, with which the
property fails under the run's own bounds: the bounds are large enough for the case
the property is about. `SYMMETRY` of the nodes is used in the
runs of `Raft`, which check no liveness.

**Fairness.** `RedisStore` assumes weak fairness of both threads' steps, since an
`io_service` runs what is posted, in order; and that a node which is not `cut` hears of
committed entries, since it has a leader in time that sends it MsgApps and heartbeats.
Of a node that is cut this is not assumed, nor that `Resume` ever comes, so the
liveness properties promise such a node nothing: `CommittedIsAnswered` allows that it is
cut while the request waits, and `Converges` is about nodes that in the end are not.
Nothing is assumed of requests, restarts, snapshots from others, or of Raft's choices.
`Transport` assumes it of the io threads, of a connect and a write coming to an end
(asio calls every handler) and of reading what has arrived; not of sends, ticks or
breaks. `Raft`, `LogStorage`, `NodeDisk` and `InFlights` assume none: a behaviour may
stop at any point.

Two runs show where code and documentation disagree:

- `raft_prevote`: `step_candidate` counts a granted MsgPreVoteResp as a vote when the
  node is already a candidate. The comment above it says that it does not. The
  server's configuration has pre-vote on; there `ElectedByQuorum` fails, and with it
  `ElectionSafety`. **The runs and the theorem about elections and logs are
  therefore about `PreVote = FALSE`**; only `raft_flow` and the theorems
  `TypeCorrect`, `VotesAreStable`, `VotesOnce`, `WindowIsInOrder` and `QuotaIsKept`
  cover the server's setting. With three nodes and pre-vote the same fault can give
  one term two leaders, and then neither `NextInLog` nor `NoFatal` is to be expected of
  the code: a follower that has committed 5 entries under one of them answers the other,
  whose log ends at 4, with 5; or, cut back by the second, it gets the first one's
  heartbeat with a commit index that is past its log, which is `LOG_FATAL`
  (`raft_log.cpp:195`). Both are therefore checked and proved for `PreVote = FALSE` only.
- `disk_install`: a follower holds a stale entry, receives a snapshot that replaces it,
  saves the HardState with the snapshot's commit index and is killed before the
  snapshot's file is complete. It restarts from its WAL with the stale entry and that
  commit index and hands the entry to the store. `raft_log.h:128` says that committed
  entries are on a quorum.

Two more disagreements are modelled as they are and are not runs of their own, since
they cost time and not safety: `maybe_decreases_to` in Probe accepts a rejection that
an acknowledgement has overtaken, against `progress.h:96`; a transfer request sent to a
follower makes that follower the target, against `node.h:67`.

## 4. Proofs

TLAPS checks them for every value of the constants under the named assumptions of the
modules: a finite, non-empty set of nodes, natural bounds, `CatchUp <= SnapCount`
(both are 100000 in the server), a window of at least 1; for `LogStorage` a set of
leader logs of which two that agree at an index agree up to it (Raft's log matching).

| Theorem | Says |
|---|---|
| `RaftProofs` | |
| `TypeCorrect` | `Spec => []TypeOK`, any configuration. `TypeOK` includes that offset, snapshot, applied and commit index and log end are in order and that the WAL is not shorter than the log |
| `VotesAreStable` | `Spec => VoteIsStable`, any configuration: terms never fall, a vote does not change within a term |
| `VotesOnce` | `Spec => []OneVote`, any configuration: a node grants one vote a term |
| `ElectionInvariant` | `PreVote = FALSE` implies `Spec => []ElectionInv` |
| `ElectionIsSafe` | `PreVote = FALSE` implies `Spec => []ElectionSafety` |
| `WindowIsInOrder` | `Spec => []WindowOK`, any configuration |
| `QuotaIsKept` | `Spec => []QuotaNeverOverestimates`, any configuration |
| `RaftSafetyProofs` | all for `PreVote = FALSE` |
| `SafetyInvariant` | `Spec /\ CleanRestarts => [](ElectionInv /\ SafetyInv)`, from which the next seven follow |
| `LogsMatchUp`, `CommitsAgree`, `LeadersAreComplete` | `Spec /\ CleanRestarts` implies `[]LogMatching`, `[]StateMachineSafety`, `[]LeaderCompleteness` |
| `CommitsAreStable` | `Spec /\ CleanRestarts => CommittedIsStable`: what a node has ever committed stays in its log, though a restart may lower its commit index |
| `MatchesAreReal`, `NextStaysInLog` | `Spec /\ CleanRestarts` implies `[]MatchIsReal`, `[]NextInLog` |
| `NobodyDies` | `Spec /\ CleanRestarts => []NoFatal` |
| `InFlightsProofs` | |
| `RingStaysInBounds` | `Spec => []RingInv` |
| `RingImplementsQueue` | the ring implements `Window` |
| `LogStorageProofs` | |
| `StorageInvariant` | `Spec => []StorageInv`, from which the next four follow |
| `SlicesAlwaysAgree`, `StorageNeverFatal` | `Spec => []SlicesAgree`, `Spec => []NeverFatal` |
| `AppliesInOrder` | `Spec => AppliedInOrder` |
| `StorageImplementsLog` | the two halves of the log implement `PlainLog` |
| `NodeDiskProofs` | |
| `DiskTypeCorrect` | `Spec => []TypeOK`, which includes the order of snapshot, applied and commit index and log end |
| `DiskInvariant` | `Spec => []DiskInv`, from which the next four follow |
| `StoppedKeepsPromises`, `CommittedReal` | `Spec => []StopKeepsPromises`, `Spec => []CommittedIsChosen` |
| `DeadNodeLost`, `EntriesWhole` | `Spec => []DeathNeedsALoss`, `Spec => []NoHoles` |
| `RedisStoreProofs` | |
| `StoreInvariant` | `Spec => []StoreInv`, from which the next four follow |
| `StoreTypeCorrect` | `Spec => []TypeOK` |
| `RequestsAnsweredOnce`, `SetsAreApplied`, `ErrorsAreFinal` | `Spec => []AnsweredOnce`, `[]SetIsApplied`, `[]ErrorIsFinal`; the second for every request whose id no entry of an earlier incarnation has taken |
| `TransportProofs` | |
| `TransportInvariant` | `Spec => []TransportInv`, from which the next four follow |
| `TransportTypeCorrect` | `Spec => []TypeOK` |
| `ArrivesInOrder`, `LosesOnlyByBreaks` | `Spec => []InOrder`, `Spec => []LossNeedsABreak` |
| `TransportImplementsNetwork` | the transport implements `Network` |

**Election safety.** `ElectionSafety` is not inductive: that two leaders of a term
cannot arise depends on messages in flight and on votes counted. `ElectionInv`
adds what is needed: every granted vote in flight or counted by a candidate is on
record (`VotesAreReal`); a node's recorded votes agree with its current term and vote
and are one per term (`OneVote`), which survives a restart because the vote is saved
before the message leaves; every leader on record has a quorum of recorded votes
(`ElectedByQuorum`); and without pre-vote no pre-vote message or pre-candidate exists
(`NoPreVotes`). Two leaders of a term then have quorums that share a voter, who voted
once. `OneVote` needs none of the rest and holds with pre-vote too, where election safety
fails: in the run `raft_prevote` a candidate wins without a quorum of votes, although nobody
votes twice.
`RaftProofs` shows first that each method keeps the record's type, then what each
method does to term, vote, role and messages, and then puts these together, one step
per action and conjunct.

**Flow control.** The window and the quota are a leader's own business: they hold whatever
the other nodes say, pre-vote or not. Neither is inductive. For the window (`Steady`)
the indexes must be ordered pairwise, since `free_to` drops a prefix. A leader's view of
itself must have an empty window and a match that is not below its log's end, since
`append_entry` raises that match without freeing a window. The quota is spent when a
proposal is appended and given back at the end of the event, when `pull_ready_events`
applies what was committed; in between it is bounded by the payload above what is applied
(`Pending`), and between events, where all that is committed is applied, this is
`QuotaNeverOverestimates`. `Flow` says this of one node, in the middle of an event too;
`FlowInv` of all nodes between events. The proof has one lemma for each method that
touches a `Progress` or the log and one for each handler, and needs nothing of the messages
but their type.

**The logs.** None of `LogMatching`, `StateMachineSafety`, `LeaderCompleteness` and
`MatchIsReal` is inductive, nor are they together: that a new leader has what an old one
committed depends on what nodes once held and acknowledged, and the variables do not keep
that. `SafetyInv` therefore says that there are a set `G` of logs (those there have been)
and a set `H` of acknowledgements (`<<v, t, A>>`: in term `t` node `v` has held `A`, a
beginning of the log of `t`'s leader) that account for the state:

- `Logs`: logs of `G` whose last entries have one term begin one another; terms never
  fall along a log and belong to elected leaders.
- `Acks`: who has acknowledged a log of its last entry's term still has it, unless the
  log is `Doomed`: a quorum has passed that term without acknowledging it.
- `Complete`: of two logs the one of the later term has all of the other, or the other
  is doomed. A log that a quorum has acknowledged (`Chosen`) is never doomed, so this is
  leader completeness before anybody knows of a commitment.
- `Votes`: a candidate has what its recorded voters have acknowledged. This is
  `is_up_to_date`, kept until the election is decided; it makes the winner's log
  `Complete`.
- `NodeOK`: a node's log is in `G`, what it has committed begins a chosen log (`Sure`), and a
  leader's matches are acknowledgements (`View`).
- `Peaks`: what a node has ever committed (`peak`) is in its log and begins a chosen one.
- `MsgOK`: a message says what its sender's log and acknowledgements bear out, whenever it
  arrives: a MsgApp is a part of a log of the leader of its term, a heartbeat's commit
  index is within what its receiver has acknowledged, and so on.

A step adds to `G` the beginnings of the node's new log and to `H` what it now has of its
leader's. `Outcome` lists the three ways in which a node may come out of an event: it
rests (its log is untouched), follows (it has taken over part of a leader's log) or
leads. `RaftLogProofs` shows that an event with an outcome keeps `SafetyInv`;
`RaftSafetyProofs` goes through the handlers and shows that each has one. That is
where the code's decisions count: `maybe_append` truncates only at a conflict, so a late
MsgApp does not take back what is acknowledged; `commit_to` is never past what was acknowledged,
since `bcast_heartbeat` sends no more than the match; `maybe_commit` counts only
entries of the leader's term. TLC checked `SafetyInv` first, with `G` and `H` as history
variables, on three nodes.

**`CleanRestarts`.** The log theorems assume that a node which restarts has in its WAL
just its log: `[][\A i : Restart(i) => wal = ents]_vars`. The commit index may fall: what
the node has committed before begins a chosen log all the same (`Peaks`). A snapshot that `restore`
installs replaces the log, but nothing removes the entries above it from the WAL, and
`replay_WAL` puts them back behind the snapshot. Without the assumption `LogMatching` is
false of the model; TLC confirms this schedule of five nodes step by step. Node 1 leads
term 2, and it and node 2 hold entries 6 and 7 of that term. Nodes 3, 4 and 5 elect node 3
in term 3, commit another entry 6 and compact it, so node 3 sends node 2 a snapshot up to
6. Node 2 restores it and restarts: its entry 7 of term 2 is back, behind entry 6 of term
3. Node 1 has the same entry 7, behind another entry 6. With three or four nodes the
quorum of term 3 needs node 1 or 2, which refuse their votes to a shorter log, and five
nodes are out of a run's reach. `raft_snapshot` checks `NoFatal` and `CommittedIsStable`
on three nodes with any restart. Only a snapshot separates WAL and log, and the next
append rejoins them: it rewrites the WAL's tail. For the properties other than
`LogMatching` the assumption may be more than they need. The theorems of `RaftProofs` do
not need it.

**The ring.** `RingInv` says that the window lies within the buffer as grown so far
and wraps only once the buffer has its full size. Without the second half `add` could
write outside the buffer. Every operation then acts on `Contents`, the ring read from its
start, as the queue's operation does.

**The two halves of the log.** The difficulty is a Ready that is being worked on: Raft
may truncate Unstable, commit and restore a snapshot between any two steps of the
application, which then saves and applies what is no longer Raft's log. `StorageInv`
therefore speaks of three logs, all leaders' logs: the one that MemoryStorage holds, the
one that Raft reads, and the one the Ready was taken from (`SavedAs`, `ReadsAs`,
`TakenAs`), the last two of which agree on all that is or will be applied. `Held` says
why `stable_to` is harmless: either Unstable still has the Ready's last entry, or what
replaced it ends above all that is applied. `Staged` is what each stage of the work
relies on (where the storage ends, how far compaction has come), `Ordered` how the
indexes lie. `NeverFatal` is a part of the invariant and needs all of it; the refinement
maps the reads of `RaftLog`, not its variables: `Base` and `Ents` are what `term` and
`slice` answer, and every step of the application is a stutter of `PlainLog` or one of
its compactions.

**The disk.** What a restart finds is read from a file in which later records displace
earlier ones: an entry displaces all that stood from its index on, the last HardState
counts, entries up to the loaded snapshot do not. `DiskInv` therefore says of the records
themselves that every entry above the snapshot follows the one before it with nothing in
between that displaces either (`Gapless`, and so reading leaves no hole), that commit
indexes never fall and snapshot records are the cluster's (`Written`); of what is read,
that up to its commit index it is what the cluster committed (`Agrees`) and that it has
the node's log (`Holds`). `Agrees` is claimed of every beginning of the file that a kill
may leave, which is where the order of the writes counts: `save` puts entries before the
HardState that commits them, `save_snap` the WAL's record before the snapshot's file, and
only `WriteFile`, which makes the snapshot one that `load` finds, moves the index from which
the file is read. What a stop keeps needs that `data_buffer`, which a stop drops, holds
HardStates only, none of a new term or vote (`is_must_sync`). A local snapshot half
written does no harm, since the file it may displace is not the one in use: terms never
fall along what is committed, so its name is newer. `Staged` says where in a Ready each of
this holds.

The exception in `NoHoles` came out of the proof: within a run's bounds no kill at all
leads to a missing entry. In general one that cut off the saving of a received snapshot can:
with a stale entry for committed, the node's own snapshots may be older by name than the
last received one, which `load` then prefers, and a later received snapshot leaves a gap
above it. TLC confirms such a schedule of 8 events and 3 restarts step by step.

**Requests and answers.** A request has an id that is unique only within an incarnation
of its node, and four places where it may be: pending, posted to the raft thread, with
Raft (proposed or committed), waiting as a commit in the redis thread's queue. `StoreInv`
says of every node that an id that waits has no answer and one that is answered waits no
more (`Numbered`); that nothing has been said about a command on its way or with Raft
(`Posted`, `Proposed`), which is `ErrorIsFinal` made inductive; that Raft commits a
proposal once (`Committed`) and every committed entry is published once (`Published`),
so that the commit that answers a set is not applied later (`Confirmed`, which is
`SetIsApplied` made inductive: a set that has been told OK has an entry of its id that this
process has published, and unless that is an impostor it is the request's own). The
incarnation is needed in all of them: the code's ids start at 0 again after a restart, and
where a commit of the old incarnation is taken for a request of the new one, only
`SetIsApplied` allows for it.

**The way of a message.** A message's data is posted, unsent in the buffer, in the stream of
one connection, or received. `InLine` says that along this way messages stand in the
order they were sent, also across connections; since a number that is below another is
not that other, it also says that a message is at one place. `Known` says that all of
them have been sent, `Whole` that what is unsent is frames, of which the first may have lost
its meta. As long as no buffer has grown under a write, `Clean` says that the receiver
of every connection finds what it expects and that the buffer goes on where the stream
ends, and, while there has been no break, `Complete` that nothing is missing. Every
step is then one of `Network`'s (`NetStep`): it loses messages, sends one, delivers
one, or does damage.

Each invariant was checked by TLC on the constants of its run before it was proved.

Only model-checked:

- In `Raft`, the log's safety across restarts that read replaced entries back (see
  `CleanRestarts`), for three nodes.
- What a pattern matches (`Glob`, a recursive definition).
- `StoreIsReplay`: the map is a fold over the log, and what a fold computes needs
  induction over data, which the installed provers cannot do.
- Liveness (`SentIsSettled`, `CommittedIsAnswered`, `Converges`), which is beyond this prover.

## 5. Not modelled

- ReadIndex and ReadOnly, membership changes and learners, MsgUnreachable and
  MsgSnapStatus: the server never starts any of them.
- The bytes of messages, WAL records and snapshot files: a record is whole or torn. So
  the cap of a record's length at 16 MB (`wal.h:33`) does not show.
- RESP and the sessions' buffers: parsing is hiredis' work, and the reply buffer is
  the same ByteBuffer with the same hand-over as in `Transport`. Replies to pipelined
  commands can leave out of order, and a read that ends inside a line loses the rest of
  it (`redis_session.cpp:93`).
- The end of a process: `stop` joins a thread from a signal handler
  (`raft_node.cpp:467`).
- Liveness of Raft. Two of its hazards are that the code does not have the property one would
  state: a follower that was sent a snapshot stays in Snapshot (`raft.cpp:1095`; `cut` in
  `RedisStore`), and a leader that is cut off need not step down (`raft.cpp:1508`).
- The composition of a killed node with the other nodes: `Raft` restarts nodes that were
  stopped, from a WAL that lacks at most the newest commit index; `NodeDisk` says when
  that is what they have, and what a kill may take besides, votes and entries included.

## 6. Plan

1. `Raft` without `CleanRestarts`: a log may then be a leader's log with an older tail
   behind it. Which of the log's properties survive that needs an invariant about such tails.
2. `NodeDisk` with a composition of several nodes, so that what a kill costs one node is set
   against what the others have.
