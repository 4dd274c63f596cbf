---------------------------- MODULE RedisStore ----------------------------
(***************************************************************************)
(* The replicated map: RedisStore (server/redis_store.cpp) with the        *)
(* commands of its sessions (server/redis_session.cpp), and the part of    *)
(* RaftNode (server/raft_node.cpp) that proposes for it, publishes to it   *)
(* and takes and installs its snapshots.                                   *)
(*                                                                         *)
(* Raft is external: `log' is the sequence of committed commands, the same *)
(* on every node; `proposed' holds the proposals that it has accepted and  *)
(* may still commit or lose.  Every node has two threads: the raft thread  *)
(* takes its work from `posts', the redis thread from `queue'.  `cut' has   *)
(* the nodes for which the leader's Progress stays in Snapshot: it sends    *)
(* them no entry and no higher commit index.                               *)
(***************************************************************************)
EXTENDS Integers, Sequences, SequencesExt

CONSTANTS Node, Key, Value,
          SnapCount,    \* snap_count_
          \* bounds of the model
          MaxRequests, MaxRestarts

ASSUME StoreAssumption == {SnapCount, MaxRequests, MaxRestarts} \subseteq Nat

VARIABLES log, proposed,
          store,    \* of every node: what the redis thread works on
          node,     \* of every node: what the raft thread works on
          snap,     \* of every node: its newest snapshot, which is also on disk
          cut,      \* the nodes that may never hear of a further commit
          used      \* requests and restarts so far

vars == <<log, proposed, store, node, snap, cut, used>>

Contents == UNION {[ks -> Value] : ks \in SUBSET Key}
EmptyMap == [k \in {} |-> k]

\* RedisCommitData
Command == [type : {"set"}, keys : {{k} : k \in Key}, value : Value]
           \cup [type : {"del"}, keys : SUBSET Key \ {{}}, value : {"none"}]

\* RaftCommit.  `epoch', the incarnation of the node that proposed it, is not
\* part of the program's record.
RaftCommit == [node_id : Node, commit_id : Nat, epoch : Nat, redis_data : Command]

\* A snapshot; `whole' is history: its data goes back to the empty map.
Snapshot == [index : Nat, data : Contents, whole : BOOLEAN]

Task == [type : {"status"}, commit_id : Nat, command : {"set", "del"}, status : {"ok", "error"}]
        \cup [type : {"read_commit"}, commit : RaftCommit]
        \cup [type : {"get_snapshot"}]
        \cup [type : {"recover"}, from : Snapshot]

Answer == [command : {"set", "del"}, status : {"ok", "error"}]

\* `answered' is history: the answers given to every request.
StoreType ==
    [key_values : Contents, whole : BOOLEAN, next_request_id : Nat,
     pending_requests : UNION {[ids -> {"set", "del"}] : ids \in SUBSET (0..MaxRequests)},
     queue : Seq(Task), answered : [0..MaxRequests -> Seq(Answer)]]

\* `future' is what maybe_trigger_snapshot waits for; history are `started', where
\* applied_index_ began, and `installed', the index of the last snapshot received.
NodeType ==
    [posts : Seq(RaftCommit), applied_index : Nat, started : Nat, snapshot_index : Nat,
     installed : Nat,
     future : {"none", "waiting", "ready"}, data : Contents, whole : BOOLEAN, epoch : Nat]

-----------------------------------------------------------------------------
(* The map. *)

\* Mutant: a deleted key stays, without a value.
Applied_Blank(kv, command) ==
    [k \in DOMAIN kv \cup command.keys |-> IF k \in command.keys THEN command.value ELSE kv[k]]

\* read_commit's switch on the type of the command
Applied(kv, command) ==
    IF command.type = "set"
    THEN [k \in DOMAIN kv \cup command.keys |-> IF k \in command.keys THEN command.value ELSE kv[k]]
    ELSE [k \in DOMAIN kv \ command.keys |-> kv[k]]

\* What the first i commands of the log make of the empty map
Replayed(i) ==
    FoldLeft(LAMBDA kv, c : Applied(kv, c.redis_data), EmptyMap, SubSeq(log, 1, i))

-----------------------------------------------------------------------------
(* The redis thread. *)

\* Mutant: the callback is called and stays.
answer_Keep(st, id, status) ==
    IF id \in DOMAIN st.pending_requests
    THEN [st EXCEPT !.answered[id] = Append(@, [command |-> st.pending_requests[id], status |-> status])]
    ELSE st

\* The callback of a pending request is called and erased.
answer(st, id, status) ==
    IF id \in DOMAIN st.pending_requests
    THEN [st EXCEPT !.answered[id] = Append(@, [command |-> st.pending_requests[id], status |-> status]),
                    !.pending_requests = [i \in DOMAIN @ \ {id} |-> @[i]]]
    ELSE st

\* The answer to propose, posted back by set and by del
on_status(st, task) ==
    IF task.command = "set" /\ task.status = "ok" THEN st
    ELSE answer(st, task.commit_id, task.status)

\* Mutant: a commit of any node answers.
read_commit_AnyNode(st, n, c) ==
    answer([st EXCEPT !.key_values = Applied(@, c.redis_data)], c.commit_id, "ok")

\* Mutant: the id that comes next is answered.
read_commit_NextId(st, n, c) ==
    LET st1 == [st EXCEPT !.key_values = Applied(@, c.redis_data)]
    IN  IF c.node_id = n THEN answer(st1, c.commit_id + 1, "ok") ELSE st1

read_commit(st, n, c) ==
    LET st1 == [st EXCEPT !.key_values = Applied(@, c.redis_data)]
    IN  IF c.node_id = n THEN answer(st1, c.commit_id, "ok") ELSE st1

recover_from_snapshot(st, from) ==
    [st EXCEPT !.key_values = from.data, !.whole = from.whole]

\* The store after the task at the head of its queue
Run(st, n) ==
    LET task == Head(st.queue)
        rest == [st EXCEPT !.queue = Tail(@)]
    IN  IF task.type = "status" THEN on_status(rest, task)
        ELSE IF task.type = "read_commit" THEN read_commit(rest, n, task.commit)
        ELSE IF task.type = "recover" THEN recover_from_snapshot(rest, task.from)
        ELSE rest    \* get_snapshot

\* The redis thread runs one handler; get_snapshot's fulfils the promise.
RunTask(n) ==
    /\ store[n].queue # <<>>
    /\ store' = [store EXCEPT ![n] = Run(@, n)]
    /\ node' = IF Head(store[n].queue).type = "get_snapshot"
               THEN [node EXCEPT ![n].future = "ready", ![n].data = store[n].key_values,
                                 ![n].whole = store[n].whole]
               ELSE node
    /\ UNCHANGED <<log, proposed, snap, cut, used>>

\* RedisStore::set and del, called from set_command and del_command: a new id,
\* a pending request, a proposal for the raft thread.
Request(n, command) ==
    /\ used.requests < MaxRequests
    /\ LET id == store[n].next_request_id
           c == [node_id |-> n, commit_id |-> id, epoch |-> node[n].epoch, redis_data |-> command]
       IN  /\ store' = [store EXCEPT
                 ![n].next_request_id = @ + 1,
                 ![n].pending_requests =
                     [i \in DOMAIN @ \cup {id} |-> IF i = id THEN command.type ELSE @[i]]]
           /\ node' = [node EXCEPT ![n].posts = Append(@, c)]
    /\ used' = [used EXCEPT !.requests = @ + 1]
    /\ UNCHANGED <<log, proposed, snap, cut>>

-----------------------------------------------------------------------------
(* The raft thread.  While it waits for the future it does nothing else. *)

Post(n, tasks) == store' = [store EXCEPT ![n].queue = @ \o tasks]

\* Mutant: the status is not the one of the proposal.
Propose_Unrelated(n) ==
    /\ node[n].future = "none" /\ node[n].posts # <<>>
    /\ LET c == Head(node[n].posts)
       IN  \E status \in {"ok", "error"} :
              /\ proposed' = proposed \cup {c}
              /\ Post(n, <<[type |-> "status", commit_id |-> c.commit_id,
                            command |-> c.redis_data.type, status |-> status]>>)
    /\ node' = [node EXCEPT ![n].posts = Tail(@)]
    /\ UNCHANGED <<log, snap, cut, used>>

\* RaftNode::propose: Raft takes the proposal, or drops it and says so.
Propose(n) ==
    /\ node[n].future = "none" /\ node[n].posts # <<>>
    /\ LET c == Head(node[n].posts)
       IN  \E status \in {"ok", "error"} :
              /\ proposed' = IF status = "ok" THEN proposed \cup {c} ELSE proposed
              /\ Post(n, <<[type |-> "status", commit_id |-> c.commit_id,
                            command |-> c.redis_data.type, status |-> status]>>)
    /\ node' = [node EXCEPT ![n].posts = Tail(@)]
    /\ UNCHANGED <<log, snap, cut, used>>

\* Mutant: the snapshot is taken before the entries are published.
publish_SnapshotFirst(tasks, due) ==
    IF due THEN <<[type |-> "get_snapshot"]>> \o tasks ELSE tasks

\* What publish_entries and then maybe_trigger_snapshot post
publish(tasks, due) ==
    IF due THEN Append(tasks, [type |-> "get_snapshot"]) ELSE tasks

\* pull_ready_events with committed entries
Publish(n) ==
    /\ node[n].future = "none"
    /\ \E i \in node[n].applied_index + 1..Len(log) :
          LET due == i - node[n].snapshot_index > SnapCount
          IN  /\ Post(n, publish([k \in 1..(i - node[n].applied_index) |->
                            [type |-> "read_commit", commit |-> log[node[n].applied_index + k]]], due))
              /\ node' = [node EXCEPT ![n].applied_index = i,
                                      ![n].future = IF due THEN "waiting" ELSE @]
    /\ UNCHANGED <<log, proposed, snap, cut, used>>

\* Mutant: the raft thread does not come back.
SaveSnapshot_Stuck(n) ==
    /\ node[n].future = "ready"
    /\ snap' = [snap EXCEPT ![n] = [index |-> node[n].applied_index, data |-> node[n].data,
                                    whole |-> node[n].whole]]
    /\ UNCHANGED <<log, proposed, store, node, cut, used>>

\* maybe_trigger_snapshot goes on once it has the data.
SaveSnapshot(n) ==
    /\ node[n].future = "ready"
    /\ snap' = [snap EXCEPT ![n] = [index |-> node[n].applied_index, data |-> node[n].data,
                                    whole |-> node[n].whole]]
    /\ node' = [node EXCEPT ![n].future = "none", ![n].data = EmptyMap, ![n].whole = TRUE,
                            ![n].snapshot_index = node[n].applied_index]
    /\ UNCHANGED <<log, proposed, store, cut, used>>

\* Another node's snapshot arrives: save_snap and publish_snapshot.  The answer
\* has index 0 (handle_snapshot), so the sender's Progress stays in Snapshot.
InstallSnapshot(n) ==
    \E m \in Node :
        /\ node[n].future = "none" /\ snap[m].index > node[n].applied_index
        /\ snap' = [snap EXCEPT ![n] = snap[m]]
        /\ node' = [node EXCEPT ![n].applied_index = snap[m].index,
                                ![n].snapshot_index = snap[m].index,
                                ![n].installed = snap[m].index]
        /\ Post(n, <<[type |-> "recover", from |-> snap[m]]>>)
        /\ cut' = cut \cup {n}
        /\ UNCHANGED <<log, proposed, used>>

\* A MsgSnap is sent and lost: nobody reports it (report_snapshot is empty).
LoseSnapshot(n) ==
    /\ n \notin cut /\ \E m \in Node \ {n} : snap[m].index > 0
    /\ cut' = cut \cup {n}
    /\ UNCHANGED <<log, proposed, store, node, snap, used>>

\* A new leader begins with a Probe; a MsgApp that was late has its answer end
\* the Snapshot, too.
Resume(n) ==
    /\ n \in cut /\ cut' = cut \ {n}
    /\ UNCHANGED <<log, proposed, store, node, snap, used>>

-----------------------------------------------------------------------------
(* A node starts. *)

\* The store that RedisStore's constructor makes.  replay_WAL hands the
\* snapshot's data over only if the WAL holds no entry above the snapshot.
NewStore(s, handed) ==
    [key_values |-> IF handed THEN s.data ELSE EmptyMap,
     whole |-> s.index = 0 \/ (handed /\ s.whole),
     next_request_id |-> 0, pending_requests |-> EmptyMap, queue |-> <<>>,
     answered |-> [i \in 0..MaxRequests |-> <<>>]]

\* schedule
NewNode(s, epoch) ==
    [posts |-> <<>>, applied_index |-> s.index, started |-> s.index,
     snapshot_index |-> s.index, installed |-> 0,
     future |-> "none", data |-> EmptyMap, whole |-> TRUE, epoch |-> epoch]

NoSnapshot == [index |-> 0, data |-> EmptyMap, whole |-> TRUE]

\* A process is killed and started again.  Its WAL may have entries above the
\* snapshot, committed or not, or have none: a kill drops what was not flushed.
Restart(n) ==
    /\ used.restarts < MaxRestarts
    /\ \E handed \in BOOLEAN : store' = [store EXCEPT ![n] = NewStore(snap[n], handed)]
    /\ node' = [node EXCEPT ![n] = NewNode(snap[n], @.epoch + 1)]
    /\ used' = [used EXCEPT !.restarts = @ + 1]
    /\ UNCHANGED <<log, proposed, snap, cut>>

Init ==
    /\ log = <<>> /\ proposed = {} /\ cut = {}
    /\ snap = [n \in Node |-> NoSnapshot]
    /\ store = [n \in Node |-> NewStore(NoSnapshot, TRUE)]
    /\ node = [n \in Node |-> NewNode(NoSnapshot, 0)]
    /\ used = [requests |-> 0, restarts |-> 0]

-----------------------------------------------------------------------------
(* Raft. *)

Choose(c) ==
    /\ log' = Append(log, c) /\ proposed' = proposed \ {c}
    /\ UNCHANGED <<store, node, snap, cut, used>>

\* A forwarded proposal is lost, or its entry is overwritten.
Lose(c) ==
    /\ proposed' = proposed \ {c}
    /\ UNCHANGED <<log, store, node, snap, cut, used>>

Next ==
    \/ \E n \in Node :
          \/ \E command \in Command : Request(n, command)
          \/ RunTask(n) \/ Propose(n) \/ Publish(n) \/ SaveSnapshot(n)
          \/ InstallSnapshot(n) \/ LoseSnapshot(n) \/ Resume(n) \/ Restart(n)
    \/ \E c \in proposed : Choose(c) \/ Lose(c)

\* Both threads run, and a node that the leader sends MsgApps to hears of what
\* has been committed.  One that is cut need not: nothing ends a Snapshot.
Fairness ==
    \A n \in Node : WF_vars(RunTask(n)) /\ WF_vars(Propose(n)) /\ WF_vars(SaveSnapshot(n))
                    /\ WF_vars(n \notin cut /\ Publish(n))

Spec == Init /\ [][Next]_vars /\ Fairness

-----------------------------------------------------------------------------
(* Properties. *)

TypeOK ==
    /\ log \in Seq(RaftCommit) /\ proposed \subseteq RaftCommit
    /\ store \in [Node -> StoreType] /\ node \in [Node -> NodeType] /\ snap \in [Node -> Snapshot]
    /\ cut \subseteq Node

\* What the map will be once the redis thread has run what is posted
Drained(n) ==
    FoldLeft(LAMBDA st, task : Run([st EXCEPT !.queue = <<task>>], n), store[n], store[n].queue)

\* The map is the replay of the log up to applied_index_, every command once and
\* in order, whatever of snapshots, publications and restarts the two threads
\* interleave; and so is every snapshot's data up to its index.  `whole' leaves
\* out the maps that go back to a start on which replay_WAL has dropped the
\* snapshot's data (read_commit, get_snapshot, recover_from_snapshot).
StoreIsReplay ==
    \A n \in Node :
        /\ Drained(n).whole => Drained(n).key_values = Replayed(node[n].applied_index)
        /\ snap[n].whole => snap[n].data = Replayed(snap[n].index)

\* No request is answered twice, though the answer to propose and the commit
\* both look for it (pending_requests_.erase in set, del and read_commit).
AnsweredOnce == \A n \in Node, id \in 0..MaxRequests : Len(store[n].answered[id]) <= 1

Answers(n, id) == {store[n].answered[id][k] : k \in DOMAIN store[n].answered[id]}

\* Entry i has been published by this process and is in the map.
InMap(n, i) ==
    /\ node[n].started < i /\ i <= node[n].applied_index
    /\ [type |-> "read_commit", commit |-> log[i]] \notin ToSet(store[n].queue)

\* Entry i is of an earlier incarnation of the node and has the id of a request
\* of this one: ids start again with the process.
Impostor(n, id, i) ==
    log[i].node_id = n /\ log[i].commit_id = id /\ log[i].epoch < node[n].epoch

\* +OK to a set means that the command of this very request is in the log and in
\* the map, so that a get on the same node sees it.  The exception is a request
\* whose id an entry of an earlier incarnation has that is published after the
\* restart: read_commit takes its commit for the request's.  No entry of another
\* node, and none that the snapshot covers, is ever taken for it.
SetIsApplied ==
    \A n \in Node, id \in 0..MaxRequests :
        /\ [command |-> "set", status |-> "ok"] \in Answers(n, id)
        /\ \A i \in 1..node[n].applied_index : InMap(n, i) => ~Impostor(n, id, i)
        => \E i \in 1..node[n].applied_index :
              /\ InMap(n, i)
              /\ log[i].node_id = n /\ log[i].commit_id = id /\ log[i].epoch = node[n].epoch

\* An error is final: a command that was refused is never committed, so the
\* client may send it again (Propose, on_status).
ErrorIsFinal ==
    \A n \in Node, a \in ToSet(log) \cup proposed :
        a.node_id = n /\ a.epoch = node[n].epoch =>
            \A b \in Answers(n, a.commit_id) : b.status = "ok"

\* The request of entry i waits on its node, and no snapshot has jumped over it.
Waits(n, i) ==
    /\ i <= Len(log) /\ log[i].node_id = n /\ log[i].epoch = node[n].epoch
    /\ log[i].commit_id \in DOMAIN store[n].pending_requests
    /\ node[n].installed < i

\* A request whose command has been committed is answered, unless the process
\* ends, a received snapshot covers the command or the leader stops sending to
\* the node (H34: then it is never answered).
CommittedIsAnswered ==
    \A n \in Node, i \in 1..MaxRequests : Waits(n, i) ~> ~Waits(n, i) \/ n \in cut

\* When requests end, every node that the leader keeps sending to comes to hold
\* the whole log: the raft thread comes back from every snapshot it waits for.
Holds(n) == store[n].whole => store[n].key_values = Replayed(Len(log))
Converges == \A n \in Node : <>[](n \notin cut) => <>[]Holds(n)
=============================================================================
