-------------------------- MODULE RedisStoreProofs --------------------------
(*****************************************************************************)
(* Proofs about RedisStore: what a client may conclude from an answer, for   *)
(* any number of nodes, keys, requests and restarts.  The map itself is a    *)
(* fold over the log and stays with TLC.                                     *)
(*****************************************************************************)
EXTENDS RedisStore, TLAPS

-----------------------------------------------------------------------------
(* The inductive invariant. *)

\* Two records of the same request: of one node, one incarnation and one id
Same(a, b) == a.node_id = b.node_id /\ a.epoch = b.epoch /\ a.commit_id = b.commit_id

\* Whatever Raft may still commit or has committed
Taken(l, p) == ToSet(l) \cup p

\* The request of this id has been refused, or is about to be told so.
Refused(st, id) ==
    \/ \E k \in DOMAIN st.answered[id] : st.answered[id][k].status = "error"
    \/ \E k \in DOMAIN st.queue : /\ st.queue[k].type = "status" /\ st.queue[k].commit_id = id
                                  /\ st.queue[k].status = "error"

\* Ids are handed out in order; one that waits has no answer, one that has an
\* answer has one and waits no more.
Numbered(st) ==
    /\ \A id \in DOMAIN st.pending_requests : id < st.next_request_id
    /\ \A id \in 0..MaxRequests :
          st.answered[id] # <<>> =>
              /\ id < st.next_request_id /\ id \notin DOMAIN st.pending_requests
              /\ Len(st.answered[id]) = 1

\* The answers to propose that are posted are those of this incarnation.
Reported(st) ==
    \A k \in DOMAIN st.queue :
        st.queue[k].type = "status" =>
            /\ st.queue[k].commit_id < st.next_request_id
            /\ st.queue[k].commit_id \in DOMAIN st.pending_requests =>
                   st.pending_requests[st.queue[k].commit_id] = st.queue[k].command

\* A command on its way to the raft thread is a request of this incarnation, and
\* nothing has been said about it.
Posted(n, st, nd) ==
    /\ \A k \in DOMAIN nd.posts :
          /\ nd.posts[k].node_id = n /\ nd.posts[k].epoch = nd.epoch
          /\ nd.posts[k].commit_id < st.next_request_id
          /\ ~Refused(st, nd.posts[k].commit_id)
          /\ nd.posts[k].commit_id \in DOMAIN st.pending_requests =>
                 st.pending_requests[nd.posts[k].commit_id] = nd.posts[k].redis_data.type
    /\ \A j, k \in DOMAIN nd.posts : nd.posts[j].commit_id = nd.posts[k].commit_id => j = k

\* What Raft has was proposed once, by an incarnation that is not to come, and
\* has not been refused.
Proposed(n, st, nd, l, p) ==
    \A a \in Taken(l, p) :
        a.node_id = n =>
            /\ a.epoch <= nd.epoch
            /\ a.epoch = nd.epoch =>
                  /\ a.commit_id < st.next_request_id
                  /\ ~Refused(st, a.commit_id)
                  /\ \A k \in DOMAIN nd.posts : nd.posts[k].commit_id # a.commit_id

\* Raft commits a proposal once.
Committed(l, p) ==
    /\ \A i, j \in DOMAIN l : Same(l[i], l[j]) => i = j
    /\ \A a, b \in p : Same(a, b) => a = b
    /\ \A i \in DOMAIN l, b \in p : ~Same(l[i], b)

\* The commits that wait for the redis thread are entries that this process has
\* published, each once.
Published(st, nd, l) ==
    /\ nd.started <= nd.applied_index
    /\ \A k \in DOMAIN st.queue :
          st.queue[k].type = "read_commit" =>
              \E i \in 1..nd.applied_index : nd.started < i /\ l[i] = st.queue[k].commit
    /\ \A j, k \in DOMAIN st.queue :
          /\ st.queue[j].type = "read_commit" /\ st.queue[k].type = "read_commit"
          /\ st.queue[j].commit = st.queue[k].commit
          => j = k

\* A confirmed set has an entry that this process has published and applied: its
\* own, or one of an earlier incarnation.
Confirmed(n, st, nd, l) ==
    \A id \in 0..MaxRequests :
        (\E k \in DOMAIN st.answered[id] :
             st.answered[id][k] = [command |-> "set", status |-> "ok"]) =>
            \E i \in 1..nd.applied_index :
                /\ nd.started < i /\ l[i].node_id = n /\ l[i].commit_id = id /\ l[i].epoch <= nd.epoch
                /\ \A k \in DOMAIN st.queue :
                      st.queue[k].type = "read_commit" => st.queue[k].commit # l[i]

Usage ==
    /\ used \in [requests : Nat, restarts : Nat] /\ used.requests <= MaxRequests
    /\ \A n \in Node : store[n].next_request_id <= used.requests

Indexed == \A n \in Node : snap[n].index <= Len(log) /\ node[n].applied_index <= Len(log)

NodeInv(n, st, nd, l, p) ==
    /\ Numbered(st) /\ Reported(st) /\ Posted(n, st, nd) /\ Proposed(n, st, nd, l, p)
    /\ Published(st, nd, l) /\ Confirmed(n, st, nd, l)

StoreInv ==
    /\ TypeOK /\ Usage /\ Indexed /\ Committed(log, proposed)
    /\ \A n \in Node : NodeInv(n, store[n], node[n], log, proposed)

-----------------------------------------------------------------------------
(* Types: the map, an answer, one handler of the redis thread. *)

\* A sequence with one more element is a sequence.
LEMMA AppendType == ASSUME NEW S, NEW s \in Seq(S), NEW x \in S PROVE Append(s, x) \in Seq(S)
OBVIOUS

\* The empty map is a map.
LEMMA EmptyMapType == EmptyMap \in Contents /\ DOMAIN EmptyMap = {}
<1>1. EmptyMap \in [{} -> Value] BY DEF EmptyMap
<1>2. {} \in SUBSET Key OBVIOUS
<1> QED BY <1>1, <1>2 DEF Contents, EmptyMap

\* A map is a function from some of the keys to values.
LEMMA ContentsIs ==
    ASSUME NEW kv
    PROVE  kv \in Contents <=> \E ks \in SUBSET Key : kv \in [ks -> Value]
BY DEF Contents

\* A command makes a map of a map.
LEMMA AppliedType ==
    ASSUME NEW kv \in Contents, NEW command \in Command
    PROVE  Applied(kv, command) \in Contents
<1>1. PICK ks \in SUBSET Key : kv \in [ks -> Value] BY ContentsIs
<1>2. command.keys \in SUBSET Key BY DEF Command
<1>3. CASE command.type = "set"
  <2>1. command.value \in Value BY <1>3 DEF Command
  <2>2. Applied(kv, command) \in [(ks \cup command.keys) -> Value]
        BY <1>1, <1>3, <2>1 DEF Applied
  <2> QED BY <2>2, <1>2, ContentsIs
<1>4. CASE command.type # "set"
  <2>1. Applied(kv, command) \in [(ks \ command.keys) -> Value] BY <1>1, <1>4 DEF Applied
  <2> QED BY <2>1, ContentsIs
<1> QED BY <1>3, <1>4

Waiting == UNION {[ids -> {"set", "del"}] : ids \in SUBSET (0..MaxRequests)}

\* The requests that wait are some of the ids.
LEMMA WaitingIs ==
    ASSUME NEW p
    PROVE  p \in Waiting <=> \E ids \in SUBSET (0..MaxRequests) : p \in [ids -> {"set", "del"}]
BY DEF Waiting

\* The fields of a store.
LEMMA StoreFields ==
    ASSUME NEW st \in StoreType
    PROVE  /\ st.key_values \in Contents /\ st.whole \in BOOLEAN /\ st.next_request_id \in Nat
           /\ st.pending_requests \in Waiting /\ st.queue \in Seq(Task)
           /\ st.answered \in [0..MaxRequests -> Seq(Answer)]
           /\ DOMAIN st.pending_requests \subseteq 0..MaxRequests
           /\ \A id \in DOMAIN st.pending_requests : st.pending_requests[id] \in {"set", "del"}
<1>1. /\ st.key_values \in Contents /\ st.whole \in BOOLEAN /\ st.next_request_id \in Nat
      /\ st.pending_requests \in Waiting /\ st.queue \in Seq(Task)
      /\ st.answered \in [0..MaxRequests -> Seq(Answer)]
      BY DEF StoreType, Waiting
<1>2. PICK ids \in SUBSET (0..MaxRequests) : st.pending_requests \in [ids -> {"set", "del"}]
      BY <1>1, WaitingIs
<1> QED BY <1>1, <1>2

\* The fields of a node.
LEMMA NodeFields ==
    ASSUME NEW nd \in NodeType
    PROVE  /\ nd.posts \in Seq(RaftCommit) /\ nd.applied_index \in Nat
           /\ nd.started \in Nat /\ nd.snapshot_index \in Nat /\ nd.installed \in Nat
           /\ nd.future \in {"none", "waiting", "ready"} /\ nd.data \in Contents
           /\ nd.whole \in BOOLEAN /\ nd.epoch \in Nat
BY DEF NodeType

\* A request that has been taken out leaves the others.
LEMMA WaitingWithout ==
    ASSUME NEW p \in Waiting, NEW id
    PROVE  [i \in DOMAIN p \ {id} |-> p[i]] \in Waiting
<1>1. PICK ids \in SUBSET (0..MaxRequests) : p \in [ids -> {"set", "del"}] BY WaitingIs
<1>2. [i \in DOMAIN p \ {id} |-> p[i]] \in [(ids \ {id}) -> {"set", "del"}] BY <1>1
<1> QED BY <1>2, WaitingIs

\* A request that has been put in joins the others.
LEMMA WaitingWith ==
    ASSUME NEW p \in Waiting, NEW id \in 0..MaxRequests, NEW type \in {"set", "del"}
    PROVE  [i \in DOMAIN p \cup {id} |-> IF i = id THEN type ELSE p[i]] \in Waiting
<1>1. PICK ids \in SUBSET (0..MaxRequests) : p \in [ids -> {"set", "del"}] BY WaitingIs
<1>2. [i \in DOMAIN p \cup {id} |-> IF i = id THEN type ELSE p[i]]
      \in [(ids \cup {id}) -> {"set", "del"}] BY <1>1
<1>3. (ids \cup {id}) \in SUBSET (0..MaxRequests) BY <1>1
<1> QED BY <1>2, <1>3, WaitingIs

\* What changes when the request id is answered: it waits no more and has the
\* answer, everything else stays.
Answered(st, t, id, status) ==
    /\ id \in DOMAIN st.pending_requests
    /\ t.pending_requests = [i \in DOMAIN st.pending_requests \ {id} |-> st.pending_requests[i]]
    /\ t.answered = [st.answered EXCEPT ![id] =
                        Append(@, [command |-> st.pending_requests[id], status |-> status])]
    /\ t.next_request_id = st.next_request_id /\ t.queue = st.queue

\* What stays when nothing is answered.
Silent(st, t) ==
    /\ t.pending_requests = st.pending_requests /\ t.answered = st.answered
    /\ t.next_request_id = st.next_request_id /\ t.queue = st.queue

\* The callback is called if the request waits (pending_requests_.find).
LEMMA AnswerEffect ==
    ASSUME NEW st \in StoreType, NEW id, NEW status \in {"ok", "error"}
    PROVE  /\ answer(st, id, status) \in StoreType
           /\ \/ Silent(st, answer(st, id, status))
              \/ Answered(st, answer(st, id, status), id, status)
<1>1. CASE id \notin DOMAIN st.pending_requests
  <2>1. answer(st, id, status) = st BY <1>1 DEF answer
  <2> QED BY <2>1 DEF Silent
<1>2. CASE id \in DOMAIN st.pending_requests
  <2> DEFINE a == [command |-> st.pending_requests[id], status |-> status]
             p == [i \in DOMAIN st.pending_requests \ {id} |-> st.pending_requests[i]]
             h == [st.answered EXCEPT ![id] = Append(@, a)]
  <2>1. answer(st, id, status) = [st EXCEPT !.answered = h, !.pending_requests = p]
        BY <1>2 DEF answer, StoreType
  <2>2. a \in Answer BY <1>2, StoreFields DEF Answer
  <2>3. h \in [0..MaxRequests -> Seq(Answer)]
    <3> HIDE DEF a
    <3>1. st.answered \in [0..MaxRequests -> Seq(Answer)] /\ id \in 0..MaxRequests
          BY <1>2, StoreFields
    <3>2. st.answered[id] \in Seq(Answer) BY <3>1
    <3>3. Append(st.answered[id], a) \in Seq(Answer) BY <3>2, <2>2, AppendType
    <3> QED BY <3>1, <3>3
  <2>4. p \in Waiting BY WaitingWithout, StoreFields
  <2> DEFINE t == [st EXCEPT !.answered = h, !.pending_requests = p]
  <2>5. t \in StoreType
    <3> HIDE DEF p, h
    <3> QED BY <2>3, <2>4 DEF StoreType, Waiting
  <2>6. /\ t.answered = h /\ t.pending_requests = p /\ t.next_request_id = st.next_request_id
        /\ t.queue = st.queue
    <3> HIDE DEF p, h
    <3> QED BY DEF StoreType
  <2> HIDE DEF t
  <2>7. Answered(st, t, id, status) BY <1>2, <2>6 DEF Answered
  <2> QED BY <2>1, <2>5, <2>7 DEF t
<1> QED BY <1>1, <1>2

\* What the head of the queue may cause: the answer `status' to the request id.
Cause(task, n, id, status) ==
    \/ /\ task.type = "status" /\ id = task.commit_id /\ status = task.status
       /\ ~(task.command = "set" /\ task.status = "ok")
    \/ /\ task.type = "read_commit" /\ id = task.commit.commit_id /\ status = "ok"
       /\ task.commit.node_id = n

\* r is the store st without the head of its queue.
Popped(st, r) ==
    /\ r.queue = Tail(st.queue) /\ r.pending_requests = st.pending_requests
    /\ r.answered = st.answered /\ r.next_request_id = st.next_request_id

\* A handler of the redis thread takes its task and answers at most one request.
Ran(st, n, t) ==
    \E r \in StoreType :
        /\ Popped(st, r)
        /\ \/ Silent(r, t)
           \/ \E id \in 0..MaxRequests, status \in {"ok", "error"} :
                 Answered(r, t, id, status) /\ Cause(Head(st.queue), n, id, status)

\* A task of each kind has its fields.
LEMMA TaskFields ==
    ASSUME NEW task \in Task
    PROVE  /\ task.type \in {"status", "read_commit", "recover", "get_snapshot"}
           /\ task.type = "status" => /\ task.commit_id \in Nat /\ task.command \in {"set", "del"}
                                      /\ task.status \in {"ok", "error"}
           /\ task.type = "read_commit" => task.commit \in RaftCommit
           /\ task.type = "recover" => task.from \in Snapshot
BY DEF Task

\* Every handler is one of these.
LEMMA RunEffect ==
    ASSUME NEW st \in StoreType, NEW n, st.queue # <<>>
    PROVE  Run(st, n) \in StoreType /\ Ran(st, n, Run(st, n))
<1> DEFINE q == st.queue
           task == Head(q)
           r == [st EXCEPT !.queue = Tail(q)]
           t == Run(st, n)
<1>1. q \in Seq(Task) /\ q # <<>> BY StoreFields
<1>2. task \in Task /\ Tail(q) \in Seq(Task)
  <2> HIDE DEF q
  <2> QED BY <1>1
<1>3. r \in StoreType /\ Popped(st, r)
  <2>1. Tail(st.queue) \in Seq(Task) BY <1>2
  <2> QED BY <2>1 DEF StoreType, Popped
<1>4. Run(st, n) = IF task.type = "status" THEN on_status(r, task)
                   ELSE IF task.type = "read_commit" THEN read_commit(r, n, task.commit)
                   ELSE IF task.type = "recover" THEN recover_from_snapshot(r, task.from)
                   ELSE r
      BY DEF Run
<1> HIDE DEF task, r, q
<1>5. CASE task.type = "status"
  <2>1. task.status \in {"ok", "error"} BY <1>2, <1>5, TaskFields
  <2>2. CASE task.command = "set" /\ task.status = "ok"
    <3>1. Run(st, n) = r BY <1>4, <1>5, <2>2 DEF on_status
    <3>2. Silent(r, r) BY DEF Silent
    <3> QED BY <3>1, <3>2, <1>3 DEF Ran
  <2>3. CASE ~(task.command = "set" /\ task.status = "ok")
    <3> DEFINE id == task.commit_id
    <3>1. Run(st, n) = answer(r, id, task.status) BY <1>4, <1>5, <2>3 DEF on_status
    <3>2. /\ Run(st, n) \in StoreType
          /\ Silent(r, Run(st, n)) \/ Answered(r, Run(st, n), id, task.status)
          BY <3>1, <2>1, <1>3, AnswerEffect
    <3>3. CASE Silent(r, Run(st, n)) BY <3>2, <3>3, <1>3 DEF Ran
    <3>4. CASE Answered(r, Run(st, n), id, task.status)
      <4>1. id \in 0..MaxRequests BY <3>4, <1>3, StoreFields DEF Answered
      <4>2. Cause(task, n, id, task.status) BY <1>5, <2>3 DEF Cause
      <4>3. Ran(st, n, Run(st, n)) BY <4>1, <4>2, <3>4, <2>1, <1>3 DEF Ran, task, q
      <4> QED BY <4>3, <3>2
    <3> QED BY <3>2, <3>3, <3>4
  <2> QED BY <2>2, <2>3
<1>6. CASE task.type = "read_commit"
  <2> DEFINE c == task.commit
             r1 == [r EXCEPT !.key_values = Applied(@, c.redis_data)]
  <2>1. c \in RaftCommit BY <1>2, <1>6, TaskFields
  <2>2. Applied(r.key_values, c.redis_data) \in Contents
    <3>1. c.redis_data \in Command BY <2>1 DEF RaftCommit
    <3> HIDE DEF c
    <3> QED BY <3>1, <1>3, StoreFields, AppliedType
  <2>3. r1 \in StoreType /\ Popped(st, r1)
    <3> HIDE DEF c
    <3> QED BY <2>2, <1>3 DEF StoreType, Popped
  <2>4. Run(st, n) = IF c.node_id = n THEN answer(r1, c.commit_id, "ok") ELSE r1
        BY <1>4, <1>6 DEF read_commit
  <2> HIDE DEF r1, c
  <2>5. CASE c.node_id # n
    <3>1. Silent(r1, r1) BY DEF Silent
    <3> QED BY <3>1, <2>5, <2>4, <2>3 DEF Ran
  <2>6. CASE c.node_id = n
    <3> DEFINE id == c.commit_id
    <3>1. Run(st, n) = answer(r1, id, "ok") BY <2>6, <2>4
    <3>2. /\ Run(st, n) \in StoreType
          /\ Silent(r1, Run(st, n)) \/ Answered(r1, Run(st, n), id, "ok")
          BY <3>1, <2>3, AnswerEffect
    <3>3. CASE Silent(r1, Run(st, n)) BY <3>2, <3>3, <2>3 DEF Ran
    <3>4. CASE Answered(r1, Run(st, n), id, "ok")
      <4>1. id \in 0..MaxRequests BY <3>4, <2>3, StoreFields DEF Answered
      <4>2. Cause(task, n, id, "ok") BY <1>6, <2>6 DEF Cause, c
      <4>3. Ran(st, n, Run(st, n)) BY <4>1, <4>2, <3>4, <2>3 DEF Ran, task, q
      <4> QED BY <4>3, <3>2
    <3> QED BY <3>2, <3>3, <3>4
  <2> QED BY <2>5, <2>6
<1>7. CASE task.type = "recover"
  <2> DEFINE r1 == [r EXCEPT !.key_values = task.from.data, !.whole = task.from.whole]
  <2>1. task.from \in Snapshot BY <1>2, <1>7, TaskFields
  <2>2. r1 \in StoreType /\ Silent(r, r1) BY <2>1, <1>3 DEF StoreType, Silent, Snapshot
  <2>3. Run(st, n) = r1 BY <1>4, <1>7 DEF recover_from_snapshot
  <2> QED BY <2>2, <2>3, <1>3 DEF Ran
<1>8. CASE task.type = "get_snapshot"
  <2>1. Run(st, n) = r BY <1>4, <1>8
  <2>2. Silent(r, r) BY DEF Silent
  <2> QED BY <2>1, <2>2, <1>3 DEF Ran
<1> QED BY <1>2, <1>5, <1>6, <1>7, <1>8, TaskFields

\* A command on its way has its fields.
LEMMA PostFields ==
    ASSUME NEW nd \in NodeType
    PROVE  \A k \in DOMAIN nd.posts :
               /\ nd.posts[k] \in RaftCommit /\ nd.posts[k].commit_id \in Nat
               /\ nd.posts[k].epoch \in Nat /\ nd.posts[k].redis_data \in Command
<1> DEFINE p == nd.posts
<1>1. p \in Seq(RaftCommit) BY NodeFields
<1> HIDE DEF p
<1>2. \A k \in DOMAIN p : p[k] \in RaftCommit BY <1>1
<1>3. \A k \in DOMAIN p : p[k].commit_id \in Nat /\ p[k].epoch \in Nat /\ p[k].redis_data \in Command
      BY <1>2 DEF RaftCommit
<1> QED BY <1>2, <1>3 DEF p

-----------------------------------------------------------------------------
(* A handler of the redis thread keeps the invariant of its node. *)

\* The rest of a queue: each of its tasks stood one place further back.
LEMMA TailOf ==
    ASSUME NEW S, NEW q \in Seq(S), q # <<>>
    PROVE  /\ 1 \in DOMAIN q /\ q[1] = Head(q)
           /\ \A k \in DOMAIN Tail(q) : k + 1 \in DOMAIN q /\ k + 1 # 1 /\ Tail(q)[k] = q[k + 1]
           /\ \A j, k \in DOMAIN Tail(q) : j + 1 = k + 1 => j = k
OBVIOUS

\* The places of a queue without its head.
Later(st, r) ==
    /\ \A k \in DOMAIN r.queue :
          \E m \in DOMAIN st.queue : m # 1 /\ r.queue[k] = st.queue[m]
    /\ \A j, k \in DOMAIN r.queue : j # k =>
          \E i, m \in DOMAIN st.queue : i # m /\ r.queue[j] = st.queue[i] /\ r.queue[k] = st.queue[m]

\* What is left in a queue stood behind its head.
LEMMA PoppedLater ==
    ASSUME NEW st \in StoreType, st.queue # <<>>, NEW r, Popped(st, r)
    PROVE  Later(st, r) /\ 1 \in DOMAIN st.queue /\ st.queue[1] = Head(st.queue)
<1> DEFINE q == st.queue
<1>1. q \in Seq(Task) /\ q # <<>> /\ r.queue = Tail(q) BY StoreFields DEF Popped
<1> HIDE DEF q
<1>2. /\ 1 \in DOMAIN q /\ q[1] = Head(q)
      /\ \A k \in DOMAIN Tail(q) : k + 1 \in DOMAIN q /\ k + 1 # 1 /\ Tail(q)[k] = q[k + 1]
      /\ \A j, k \in DOMAIN Tail(q) : j + 1 = k + 1 => j = k
      BY <1>1, TailOf
<1>3. Later(st, r) BY <1>1, <1>2 DEF Later, q
<1> QED BY <1>2, <1>3 DEF q

\* How the history of one request changes with its answer.
LEMMA AnsweredHistory ==
    ASSUME NEW r \in StoreType, NEW t, NEW id \in 0..MaxRequests, NEW status,
           Answered(r, t, id, status), Numbered(r)
    PROVE  /\ r.answered[id] = <<>>
           /\ t.answered[id] = <<[command |-> r.pending_requests[id], status |-> status]>>
           /\ \A x \in 0..MaxRequests : x # id => t.answered[x] = r.answered[x]
<1> DEFINE a == [command |-> r.pending_requests[id], status |-> status]
<1>1. r.answered \in [0..MaxRequests -> Seq(Answer)] BY StoreFields
<1>2. r.answered[id] = <<>> BY DEF Answered, Numbered
<1>3. t.answered = [r.answered EXCEPT ![id] = Append(@, a)] BY DEF Answered
<1> HIDE DEF a
<1>4. t.answered[id] = Append(<<>>, a) BY <1>1, <1>2, <1>3
<1>5. Append(<<>>, a) = <<a>> OBVIOUS
<1>6. \A x \in 0..MaxRequests : x # id => t.answered[x] = r.answered[x] BY <1>1, <1>3
<1> QED BY <1>2, <1>4, <1>5, <1>6 DEF a

\* Nobody is refused by a handler who had not been before.
NoneRefused(st, t) == \A x \in 0..MaxRequests : Refused(t, x) => Refused(st, x)

\* A handler that has run leaves no more requests refused than before.
LEMMA PoppedRefused ==
    ASSUME NEW st, NEW r, Popped(st, r), Later(st, r)
    PROVE  NoneRefused(st, r)
<1> SUFFICES ASSUME NEW x \in 0..MaxRequests, Refused(r, x) PROVE Refused(st, x)
    BY DEF NoneRefused
<1>1. CASE \E k \in DOMAIN r.answered[x] : r.answered[x][k].status = "error"
      BY <1>1 DEF Refused, Popped
<1>2. CASE \E k \in DOMAIN r.queue : /\ r.queue[k].type = "status" /\ r.queue[k].commit_id = x
                                     /\ r.queue[k].status = "error"
      BY <1>2 DEF Refused, Later
<1> QED BY <1>1, <1>2 DEF Refused

\* An answer that is an error comes from a status that says so.
LEMMA AnsweredRefused ==
    ASSUME NEW st \in StoreType, NEW n, NEW r \in StoreType, Popped(st, r), Later(st, r),
           1 \in DOMAIN st.queue, st.queue[1] = Head(st.queue), Numbered(r),
           NEW t, NEW id \in 0..MaxRequests, NEW status \in {"ok", "error"},
           Answered(r, t, id, status), Cause(Head(st.queue), n, id, status)
    PROVE  NoneRefused(st, t)
<1> SUFFICES ASSUME NEW x \in 0..MaxRequests, Refused(t, x) PROVE Refused(st, x)
    BY DEF NoneRefused
<1>1. CASE \E k \in DOMAIN t.queue : /\ t.queue[k].type = "status" /\ t.queue[k].commit_id = x
                                     /\ t.queue[k].status = "error"
  <2>1. Refused(r, x) BY <1>1 DEF Refused, Answered
  <2> QED BY <2>1, PoppedRefused DEF NoneRefused
<1>2. CASE \E k \in DOMAIN t.answered[x] : t.answered[x][k].status = "error"
  <2>1. CASE x # id
    <3>1. t.answered[x] = r.answered[x] BY <2>1, AnsweredHistory
    <3>2. Refused(r, x) BY <1>2, <3>1 DEF Refused
    <3> QED BY <3>2, PoppedRefused DEF NoneRefused
  <2>2. CASE x = id
    <3> DEFINE a == [command |-> r.pending_requests[id], status |-> status]
    <3>1. t.answered[x] = <<a>> BY <2>2, AnsweredHistory
    <3> HIDE DEF a
    <3>2. a.status = "error" BY <1>2, <3>1
    <3>3. status = "error" BY <3>2 DEF a
    <3>4. /\ Head(st.queue).type = "status" /\ Head(st.queue).commit_id = id
          /\ Head(st.queue).status = "error"
          BY <3>3 DEF Cause
    <3>5. \E k \in DOMAIN st.queue : /\ st.queue[k].type = "status" /\ st.queue[k].commit_id = x
                                     /\ st.queue[k].status = "error"
          BY <3>4, <2>2
    <3> QED BY <3>5 DEF Refused
  <2> QED BY <2>1, <2>2
<1> QED BY <1>1, <1>2 DEF Refused

\* Without its head a queue keeps the invariant of its node.
LEMMA PoppedInv ==
    ASSUME NEW n, NEW st \in StoreType, NEW nd \in NodeType,
           NEW l \in Seq(RaftCommit), NEW p \in SUBSET RaftCommit, NodeInv(n, st, nd, l, p),
           st.next_request_id <= MaxRequests, MaxRequests \in Nat,
           NEW r \in StoreType, Popped(st, r), Later(st, r)
    PROVE  NodeInv(n, r, nd, l, p)
<1> USE DEF NodeInv
<1>0. NoneRefused(st, r) BY PoppedRefused
<1>1. Numbered(r) BY DEF Numbered, Popped
<1>2. Reported(r) BY DEF Reported, Popped, Later
<1>3. Posted(n, r, nd)
  <2>1. \A k \in DOMAIN nd.posts : nd.posts[k].commit_id \in Nat BY PostFields
  <2>2. \A k \in DOMAIN nd.posts : nd.posts[k].commit_id \in 0..MaxRequests
        BY <2>1, StoreFields DEF Posted
  <2>3. \A k \in DOMAIN nd.posts : ~Refused(r, nd.posts[k].commit_id)
        BY <2>2, <1>0 DEF Posted, NoneRefused
  <2> QED BY <2>3 DEF Posted, Popped
<1>4. Proposed(n, r, nd, l, p)
  <2>1. \A a \in Taken(l, p) : a \in RaftCommit BY DEF Taken, ToSet
  <2>2. \A a \in Taken(l, p) : a.node_id = n /\ a.epoch = nd.epoch => a.commit_id \in 0..MaxRequests
        BY <2>1, StoreFields DEF Proposed, RaftCommit
  <2>3. \A a \in Taken(l, p) : a.node_id = n /\ a.epoch = nd.epoch => ~Refused(r, a.commit_id)
        BY <2>2, <1>0 DEF Proposed, NoneRefused
  <2> QED BY <2>3 DEF Proposed, Popped
<1>5. Published(r, nd, l)
  <2>1. \A k \in DOMAIN r.queue : r.queue[k].type = "read_commit" =>
            \E i \in 1..nd.applied_index : nd.started < i /\ l[i] = r.queue[k].commit
        BY DEF Published, Later
  <2>2. \A j, k \in DOMAIN r.queue :
            /\ r.queue[j].type = "read_commit" /\ r.queue[k].type = "read_commit"
            /\ r.queue[j].commit = r.queue[k].commit
            => j = k
        BY DEF Published, Later
  <2>3. nd.started <= nd.applied_index BY DEF Published
  <2> QED BY <2>1, <2>2, <2>3 DEF Published
<1>6. Confirmed(n, r, nd, l)
  <2> SUFFICES ASSUME NEW id \in 0..MaxRequests,
                      \E k \in DOMAIN r.answered[id] :
                          r.answered[id][k] = [command |-> "set", status |-> "ok"]
               PROVE  \E i \in 1..nd.applied_index :
                          /\ nd.started < i /\ l[i].node_id = n /\ l[i].commit_id = id
                          /\ l[i].epoch <= nd.epoch
                          /\ \A k \in DOMAIN r.queue :
                                r.queue[k].type = "read_commit" => r.queue[k].commit # l[i]
      BY DEF Confirmed
  <2>1. PICK i \in 1..nd.applied_index :
            /\ nd.started < i /\ l[i].node_id = n /\ l[i].commit_id = id /\ l[i].epoch <= nd.epoch
            /\ \A k \in DOMAIN st.queue :
                  st.queue[k].type = "read_commit" => st.queue[k].commit # l[i]
        BY DEF Confirmed, Popped
  <2>2. \A k \in DOMAIN r.queue : r.queue[k].type = "read_commit" => r.queue[k].commit # l[i]
        BY <2>1 DEF Later
  <2> QED BY <2>1, <2>2
<1> QED BY <1>1, <1>2, <1>3, <1>4, <1>5, <1>6

\* An answer keeps the invariant of its node: a set is confirmed by the commit
\* at the head of the queue and by nothing else.
LEMMA AnsweredInv ==
    ASSUME NEW n, NEW st \in StoreType, NEW nd \in NodeType,
           NEW l \in Seq(RaftCommit), NEW p \in SUBSET RaftCommit, NodeInv(n, st, nd, l, p),
           nd.applied_index <= Len(l),
           st.next_request_id <= MaxRequests, MaxRequests \in Nat,
           NEW r \in StoreType, Popped(st, r), Later(st, r), NodeInv(n, r, nd, l, p),
           1 \in DOMAIN st.queue, st.queue[1] = Head(st.queue),
           NEW t \in StoreType, NEW id \in 0..MaxRequests, NEW status \in {"ok", "error"},
           Answered(r, t, id, status), Cause(Head(st.queue), n, id, status)
    PROVE  NodeInv(n, t, nd, l, p)
<1> USE DEF NodeInv
<1> DEFINE ans == [command |-> r.pending_requests[id], status |-> status]
<1>0. NoneRefused(st, t) BY AnsweredRefused
<1>h. /\ r.answered[id] = <<>> /\ t.answered[id] = <<ans>>
      /\ \A x \in 0..MaxRequests : x # id => t.answered[x] = r.answered[x]
      BY AnsweredHistory
<1> HIDE DEF ans
<1>w. /\ id \in DOMAIN r.pending_requests
      /\ DOMAIN t.pending_requests = DOMAIN r.pending_requests \ {id}
      /\ \A x \in DOMAIN t.pending_requests : t.pending_requests[x] = r.pending_requests[x]
      /\ t.next_request_id = r.next_request_id /\ t.queue = r.queue
      BY DEF Answered
<1>1. Numbered(t)
  <2>1. \A x \in DOMAIN t.pending_requests : x < t.next_request_id BY <1>w DEF Numbered
  <2>2. ASSUME NEW x \in 0..MaxRequests, t.answered[x] # <<>>
        PROVE  /\ x < t.next_request_id /\ x \notin DOMAIN t.pending_requests
               /\ Len(t.answered[x]) = 1
    <3>1. CASE x = id
      <4>1. Len(<<ans>>) = 1 OBVIOUS
      <4> QED BY <3>1, <4>1, <1>w, <1>h DEF Numbered
    <3>2. CASE x # id
      <4>1. t.answered[x] = r.answered[x] BY <3>2, <1>h
      <4> QED BY <2>2, <4>1, <1>w DEF Numbered
    <3> QED BY <3>1, <3>2
  <2> QED BY <2>1, <2>2 DEF Numbered
<1>2. Reported(t) BY <1>w DEF Reported
<1>3. Posted(n, t, nd)
  <2>1. \A k \in DOMAIN nd.posts : nd.posts[k].commit_id \in Nat BY PostFields
  <2>2. \A k \in DOMAIN nd.posts : nd.posts[k].commit_id \in 0..MaxRequests
        BY <2>1, StoreFields DEF Posted
  <2>3. \A k \in DOMAIN nd.posts : ~Refused(t, nd.posts[k].commit_id)
        BY <2>2, <1>0 DEF Posted, NoneRefused
  <2> QED BY <2>3, <1>w DEF Posted
<1>4. Proposed(n, t, nd, l, p)
  <2>1. \A a \in Taken(l, p) : a \in RaftCommit BY DEF Taken, ToSet
  <2>2. \A a \in Taken(l, p) : a.node_id = n /\ a.epoch = nd.epoch => a.commit_id \in 0..MaxRequests
        BY <2>1, StoreFields DEF Proposed, RaftCommit
  <2>3. \A a \in Taken(l, p) : a.node_id = n /\ a.epoch = nd.epoch => ~Refused(t, a.commit_id)
        BY <2>2, <1>0 DEF Proposed, NoneRefused
  <2> QED BY <2>3, <1>w DEF Proposed
<1>5. Published(t, nd, l) BY <1>w DEF Published
<1>6. Confirmed(n, t, nd, l)
  <2> SUFFICES ASSUME NEW x \in 0..MaxRequests,
                      \E k \in DOMAIN t.answered[x] :
                          t.answered[x][k] = [command |-> "set", status |-> "ok"]
               PROVE  \E i \in 1..nd.applied_index :
                          /\ nd.started < i /\ l[i].node_id = n /\ l[i].commit_id = x
                          /\ l[i].epoch <= nd.epoch
                          /\ \A k \in DOMAIN t.queue :
                                t.queue[k].type = "read_commit" => t.queue[k].commit # l[i]
      BY DEF Confirmed
  <2>1. CASE x # id
    <3>1. t.answered[x] = r.answered[x] BY <2>1, <1>h
    <3> QED BY <3>1, <1>w DEF Confirmed
  <2>2. CASE x = id
    <3>1. ans = [command |-> "set", status |-> "ok"] BY <2>2, <1>h
    <3>2. r.pending_requests[id] = "set" /\ status = "ok" BY <3>1 DEF ans
    <3> DEFINE task == st.queue[1]
    <3>3. Cause(task, n, id, status) OBVIOUS
    <3>4. /\ task.type = "read_commit" /\ task.commit.commit_id = id /\ task.commit.node_id = n
      <4>1. ASSUME task.type = "status" PROVE FALSE
        <5>1. /\ id = task.commit_id /\ status = task.status
              /\ ~(task.command = "set" /\ task.status = "ok")
              BY <4>1, <3>3 DEF Cause
        <5>2. st.pending_requests[id] = task.command BY <4>1, <5>1, <1>w DEF Reported, Popped
        <5> QED BY <5>1, <5>2, <3>2 DEF Popped
      <4> QED BY <4>1, <3>3 DEF Cause
    <3>5. PICK i \in 1..nd.applied_index : nd.started < i /\ l[i] = task.commit
          BY <3>4 DEF Published
    <3>6. i \in DOMAIN l BY NodeFields
    <3>7. l[i] \in Taken(l, p) BY <3>6 DEF Taken, ToSet
    <3>8. l[i].epoch <= nd.epoch BY <3>4, <3>5, <3>7 DEF Proposed
    <3>9. ASSUME NEW k \in DOMAIN t.queue, t.queue[k].type = "read_commit", t.queue[k].commit = l[i]
          PROVE  FALSE
      <4>1. PICK m \in DOMAIN st.queue : m # 1 /\ t.queue[k] = st.queue[m] BY <1>w DEF Later
      <4>2. m = 1 BY <4>1, <3>9, <3>5, <3>4 DEF Published
      <4> QED BY <4>1, <4>2
    <3> QED BY <2>2, <3>4, <3>5, <3>8, <3>9
  <2> QED BY <2>1, <2>2
<1> QED BY <1>1, <1>2, <1>3, <1>4, <1>5, <1>6

\* Stores that differ only in their map have the same invariant.
LEMMA SilentInv ==
    ASSUME NEW n, NEW nd, NEW l, NEW p, NEW r, NEW t, Silent(r, t), NodeInv(n, r, nd, l, p)
    PROVE  NodeInv(n, t, nd, l, p)
<1>0. \A x : Refused(t, x) <=> Refused(r, x) BY DEF Refused, Silent
<1>1. Numbered(t) BY DEF Silent, NodeInv, Numbered
<1>2. Reported(t) BY DEF Silent, NodeInv, Reported
<1>3. Posted(n, t, nd) BY <1>0 DEF Silent, NodeInv, Posted
<1>4. Proposed(n, t, nd, l, p) BY <1>0 DEF Silent, NodeInv, Proposed
<1>5. Published(t, nd, l) BY DEF Silent, NodeInv, Published
<1>6. Confirmed(n, t, nd, l) BY DEF Silent, NodeInv, Confirmed
<1> QED BY <1>1, <1>2, <1>3, <1>4, <1>5, <1>6 DEF NodeInv

\* Every handler keeps the invariant of its node, and hands out no id.
LEMMA RunInv ==
    ASSUME NEW n, NEW st \in StoreType, NEW nd \in NodeType,
           NEW l \in Seq(RaftCommit), NEW p \in SUBSET RaftCommit, NodeInv(n, st, nd, l, p),
           nd.applied_index <= Len(l),
           st.next_request_id <= MaxRequests, MaxRequests \in Nat, st.queue # <<>>
    PROVE  /\ Run(st, n) \in StoreType /\ NodeInv(n, Run(st, n), nd, l, p)
           /\ Run(st, n).next_request_id = st.next_request_id
<1> DEFINE t == Run(st, n)
<1>1. t \in StoreType /\ Ran(st, n, t) BY RunEffect
<1> HIDE DEF t
<1>2. PICK r \in StoreType :
          /\ Popped(st, r)
          /\ \/ Silent(r, t)
             \/ \E id \in 0..MaxRequests, status \in {"ok", "error"} :
                   Answered(r, t, id, status) /\ Cause(Head(st.queue), n, id, status)
      BY <1>1 DEF Ran
<1>3. Later(st, r) /\ 1 \in DOMAIN st.queue /\ st.queue[1] = Head(st.queue)
      BY <1>2, PoppedLater
<1>4. NodeInv(n, r, nd, l, p) BY <1>2, <1>3, PoppedInv
<1>5. CASE Silent(r, t)
  <2>1. NodeInv(n, t, nd, l, p) BY <1>4, <1>5, SilentInv
  <2>2. t.next_request_id = st.next_request_id BY <1>2, <1>5 DEF Silent, Popped
  <2> QED BY <1>1, <2>1, <2>2 DEF t
<1>6. CASE \E id \in 0..MaxRequests, status \in {"ok", "error"} :
              Answered(r, t, id, status) /\ Cause(Head(st.queue), n, id, status)
  <2>1. PICK id \in 0..MaxRequests, status \in {"ok", "error"} :
            Answered(r, t, id, status) /\ Cause(Head(st.queue), n, id, status)
        BY <1>6
  <2>2. NodeInv(n, t, nd, l, p) BY <1>1, <1>2, <1>3, <1>4, <2>1, AnsweredInv
  <2>3. t.next_request_id = st.next_request_id BY <1>2, <2>1 DEF Answered, Popped
  <2> QED BY <1>1, <2>2, <2>3 DEF t
<1> QED BY <1>2, <1>5, <1>6

-----------------------------------------------------------------------------
(* The raft thread posts to the redis thread. *)

\* t is the store st with more tasks in its queue.
Posts(st, t, tasks) ==
    /\ t.queue = st.queue \o tasks /\ t.pending_requests = st.pending_requests
    /\ t.answered = st.answered /\ t.next_request_id = st.next_request_id

\* A longer queue holds the old tasks where they were, and the new ones behind.
Behind(st, t, tasks) ==
    \A k \in DOMAIN t.queue :
        \/ k \in DOMAIN st.queue /\ t.queue[k] = st.queue[k]
        \/ \E m \in DOMAIN tasks : k = Len(st.queue) + m /\ t.queue[k] = tasks[m]

\* Where the elements of a concatenation come from.
LEMMA ConcatPlaces ==
    ASSUME NEW S, NEW q \in Seq(S), NEW s \in Seq(S)
    PROVE  /\ q \o s \in Seq(S)
           /\ \A k \in DOMAIN (q \o s) :
                 \/ k \in DOMAIN q /\ (q \o s)[k] = q[k]
                 \/ \E m \in DOMAIN s : k = Len(q) + m /\ (q \o s)[k] = s[m]
<1>1. q \o s \in Seq(S) OBVIOUS
<1>2. ASSUME NEW k \in DOMAIN (q \o s), k \notin DOMAIN q
      PROVE  \E m \in DOMAIN s : k = Len(q) + m /\ (q \o s)[k] = s[m]
  <2>1. k - Len(q) \in DOMAIN s BY <1>2
  <2>2. k = Len(q) + (k - Len(q)) /\ (q \o s)[k] = s[k - Len(q)] BY <1>2
  <2> QED BY <2>1, <2>2
<1>3. \A k \in DOMAIN (q \o s) : k \in DOMAIN q => (q \o s)[k] = q[k] OBVIOUS
<1> QED BY <1>1, <1>2, <1>3

\* Post leaves a store.
LEMMA PostsType ==
    ASSUME NEW st \in StoreType, NEW tasks \in Seq(Task)
    PROVE  LET t == [st EXCEPT !.queue = @ \o tasks]
           IN  t \in StoreType /\ Posts(st, t, tasks) /\ Behind(st, t, tasks)
<1> DEFINE q == st.queue
           q2 == q \o tasks
           t == [st EXCEPT !.queue = q2]
<1>1. q \in Seq(Task) BY StoreFields
<1> HIDE DEF q
<1>2. /\ q2 \in Seq(Task)
      /\ \A k \in DOMAIN q2 :
            \/ k \in DOMAIN q /\ q2[k] = q[k]
            \/ \E m \in DOMAIN tasks : k = Len(q) + m /\ q2[k] = tasks[m]
      BY <1>1, ConcatPlaces
<1> HIDE DEF q2
<1>3. /\ t \in StoreType /\ t.queue = q2 /\ t.pending_requests = st.pending_requests
      /\ t.answered = st.answered /\ t.next_request_id = st.next_request_id
      BY <1>2 DEF StoreType
<1>4. t = [st EXCEPT !.queue = @ \o tasks] BY DEF q, q2
<1> HIDE DEF t
<1>5. Posts(st, t, tasks) BY <1>3 DEF Posts, q, q2
<1>6. Behind(st, t, tasks) BY <1>2, <1>3 DEF Behind, q
<1> QED BY <1>3, <1>4, <1>5, <1>6

\* Tasks that are not commits leave Published and Confirmed alone, and what is
\* published may grow.
LEMMA PostsOther ==
    ASSUME NEW n, NEW st \in StoreType, NEW nd \in NodeType, NEW l,
           Published(st, nd, l), Confirmed(n, st, nd, l),
           NEW t, NEW tasks, Posts(st, t, tasks), Behind(st, t, tasks),
           \A m \in DOMAIN tasks : tasks[m].type # "read_commit",
           NEW nd2 \in NodeType, nd.applied_index <= nd2.applied_index,
           nd2.epoch = nd.epoch, nd2.started = nd.started
    PROVE  Published(t, nd2, l) /\ Confirmed(n, t, nd2, l)
<1>0. 1..nd.applied_index \subseteq 1..nd2.applied_index BY NodeFields
<1>1. \A k \in DOMAIN t.queue : t.queue[k].type = "read_commit" =>
          k \in DOMAIN st.queue /\ t.queue[k] = st.queue[k]
      BY DEF Behind
<1>2. Published(t, nd2, l)
  <2>1. nd2.started <= nd2.applied_index
    <3>1. nd.started <= nd.applied_index BY DEF Published
    <3> QED BY <3>1, NodeFields
  <2> QED BY <2>1, <1>0, <1>1 DEF Published
<1>3. Confirmed(n, t, nd2, l)
  <2> SUFFICES ASSUME NEW id \in 0..MaxRequests,
                      \E k \in DOMAIN t.answered[id] :
                          t.answered[id][k] = [command |-> "set", status |-> "ok"]
               PROVE  \E i \in 1..nd2.applied_index :
                          /\ nd2.started < i /\ l[i].node_id = n /\ l[i].commit_id = id
                          /\ l[i].epoch <= nd2.epoch
                          /\ \A k \in DOMAIN t.queue :
                                t.queue[k].type = "read_commit" => t.queue[k].commit # l[i]
      BY DEF Confirmed
  <2>1. PICK i \in 1..nd.applied_index :
            /\ nd.started < i /\ l[i].node_id = n /\ l[i].commit_id = id /\ l[i].epoch <= nd.epoch
            /\ \A k \in DOMAIN st.queue :
                  st.queue[k].type = "read_commit" => st.queue[k].commit # l[i]
        BY DEF Confirmed, Posts
  <2>2. \A k \in DOMAIN t.queue : t.queue[k].type = "read_commit" => t.queue[k].commit # l[i]
        BY <2>1, <1>1
  <2> QED BY <2>1, <2>2, <1>0
<1> QED BY <1>2, <1>3

\* Tasks that are no answers refuse nobody.
LEMMA PostsRefused ==
    ASSUME NEW st, NEW t, NEW tasks, Posts(st, t, tasks), Behind(st, t, tasks), NEW x,
           \A m \in DOMAIN tasks : ~(/\ tasks[m].type = "status" /\ tasks[m].commit_id = x
                                     /\ tasks[m].status = "error"),
           Refused(t, x)
    PROVE  Refused(st, x)
<1>1. CASE \E k \in DOMAIN t.answered[x] : t.answered[x][k].status = "error"
      BY <1>1 DEF Refused, Posts
<1>2. CASE \E k \in DOMAIN t.queue : /\ t.queue[k].type = "status" /\ t.queue[k].commit_id = x
                                     /\ t.queue[k].status = "error"
      BY <1>2 DEF Refused, Behind
<1> QED BY <1>1, <1>2 DEF Refused

\* Tasks that are no answers keep what the invariant says of requests.
LEMMA PostsRequests ==
    ASSUME NEW n, NEW st \in StoreType, NEW nd, NEW l, NEW p, NodeInv(n, st, nd, l, p),
           NEW t, NEW tasks, Posts(st, t, tasks), Behind(st, t, tasks),
           \A m \in DOMAIN tasks : tasks[m].type # "status",
           NEW nd2, nd2.posts = nd.posts, nd2.epoch = nd.epoch, nd2.started = nd.started
    PROVE  Numbered(t) /\ Reported(t) /\ Posted(n, t, nd2) /\ Proposed(n, t, nd2, l, p)
<1>0. \A x : Refused(t, x) => Refused(st, x) BY PostsRefused
<1>1. Numbered(t) BY DEF NodeInv, Numbered, Posts
<1>2. Reported(t) BY DEF NodeInv, Reported, Posts, Behind
<1>3. Posted(n, t, nd2) BY <1>0 DEF NodeInv, Posted, Posts
<1>4. Proposed(n, t, nd2, l, p) BY <1>0 DEF NodeInv, Proposed, Posts
<1> QED BY <1>1, <1>2, <1>3, <1>4

\* The commits l[i+1], ..., l[j], and after them perhaps the request for a snapshot
Entries(tasks, l, i, j) ==
    \A m \in DOMAIN tasks :
        \/ m \in 1..(j - i) /\ tasks[m] = [type |-> "read_commit", commit |-> l[i + m]]
        \/ tasks[m].type = "get_snapshot"

\* publish_entries: each entry is posted once, when it is passed.
LEMMA PublishedInv ==
    ASSUME NEW n, NEW st \in StoreType, NEW nd \in NodeType,
           NEW l \in Seq(RaftCommit), NEW p \in SUBSET RaftCommit, NodeInv(n, st, nd, l, p),
           Committed(l, p), nd.applied_index <= Len(l),
           NEW j \in nd.applied_index + 1..Len(l),
           NEW t, NEW tasks, Posts(st, t, tasks), Behind(st, t, tasks),
           Entries(tasks, l, nd.applied_index, j),
           NEW nd2 \in NodeType, nd2.applied_index = j, nd2.posts = nd.posts,
           nd2.epoch = nd.epoch, nd2.started = nd.started
    PROVE  NodeInv(n, t, nd2, l, p)
<1> DEFINE i == nd.applied_index
<1>0. i \in Nat /\ j \in Nat /\ i < j /\ j <= Len(l) /\ Len(l) \in Nat BY NodeFields
<1>d. \A a, b \in 1..Len(l) : l[a] = l[b] => a = b BY DEF Committed, Same
<1>s. nd.started \in Nat /\ nd.started <= i /\ nd.started <= j /\ nd2.started = nd.started
  <2>1. nd.started <= nd.applied_index BY DEF NodeInv, Published
  <2> QED BY <2>1, <1>0, NodeFields
<1>1. Numbered(t) /\ Reported(t) /\ Posted(n, t, nd2) /\ Proposed(n, t, nd2, l, p)
  <2>1. \A m \in DOMAIN tasks : tasks[m].type # "status" BY DEF Entries
  <2> QED BY <2>1, PostsRequests
<1> HIDE DEF i
<1>2. \A k \in DOMAIN t.queue :
          t.queue[k].type = "read_commit" =>
              \/ k \in DOMAIN st.queue /\ t.queue[k] = st.queue[k]
              \/ \E m \in 1..(j - i) : k = Len(st.queue) + m /\ t.queue[k].commit = l[i + m]
      BY DEF Behind, Entries, i
<1>3. \A k \in DOMAIN t.queue :
          t.queue[k].type = "read_commit" =>
              \/ /\ k \in DOMAIN st.queue /\ t.queue[k] = st.queue[k]
                 /\ \E a \in 1..i : nd.started < a /\ l[a] = t.queue[k].commit
              \/ \E b \in i + 1..j : k = Len(st.queue) + (b - i) /\ t.queue[k].commit = l[b]
  <2> SUFFICES ASSUME NEW k \in DOMAIN t.queue, t.queue[k].type = "read_commit"
               PROVE  \/ /\ k \in DOMAIN st.queue /\ t.queue[k] = st.queue[k]
                         /\ \E a \in 1..i : nd.started < a /\ l[a] = t.queue[k].commit
                      \/ \E b \in i + 1..j : k = Len(st.queue) + (b - i) /\ t.queue[k].commit = l[b]
      OBVIOUS
  <2>1. CASE k \in DOMAIN st.queue /\ t.queue[k] = st.queue[k]
        BY <2>1 DEF NodeInv, Published, i
  <2>2. CASE \E m \in 1..(j - i) : k = Len(st.queue) + m /\ t.queue[k].commit = l[i + m]
    <3>1. PICK m \in 1..(j - i) : k = Len(st.queue) + m /\ t.queue[k].commit = l[i + m] BY <2>2
    <3>2. i + m \in i + 1..j /\ (i + m) - i = m BY <1>0
    <3> QED BY <3>1, <3>2
  <2> QED BY <2>1, <2>2, <1>2
<1>4. Published(t, nd2, l)
  <2>1. \A k \in DOMAIN t.queue :
            t.queue[k].type = "read_commit" =>
                \E a \in 1..j : nd2.started < a /\ l[a] = t.queue[k].commit
    <3>1. /\ 1..i \subseteq 1..j /\ i + 1..j \subseteq 1..j
          /\ \A b \in i + 1..j : nd.started < b
          BY <1>0, <1>s
    <3> QED BY <3>1, <1>3
  <2>2. ASSUME NEW k \in DOMAIN t.queue, NEW m \in DOMAIN t.queue,
               t.queue[k].type = "read_commit", t.queue[m].type = "read_commit",
               t.queue[k].commit = t.queue[m].commit
        PROVE  k = m
    <3>1. CASE \E b \in i + 1..j : k = Len(st.queue) + (b - i) /\ t.queue[k].commit = l[b]
      <4>1. PICK b \in i + 1..j : k = Len(st.queue) + (b - i) /\ t.queue[k].commit = l[b] BY <3>1
      <4>2. b \in 1..Len(l) /\ b \notin 1..i BY <1>0
      <4>3. \A a \in 1..Len(l) : l[a] = t.queue[m].commit => a = b BY <4>1, <4>2, <2>2, <1>d
      <4>4. 1..i \subseteq 1..Len(l) /\ i + 1..j \subseteq 1..Len(l) BY <1>0
      <4>5. ~(\E a \in 1..i : l[a] = t.queue[m].commit) BY <4>2, <4>3, <4>4
      <4>6. PICK d \in i + 1..j : m = Len(st.queue) + (d - i) /\ t.queue[m].commit = l[d]
            BY <4>5, <2>2, <1>3
      <4>7. d = b BY <4>3, <4>4, <4>6
      <4> QED BY <4>1, <4>6, <4>7
    <3>2. CASE k \in DOMAIN st.queue /\ t.queue[k] = st.queue[k]
               /\ \E a \in 1..i : nd.started < a /\ l[a] = t.queue[k].commit
      <4>1. PICK a \in 1..i : l[a] = t.queue[k].commit BY <3>2
      <4>2. a \in 1..Len(l) /\ a \notin i + 1..j BY <1>0
      <4>3. i + 1..j \subseteq 1..Len(l) BY <1>0
      <4>4. ~(\E b \in i + 1..j : l[b] = t.queue[m].commit) BY <4>1, <4>2, <4>3, <2>2, <1>d
      <4>5. m \in DOMAIN st.queue /\ t.queue[m] = st.queue[m] BY <4>4, <2>2, <1>3
      <4> QED BY <4>5, <3>2, <2>2 DEF NodeInv, Published
    <3> QED BY <3>1, <3>2, <2>2, <1>3
  <2> QED BY <2>1, <2>2, <1>s DEF Published
<1>5. Confirmed(n, t, nd2, l)
  <2> SUFFICES ASSUME NEW id \in 0..MaxRequests,
                      \E k \in DOMAIN t.answered[id] :
                          t.answered[id][k] = [command |-> "set", status |-> "ok"]
               PROVE  \E a \in 1..nd2.applied_index :
                          /\ nd2.started < a /\ l[a].node_id = n /\ l[a].commit_id = id
                          /\ l[a].epoch <= nd2.epoch
                          /\ \A k \in DOMAIN t.queue :
                                t.queue[k].type = "read_commit" => t.queue[k].commit # l[a]
      BY DEF Confirmed
  <2>1. PICK a \in 1..i :
            /\ nd.started < a /\ l[a].node_id = n /\ l[a].commit_id = id /\ l[a].epoch <= nd.epoch
            /\ \A k \in DOMAIN st.queue :
                  st.queue[k].type = "read_commit" => st.queue[k].commit # l[a]
        BY DEF NodeInv, Confirmed, Posts, i
  <2>2. a \in 1..j /\ a \in 1..Len(l) /\ a \notin i + 1..j /\ i + 1..j \subseteq 1..Len(l) BY <1>0
  <2>3. \A b \in i + 1..j : l[b] # l[a] BY <2>2, <1>d
  <2>4. \A k \in DOMAIN t.queue : t.queue[k].type = "read_commit" => t.queue[k].commit # l[a]
        BY <2>1, <2>3, <1>3
  <2> QED BY <2>1, <2>2, <2>4
<1> QED BY <1>1, <1>4, <1>5 DEF NodeInv

-----------------------------------------------------------------------------
(* A proposal. *)

\* nd2 is the node nd without the first of its posts.
Taking(nd, nd2) ==
    /\ nd2.posts = Tail(nd.posts) /\ nd2.epoch = nd.epoch
    /\ nd2.started = nd.started /\ nd2.applied_index = nd.applied_index

\* What is left of the posts came after the first.
LEMMA TakingLater ==
    ASSUME NEW nd \in NodeType, nd.posts # <<>>, NEW nd2, Taking(nd, nd2)
    PROVE  /\ 1 \in DOMAIN nd.posts /\ nd.posts[1] = Head(nd.posts)
           /\ \A k \in DOMAIN nd2.posts :
                 k + 1 \in DOMAIN nd.posts /\ k + 1 # 1 /\ nd2.posts[k] = nd.posts[k + 1]
           /\ \A j, k \in DOMAIN nd2.posts : j + 1 = k + 1 => j = k
<1> DEFINE q == nd.posts
<1>1. q \in Seq(RaftCommit) /\ q # <<>> BY NodeFields
<1> HIDE DEF q
<1>2. /\ 1 \in DOMAIN q /\ q[1] = Head(q)
      /\ \A k \in DOMAIN Tail(q) : k + 1 \in DOMAIN q /\ k + 1 # 1 /\ Tail(q)[k] = q[k + 1]
      /\ \A j, k \in DOMAIN Tail(q) : j + 1 = k + 1 => j = k
      BY <1>1, TailOf
<1> QED BY <1>2 DEF q, Taking

\* RaftNode::propose: a command goes to Raft, or its request is told that it
\* does not, never both.
LEMMA ProposeInv ==
    ASSUME NEW n, NEW st \in StoreType, NEW nd \in NodeType,
           NEW l \in Seq(RaftCommit), NEW p \in SUBSET RaftCommit, NodeInv(n, st, nd, l, p),
           Committed(l, p), nd.posts # <<>>,
           NEW c, c = Head(nd.posts), NEW status \in {"ok", "error"},
           NEW p2, p2 = IF status = "ok" THEN p \cup {c} ELSE p,
           NEW t, NEW tasks, Posts(st, t, tasks), Behind(st, t, tasks),
           tasks = <<[type |-> "status", commit_id |-> c.commit_id,
                      command |-> c.redis_data.type, status |-> status]>>,
           NEW nd2 \in NodeType, Taking(nd, nd2)
    PROVE  NodeInv(n, t, nd2, l, p2) /\ Committed(l, p2)
<1> DEFINE task == [type |-> "status", commit_id |-> c.commit_id,
                    command |-> c.redis_data.type, status |-> status]
<1>0. /\ 1 \in DOMAIN nd.posts /\ nd.posts[1] = c
      /\ \A k \in DOMAIN nd2.posts :
            k + 1 \in DOMAIN nd.posts /\ k + 1 # 1 /\ nd2.posts[k] = nd.posts[k + 1]
      /\ \A j, k \in DOMAIN nd2.posts : j + 1 = k + 1 => j = k
      BY TakingLater
<1>t. tasks = <<task>> OBVIOUS
<1>u. /\ task.type = "status" /\ task.commit_id = c.commit_id
      /\ task.command = c.redis_data.type /\ task.status = status OBVIOUS
<1> HIDE DEF task
<1>v. \A m \in DOMAIN tasks : tasks[m] = task BY <1>t
<1>c. /\ c.node_id = n /\ c.epoch = nd.epoch /\ c.commit_id < st.next_request_id
      /\ ~Refused(st, c.commit_id)
      /\ c.commit_id \in DOMAIN st.pending_requests =>
             st.pending_requests[c.commit_id] = c.redis_data.type
      BY <1>0 DEF NodeInv, Posted
<1>d. \A k \in DOMAIN nd2.posts : nd2.posts[k].commit_id # c.commit_id
      BY <1>0 DEF NodeInv, Posted
<1>e. \A a \in Taken(l, p) : a.node_id = n /\ a.epoch = nd.epoch => a.commit_id # c.commit_id
      BY <1>0 DEF NodeInv, Proposed
<1>f. Taken(l, p2) = IF status = "ok" THEN Taken(l, p) \cup {c} ELSE Taken(l, p)
      BY DEF Taken
<1>r. \A x : x # c.commit_id \/ status = "ok" => (Refused(t, x) => Refused(st, x))
  <2> SUFFICES ASSUME NEW x, x # c.commit_id \/ status = "ok", Refused(t, x) PROVE Refused(st, x)
      OBVIOUS
  <2>1. \A m \in DOMAIN tasks : ~(/\ tasks[m].type = "status" /\ tasks[m].commit_id = x
                                  /\ tasks[m].status = "error")
        BY <1>u, <1>v
  <2> QED BY <2>1, PostsRefused
<1>1. Numbered(t) BY DEF NodeInv, Numbered, Posts
<1>2. Reported(t)
  <2> SUFFICES ASSUME NEW k \in DOMAIN t.queue, t.queue[k].type = "status"
               PROVE  /\ t.queue[k].commit_id < t.next_request_id
                      /\ t.queue[k].commit_id \in DOMAIN t.pending_requests =>
                             t.pending_requests[t.queue[k].commit_id] = t.queue[k].command
      BY DEF Reported
  <2>1. CASE k \in DOMAIN st.queue /\ t.queue[k] = st.queue[k]
        BY <2>1 DEF NodeInv, Reported, Posts
  <2>2. CASE t.queue[k] = task BY <2>2, <1>u, <1>c DEF Posts
  <2> QED BY <2>1, <2>2, <1>v DEF Behind
<1>3. Posted(n, t, nd2)
  <2>1. \A k \in DOMAIN nd2.posts : ~Refused(t, nd2.posts[k].commit_id)
        BY <1>0, <1>d, <1>r DEF NodeInv, Posted
  <2>2. \A k \in DOMAIN nd2.posts :
            /\ nd2.posts[k].node_id = n /\ nd2.posts[k].epoch = nd2.epoch
            /\ nd2.posts[k].commit_id < t.next_request_id
            /\ nd2.posts[k].commit_id \in DOMAIN t.pending_requests =>
                   t.pending_requests[nd2.posts[k].commit_id] = nd2.posts[k].redis_data.type
        BY <1>0 DEF NodeInv, Posted, Posts, Taking
  <2>3. \A j, k \in DOMAIN nd2.posts : nd2.posts[j].commit_id = nd2.posts[k].commit_id => j = k
        BY <1>0 DEF NodeInv, Posted
  <2> QED BY <2>1, <2>2, <2>3 DEF Posted
<1>4. Proposed(n, t, nd2, l, p2)
  <2> SUFFICES ASSUME NEW a \in Taken(l, p2), a.node_id = n
               PROVE  /\ a.epoch <= nd2.epoch
                      /\ a.epoch = nd2.epoch =>
                            /\ a.commit_id < t.next_request_id
                            /\ ~Refused(t, a.commit_id)
                            /\ \A k \in DOMAIN nd2.posts : nd2.posts[k].commit_id # a.commit_id
      BY DEF Proposed
  <2>1. CASE a \in Taken(l, p)
    <3>1. a.epoch <= nd2.epoch BY <2>1 DEF NodeInv, Proposed, Taking
    <3>2. ASSUME a.epoch = nd2.epoch
          PROVE  /\ a.commit_id < t.next_request_id /\ ~Refused(t, a.commit_id)
                 /\ \A k \in DOMAIN nd2.posts : nd2.posts[k].commit_id # a.commit_id
      <4>1. /\ a.commit_id < st.next_request_id /\ ~Refused(st, a.commit_id)
            /\ \A k \in DOMAIN nd.posts : nd.posts[k].commit_id # a.commit_id
            BY <2>1, <3>2 DEF NodeInv, Proposed, Taking
      <4>2. a.commit_id # c.commit_id BY <4>1, <1>0
      <4> QED BY <4>1, <4>2, <1>r, <1>0 DEF Posts
    <3> QED BY <3>1, <3>2
  <2>2. CASE a = c /\ status = "ok"
    <3>1. nd.epoch \in Nat BY NodeFields
    <3> QED BY <2>2, <3>1, <1>c, <1>d, <1>r DEF Posts, Taking
  <2> QED BY <2>1, <2>2, <1>f
<1>5. Published(t, nd2, l) /\ Confirmed(n, t, nd2, l)
  <2>1. \A m \in DOMAIN tasks : tasks[m].type # "read_commit" BY <1>u, <1>v
  <2>2. /\ nd.applied_index <= nd2.applied_index /\ nd2.epoch = nd.epoch
        /\ nd2.started = nd.started
        BY NodeFields DEF Taking
  <2> QED BY <2>1, <2>2, PostsOther DEF NodeInv
<1>6. Committed(l, p2)
  <2>1. \A a \in Taken(l, p) : ~Same(a, c) BY <1>c, <1>e DEF Same
  <2>2. \A i \in DOMAIN l : l[i] \in Taken(l, p) BY DEF Taken, ToSet
  <2>3. \A a \in p : a \in Taken(l, p) BY DEF Taken
  <2>4. \A a \in p : ~Same(a, c) /\ ~Same(c, a) BY <2>1, <2>3 DEF Same
  <2>5. \A a, b \in p2 : Same(a, b) => a = b BY <2>4 DEF Committed
  <2>6. \A i \in DOMAIN l, b \in p2 : ~Same(l[i], b) BY <2>1, <2>2 DEF Committed
  <2> QED BY <2>5, <2>6 DEF Committed
<1> QED BY <1>1, <1>2, <1>3, <1>4, <1>5, <1>6 DEF NodeInv

\* A proposal of another node does not concern this one.
LEMMA ProposeOther ==
    ASSUME NEW n, NEW st, NEW nd, NEW l, NEW p, NodeInv(n, st, nd, l, p),
           NEW c, c.node_id # n, NEW p2, p2 \subseteq p \cup {c}
    PROVE  NodeInv(n, st, nd, l, p2)
<1>1. \A a \in Taken(l, p2) : a.node_id = n => a \in Taken(l, p) BY DEF Taken
<1>2. Proposed(n, st, nd, l, p2) BY <1>1 DEF NodeInv, Proposed
<1> QED BY <1>2 DEF NodeInv

-----------------------------------------------------------------------------
(* Raft, a request, a restart. *)

\* Raft commits a proposal: the entries below the new one stay what they are.
LEMMA ChooseInv ==
    ASSUME NEW n, NEW st, NEW nd \in NodeType, NEW l \in Seq(RaftCommit),
           NEW p \in SUBSET RaftCommit, NodeInv(n, st, nd, l, p), nd.applied_index <= Len(l),
           NEW c \in p
    PROVE  NodeInv(n, st, nd, Append(l, c), p \ {c})
<1> DEFINE l2 == Append(l, c)
<1>1. ToSet(l2) \subseteq ToSet(l) \cup {c} BY DEF ToSet
<1>2. \A i \in 1..nd.applied_index : l2[i] = l[i] BY NodeFields
<1> HIDE DEF l2
<1>3. \A a \in Taken(l2, p \ {c}) : a \in Taken(l, p) BY <1>1 DEF Taken
<1>4. Proposed(n, st, nd, l2, p \ {c}) BY <1>3 DEF NodeInv, Proposed
<1>5. Published(st, nd, l2) BY <1>2 DEF NodeInv, Published
<1>6. Confirmed(n, st, nd, l2)
  <2> SUFFICES ASSUME NEW id \in 0..MaxRequests,
                      \E k \in DOMAIN st.answered[id] :
                          st.answered[id][k] = [command |-> "set", status |-> "ok"]
               PROVE  \E i \in 1..nd.applied_index :
                          /\ nd.started < i /\ l2[i].node_id = n /\ l2[i].commit_id = id
                          /\ l2[i].epoch <= nd.epoch
                          /\ \A k \in DOMAIN st.queue :
                                st.queue[k].type = "read_commit" => st.queue[k].commit # l2[i]
      BY DEF Confirmed
  <2>1. PICK i \in 1..nd.applied_index :
            /\ nd.started < i /\ l[i].node_id = n /\ l[i].commit_id = id /\ l[i].epoch <= nd.epoch
            /\ \A k \in DOMAIN st.queue :
                  st.queue[k].type = "read_commit" => st.queue[k].commit # l[i]
        BY DEF NodeInv, Confirmed
  <2> QED BY <2>1, <1>2
<1> QED BY <1>4, <1>5, <1>6 DEF NodeInv, l2

\* ... once.
LEMMA ChooseCommitted ==
    ASSUME NEW l \in Seq(RaftCommit), NEW p \in SUBSET RaftCommit, Committed(l, p), NEW c \in p
    PROVE  Committed(Append(l, c), p \ {c})
<1> DEFINE l2 == Append(l, c)
<1>1. \A i \in DOMAIN l2 : \/ i \in DOMAIN l /\ l2[i] = l[i]
                           \/ i = Len(l) + 1 /\ i \notin DOMAIN l /\ l2[i] = c
      OBVIOUS
<1> HIDE DEF l2
<1>2. \A i, j \in DOMAIN l2 : Same(l2[i], l2[j]) => i = j BY <1>1 DEF Committed, Same
<1>3. \A i \in DOMAIN l2, b \in p \ {c} : ~Same(l2[i], b) BY <1>1 DEF Committed
<1> QED BY <1>2, <1>3 DEF Committed, l2

\* A proposal is lost.
LEMMA LoseInv ==
    ASSUME NEW n, NEW st, NEW nd, NEW l, NEW p, NodeInv(n, st, nd, l, p), NEW p2 \in SUBSET p
    PROVE  NodeInv(n, st, nd, l, p2)
<1>1. \A a \in Taken(l, p2) : a \in Taken(l, p) BY DEF Taken
<1>2. Proposed(n, st, nd, l, p2) BY <1>1 DEF NodeInv, Proposed
<1> QED BY <1>2 DEF NodeInv

\* A process starts with nothing posted, nothing answered and an epoch of its own.
LEMMA RestartInv ==
    ASSUME NEW n, NEW nd \in NodeType, NEW l \in Seq(RaftCommit), NEW p \in SUBSET RaftCommit,
           \A a \in Taken(l, p) : a.node_id = n => a.epoch <= nd.epoch,
           NEW st2, NEW nd2, st2.queue = <<>>, DOMAIN st2.pending_requests = {},
           st2.answered = [i \in 0..MaxRequests |-> <<>>],
           nd2.posts = <<>>, nd2.epoch = nd.epoch + 1, nd2.started <= nd2.applied_index
    PROVE  NodeInv(n, st2, nd2, l, p)
<1>1. Numbered(st2) BY DEF Numbered
<1>2. Reported(st2) BY DEF Reported
<1>3. Posted(n, st2, nd2) BY DEF Posted
<1>4. Proposed(n, st2, nd2, l, p)
  <2>1. \A a \in Taken(l, p) : a \in RaftCommit BY DEF Taken, ToSet
  <2>2. \A a \in Taken(l, p) : a.epoch \in Nat BY <2>1 DEF RaftCommit
  <2>3. nd.epoch \in Nat BY NodeFields
  <2>4. \A a \in Taken(l, p) : a.node_id = n => a.epoch <= nd2.epoch /\ a.epoch # nd2.epoch
        BY <2>2, <2>3
  <2> QED BY <2>4 DEF Proposed
<1>5. Published(st2, nd2, l) BY DEF Published
<1>6. Confirmed(n, st2, nd2, l)
  <2>1. \A id \in 0..MaxRequests : DOMAIN st2.answered[id] = {} OBVIOUS
  <2> QED BY <2>1 DEF Confirmed
<1> QED BY <1>1, <1>2, <1>3, <1>4, <1>5, <1>6 DEF NodeInv

\* The store st has handed out its next id to a command of this type.
Issued(st, t, type) ==
    /\ t.next_request_id = st.next_request_id + 1
    /\ t.pending_requests = [i \in DOMAIN st.pending_requests \cup {st.next_request_id} |->
                                IF i = st.next_request_id THEN type ELSE st.pending_requests[i]]
    /\ t.queue = st.queue /\ t.answered = st.answered

\* set and del: a new id is one that nothing has been said about.
LEMMA RequestInv ==
    ASSUME NEW n, NEW st \in StoreType, NEW nd \in NodeType,
           NEW l \in Seq(RaftCommit), NEW p \in SUBSET RaftCommit, NodeInv(n, st, nd, l, p),
           MaxRequests \in Nat, st.next_request_id < MaxRequests,
           NEW c \in RaftCommit, c.node_id = n, c.commit_id = st.next_request_id,
           c.epoch = nd.epoch,
           NEW t, Issued(st, t, c.redis_data.type),
           NEW nd2, nd2.posts = Append(nd.posts, c), nd2.epoch = nd.epoch, nd2.started = nd.started,
           nd2.applied_index = nd.applied_index
    PROVE  NodeInv(n, t, nd2, l, p)
<1> DEFINE id == st.next_request_id
           type == c.redis_data.type
<1>0. /\ id \in Nat /\ id \in 0..MaxRequests /\ t.next_request_id = id + 1 /\ id < id + 1
      /\ \A x \in Nat : x < id => x # id /\ x < id + 1
  <2>1. id \in Nat /\ id < MaxRequests BY StoreFields
  <2>2. t.next_request_id = id + 1 BY DEF Issued
  <2> HIDE DEF id
  <2> QED BY <2>1, <2>2
<1>w. /\ DOMAIN t.pending_requests = DOMAIN st.pending_requests \cup {id}
      /\ t.pending_requests[id] = type
      /\ \A x \in DOMAIN st.pending_requests : x # id => t.pending_requests[x] = st.pending_requests[x]
      /\ t.queue = st.queue /\ t.answered = st.answered
      BY DEF Issued
<1>d. DOMAIN st.pending_requests \subseteq 0..MaxRequests BY StoreFields
<1>q. \A k \in DOMAIN st.queue : st.queue[k].type = "status" => st.queue[k].commit_id \in Nat
  <2> DEFINE q == st.queue
  <2>1. q \in Seq(Task) BY StoreFields
  <2> HIDE DEF q
  <2>2. \A k \in DOMAIN q : q[k] \in Task BY <2>1
  <2>3. \A k \in DOMAIN q : q[k].type = "status" => q[k].commit_id \in Nat BY <2>2, TaskFields
  <2> QED BY <2>3 DEF q
<1>p. \A k \in DOMAIN nd2.posts :
          \/ k \in DOMAIN nd.posts /\ nd2.posts[k] = nd.posts[k]
          \/ k = Len(nd.posts) + 1 /\ k \notin DOMAIN nd.posts /\ nd2.posts[k] = c
  <2> DEFINE q == nd.posts
  <2>1. q \in Seq(RaftCommit) BY NodeFields
  <2> HIDE DEF q
  <2>2. \A k \in DOMAIN Append(q, c) : \/ k \in DOMAIN q /\ Append(q, c)[k] = q[k]
                                       \/ k = Len(q) + 1 /\ k \notin DOMAIN q /\ Append(q, c)[k] = c
        BY <2>1
  <2> QED BY <2>2 DEF q
<1>n. \A k \in DOMAIN nd.posts : nd.posts[k].commit_id \in Nat BY PostFields
<1>r. \A x : Refused(t, x) <=> Refused(st, x) BY <1>w DEF Refused
<1>s. ~Refused(st, id)
  <2>1. st.answered[id] = <<>> BY <1>0 DEF NodeInv, Numbered
  <2>2. \A k \in DOMAIN st.queue : st.queue[k].type = "status" => st.queue[k].commit_id # id
        BY <1>0, <1>q DEF NodeInv, Reported
  <2> QED BY <2>1, <2>2 DEF Refused
<1> HIDE DEF id, type
<1>i. st.next_request_id = id /\ c.commit_id = id /\ c.redis_data.type = type BY DEF id, type
<1>1. Numbered(t)
  <2>1. \A x \in DOMAIN t.pending_requests : x < t.next_request_id
        BY <1>0, <1>w, <1>d, <1>i DEF NodeInv, Numbered
  <2>2. ASSUME NEW x \in 0..MaxRequests, t.answered[x] # <<>>
        PROVE  /\ x < t.next_request_id /\ x \notin DOMAIN t.pending_requests
               /\ Len(t.answered[x]) = 1
    <3>1. /\ x < id /\ x \notin DOMAIN st.pending_requests /\ Len(st.answered[x]) = 1
          BY <2>2, <1>w, <1>i DEF NodeInv, Numbered
    <3> QED BY <3>1, <1>0, <1>w
  <2> QED BY <2>1, <2>2 DEF Numbered
<1>2. Reported(t)
  <2> SUFFICES ASSUME NEW k \in DOMAIN st.queue, st.queue[k].type = "status"
               PROVE  /\ st.queue[k].commit_id < t.next_request_id
                      /\ st.queue[k].commit_id \in DOMAIN t.pending_requests =>
                             t.pending_requests[st.queue[k].commit_id] = st.queue[k].command
      BY <1>w DEF Reported
  <2>1. /\ st.queue[k].commit_id < id
        /\ st.queue[k].commit_id \in DOMAIN st.pending_requests =>
               st.pending_requests[st.queue[k].commit_id] = st.queue[k].command
        BY <1>i DEF NodeInv, Reported
  <2>2. st.queue[k].commit_id # id /\ st.queue[k].commit_id < id + 1 BY <2>1, <1>0, <1>q
  <2> QED BY <2>1, <2>2, <1>0, <1>w
<1>3. Posted(n, t, nd2)
  <2>1. ASSUME NEW k \in DOMAIN nd2.posts
        PROVE  /\ nd2.posts[k].node_id = n /\ nd2.posts[k].epoch = nd2.epoch
               /\ nd2.posts[k].commit_id < t.next_request_id
               /\ ~Refused(t, nd2.posts[k].commit_id)
               /\ nd2.posts[k].commit_id \in DOMAIN t.pending_requests =>
                      t.pending_requests[nd2.posts[k].commit_id] = nd2.posts[k].redis_data.type
    <3>1. CASE nd2.posts[k] = c BY <3>1, <1>0, <1>i, <1>w, <1>r, <1>s
    <3>2. CASE k \in DOMAIN nd.posts /\ nd2.posts[k] = nd.posts[k]
      <4>1. /\ nd.posts[k].node_id = n /\ nd.posts[k].epoch = nd.epoch
            /\ nd.posts[k].commit_id < id
            /\ ~Refused(st, nd.posts[k].commit_id)
            /\ nd.posts[k].commit_id \in DOMAIN st.pending_requests =>
                   st.pending_requests[nd.posts[k].commit_id] = nd.posts[k].redis_data.type
            BY <3>2, <1>i DEF NodeInv, Posted
      <4>2. nd.posts[k].commit_id # id /\ nd.posts[k].commit_id < id + 1
            BY <4>1, <3>2, <1>0, <1>n
      <4> QED BY <4>1, <4>2, <3>2, <1>0, <1>w, <1>r
    <3> QED BY <3>1, <3>2, <1>p
  <2>2. \A k \in DOMAIN nd.posts : nd.posts[k].commit_id # id
        BY <1>0, <1>n, <1>i DEF NodeInv, Posted
  <2>3. \A j, k \in DOMAIN nd2.posts : nd2.posts[j].commit_id = nd2.posts[k].commit_id => j = k
        BY <2>2, <1>p, <1>i DEF NodeInv, Posted
  <2> QED BY <2>1, <2>3 DEF Posted
<1>4. Proposed(n, t, nd2, l, p)
  <2>1. \A a \in Taken(l, p) : a \in RaftCommit BY DEF Taken, ToSet
  <2>2. \A a \in Taken(l, p) : a.commit_id \in Nat BY <2>1 DEF RaftCommit
  <2>3. ASSUME NEW a \in Taken(l, p), a.node_id = n
        PROVE  /\ a.epoch <= nd2.epoch
               /\ a.epoch = nd2.epoch =>
                     /\ a.commit_id < t.next_request_id
                     /\ ~Refused(t, a.commit_id)
                     /\ \A k \in DOMAIN nd2.posts : nd2.posts[k].commit_id # a.commit_id
    <3>1. /\ a.epoch <= nd.epoch
          /\ a.epoch = nd.epoch =>
                /\ a.commit_id < id /\ ~Refused(st, a.commit_id)
                /\ \A k \in DOMAIN nd.posts : nd.posts[k].commit_id # a.commit_id
          BY <2>3, <1>i DEF NodeInv, Proposed
    <3>2. a.commit_id < id => a.commit_id # id /\ a.commit_id < id + 1 BY <2>2, <1>0
    <3> QED BY <3>1, <3>2, <1>0, <1>p, <1>r, <1>i
  <2> QED BY <2>3 DEF Proposed
<1>5. Published(t, nd2, l) BY <1>w DEF NodeInv, Published
<1>6. Confirmed(n, t, nd2, l) BY <1>w DEF NodeInv, Confirmed
<1> QED BY <1>1, <1>2, <1>3, <1>4, <1>5, <1>6 DEF NodeInv

\* What the raft thread does to itself alone changes nothing of this.
LEMMA SameNodeInv ==
    ASSUME NEW n, NEW st, NEW nd, NEW l, NEW p, NodeInv(n, st, nd, l, p),
           NEW nd2, nd2.posts = nd.posts, nd2.epoch = nd.epoch, nd2.started = nd.started,
           nd2.applied_index = nd.applied_index
    PROVE  NodeInv(n, st, nd2, l, p)
<1>1. Posted(n, st, nd2) BY DEF NodeInv, Posted
<1>2. Proposed(n, st, nd2, l, p) BY DEF NodeInv, Proposed
<1>3. Published(st, nd2, l) BY DEF NodeInv, Published
<1>4. Confirmed(n, st, nd2, l) BY DEF NodeInv, Confirmed
<1> QED BY <1>1, <1>2, <1>3, <1>4 DEF NodeInv

-----------------------------------------------------------------------------
(* The steps. *)

\* The invariant gives the types of everything a step of node n reads.
LEMMA Facts ==
    ASSUME StoreInv, NEW n \in Node
    PROVE  /\ store[n] \in StoreType /\ node[n] \in NodeType /\ snap[n] \in Snapshot
           /\ log \in Seq(RaftCommit) /\ proposed \in SUBSET RaftCommit
           /\ Committed(log, proposed) /\ NodeInv(n, store[n], node[n], log, proposed)
           /\ MaxRequests \in Nat /\ Len(log) \in Nat
           /\ used \in [requests : Nat, restarts : Nat] /\ used.requests <= MaxRequests
           /\ store[n].next_request_id <= used.requests
           /\ store[n].next_request_id <= MaxRequests
           /\ snap[n].index <= Len(log) /\ node[n].applied_index <= Len(log)
<1>1. MaxRequests \in Nat BY StoreAssumption
<1>2. used.requests \in Nat BY DEF StoreInv, Usage
<1>3. store[n] \in StoreType BY DEF StoreInv, TypeOK
<1>4. store[n].next_request_id \in Nat BY <1>3, StoreFields
<1> QED BY <1>1, <1>2, <1>3, <1>4 DEF StoreInv, TypeOK, Usage, Indexed

\* A step of one node that keeps its own part and, of the others, what their
\* parts say of the proposals keeps the invariant.
LEMMA StepOf ==
    ASSUME StoreInv, NEW n \in Node, NEW st2 \in StoreType, NEW nd2 \in NodeType,
           store' = [store EXCEPT ![n] = st2], node' = [node EXCEPT ![n] = nd2], log' = log,
           proposed' \in SUBSET RaftCommit, Committed(log, proposed'),
           NodeInv(n, st2, nd2, log, proposed'),
           \A m \in Node \ {n} : NodeInv(m, store[m], node[m], log, proposed'),
           nd2.applied_index <= Len(log),
           snap' \in [Node -> Snapshot], \A m \in Node : snap'[m].index <= Len(log),
           used' \in [requests : Nat, restarts : Nat], used'.requests <= MaxRequests,
           used.requests <= used'.requests, st2.next_request_id <= used'.requests,
           cut' \subseteq Node
    PROVE  StoreInv'
<1>1. /\ store \in [Node -> StoreType] /\ node \in [Node -> NodeType] BY DEF StoreInv, TypeOK
<1>2. /\ store' \in [Node -> StoreType] /\ node' \in [Node -> NodeType]
      /\ store'[n] = st2 /\ node'[n] = nd2
      /\ \A m \in Node \ {n} : store'[m] = store[m] /\ node'[m] = node[m]
      BY <1>1
<1>3. TypeOK' BY <1>2 DEF StoreInv, TypeOK
<1>4. \A m \in Node : store'[m].next_request_id <= used'.requests
  <2> SUFFICES ASSUME NEW m \in Node PROVE store'[m].next_request_id <= used'.requests
      OBVIOUS
  <2>1. CASE m = n BY <2>1, <1>2
  <2>2. CASE m # n
    <3>1. store[m].next_request_id <= used.requests /\ store[m] \in StoreType BY Facts
    <3>2. store[m].next_request_id \in Nat BY <3>1, StoreFields
    <3>3. used.requests \in Nat /\ used'.requests \in Nat BY DEF StoreInv, Usage
    <3>4. store[m].next_request_id <= used'.requests BY <3>1, <3>2, <3>3
    <3> QED BY <3>4, <2>2, <1>2
  <2> QED BY <2>1, <2>2
<1>5. Usage' BY <1>4 DEF Usage
<1>6. Indexed'
  <2>1. \A m \in Node : node'[m].applied_index <= Len(log)
        BY <1>2 DEF StoreInv, Indexed
  <2> QED BY <2>1 DEF Indexed
<1>7. \A m \in Node : NodeInv(m, store'[m], node'[m], log', proposed') BY <1>2
<1>8. Committed(log', proposed') OBVIOUS
<1> QED BY <1>3, <1>5, <1>6, <1>7, <1>8 DEF StoreInv

\* The redis thread runs a handler.
LEMMA RunTaskStep == ASSUME StoreInv, NEW n \in Node, RunTask(n) PROVE StoreInv'
<1> DEFINE st == store[n]
           nd == node[n]
           st2 == Run(st, n)
           nd2 == node'[n]
<1>0. /\ st \in StoreType /\ nd \in NodeType
      /\ log \in Seq(RaftCommit) /\ proposed \in SUBSET RaftCommit
      /\ Committed(log, proposed) /\ NodeInv(n, st, nd, log, proposed)
      /\ MaxRequests \in Nat /\ st.next_request_id <= MaxRequests
      /\ nd.applied_index <= Len(log) /\ st.next_request_id <= used.requests
      BY Facts
<1>1. st.queue # <<>> BY DEF RunTask
<1>2. /\ st2 \in StoreType /\ NodeInv(n, st2, nd, log, proposed)
      /\ st2.next_request_id = st.next_request_id
  <2> HIDE DEF st, nd
  <2> QED BY <1>0, <1>1, RunInv
<1>3. store' = [store EXCEPT ![n] = st2] BY DEF RunTask
<1>4. /\ nd2 \in NodeType /\ node' = [node EXCEPT ![n] = nd2]
      /\ nd2.posts = nd.posts /\ nd2.epoch = nd.epoch
      /\ nd2.started = nd.started /\ nd2.applied_index = nd.applied_index
  <2>1. CASE node' = node BY <2>1, <1>0 DEF StoreInv, TypeOK
  <2>2. CASE node' = [node EXCEPT ![n].future = "ready", ![n].data = st.key_values,
                                  ![n].whole = st.whole]
    <3> DEFINE w == [nd EXCEPT !.future = "ready", !.data = st.key_values, !.whole = st.whole]
    <3>1. node \in [Node -> NodeType] BY DEF StoreInv, TypeOK
    <3>2. node' = [node EXCEPT ![n] = w] BY <2>2, <3>1
    <3>3. st.key_values \in Contents /\ st.whole \in BOOLEAN BY <1>0, StoreFields
    <3>4. /\ w \in NodeType /\ w.posts = nd.posts /\ w.epoch = nd.epoch
          /\ w.applied_index = nd.applied_index /\ w.started = nd.started
      <4> HIDE DEF nd, st
      <4> QED BY <1>0, <3>3 DEF NodeType
    <3> HIDE DEF w
    <3>5. node'[n] = w BY <3>1, <3>2
    <3> QED BY <3>2, <3>4, <3>5
  <2> QED BY <2>1, <2>2 DEF RunTask
<1>5. NodeInv(n, st2, nd2, log, proposed)
  <2> HIDE DEF st2, nd2, nd
  <2> QED BY <1>2, <1>4, SameNodeInv
<1>6. UNCHANGED <<log, proposed, snap, cut, used>> BY DEF RunTask
<1>7. \A m \in Node : NodeInv(m, store[m], node[m], log, proposed) BY Facts
<1>8. /\ snap \in [Node -> Snapshot] /\ \A m \in Node : snap[m].index <= Len(log)
      /\ used \in [requests : Nat, restarts : Nat] /\ used.requests <= MaxRequests
      /\ used.requests <= used.requests /\ cut \subseteq Node
      BY DEF StoreInv, TypeOK, Indexed, Usage
<1> HIDE DEF st2, nd2, st, nd
<1>9. /\ nd2.applied_index <= Len(log) /\ st2.next_request_id <= used'.requests
      BY <1>0, <1>2, <1>4, <1>6
<1> QED BY <1>0, <1>2, <1>3, <1>4, <1>5, <1>6, <1>7, <1>8, <1>9, StepOf

\* What no step of one node but a snapshot's touches.
LEMMA Rest ==
    ASSUME StoreInv
    PROVE  /\ snap \in [Node -> Snapshot] /\ \A m \in Node : snap[m].index <= Len(log)
           /\ used \in [requests : Nat, restarts : Nat] /\ used.requests <= MaxRequests
           /\ used.requests <= used.requests
           /\ store \in [Node -> StoreType] /\ node \in [Node -> NodeType] /\ cut \subseteq Node
           /\ \A m \in Node : NodeInv(m, store[m], node[m], log, proposed)
BY DEF StoreInv, TypeOK, Indexed, Usage

\* A client's set or del.
LEMMA RequestStep ==
    ASSUME StoreInv, NEW n \in Node, NEW command \in Command, Request(n, command)
    PROVE  StoreInv'
<1> DEFINE st == store[n]
           nd == node[n]
           id == st.next_request_id
           c == [node_id |-> n, commit_id |-> id, epoch |-> nd.epoch, redis_data |-> command]
           w == [i \in DOMAIN st.pending_requests \cup {id} |->
                    IF i = id THEN command.type ELSE st.pending_requests[i]]
           st2 == [st EXCEPT !.next_request_id = id + 1, !.pending_requests = w]
           nd2 == [nd EXCEPT !.posts = Append(@, c)]
<1>0. /\ st \in StoreType /\ nd \in NodeType
      /\ log \in Seq(RaftCommit) /\ proposed \in SUBSET RaftCommit
      /\ Committed(log, proposed) /\ NodeInv(n, st, nd, log, proposed)
      /\ MaxRequests \in Nat /\ id <= used.requests /\ nd.applied_index <= Len(log)
      BY Facts
<1>1. /\ snap \in [Node -> Snapshot] /\ \A m \in Node : snap[m].index <= Len(log)
      /\ used \in [requests : Nat, restarts : Nat]
      /\ store \in [Node -> StoreType] /\ node \in [Node -> NodeType] /\ cut \subseteq Node
      /\ \A m \in Node : NodeInv(m, store[m], node[m], log, proposed)
      BY Rest
<1>2. /\ used.requests < MaxRequests /\ used' = [used EXCEPT !.requests = @ + 1]
      /\ UNCHANGED <<log, proposed, snap, cut>>
      BY DEF Request
<1>3. store' = [store EXCEPT ![n] = st2] BY <1>1 DEF Request
<1>4. node' = [node EXCEPT ![n] = nd2] BY <1>1 DEF Request
<1>5. /\ id \in Nat /\ id < MaxRequests /\ id \in 0..MaxRequests /\ id + 1 \in Nat
      /\ used' \in [requests : Nat, restarts : Nat] /\ used'.requests <= MaxRequests
      /\ used.requests <= used'.requests /\ id + 1 <= used'.requests
  <2>1. id \in Nat BY <1>0, StoreFields
  <2>2. used.requests \in Nat BY <1>1
  <2>3. used'.requests = used.requests + 1 /\ used' \in [requests : Nat, restarts : Nat]
        BY <1>1, <1>2, <2>2
  <2> HIDE DEF id
  <2> QED BY <2>1, <2>2, <2>3, <1>0, <1>2
<1>6. command.type \in {"set", "del"} BY DEF Command
<1>7. w \in Waiting
  <2>1. st.pending_requests \in Waiting BY <1>0, StoreFields
  <2> HIDE DEF st, id
  <2> QED BY <2>1, <1>5, <1>6, WaitingWith DEF w
<1>8. c \in RaftCommit
  <2>1. nd.epoch \in Nat BY <1>0, NodeFields
  <2> QED BY <2>1, <1>5 DEF RaftCommit
<1>9. /\ c.node_id = n /\ c.commit_id = st.next_request_id /\ c.epoch = nd.epoch
      /\ c.redis_data = command
      OBVIOUS
<1> HIDE DEF c
<1>10. /\ st2 \in StoreType /\ st2.next_request_id = id + 1 /\ st2.pending_requests = w
       /\ st2.queue = st.queue /\ st2.answered = st.answered
  <2> HIDE DEF st, w, id
  <2> QED BY <1>0, <1>5, <1>7 DEF StoreType, Waiting
<1>11. Issued(st, st2, c.redis_data.type)
  <2> HIDE DEF st2
  <2> QED BY <1>9, <1>10 DEF Issued
<1>12. /\ nd2 \in NodeType /\ nd2.posts = Append(nd.posts, c)
       /\ nd2.epoch = nd.epoch /\ nd2.started = nd.started
       /\ nd2.applied_index = nd.applied_index
  <2>1. nd.posts \in Seq(RaftCommit) BY <1>0, NodeFields
  <2>2. Append(nd.posts, c) \in Seq(RaftCommit) BY <2>1, <1>8, AppendType
  <2> HIDE DEF nd
  <2> QED BY <1>0, <2>2 DEF NodeType
<1> HIDE DEF st2, nd2, st, nd
<1>13. NodeInv(n, st2, nd2, log, proposed)
       BY <1>0, <1>5, <1>8, <1>9, <1>11, <1>12, RequestInv DEF id
<1>14. st2.next_request_id <= used'.requests /\ nd2.applied_index <= Len(log)
       BY <1>0, <1>5, <1>10, <1>12
<1> QED BY <1>0, <1>1, <1>2, <1>3, <1>4, <1>5, <1>10, <1>12, <1>13, <1>14, StepOf

\* The raft thread proposes.
LEMMA ProposeStep == ASSUME StoreInv, NEW n \in Node, Propose(n) PROVE StoreInv'
<1> DEFINE st == store[n]
           nd == node[n]
           c == Head(nd.posts)
           nd2 == [nd EXCEPT !.posts = Tail(@)]
<1>0. /\ st \in StoreType /\ nd \in NodeType
      /\ log \in Seq(RaftCommit) /\ proposed \in SUBSET RaftCommit
      /\ Committed(log, proposed) /\ NodeInv(n, st, nd, log, proposed)
      /\ nd.applied_index <= Len(log) /\ st.next_request_id <= used.requests
      BY Facts
<1>1. /\ snap \in [Node -> Snapshot] /\ \A m \in Node : snap[m].index <= Len(log)
      /\ used \in [requests : Nat, restarts : Nat] /\ used.requests <= MaxRequests
      /\ used.requests <= used.requests
      /\ store \in [Node -> StoreType] /\ node \in [Node -> NodeType] /\ cut \subseteq Node
      /\ \A m \in Node : NodeInv(m, store[m], node[m], log, proposed)
      BY Rest
<1>2. PICK status \in {"ok", "error"} :
          /\ proposed' = IF status = "ok" THEN proposed \cup {c} ELSE proposed
          /\ Post(n, <<[type |-> "status", commit_id |-> c.commit_id,
                        command |-> c.redis_data.type, status |-> status]>>)
      BY DEF Propose
<1> DEFINE tasks == <<[type |-> "status", commit_id |-> c.commit_id,
                       command |-> c.redis_data.type, status |-> status]>>
           st2 == [st EXCEPT !.queue = @ \o tasks]
<1>3. nd.posts # <<>> /\ UNCHANGED <<log, snap, cut, used>> BY DEF Propose
<1>4. node' = [node EXCEPT ![n] = nd2] BY <1>1 DEF Propose
<1>5. store' = [store EXCEPT ![n] = st2] BY <1>1, <1>2 DEF Post
<1>6. nd.posts \in Seq(RaftCommit) BY <1>0, NodeFields
<1>7. Tail(nd.posts) \in Seq(RaftCommit) /\ c \in RaftCommit
  <2> DEFINE q == nd.posts
  <2>1. q \in Seq(RaftCommit) /\ q # <<>> BY <1>3, <1>6
  <2> HIDE DEF q
  <2>2. Tail(q) \in Seq(RaftCommit) /\ Head(q) \in RaftCommit BY <2>1
  <2> QED BY <2>2 DEF q
<1>8. nd2 \in NodeType /\ Taking(nd, nd2)
  <2> HIDE DEF nd
  <2> QED BY <1>0, <1>7 DEF NodeType, Taking
<1>9. tasks \in Seq(Task)
  <2>1. c.commit_id \in Nat /\ c.redis_data \in Command BY <1>7 DEF RaftCommit
  <2>2. c.redis_data.type \in {"set", "del"} BY <2>1 DEF Command
  <2> HIDE DEF c
  <2>3. [type |-> "status", commit_id |-> c.commit_id,
         command |-> c.redis_data.type, status |-> status] \in Task
        BY <2>1, <2>2 DEF Task
  <2> QED BY <2>3
<1>10. st2 \in StoreType /\ Posts(st, st2, tasks) /\ Behind(st, st2, tasks)
  <2> HIDE DEF st, tasks
  <2> QED BY <1>0, <1>9, PostsType
<1> HIDE DEF st2, nd2
<1>11. NodeInv(n, st2, nd2, log, proposed') /\ Committed(log, proposed')
  <2> HIDE DEF st, nd
  <2> QED BY <1>0, <1>2, <1>3, <1>8, <1>10, ProposeInv
<1>12. proposed' \in SUBSET RaftCommit BY <1>0, <1>2, <1>7
<1>13. \A m \in Node \ {n} : NodeInv(m, store[m], node[m], log, proposed')
  <2>1. c.node_id = n
    <3>1. 1 \in DOMAIN nd.posts /\ nd.posts[1] = c BY <1>0, <1>3, <1>8, TakingLater
    <3> QED BY <3>1, <1>0 DEF NodeInv, Posted
  <2>2. proposed' \subseteq proposed \cup {c} BY <1>2
  <2> HIDE DEF c
  <2> QED BY <2>1, <2>2, <1>1, ProposeOther
<1>14. nd2.applied_index <= Len(log) /\ st2.next_request_id <= used'.requests
       BY <1>0, <1>3, <1>8, <1>10 DEF Taking, Posts
<1> QED BY <1>0, <1>1, <1>3, <1>4, <1>5, <1>8, <1>10, <1>11, <1>12, <1>13, <1>14, StepOf

\* A function over 1..d is a sequence.
LEMMA TupleType == ASSUME NEW S, NEW d \in Nat, NEW s \in [1..d -> S] PROVE s \in Seq(S) /\ DOMAIN s = 1..d
OBVIOUS

\* The tasks that publish makes of the entries after i up to j.
LEMMA PublishTasks ==
    ASSUME NEW l \in Seq(RaftCommit), NEW i \in Nat, NEW j \in i + 1..Len(l), NEW due \in BOOLEAN
    PROVE  LET tasks == publish([k \in 1..(j - i) |->
                                    [type |-> "read_commit", commit |-> l[i + k]]], due)
           IN  tasks \in Seq(Task) /\ Entries(tasks, l, i, j)
<1> DEFINE d == j - i
           s == [k \in 1..d |-> [type |-> "read_commit", commit |-> l[i + k]]]
           g == [type |-> "get_snapshot"]
<1>1. d \in Nat /\ \A k \in 1..d : i + k \in 1..Len(l) OBVIOUS
<1>2. \A k \in 1..d : l[i + k] \in RaftCommit BY <1>1
<1>3. \A k \in 1..d : [type |-> "read_commit", commit |-> l[i + k]] \in Task BY <1>2 DEF Task
<1>4. s \in Seq(Task) /\ DOMAIN s = 1..d
  <2> HIDE DEF d
  <2>1. s \in [1..d -> Task] BY <1>3
  <2> HIDE DEF s
  <2> QED BY <2>1, <1>1, TupleType
<1>5. g \in Task BY DEF Task
<1>6. \A m \in DOMAIN s : m \in 1..d /\ s[m] = [type |-> "read_commit", commit |-> l[i + m]]
      OBVIOUS
<1> HIDE DEF s
<1>7. Append(s, g) \in Seq(Task) BY <1>4, <1>5, AppendType
<1>8. g.type = "get_snapshot" OBVIOUS
<1> HIDE DEF g
<1>9. \A m \in DOMAIN Append(s, g) : \/ m \in DOMAIN s /\ Append(s, g)[m] = s[m]
                                     \/ Append(s, g)[m] = g
      BY <1>4
<1>10. Entries(Append(s, g), l, i, j) /\ Entries(s, l, i, j) BY <1>6, <1>8, <1>9 DEF Entries
<1> QED BY <1>4, <1>7, <1>10 DEF publish, s, g

\* Committed entries are published.
LEMMA PublishStep == ASSUME StoreInv, NEW n \in Node, Publish(n) PROVE StoreInv'
<1> DEFINE st == store[n]
           nd == node[n]
           i == nd.applied_index
<1>0. /\ st \in StoreType /\ nd \in NodeType
      /\ log \in Seq(RaftCommit) /\ proposed \in SUBSET RaftCommit
      /\ Committed(log, proposed) /\ NodeInv(n, st, nd, log, proposed)
      /\ nd.applied_index <= Len(log) /\ st.next_request_id <= used.requests
      BY Facts
<1>1. /\ snap \in [Node -> Snapshot] /\ \A m \in Node : snap[m].index <= Len(log)
      /\ used \in [requests : Nat, restarts : Nat] /\ used.requests <= MaxRequests
      /\ used.requests <= used.requests
      /\ store \in [Node -> StoreType] /\ node \in [Node -> NodeType] /\ cut \subseteq Node
      /\ \A m \in Node : NodeInv(m, store[m], node[m], log, proposed)
      BY Rest
<1>2. PICK j \in i + 1..Len(log) :
          LET due == j - nd.snapshot_index > SnapCount
          IN  /\ Post(n, publish([k \in 1..(j - i) |->
                            [type |-> "read_commit", commit |-> log[i + k]]], due))
              /\ node' = [node EXCEPT ![n].applied_index = j,
                                      ![n].future = IF due THEN "waiting" ELSE @]
      BY DEF Publish
<1> DEFINE due == j - nd.snapshot_index > SnapCount
           tasks == publish([k \in 1..(j - i) |->
                                [type |-> "read_commit", commit |-> log[i + k]]], due)
           st2 == [st EXCEPT !.queue = @ \o tasks]
           nd2 == [nd EXCEPT !.applied_index = j, !.future = IF due THEN "waiting" ELSE @]
<1>3. UNCHANGED <<log, proposed, snap, cut, used>> BY DEF Publish
<1>4. i \in Nat /\ j \in Nat /\ j <= Len(log) /\ i <= j BY <1>0, NodeFields
<1>5. tasks \in Seq(Task) /\ Entries(tasks, log, i, j)
  <2>1. due \in BOOLEAN OBVIOUS
  <2> HIDE DEF due, i
  <2> QED BY <2>1, <1>0, <1>4, PublishTasks
<1>6. store' = [store EXCEPT ![n] = st2]
  <2>1. Post(n, tasks) BY <1>2
  <2> HIDE DEF tasks
  <2> QED BY <2>1, <1>1 DEF Post
<1>7. node' = [node EXCEPT ![n] = nd2] BY <1>1, <1>2
<1> HIDE DEF tasks
<1>8. st2 \in StoreType /\ Posts(st, st2, tasks) /\ Behind(st, st2, tasks)
  <2> HIDE DEF st
  <2> QED BY <1>0, <1>5, PostsType
<1>9. /\ nd2 \in NodeType /\ nd2.applied_index = j /\ nd2.posts = nd.posts
      /\ nd2.epoch = nd.epoch /\ nd2.started = nd.started
  <2> HIDE DEF nd, due
  <2> QED BY <1>0, <1>4 DEF NodeType
<1> HIDE DEF st2, nd2, due
<1>10. NodeInv(n, st2, nd2, log, proposed)
  <2> HIDE DEF st, nd
  <2> QED BY <1>0, <1>5, <1>8, <1>9, PublishedInv DEF i
<1>11. nd2.applied_index <= Len(log) /\ st2.next_request_id <= used'.requests
       BY <1>0, <1>3, <1>4, <1>8, <1>9 DEF Posts
<1> QED BY <1>0, <1>1, <1>3, <1>6, <1>7, <1>8, <1>9, <1>10, <1>11, StepOf

\* A snapshot that the node has waited for is saved.
LEMMA SaveSnapshotStep == ASSUME StoreInv, NEW n \in Node, SaveSnapshot(n) PROVE StoreInv'
<1> DEFINE st == store[n]
           nd == node[n]
           s == [index |-> nd.applied_index, data |-> nd.data, whole |-> nd.whole]
           nd2 == [nd EXCEPT !.future = "none", !.data = EmptyMap, !.whole = TRUE,
                             !.snapshot_index = nd.applied_index]
<1>0. /\ st \in StoreType /\ nd \in NodeType
      /\ log \in Seq(RaftCommit) /\ proposed \in SUBSET RaftCommit
      /\ Committed(log, proposed) /\ NodeInv(n, st, nd, log, proposed)
      /\ nd.applied_index <= Len(log) /\ st.next_request_id <= used.requests
      BY Facts
<1>1. /\ snap \in [Node -> Snapshot] /\ \A m \in Node : snap[m].index <= Len(log)
      /\ used \in [requests : Nat, restarts : Nat] /\ used.requests <= MaxRequests
      /\ used.requests <= used.requests
      /\ store \in [Node -> StoreType] /\ node \in [Node -> NodeType] /\ cut \subseteq Node
      /\ \A m \in Node : NodeInv(m, store[m], node[m], log, proposed)
      BY Rest
<1>2. /\ snap' = [snap EXCEPT ![n] = s] /\ UNCHANGED <<log, proposed, store, cut, used>>
      BY DEF SaveSnapshot
<1>3. node' = [node EXCEPT ![n] = nd2] BY <1>1 DEF SaveSnapshot
<1>4. store' = [store EXCEPT ![n] = st] BY <1>1, <1>2
<1>5. nd.applied_index \in Nat /\ nd.data \in Contents /\ nd.whole \in BOOLEAN
      BY <1>0, NodeFields
<1>6. s \in Snapshot /\ s.index = nd.applied_index BY <1>5 DEF Snapshot
<1>7. /\ nd2 \in NodeType /\ nd2.posts = nd.posts
      /\ nd2.epoch = nd.epoch /\ nd2.started = nd.started
      /\ nd2.applied_index = nd.applied_index
  <2>1. EmptyMap \in Contents BY EmptyMapType
  <2> HIDE DEF nd
  <2> QED BY <2>1, <1>0, <1>5 DEF NodeType
<1> HIDE DEF s, nd2
<1>8. snap' \in [Node -> Snapshot] /\ \A m \in Node : snap'[m].index <= Len(log)
      BY <1>0, <1>1, <1>2, <1>6
<1>9. NodeInv(n, st, nd2, log, proposed)
  <2> HIDE DEF nd, st
  <2> QED BY <1>0, <1>7, SameNodeInv
<1>10. nd2.applied_index <= Len(log) BY <1>0, <1>7
<1> HIDE DEF st, nd
<1> QED BY <1>0, <1>1, <1>2, <1>3, <1>4, <1>7, <1>8, <1>9, <1>10, StepOf

\* Another node's snapshot is installed.
LEMMA InstallSnapshotStep == ASSUME StoreInv, NEW n \in Node, InstallSnapshot(n) PROVE StoreInv'
<1> DEFINE st == store[n]
           nd == node[n]
<1>0. /\ st \in StoreType /\ nd \in NodeType
      /\ log \in Seq(RaftCommit) /\ proposed \in SUBSET RaftCommit
      /\ Committed(log, proposed) /\ NodeInv(n, st, nd, log, proposed)
      /\ nd.applied_index <= Len(log) /\ st.next_request_id <= used.requests
      BY Facts
<1>1. /\ snap \in [Node -> Snapshot] /\ \A m \in Node : snap[m].index <= Len(log)
      /\ used \in [requests : Nat, restarts : Nat] /\ used.requests <= MaxRequests
      /\ used.requests <= used.requests
      /\ store \in [Node -> StoreType] /\ node \in [Node -> NodeType] /\ cut \subseteq Node
      /\ \A m \in Node : NodeInv(m, store[m], node[m], log, proposed)
      BY Rest
<1>2. PICK m \in Node :
        /\ snap[m].index > nd.applied_index
        /\ snap' = [snap EXCEPT ![n] = snap[m]]
        /\ node' = [node EXCEPT ![n].applied_index = snap[m].index,
                                ![n].snapshot_index = snap[m].index,
                                ![n].installed = snap[m].index]
        /\ Post(n, <<[type |-> "recover", from |-> snap[m]]>>)
        /\ cut' = cut \cup {n} /\ UNCHANGED <<log, proposed, used>>
      BY DEF InstallSnapshot
<1> DEFINE s == snap[m]
           task == [type |-> "recover", from |-> s]
           tasks == <<task>>
           st2 == [st EXCEPT !.queue = @ \o tasks]
           nd2 == [nd EXCEPT !.applied_index = s.index, !.snapshot_index = s.index,
                             !.installed = s.index]
<1>3. s \in Snapshot /\ s.index \in Nat /\ s.index <= Len(log) /\ nd.applied_index \in Nat
      BY <1>0, <1>1, NodeFields DEF Snapshot
<1>4. task \in Task /\ task.type = "recover" BY <1>3 DEF Task
<1>5. store' = [store EXCEPT ![n] = st2] BY <1>1, <1>2 DEF Post
<1>6. node' = [node EXCEPT ![n] = nd2] BY <1>1, <1>2
<1> HIDE DEF task
<1>7. /\ tasks \in Seq(Task) /\ \A k \in DOMAIN tasks : tasks[k].type # "read_commit"
      /\ \A k \in DOMAIN tasks : tasks[k].type # "status"
      BY <1>4
<1> HIDE DEF tasks
<1>8. st2 \in StoreType /\ Posts(st, st2, tasks) /\ Behind(st, st2, tasks)
  <2> HIDE DEF st
  <2> QED BY <1>0, <1>7, PostsType
<1>9. /\ nd2 \in NodeType /\ nd2.applied_index = s.index /\ nd2.posts = nd.posts
      /\ nd2.epoch = nd.epoch /\ nd2.started = nd.started /\ nd.applied_index <= nd2.applied_index
  <2>1. nd.applied_index <= s.index BY <1>2, <1>3
  <2> HIDE DEF nd, s
  <2> QED BY <2>1, <1>0, <1>3 DEF NodeType
<1> HIDE DEF st2, nd2
<1>10. NodeInv(n, st2, nd2, log, proposed)
  <2> HIDE DEF st, nd
  <2>1. Published(st2, nd2, log) /\ Confirmed(n, st2, nd2, log)
        BY <1>0, <1>7, <1>8, <1>9, PostsOther DEF NodeInv
  <2>2. Numbered(st2) /\ Reported(st2) /\ Posted(n, st2, nd2) /\ Proposed(n, st2, nd2, log, proposed)
        BY <1>0, <1>7, <1>8, <1>9, PostsRequests
  <2> QED BY <2>1, <2>2 DEF NodeInv
<1>11. nd2.applied_index <= Len(log) /\ st2.next_request_id <= used'.requests
       BY <1>0, <1>2, <1>3, <1>8, <1>9 DEF Posts
<1>12. snap' \in [Node -> Snapshot] /\ \A k \in Node : snap'[k].index <= Len(log)
       BY <1>1, <1>2
<1> HIDE DEF s
<1>13. UNCHANGED <<log, proposed, used>> /\ cut' \subseteq Node BY <1>1, <1>2
<1> QED BY <1>0, <1>1, <1>13, <1>5, <1>6, <1>8, <1>9, <1>10, <1>11, <1>12, StepOf

\* A new store and a new node have their types.
LEMMA NewTypes ==
    ASSUME NEW s \in Snapshot, NEW handed \in BOOLEAN, NEW epoch \in Nat
    PROVE  /\ NewStore(s, handed) \in StoreType /\ NewNode(s, epoch) \in NodeType
           /\ NewStore(s, handed).queue = <<>> /\ NewStore(s, handed).next_request_id = 0
           /\ DOMAIN NewStore(s, handed).pending_requests = {}
           /\ NewStore(s, handed).answered = [i \in 0..MaxRequests |-> <<>>]
           /\ NewNode(s, epoch).posts = <<>> /\ NewNode(s, epoch).epoch = epoch
           /\ NewNode(s, epoch).applied_index = s.index
           /\ NewNode(s, epoch).started <= NewNode(s, epoch).applied_index
<1>1. EmptyMap \in Contents /\ DOMAIN EmptyMap = {} BY EmptyMapType
<1>2. EmptyMap \in Waiting
  <2>1. EmptyMap \in [{} -> {"set", "del"}] BY DEF EmptyMap
  <2>2. {} \in SUBSET (0..MaxRequests) OBVIOUS
  <2> QED BY <2>1, <2>2, WaitingIs
<1>3. s.index \in Nat /\ s.data \in Contents /\ s.whole \in BOOLEAN BY DEF Snapshot
<1> DEFINE h == [i \in 0..MaxRequests |-> <<>>]
<1>4. h \in [0..MaxRequests -> Seq(Answer)] OBVIOUS
<1> HIDE DEF h
<1> DEFINE kv == IF handed THEN s.data ELSE EmptyMap
           w == s.index = 0 \/ (handed /\ s.whole)
<1>5. kv \in Contents BY <1>1, <1>3
<1>6. w \in BOOLEAN OBVIOUS
<1>7. NewStore(s, handed) =
          [key_values |-> kv, whole |-> w, next_request_id |-> 0, pending_requests |-> EmptyMap,
           queue |-> <<>>, answered |-> h]
      BY DEF NewStore, h
<1> HIDE DEF kv, w
<1>8. NewStore(s, handed) \in StoreType BY <1>2, <1>4, <1>5, <1>6, <1>7 DEF StoreType, Waiting
<1>9. NewNode(s, epoch) \in NodeType BY <1>1, <1>3 DEF NewNode, NodeType
<1>10. /\ NewStore(s, handed).queue = <<>> /\ NewStore(s, handed).next_request_id = 0
       /\ NewStore(s, handed).pending_requests = EmptyMap
       /\ NewStore(s, handed).answered = h
       BY <1>7
<1>11. /\ NewNode(s, epoch).posts = <<>> /\ NewNode(s, epoch).epoch = epoch
       /\ NewNode(s, epoch).applied_index = s.index
       /\ NewNode(s, epoch).started <= NewNode(s, epoch).applied_index
       BY <1>3 DEF NewNode
<1> QED BY <1>1, <1>8, <1>9, <1>10, <1>11 DEF h

\* A process ends and starts again.
LEMMA RestartStep == ASSUME StoreInv, NEW n \in Node, Restart(n) PROVE StoreInv'
<1> DEFINE nd == node[n]
           s == snap[n]
<1>0. /\ nd \in NodeType /\ s \in Snapshot
      /\ log \in Seq(RaftCommit) /\ proposed \in SUBSET RaftCommit
      /\ Committed(log, proposed) /\ NodeInv(n, store[n], nd, log, proposed)
      /\ s.index <= Len(log)
      BY Facts
<1>1. /\ snap \in [Node -> Snapshot] /\ \A m \in Node : snap[m].index <= Len(log)
      /\ used \in [requests : Nat, restarts : Nat] /\ used.requests <= MaxRequests
      /\ store \in [Node -> StoreType] /\ node \in [Node -> NodeType] /\ cut \subseteq Node
      /\ \A m \in Node : NodeInv(m, store[m], node[m], log, proposed)
      BY Rest
<1>2. PICK handed \in BOOLEAN : store' = [store EXCEPT ![n] = NewStore(s, handed)]
      BY DEF Restart
<1>3. /\ node' = [node EXCEPT ![n] = NewNode(s, nd.epoch + 1)]
      /\ used' = [used EXCEPT !.restarts = @ + 1] /\ UNCHANGED <<log, proposed, snap, cut>>
      BY <1>1 DEF Restart
<1> DEFINE st2 == NewStore(s, handed)
           nd2 == NewNode(s, nd.epoch + 1)
<1>4. nd.epoch \in Nat /\ nd.epoch + 1 \in Nat BY <1>0, NodeFields
<1>5. /\ st2 \in StoreType /\ nd2 \in NodeType /\ st2.queue = <<>> /\ st2.next_request_id = 0
      /\ DOMAIN st2.pending_requests = {} /\ st2.answered = [i \in 0..MaxRequests |-> <<>>]
      /\ nd2.posts = <<>> /\ nd2.epoch = nd.epoch + 1 /\ nd2.applied_index = s.index
      /\ nd2.started <= nd2.applied_index
  <2> HIDE DEF s, nd
  <2> QED BY <1>0, <1>4, NewTypes
<1>6. \A a \in Taken(log, proposed) : a.node_id = n => a.epoch <= nd.epoch
      BY <1>0 DEF NodeInv, Proposed
<1>7. /\ used' \in [requests : Nat, restarts : Nat] /\ used'.requests = used.requests
      /\ used.requests \in Nat
      BY <1>1, <1>3
<1> HIDE DEF st2, nd2
<1>8. NodeInv(n, st2, nd2, log, proposed)
  <2> HIDE DEF nd
  <2> QED BY <1>0, <1>5, <1>6, RestartInv
<1>9. /\ nd2.applied_index <= Len(log) /\ st2.next_request_id <= used'.requests
      /\ used'.requests <= MaxRequests /\ used.requests <= used'.requests
      BY <1>0, <1>1, <1>5, <1>7
<1>10. store' = [store EXCEPT ![n] = st2] /\ node' = [node EXCEPT ![n] = nd2]
       BY <1>2, <1>3 DEF st2, nd2
<1> HIDE DEF s, nd
<1> QED BY <1>0, <1>1, <1>3, <1>5, <1>7, <1>8, <1>9, <1>10, StepOf

\* Raft commits a proposal.
LEMMA ChooseStep == ASSUME StoreInv, NEW c \in proposed, Choose(c) PROVE StoreInv'
<1>1. /\ log' = Append(log, c) /\ proposed' = proposed \ {c} /\ UNCHANGED <<store, node, snap, cut, used>>
      BY DEF Choose
<1>2. /\ log \in Seq(RaftCommit) /\ proposed \in SUBSET RaftCommit /\ Committed(log, proposed)
      BY DEF StoreInv, TypeOK
<1>3. log' \in Seq(RaftCommit) /\ proposed' \subseteq RaftCommit /\ Len(log') = Len(log) + 1
      BY <1>1, <1>2
<1>4. TypeOK' BY <1>1, <1>3 DEF StoreInv, TypeOK
<1>5. Usage' BY <1>1 DEF StoreInv, Usage
<1>6. Indexed'
  <2> SUFFICES ASSUME NEW m \in Node
               PROVE  snap'[m].index <= Len(log') /\ node'[m].applied_index <= Len(log')
      BY DEF Indexed
  <2>1. /\ snap[m].index <= Len(log) /\ node[m].applied_index <= Len(log)
        /\ snap[m] \in Snapshot /\ node[m] \in NodeType
        BY Facts
  <2>2. snap[m].index \in Nat /\ node[m].applied_index \in Nat BY <2>1 DEF Snapshot, NodeType
  <2>3. Len(log) \in Nat BY <1>2
  <2> QED BY <2>1, <2>2, <2>3, <1>1, <1>3
<1>7. Committed(log', proposed')
  <2>1. Committed(Append(log, c), proposed \ {c}) BY <1>2, ChooseCommitted
  <2> QED BY <2>1, <1>1
<1>8. ASSUME NEW m \in Node PROVE NodeInv(m, store'[m], node'[m], log', proposed')
  <2>1. /\ node[m] \in NodeType /\ NodeInv(m, store[m], node[m], log, proposed)
        /\ node[m].applied_index <= Len(log)
        BY Facts
  <2>2. NodeInv(m, store[m], node[m], Append(log, c), proposed \ {c})
        BY <2>1, <1>2, ChooseInv
  <2> QED BY <2>2, <1>1
<1> QED BY <1>4, <1>5, <1>6, <1>7, <1>8 DEF StoreInv

\* Raft loses a proposal.
LEMMA LoseStep == ASSUME StoreInv, NEW c \in proposed, Lose(c) PROVE StoreInv'
<1>1. /\ proposed' = proposed \ {c} /\ UNCHANGED <<log, store, node, snap, cut, used>>
      BY DEF Lose
<1>4. TypeOK' BY <1>1 DEF StoreInv, TypeOK
<1>5. Usage' BY <1>1 DEF StoreInv, Usage
<1>6. Indexed' BY <1>1 DEF StoreInv, Indexed
<1>7. Committed(log', proposed') BY <1>1 DEF StoreInv, Committed
<1>8. ASSUME NEW m \in Node PROVE NodeInv(m, store'[m], node'[m], log', proposed')
  <2>1. NodeInv(m, store[m], node[m], log, proposed) BY DEF StoreInv
  <2>2. NodeInv(m, store[m], node[m], log, proposed \ {c}) BY <2>1, LoseInv
  <2> QED BY <2>2, <1>1
<1> QED BY <1>4, <1>5, <1>6, <1>7, <1>8 DEF StoreInv

\* The leader's Progress for a node goes to Snapshot or leaves it.
LEMMA CutStep ==
    ASSUME StoreInv, cut' \subseteq Node, UNCHANGED <<log, proposed, store, node, snap, used>>
    PROVE  StoreInv'
BY DEF StoreInv, TypeOK, Usage, Indexed

\* The invariant holds at the start.
LEMMA StoreInit == Init => StoreInv
<1> SUFFICES ASSUME Init PROVE StoreInv OBVIOUS
<1> DEFINE st == NewStore(NoSnapshot, TRUE)
           nd == NewNode(NoSnapshot, 0)
<1>1. NoSnapshot \in Snapshot /\ NoSnapshot.index = 0
      BY EmptyMapType DEF NoSnapshot, Snapshot
<1>2. /\ st \in StoreType /\ nd \in NodeType /\ st.queue = <<>> /\ st.next_request_id = 0
      /\ DOMAIN st.pending_requests = {} /\ st.answered = [i \in 0..MaxRequests |-> <<>>]
      /\ nd.posts = <<>> /\ nd.epoch = 0 /\ nd.applied_index = NoSnapshot.index
      /\ nd.started <= nd.applied_index
  <2>1. TRUE \in BOOLEAN /\ 0 \in Nat OBVIOUS
  <2> QED BY <2>1, <1>1, NewTypes, ZenonT(30)
<1> HIDE DEF st, nd
<1>3. /\ log = <<>> /\ proposed = {} /\ cut = {} /\ snap = [n \in Node |-> NoSnapshot]
      /\ store = [n \in Node |-> st] /\ node = [n \in Node |-> nd]
      /\ used = [requests |-> 0, restarts |-> 0]
      BY DEF Init, st, nd
<1>4. TypeOK BY <1>1, <1>2, <1>3 DEF TypeOK
<1>5. Usage BY <1>2, <1>3, StoreAssumption DEF Usage
<1>6. Indexed BY <1>1, <1>2, <1>3 DEF Indexed
<1>7. Committed(log, proposed) BY <1>3 DEF Committed
<1>8. ASSUME NEW n \in Node PROVE NodeInv(n, st, nd, <<>>, {})
  <2>1. Numbered(st) BY <1>2 DEF Numbered
  <2>2. Reported(st) BY <1>2 DEF Reported
  <2>3. Posted(n, st, nd) BY <1>2 DEF Posted
  <2>4. Taken(<<>>, {}) = {} BY DEF Taken, ToSet
  <2>5. Proposed(n, st, nd, <<>>, {}) BY <2>4 DEF Proposed
  <2>6. Published(st, nd, <<>>) BY <1>2 DEF Published
  <2>7. \A id \in 0..MaxRequests : DOMAIN st.answered[id] = {} BY <1>2
  <2>8. Confirmed(n, st, nd, <<>>) BY <2>7 DEF Confirmed
  <2> QED BY <2>1, <2>2, <2>3, <2>5, <2>6, <2>8 DEF NodeInv
<1> QED BY <1>3, <1>4, <1>5, <1>6, <1>7, <1>8 DEF StoreInv

\* Every step keeps the invariant.
LEMMA StoreNext == StoreInv /\ [Next]_vars => StoreInv'
<1> SUFFICES ASSUME StoreInv, [Next]_vars PROVE StoreInv' OBVIOUS
<1>1. CASE UNCHANGED vars
  <2>1. UNCHANGED <<log, proposed, store, node, snap, cut, used>> BY <1>1 DEF vars
  <2> QED BY <2>1 DEF StoreInv, TypeOK, Usage, Indexed
<1>2. CASE \E n \in Node, command \in Command : Request(n, command) BY <1>2, RequestStep
<1>3. CASE \E n \in Node : RunTask(n) BY <1>3, RunTaskStep
<1>4. CASE \E n \in Node : Propose(n) BY <1>4, ProposeStep
<1>5. CASE \E n \in Node : Publish(n) BY <1>5, PublishStep
<1>6. CASE \E n \in Node : SaveSnapshot(n) BY <1>6, SaveSnapshotStep
<1>7. CASE \E n \in Node : InstallSnapshot(n) BY <1>7, InstallSnapshotStep
<1>8. CASE \E n \in Node : Restart(n) BY <1>8, RestartStep
<1>9. CASE \E c \in proposed : Choose(c) BY <1>9, ChooseStep
<1>10. CASE \E c \in proposed : Lose(c) BY <1>10, LoseStep
<1>11. CASE \E n \in Node : LoseSnapshot(n) \/ Resume(n)
  <2>1. cut \subseteq Node BY Rest
  <2>2. /\ cut' \subseteq Node
        /\ UNCHANGED <<log, proposed, store, node, snap, used>>
        BY <1>11, <2>1 DEF LoseSnapshot, Resume
  <2> QED BY <2>2, CutStep
<1> QED BY <1>1, <1>2, <1>3, <1>4, <1>5, <1>6, <1>7, <1>8, <1>9, <1>10, <1>11 DEF Next

-----------------------------------------------------------------------------
(* The theorems. *)

\* The inductive invariant holds in every state, whatever the two threads of
\* every node, Raft, snapshots and restarts interleave.
THEOREM StoreInvariant == Spec => []StoreInv
BY StoreInit, StoreNext, PTL DEF Spec

\* Every variable has its type; in particular every id that is pending was
\* handed out by set or del and has a place in the history.
THEOREM StoreTypeCorrect == Spec => []TypeOK
<1>1. StoreInv => TypeOK BY DEF StoreInv
<1> QED BY <1>1, StoreInvariant, PTL

\* No request is answered twice (pending_requests_.erase in set, del and
\* read_commit).
THEOREM RequestsAnsweredOnce == Spec => []AnsweredOnce
<1>1. StoreInv => AnsweredOnce
  <2> SUFFICES ASSUME StoreInv, NEW n \in Node, NEW id \in 0..MaxRequests
               PROVE  Len(store[n].answered[id]) <= 1
      BY DEF AnsweredOnce
  <2>1. Numbered(store[n]) BY DEF StoreInv, NodeInv
  <2>2. CASE store[n].answered[id] = <<>> BY <2>2
  <2>3. CASE store[n].answered[id] # <<>>
    <3>1. Len(store[n].answered[id]) = 1 BY <2>1, <2>3 DEF Numbered
    <3> QED BY <3>1
  <2> QED BY <2>2, <2>3
<1> QED BY <1>1, StoreInvariant, PTL

\* +OK to a set means that the command of this very request is in the log and
\* has been applied, unless an entry of an earlier incarnation that was published
\* after the restart has the request's id (read_commit, on_status).
THEOREM SetsAreApplied == Spec => []SetIsApplied
<1>1. StoreInv => SetIsApplied
  <2> SUFFICES ASSUME StoreInv, NEW n \in Node, NEW id \in 0..MaxRequests,
                      [command |-> "set", status |-> "ok"] \in Answers(n, id),
                      \A i \in 1..node[n].applied_index : InMap(n, i) => ~Impostor(n, id, i)
               PROVE  \E i \in 1..node[n].applied_index :
                          /\ InMap(n, i)
                          /\ log[i].node_id = n /\ log[i].commit_id = id
                          /\ log[i].epoch = node[n].epoch
      BY DEF SetIsApplied
  <2>1. /\ Confirmed(n, store[n], node[n], log) /\ node[n] \in NodeType
        /\ log \in Seq(RaftCommit) /\ node[n].applied_index <= Len(log)
        BY Facts DEF NodeInv
  <2>2. \E k \in DOMAIN store[n].answered[id] :
            store[n].answered[id][k] = [command |-> "set", status |-> "ok"]
        BY DEF Answers
  <2>3. PICK i \in 1..node[n].applied_index :
            /\ node[n].started < i
            /\ log[i].node_id = n /\ log[i].commit_id = id /\ log[i].epoch <= node[n].epoch
            /\ \A k \in DOMAIN store[n].queue :
                  store[n].queue[k].type = "read_commit" => store[n].queue[k].commit # log[i]
        BY <2>1, <2>2 DEF Confirmed
  <2>4. \A k \in DOMAIN store[n].queue :
            store[n].queue[k] # [type |-> "read_commit", commit |-> log[i]]
        BY <2>3
  <2>5. [type |-> "read_commit", commit |-> log[i]] \notin ToSet(store[n].queue)
        BY <2>4 DEF ToSet
  <2>6. node[n].applied_index \in Nat /\ node[n].epoch \in Nat BY <2>1, NodeFields
  <2>7. i \in DOMAIN log /\ i <= node[n].applied_index BY <2>1, <2>6
  <2>8. log[i].epoch \in Nat
    <3>1. log[i] \in RaftCommit BY <2>1, <2>7
    <3> QED BY <3>1 DEF RaftCommit
  <2>9. InMap(n, i) BY <2>3, <2>5, <2>7 DEF InMap
  <2>10. ~(log[i].epoch < node[n].epoch) BY <2>3, <2>9 DEF Impostor
  <2>11. log[i].epoch = node[n].epoch BY <2>3, <2>6, <2>8, <2>10
  <2> QED BY <2>3, <2>9, <2>11
<1> QED BY <1>1, StoreInvariant, PTL

\* A command whose client has been told of an error is never committed by this
\* incarnation's proposal (propose's callback in set and del).
THEOREM ErrorsAreFinal == Spec => []ErrorIsFinal
<1>1. StoreInv => ErrorIsFinal
  <2> SUFFICES ASSUME StoreInv, NEW n \in Node, NEW a \in ToSet(log) \cup proposed,
                      a.node_id = n, a.epoch = node[n].epoch, NEW b \in Answers(n, a.commit_id)
               PROVE  b.status = "ok"
      BY DEF ErrorIsFinal
  <2> DEFINE id == a.commit_id
  <2>1. /\ store[n] \in StoreType /\ log \in Seq(RaftCommit) /\ proposed \in SUBSET RaftCommit
        /\ Proposed(n, store[n], node[n], log, proposed)
        /\ store[n].next_request_id <= MaxRequests /\ MaxRequests \in Nat
        BY Facts DEF NodeInv
  <2>2. a \in Taken(log, proposed) BY DEF Taken
  <2>3. id < store[n].next_request_id /\ ~Refused(store[n], id) BY <2>1, <2>2 DEF Proposed
  <2>4. a \in RaftCommit BY <2>1, <2>2 DEF Taken, ToSet
  <2>5. id \in Nat BY <2>4 DEF RaftCommit
  <2>6. store[n].next_request_id \in Nat /\ store[n].answered \in [0..MaxRequests -> Seq(Answer)]
        BY <2>1, StoreFields
  <2> DEFINE h == store[n].answered[id]
  <2>7. PICK k \in DOMAIN h : b = h[k] BY DEF Answers
  <2>8. b.status # "error" BY <2>3, <2>7 DEF Refused
  <2> HIDE DEF id
  <2>9. id \in 0..MaxRequests BY <2>1, <2>3, <2>5, <2>6
  <2>10. h \in Seq(Answer) BY <2>6, <2>9
  <2> HIDE DEF h
  <2>11. b \in Answer BY <2>7, <2>10
  <2> QED BY <2>8, <2>11 DEF Answer
<1> QED BY <1>1, StoreInvariant, PTL
=============================================================================
