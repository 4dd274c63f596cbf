-------------------------------- MODULE Raft --------------------------------
(***************************************************************************)
(* A raft-kv cluster of fixed membership: every node runs class Raft       *)
(* (raft/raft.cpp) behind RawNode (raft/node.cpp) and RaftNode             *)
(* (server/raft_node.cpp), and the nodes exchange messages over the        *)
(* transport.                                                              *)
(*                                                                         *)
(* A node is a record; every method of class Raft that changes it is an    *)
(* operator from the old record to the new one, under the method's name.   *)
(* RaftNode runs one event (a tick, a proposal, a received message) at a   *)
(* time and then calls pull_ready_events, which loops until nothing is     *)
(* left to save, send or apply: an event and its pull_ready_events are one *)
(* action.                                                                 *)
(***************************************************************************)
EXTENDS RaftLog, Progress, Bags

CONSTANTS Node,             \* the members
          Nil,              \* 0, the id of no node
          PreVote,          \* Config.pre_vote
          CheckQuorum,      \* Config.check_quorum
          MaxEntsPerMsg,    \* max_size_per_msg, counted in entries
          MaxUncommitted,   \* max_uncommitted_entries_size, counted in payloads
          \* bounds of the model
          MaxTerm,          \* no campaign starts at this term
          MaxNet,           \* messages in flight, copies counted
          MaxProposals, MaxRestarts, MaxTransfers,
          MaxBeats          \* ticks of leaders

ASSUME NodeAssumption == IsFiniteSet(Node) /\ Node # {} /\ Nil \notin Node
ASSUME SwitchAssumption == PreVote \in BOOLEAN /\ CheckQuorum \in BOOLEAN
ASSUME LimitAssumption == MaxEntsPerMsg \in Nat \ {0} /\ MaxUncommitted \in Nat
ASSUME BoundAssumption ==
    {MaxTerm, MaxNet, MaxProposals, MaxRestarts, MaxTransfers, MaxBeats} \subseteq Nat

VARIABLES node,     \* the Raft object of each node, saved state included
          wire,     \* the messages in flight, a bag: the transport merges no two
          used,     \* how much of each bound is spent
          ballots,  \* history: <<voter, term, candidate>> of every vote ever recorded
          elected,  \* history: <<term, leader>> of every election ever won
          peak      \* history: the highest index each node has ever known to be committed

vars == <<node, wire, used, ballots, elected, peak>>

UsedType == [proposals : Nat, restarts : Nat, transfers : Nat, beats : Nat]

-----------------------------------------------------------------------------
MsgType == {"MsgProp", "MsgApp", "MsgAppResp", "MsgVote", "MsgVoteResp",
            "MsgPreVote", "MsgPreVoteResp", "MsgSnap", "MsgHeartbeat",
            "MsgHeartbeatResp", "MsgTransferLeader", "MsgTimeoutNow"}

MessageType ==
    [type : MsgType, from : Node, to : Node, term : Nat, index : Nat, log_term : Nat,
     entries : Seq(Entry), commit : Nat, snapshot : Seq(Entry),
     reject : BOOLEAN, reject_hint : Nat,
     transfer : BOOLEAN]    \* context = kCampaignTransfer

NewMessage(type, to) ==
    [type |-> type, from |-> to, to |-> to, term |-> 0, index |-> 0, log_term |-> 0,
     entries |-> <<>>, commit |-> 0, snapshot |-> <<>>,
     reject |-> FALSE, reject_hint |-> 0, transfer |-> FALSE]

CampaignType == {"MsgVote", "MsgVoteResp", "MsgPreVote", "MsgPreVoteResp"}

StateType == {"Follower", "PreCandidate", "Candidate", "Leader"}

(* `past' is election_elapsed_ >= election_timeout_; votes_ is split into    *)
(* those granted and those refused.  Only a leader reads prs_, so the model  *)
(* keeps it empty elsewhere.                                                 *)
RaftType ==
    [id : Node, term : Nat, vote : Node \cup {Nil}, state : StateType,
     lead : Node \cup {Nil}, past : BOOLEAN,
     granted : SUBSET Node, refused : SUBSET Node, lead_transferee : Node \cup {Nil},
     raft_log : LogType, prs : [Node -> ProgressType], uncommitted_size : Nat,
     msgs : SUBSET MessageType]

NoProgress == [p \in Node |-> NewProgress(0, 1)]

Peers(r) == Node \ {r.id}

\* Mutant: half of the nodes are enough.
quorum_OffByOne == Cardinality(Node) \div 2

quorum == Cardinality(Node) \div 2 + 1

-----------------------------------------------------------------------------
(* Sending. *)

\* The term goes on every message but a forwarded proposal; the campaign
\* messages set their own.
Stamped(r, m) ==
    [m EXCEPT !.from = r.id,
              !.term = IF m.type \in CampaignType \cup {"MsgProp"} THEN @ ELSE r.term]

send(r, m) == [r EXCEPT !.msgs = @ \cup {Stamped(r, m)}]

\* The MsgApp with the entries of r from index `next' up to `last'.
AppendMessage(r, to, next, last) ==
    Stamped(r, [NewMessage("MsgApp", to) EXCEPT
        !.index = next - 1, !.log_term = term(r.raft_log, next - 1),
        !.entries = slice(r.raft_log, next, last + 1), !.commit = r.raft_log.committed])

SnapMessage(r, to) ==
    Stamped(r, [NewMessage("MsgSnap", to) EXCEPT
        !.snapshot = SubSeq(r.raft_log.ents, 1, r.raft_log.snap)])

\* The last index that one MsgApp starting at `next' carries.
LastSent(r, next) == Least(last_index(r.raft_log), next + MaxEntsPerMsg - 1)

Compacted(r, to) == r.prs[to].next < first_index(r.raft_log)

\* What maybe_send_append(to, send_if_empty) sends ...
AppendMsgs(r, to, send_if_empty) ==
    LET pr == r.prs[to]
        l  == r.raft_log
    IN  CASE is_paused(pr) -> {}
          [] ~is_paused(pr) /\ Compacted(r, to) ->
               IF send_if_empty /\ pr.recent_active /\ l.snap > 0
               THEN {SnapMessage(r, to)} ELSE {}
          [] OTHER ->
               IF send_if_empty \/ pr.next <= last_index(l)
               THEN {AppendMessage(r, to, pr.next, LastSent(r, pr.next))} ELSE {}

\* ... what it does to the progress ...
AppendProgress(r, to, send_if_empty) ==
    LET pr   == r.prs[to]
        last == LastSent(r, pr.next)
    IN  CASE AppendMsgs(r, to, send_if_empty) = {} -> pr
          [] AppendMsgs(r, to, send_if_empty) # {} /\ Compacted(r, to) ->
               become_snapshot(pr, r.raft_log.snap)
          [] OTHER ->
               IF pr.next > last THEN pr
               ELSE IF pr.state = "Replicate"
               THEN [pr EXCEPT !.next = last + 1, !.inflights = Append(@, last)]
               ELSE [pr EXCEPT !.paused = TRUE]

\* ... and when it dies: a compacted log without a snapshot to send instead.
AppendFatal(r, to) ==
    /\ ~is_paused(r.prs[to]) /\ Compacted(r, to)
    /\ r.prs[to].recent_active /\ r.raft_log.snap = 0

\* send_append to every node of `dest': send_append(to) and bcast_append
SendAppends(r, dest) ==
    [r EXCEPT
        !.prs = [p \in Node |-> IF p \in dest THEN AppendProgress(r, p, TRUE) ELSE @[p]],
        !.msgs = @ \cup UNION {AppendMsgs(r, p, TRUE) : p \in dest},
        !.raft_log.fatal = @ \/ \E p \in dest : AppendFatal(r, p)]

send_append(r, to) == SendAppends(r, {to})
bcast_append(r)    == SendAppends(r, Peers(r))

\* Mutant: entries go out until all are sent, whatever the window holds.
DrainAppends_NoWindow(r, to) ==
    LET pr == r.prs[to]
        n  == last_index(r.raft_log) + 1 - pr.next
    IN  IF pr.state # "Replicate" \/ n <= 0 THEN r
        ELSE [r EXCEPT
                !.prs[to] = [pr EXCEPT
                    !.next = @ + n, !.inflights = @ \o [k \in 1..n |-> pr.next + k - 1]],
                !.msgs = @ \cup
                    {AppendMessage(r, to, pr.next + k - 1, pr.next + k - 1) : k \in 1..n}]

\* while (maybe_send_append(to, false)): in Replicate, one message after the
\* other until the entries are out or the window is full; else at most one.
DrainAppends(r, to) ==
    LET pr   == r.prs[to]
        todo == last_index(r.raft_log) + 1 - pr.next
        need == (todo + MaxEntsPerMsg - 1) \div MaxEntsPerMsg
        n    == Least(need, MaxInflight - Len(pr.inflights))
        from(k) == pr.next + (k - 1) * MaxEntsPerMsg
    IN  IF pr.state # "Replicate"
        THEN [r EXCEPT !.prs[to] = AppendProgress(r, to, FALSE),
                       !.msgs = @ \cup AppendMsgs(r, to, FALSE)]
        ELSE IF todo <= 0 \/ n <= 0 \/ Compacted(r, to) THEN r
        ELSE [r EXCEPT
                !.prs[to] = [pr EXCEPT
                    !.next = LastSent(r, from(n)) + 1,
                    !.inflights = @ \o [k \in 1..n |-> LastSent(r, from(k))]],
                !.msgs = @ \cup {AppendMessage(r, to, from(k), LastSent(r, from(k))) : k \in 1..n}]

\* Mutant: a heartbeat carries the leader's commit index, whatever matches.
bcast_heartbeat_Uncapped(r) ==
    [r EXCEPT !.msgs = @ \cup
        {Stamped(r, [NewMessage("MsgHeartbeat", p) EXCEPT
            !.commit = r.raft_log.committed]) : p \in Peers(r)}]

bcast_heartbeat(r) ==
    [r EXCEPT !.msgs = @ \cup
        {Stamped(r, [NewMessage("MsgHeartbeat", p) EXCEPT
            !.commit = Least(r.prs[p].match, r.raft_log.committed)]) : p \in Peers(r)}]

-----------------------------------------------------------------------------
(* Changes of role. *)

\* Mutant: the votes of an earlier campaign are kept.
reset_KeepVotes(r, t) ==
    [r EXCEPT !.term = t, !.vote = IF r.term # t THEN Nil ELSE @,
              !.lead = Nil, !.past = FALSE, !.lead_transferee = Nil,
              !.prs = NoProgress, !.uncommitted_size = 0]

\* Mutant: the vote is cleared within a term too.
reset_ForgetVote(r, t) ==
    [r EXCEPT !.term = t, !.vote = Nil, !.lead = Nil, !.past = FALSE,
              !.lead_transferee = Nil, !.granted = {}, !.refused = {},
              !.prs = NoProgress, !.uncommitted_size = 0]

\* The leader rebuilds prs_, see become_leader.
reset(r, t) ==
    [r EXCEPT !.term = t, !.vote = IF r.term # t THEN Nil ELSE @,
              !.lead = Nil, !.past = FALSE, !.lead_transferee = Nil,
              !.granted = {}, !.refused = {}, !.prs = NoProgress, !.uncommitted_size = 0]

become_follower(r, t, lead) == [reset(r, t) EXCEPT !.lead = lead, !.state = "Follower"]

become_candidate(r) == [reset(r, r.term + 1) EXCEPT !.vote = r.id, !.state = "Candidate"]

become_pre_candidate(r) ==
    [r EXCEPT !.granted = {}, !.refused = {}, !.lead = Nil, !.state = "PreCandidate"]

\* The matched index that a quorum has reached: match_buf_[size - quorum()] of
\* the sorted matches.
QuorumMatch(r) ==
    {m \in {r.prs[p].match : p \in Node} :
        /\ Cardinality({p \in Node : r.prs[p].match >= m}) >= quorum
        /\ Cardinality({p \in Node : r.prs[p].match > m}) < quorum}

maybe_commit(r) ==
    IF QuorumMatch(r) = {} THEN r
    ELSE [r EXCEPT !.raft_log =
            log_maybe_commit(@, CHOOSE m \in QuorumMatch(r) : TRUE, r.term)]

PayloadSize(e) == IF e.data \in Value THEN 1 ELSE 0

\* Payload of the entries of a log with an index in lo..hi.
TotalPayload(l, lo, hi) == Cardinality({k \in lo..hi : PayloadSize(l.ents[k]) = 1})

\* append_entry of one entry, given that it is not dropped
append_entry(r, data) ==
    LET e  == [term |-> r.term, data |-> data]
        li == last_index(r.raft_log) + 1
    IN  maybe_commit([r EXCEPT
            !.raft_log = append(@, li - 1, <<e>>),
            !.prs[r.id] = maybe_update(@, li),
            !.uncommitted_size = @ + PayloadSize(e)])

\* increase_uncommitted_size fails
Dropped(r, data) ==
    /\ r.uncommitted_size > 0
    /\ r.uncommitted_size + PayloadSize([term |-> r.term, data |-> data]) > MaxUncommitted

become_leader(r) ==
    LET li == last_index(r.raft_log)
    IN  append_entry([reset(r, r.term) EXCEPT
            !.lead = r.id, !.state = "Leader",
            !.prs = [p \in Node |-> IF p = r.id THEN become_replicate(NewProgress(li, li + 1))
                                                ELSE NewProgress(0, li + 1)]], Empty)

-----------------------------------------------------------------------------
(* Elections. *)

poll(r, id, v) ==
    IF id \in r.granted \cup r.refused THEN r
    ELSE IF v THEN [r EXCEPT !.granted = @ \cup {id}]
    ELSE [r EXCEPT !.refused = @ \cup {id}]

VoteRequests(r, type, t, transfer) ==
    {Stamped(r, [NewMessage(type, p) EXCEPT
        !.term = t, !.index = last_index(r.raft_log), !.log_term = last_term(r.raft_log),
        !.transfer = transfer]) : p \in Peers(r)}

\* campaign(kCampaignElection) and campaign(kCampaignTransfer)
campaign(r, transfer) ==
    LET c == poll(become_candidate(r), r.id, TRUE)
    IN  IF Cardinality(c.granted) = quorum THEN become_leader(c)
        ELSE [c EXCEPT !.msgs = @ \cup VoteRequests(c, "MsgVote", c.term, transfer)]

\* campaign(kCampaignPreElection)
pre_campaign(r) ==
    LET c == poll(become_pre_candidate(r), r.id, TRUE)
    IN  IF Cardinality(c.granted) = quorum THEN campaign(c, FALSE)
        ELSE [c EXCEPT !.msgs = @ \cup VoteRequests(c, "MsgPreVote", c.term + 1, FALSE)]

\* step of MsgHup; pull_ready_events has applied every committed entry, so no
\* configuration change is pending.
step_hup(r) == IF PreVote THEN pre_campaign(r) ELSE campaign(r, FALSE)

\* Mutant: a transfer's vote request is granted without looking at the logs.
step_vote_TrustTransfer(r, m) ==
    LET can_vote == r.vote = m.from \/ (r.vote = Nil /\ r.lead = Nil)
        resp == [NewMessage("MsgVoteResp", m.from) EXCEPT !.term = m.term]
    IN  IF can_vote /\ (m.transfer \/ is_up_to_date(r.raft_log, m.index, m.log_term))
        THEN [send(r, resp) EXCEPT !.past = FALSE, !.vote = m.from]
        ELSE send(r, [resp EXCEPT !.term = r.term, !.reject = TRUE])

\* Mutant: a vote is given to whoever asks, also after another one.
step_vote_Again(r, m) ==
    LET can_vote == r.lead = Nil \/ (m.type = "MsgPreVote" /\ m.term > r.term)
        resp == [NewMessage(IF m.type = "MsgVote" THEN "MsgVoteResp" ELSE "MsgPreVoteResp",
                            m.from) EXCEPT !.term = m.term]
    IN  IF can_vote /\ is_up_to_date(r.raft_log, m.index, m.log_term)
        THEN LET s == send(r, resp)
             IN  IF m.type = "MsgVote" THEN [s EXCEPT !.past = FALSE, !.vote = m.from] ELSE s
        ELSE send(r, [resp EXCEPT !.term = r.term, !.reject = TRUE])

\* step of MsgVote and MsgPreVote
step_vote(r, m) ==
    LET can_vote == \/ r.vote = m.from
                    \/ r.vote = Nil /\ r.lead = Nil
                    \/ m.type = "MsgPreVote" /\ m.term > r.term
        resp == [NewMessage(IF m.type = "MsgVote" THEN "MsgVoteResp" ELSE "MsgPreVoteResp",
                            m.from) EXCEPT !.term = m.term]
    IN  IF can_vote /\ is_up_to_date(r.raft_log, m.index, m.log_term)
        THEN LET s == send(r, resp)
             IN  IF m.type = "MsgVote" THEN [s EXCEPT !.past = FALSE, !.vote = m.from] ELSE s
        ELSE send(r, [resp EXCEPT !.term = r.term, !.reject = TRUE])

\* The vote responses, in step_candidate
step_vote_resp(r, m) ==
    LET p == poll(r, m.from, ~m.reject)
    IN  IF Cardinality(p.granted) = quorum
        THEN IF p.state = "PreCandidate" THEN campaign(p, FALSE)
             ELSE bcast_append(become_leader(p))
        ELSE IF Cardinality(p.refused) = quorum THEN become_follower(p, p.term, Nil)
        ELSE p

-----------------------------------------------------------------------------
(* What a follower does with the leader's messages. *)

handle_append_entries(r, m) ==
    LET l    == r.raft_log
        resp == NewMessage("MsgAppResp", m.from)
    IN  IF m.index < l.committed THEN send(r, [resp EXCEPT !.index = l.committed])
        ELSE IF match_term(l, m.index, m.log_term)
        THEN send([r EXCEPT !.raft_log = maybe_append(@, m.index, m.commit, m.entries)],
                  [resp EXCEPT !.index = m.index + Len(m.entries)])
        ELSE send(r, [resp EXCEPT !.index = m.index, !.reject = TRUE,
                                  !.reject_hint = last_index(l)])

handle_heartbeat(r, m) ==
    send([r EXCEPT !.raft_log = commit_to(@, m.commit)], NewMessage("MsgHeartbeatResp", m.from))

\* The index that the code means to answer with goes into the request instead,
\* so the MsgAppResp carries index 0.
handle_snapshot(r, m) ==
    LET s    == m.snapshot
        l    == r.raft_log
        resp == NewMessage("MsgAppResp", m.from)
    IN  IF Len(s) <= l.committed THEN send(r, resp)
        ELSE IF match_term(l, Len(s), s[Len(s)].term)
        THEN send([r EXCEPT !.raft_log = commit_to(@, Len(s))], resp)
        ELSE send([r EXCEPT !.raft_log = log_restore(@, s)], resp)

\* MsgApp, MsgHeartbeat and MsgSnap
handle_leader_message(r, m) ==
    CASE m.type = "MsgApp"       -> handle_append_entries(r, m)
      [] m.type = "MsgHeartbeat" -> handle_heartbeat(r, m)
      [] OTHER                   -> handle_snapshot(r, m)

LeaderMsg == {"MsgApp", "MsgHeartbeat", "MsgSnap"}

step_candidate(r, m) ==
    CASE m.type \in LeaderMsg -> handle_leader_message(become_follower(r, m.term, m.from), m)
      [] m.type \in {"MsgVoteResp", "MsgPreVoteResp"} -> step_vote_resp(r, m)
      [] OTHER -> r

\* MsgProp and MsgTransferLeader go on to the leader; send dies on a message
\* that carries a term.
forward(r, m) ==
    CASE r.lead = Nil -> r
      [] r.lead # Nil /\ m.term # 0 -> [r EXCEPT !.raft_log = Fatal(@)]
      [] OTHER -> send(r, [m EXCEPT !.to = r.lead])

step_follower(r, m) ==
    CASE m.type \in LeaderMsg ->
           handle_leader_message([r EXCEPT !.past = FALSE, !.lead = m.from], m)
      [] m.type \in {"MsgProp", "MsgTransferLeader"} -> forward(r, m)
      [] m.type = "MsgTimeoutNow" -> campaign(r, TRUE)
      [] OTHER -> r

-----------------------------------------------------------------------------
(* What a leader does. *)

\* A proposal carries one entry; an empty one is fatal.
step_prop(r, m) ==
    IF m.entries = <<>> THEN [r EXCEPT !.raft_log = Fatal(@)]
    ELSE IF r.lead_transferee # Nil \/ Dropped(r, m.entries[1].data) THEN r
    ELSE bcast_append(append_entry(r, m.entries[1].data))

\* MsgTimeoutNow, once the transferee has the whole log
TimeoutNow(r, to) ==
    IF r.lead_transferee = to /\ r.prs[to].match = last_index(r.raft_log)
    THEN send(r, NewMessage("MsgTimeoutNow", to)) ELSE r

\* A positive MsgAppResp with news
AcceptAppResp(r, m) ==
    LET old == r.prs[m.from]
        up  == maybe_update(old, m.index)
        pr  == CASE up.state = "Probe" -> become_replicate(up)
                 [] up.state = "Snapshot" ->
                      IF need_snapshot_abort(up) THEN become_probe(up) ELSE up
                 [] OTHER -> [up EXCEPT !.inflights = free_to(@, m.index)]
        r1  == [r EXCEPT !.prs[m.from] = pr]
        r2  == maybe_commit(r1)
        r3  == IF r2.raft_log.committed # r.raft_log.committed THEN bcast_append(r2)
               ELSE IF is_paused(old) THEN send_append(r2, m.from) ELSE r2
    IN  TimeoutNow(DrainAppends(r3, m.from), m.from)

RejectAppResp(r, m) ==
    LET pr == maybe_decreases_to(r.prs[m.from], m.index, m.reject_hint)
    IN  send_append([r EXCEPT !.prs[m.from] =
            IF pr.state = "Replicate" THEN become_probe(pr) ELSE pr], m.from)

step_app_resp(r, m) ==
    LET a == [r EXCEPT !.prs[m.from].recent_active = TRUE]
    IN  CASE m.reject /\ Rejects(r.prs[m.from], m.index) -> RejectAppResp(a, m)
          [] ~m.reject /\ Updates(r.prs[m.from], m.index) -> AcceptAppResp(a, m)
          [] ~m.reject /\ ~Updates(r.prs[m.from], m.index) ->
               [a EXCEPT !.prs[m.from] = maybe_update(@, m.index)]
          [] OTHER -> a

step_heartbeat_resp(r, m) ==
    LET pr == r.prs[m.from]
        a  == [r EXCEPT !.prs[m.from] =
                [pr EXCEPT !.recent_active = TRUE, !.paused = FALSE,
                    !.inflights = IF pr.state = "Replicate" /\ is_full(@)
                                  THEN free_first_one(@) ELSE @]]
    IN  IF pr.match < last_index(r.raft_log) THEN send_append(a, m.from) ELSE a

\* The message's sender is the transferee.
step_transfer_leader(r, m) ==
    CASE r.lead_transferee = m.from -> r
      [] r.lead_transferee # m.from /\ m.from = r.id -> [r EXCEPT !.lead_transferee = Nil]
      [] OTHER ->
           LET t == [r EXCEPT !.lead_transferee = m.from, !.past = FALSE]
           IN  IF r.prs[m.from].match = last_index(r.raft_log) THEN TimeoutNow(t, m.from)
               ELSE send_append(t, m.from)

step_leader(r, m) ==
    CASE m.type = "MsgProp"           -> step_prop(r, m)
      [] m.type = "MsgAppResp"        -> step_app_resp(r, m)
      [] m.type = "MsgHeartbeatResp"  -> step_heartbeat_resp(r, m)
      [] m.type = "MsgTransferLeader" -> step_transfer_leader(r, m)
      [] OTHER -> r

-----------------------------------------------------------------------------
(* Raft::step: a message's term against the node's. *)

in_lease(r) == CheckQuorum /\ r.lead # Nil /\ ~r.past

\* A vote request that the lease makes the node ignore
Ignored(r, m) == m.type \in {"MsgVote", "MsgPreVote"} /\ ~m.transfer /\ in_lease(r)

\* A message of a higher term makes the node a follower of that term, unless
\* it is a pre-vote or a granted pre-vote.
CatchUpTerm(r, m) ==
    IF m.type = "MsgPreVote" \/ (m.type = "MsgPreVoteResp" /\ ~m.reject) THEN r
    ELSE become_follower(r, m.term, IF m.type \in LeaderMsg THEN m.from ELSE Nil)

step_lower_term(r, m) ==
    CASE (CheckQuorum \/ PreVote) /\ m.type \in {"MsgHeartbeat", "MsgApp"} ->
           send(r, NewMessage("MsgAppResp", m.from))
      [] m.type = "MsgPreVote" ->
           send(r, [NewMessage("MsgPreVoteResp", m.from) EXCEPT !.term = r.term, !.reject = TRUE])
      [] OTHER -> r

step_role(r, m) ==
    CASE m.type \in {"MsgVote", "MsgPreVote"} -> step_vote(r, m)
      [] m.type \notin {"MsgVote", "MsgPreVote"} /\ r.state = "Leader" -> step_leader(r, m)
      [] m.type \notin {"MsgVote", "MsgPreVote"} /\ r.state = "Follower" -> step_follower(r, m)
      [] OTHER -> step_candidate(r, m)

step(r, m) ==
    CASE m.term = 0 \/ m.term = r.term -> step_role(r, m)
      [] m.term > r.term ->
           IF Ignored(r, m) THEN r ELSE step_role(CatchUpTerm(r, m), m)
      [] OTHER -> step_lower_term(r, m)

\* Mutant: a leader that steps down still takes itself for the leader.
tick_quorum_KeepLead(r) ==
    LET active == {p \in Node : p = r.id \/ r.prs[p].recent_active}
    IN  IF CheckQuorum /\ Cardinality(active) < quorum THEN become_follower(r, r.term, r.lead)
        ELSE bcast_heartbeat([r EXCEPT !.lead_transferee = Nil])

\* MsgCheckQuorum, and the heartbeat that ends the same tick
tick_quorum(r) ==
    LET active == {p \in Node : p = r.id \/ r.prs[p].recent_active}
    IN  IF CheckQuorum /\ Cardinality(active) < quorum THEN become_follower(r, r.term, Nil)
        ELSE bcast_heartbeat([r EXCEPT !.lead_transferee = Nil])

-----------------------------------------------------------------------------
(* RaftNode: an event, then everything that has to be saved, sent and applied. *)

\* Mutant: committed entries are not taken off the uncommitted quota.
pull_ready_events_NoRefund(r) ==
    [r EXCEPT !.raft_log = maybe_trigger_snapshot(apply_committed(@)), !.msgs = {}]

\* Ready, and what pull_ready_events does with it: committed entries are
\* applied and leave the uncommitted quota, a snapshot may be due, msgs_ goes
\* to the transport (see Event).
pull_ready_events(r) ==
    LET l    == r.raft_log
        off  == IF l.applied < l.offset THEN l.offset ELSE l.applied
        size == TotalPayload(l, off + 1, l.committed)
    IN  [r EXCEPT !.uncommitted_size = IF size > @ THEN 0 ELSE @ - size,
                  !.raft_log = maybe_trigger_snapshot(apply_committed(@)),
                  !.msgs = {}]

\* RawNode's constructor for a new cluster: one configuration entry per
\* member, already committed.
Bootstrap(i) ==
    LET n    == Cardinality(Node)
        ents == [k \in 1..n |-> [term |-> 1, data |-> Conf]]
    IN  [id |-> i, term |-> 1, vote |-> Nil, state |-> "Follower", lead |-> Nil,
         past |-> FALSE, granted |-> {}, refused |-> {}, lead_transferee |-> Nil,
         raft_log |-> [ents |-> ents, wal |-> ents, offset |-> 0, snap |-> 0,
                       committed |-> n, applied |-> 0, fatal |-> FALSE],
         prs |-> NoProgress, uncommitted_size |-> 0, msgs |-> {}]

\* A new process over the saved state: the term, the vote, the log, and the
\* commit index c.
Reload(r, c) == become_follower([r EXCEPT !.raft_log = replay_WAL(@, c)], r.term, Nil)

Init ==
    /\ node = [i \in Node |-> pull_ready_events(Bootstrap(i))]
    /\ wire = EmptyBag
    /\ used = [proposals |-> 0, restarts |-> 0, transfers |-> 0, beats |-> 0]
    /\ ballots = {}
    /\ elected = {}
    /\ peak = [i \in Node |-> node[i].raft_log.committed]

\* Which messages are in flight
net == BagToSet(wire)

\* Node i has become r through an event, and `rest' is what the event left in
\* flight.  The WAL is written before a message leaves; the transport loses what
\* it cannot deliver.  No event sends the same message twice.
Event(i, r, rest) ==
    /\ node' = [node EXCEPT ![i] = pull_ready_events(r)]
    /\ \E sent \in SUBSET r.msgs :
          /\ r.raft_log.fatal => sent = {}
          /\ wire' = rest (+) SetToBag(sent)
          /\ BagCardinality(wire') <= MaxNet
    /\ peak' = [peak EXCEPT ![i] = IF @ < r.raft_log.committed THEN r.raft_log.committed ELSE @]
    /\ ballots' = ballots \cup (IF r.vote = Nil THEN {} ELSE {<<i, r.term, r.vote>>})
    /\ elected' = elected \cup (IF r.state = "Leader" THEN {<<r.term, i>>} ELSE {})

Alive(i) == ~node[i].raft_log.fatal

\* tick_election past the randomized timeout
TickElection(i) ==
    /\ Alive(i) /\ node[i].state # "Leader" /\ node[i].term < MaxTerm
    /\ Event(i, step_hup([node[i] EXCEPT !.past = FALSE]), wire)
    /\ UNCHANGED used

\* tick_election past the minimum timeout only.  Nothing but the lease reads that.
LeaseExpires(i) ==
    /\ Alive(i) /\ node[i].state # "Leader" /\ in_lease(node[i])
    /\ node' = [node EXCEPT ![i].past = TRUE]
    /\ UNCHANGED <<wire, used, ballots, elected, peak>>

\* tick_heartbeat; the heartbeat timeout is one tick
TickHeartbeat(i) ==
    /\ Alive(i) /\ node[i].state = "Leader" /\ used.beats < MaxBeats
    /\ Event(i, bcast_heartbeat(node[i]), wire)
    /\ used' = [used EXCEPT !.beats = @ + 1]

\* tick_heartbeat when an election timeout has passed
TickQuorum(i) ==
    /\ Alive(i) /\ node[i].state = "Leader" /\ used.beats < MaxBeats
    /\ Event(i, tick_quorum(node[i]), wire)
    /\ used' = [used EXCEPT !.beats = @ + 1]

\* A proposal without a known leader is dropped and changes nothing.
Propose(i, v) ==
    /\ Alive(i) /\ node[i].lead # Nil /\ used.proposals < MaxProposals
    /\ LET m == [NewMessage("MsgProp", i) EXCEPT !.entries = <<[term |-> 0, data |-> v]>>]
       IN  Event(i, step(node[i], m), wire)
    /\ used' = [used EXCEPT !.proposals = @ + 1]

\* RawNode::transfer_leadership; without a known leader it changes nothing
TransferLeadership(i, transferee) ==
    /\ Alive(i) /\ node[i].lead # Nil /\ node[i].term < MaxTerm
    /\ used.transfers < MaxTransfers
    /\ Event(i, step(node[i], [NewMessage("MsgTransferLeader", i) EXCEPT !.from = transferee]), wire)
    /\ used' = [used EXCEPT !.transfers = @ + 1]

\* A signal stops the process between two events, and it is started again.  All
\* that save had to make durable is in the file; the commit index may be an older
\* one.  What a kill loses besides is the subject of module NodeDisk.
Restart(i) ==
    /\ Alive(i) /\ used.restarts < MaxRestarts
    /\ \E c \in SavedCommits(node[i].raft_log) : Event(i, Reload(node[i], c), wire)
    /\ used' = [used EXCEPT !.restarts = @ + 1]

\* RaftNode::process and RawNode::step
Deliver(m) ==
    /\ Alive(m.to)
    /\ Event(m.to, step(node[m.to], m), wire (-) SetToBag({m}))
    /\ UNCHANGED used

Next ==
    \/ \E i \in Node : TickElection(i)
    \/ \E i \in Node : LeaseExpires(i)
    \/ \E i \in Node : TickHeartbeat(i)
    \/ \E i \in Node : TickQuorum(i)
    \/ \E i \in Node, v \in Value : Propose(i, v)
    \/ \E i, transferee \in Node : TransferLeadership(i, transferee)
    \/ \E i \in Node : Restart(i)
    \/ \E m \in net : Deliver(m)

Spec == Init /\ [][Next]_vars

-----------------------------------------------------------------------------
(* Properties. *)

TypeOK ==
    /\ node \in [Node -> RaftType]
    /\ IsABag(wire) /\ net \subseteq MessageType
    /\ used \in UsedType
    /\ ballots \subseteq Node \X Nat \X Node
    /\ elected \subseteq Nat \X Node
    /\ peak \in [Node -> Nat]

\* No term ever has two leaders (poll, step_candidate, become_leader).
ElectionSafety == \A e, f \in elected : e[1] = f[1] => e = f

\* A message that grants a vote
Grant(m) == m.type = "MsgVoteResp" /\ ~m.reject

\* Who has ever voted for i in term t
Voters(t, i) == {v \in Node : <<v, t, i>> \in ballots}

\* Whoever leads a term has the recorded votes of a quorum in that term: the
\* responses that step_candidate counts answer its candidacy.
ElectedByQuorum == \A e \in elected : Cardinality(Voters(e[1], e[2])) >= quorum

\* A node records one vote per term, also across restarts (can_vote in step,
\* the saved HardState).
OneVote ==
    /\ \A b \in ballots : /\ b[2] <= node[b[1]].term
                          /\ b[2] = node[b[1]].term => node[b[1]].vote = b[3]
    /\ \A b, c \in ballots : b[1] = c[1] /\ b[2] = c[2] => b[3] = c[3]

\* Every vote that a candidate has counted, or that is on its way to one, was
\* recorded by its voter before it was sent.
VotesAreReal ==
    /\ \A i \in Node : node[i].state = "Candidate" =>
          \A v \in node[i].granted : <<v, node[i].term, i>> \in ballots
    /\ \A m \in net : Grant(m) => <<m.from, m.term, m.to>> \in ballots

\* Between two events nothing is left to send, and a leader's message has a term.
Settled ==
    /\ \A i \in Node : node[i].id = i /\ node[i].msgs = {} /\ node[i].term > 0
    /\ \A m \in net : m.type \in LeaderMsg => m.term > 0

\* Without pre-votes no trace of them is left anywhere, every campaign has a
\* term, and a leader's election is on record.
NoPreVotes ==
    /\ \A i \in Node : /\ node[i].state # "PreCandidate"
                       /\ node[i].state = "Leader" => <<node[i].term, i>> \in elected
    /\ \A m \in net : /\ m.type \notin {"MsgPreVote", "MsgPreVoteResp"}
                      /\ m.type = "MsgVote" \/ Grant(m) => m.term > 0

\* Why elections are safe, as an inductive invariant (PreVote = FALSE)
ElectionInv ==
    TypeOK /\ Settled /\ NoPreVotes /\ OneVote /\ VotesAreReal /\ ElectedByQuorum

\* The first n entries of i's log
Prefix(i, n) == SubSeq(node[i].raft_log.ents, 1, n)

\* Entries of two logs with one index and one term head identical prefixes
\* (maybe_append's match_term check, find_conflict, append).
LogMatching ==
    \A i, j \in Node :
        \A k \in 1..Least(last_index(node[i].raft_log), last_index(node[j].raft_log)) :
            node[i].raft_log.ents[k].term = node[j].raft_log.ents[k].term
                => Prefix(i, k) = Prefix(j, k)

\* Two nodes never commit different entries at an index, those counted that a
\* node has forgotten to be committed in a restart.
StateMachineSafety ==
    \A i, j \in Node :
        LET n == Least(peak[i], peak[j]) IN Prefix(i, n) = Prefix(j, n)

\* A leader's log holds whatever any node of its term or below has ever committed
\* (is_up_to_date, and the term check of maybe_commit).
LeaderCompleteness ==
    \A i, j \in Node :
        node[j].state = "Leader" /\ node[j].term >= node[i].term
            => /\ last_index(node[j].raft_log) >= peak[i]
               /\ Prefix(j, peak[i]) = Prefix(i, peak[i])

\* What a leader believes a follower of its own term to have, it has.
MatchIsReal ==
    \A i, j \in Node :
        node[i].state = "Leader" /\ node[j].term = node[i].term
            => LET n == node[i].prs[j].match
               IN  last_index(node[j].raft_log) >= n /\ Prefix(i, n) = Prefix(j, n)

\* No LOG_FATAL is reached: a commit index beyond the log, a conflict with a
\* committed entry, a compaction that cannot be done, a forwarded term.
NoFatal == \A i \in Node : Alive(i)

\* The quota never overestimates the uncommitted tail of a leader's log
\* (reduce_uncommitted_size).
QuotaNeverOverestimates ==
    \A i \in Node :
        LET l == node[i].raft_log
        IN  node[i].uncommitted_size <= TotalPayload(l, l.committed + 1, last_index(l))

\* Flow control: the window holds increasing indexes strictly between what is
\* acknowledged and what is next, never more than it may, and only in Replicate
\* (maybe_send_append, free_to, free_first_one, reset_state).
WindowOK ==
    \A i, p \in Node :
        LET pr == node[i].prs[p]
            fl == pr.inflights
        IN  node[i].state = "Leader" =>
              /\ pr.state = "Replicate" => pr.match < pr.next
              /\ pr.state # "Replicate" => fl = <<>>
              /\ Len(fl) <= MaxInflight
              /\ \A k \in 1..Len(fl) : pr.match < fl[k] /\ fl[k] < pr.next
              /\ \A k \in 1..Len(fl) - 1 : fl[k] < fl[k + 1]

\* A leader never takes a follower for ahead of its own log: whatever a MsgAppResp
\* names, a commit index or a hint included, `next' stays within reach, so every
\* MsgApp has a true predecessor (maybe_update, maybe_decreases_to).
NextInLog ==
    \A i, p \in Node :
        node[i].state = "Leader" => node[i].prs[p].next <= last_index(node[i].raft_log) + 1

\* A node never loses an entry that it has once known to be committed.  A restart
\* may take the commit index back below it, and then nothing but the logs of the
\* leaders to come protects it: an append that conflicts with it, or a snapshot,
\* would no longer be refused (replay_WAL, maybe_append, restore).
CommittedIsStable ==
    [][\A i \in Node :
         /\ peak[i] <= last_index(node'[i].raft_log)
         /\ Prefix(i, peak[i]) = SubSeq(node'[i].raft_log.ents, 1, peak[i])]_vars

\* No step lowers a term or changes a vote within one.
VoteKept ==
    \A i \in Node :
        /\ node'[i].term >= node[i].term
        /\ node'[i].term = node[i].term /\ node[i].vote # Nil
              => node'[i].vote = node[i].vote

\* No step, a restart included, lowers a term or changes a vote within one
\* (reset, step_vote, the HardState saved before a message leaves).
VoteIsStable == [][VoteKept]_vars
=============================================================================
