--------------------------- MODULE RaftSafetyProofs ---------------------------
(*****************************************************************************)
(* The safety of the log, for every set of nodes and every schedule, loss,   *)
(* repetition and reordering of messages: whatever a handler of class Raft   *)
(* does is an Outcome of RaftLogProofs, so SafetyInv holds of every step,    *)
(* and the properties of the cluster follow from it.                         *)
(*                                                                           *)
(* Pre-votes are off, as in ElectionInv.  CleanRestarts excludes one kind of *)
(* step: a restart whose replay_WAL reads entries back that a snapshot has   *)
(* replaced.  Raft::restore drops the log, but nothing drops the entries from *)
(* the WAL, so they return; with five nodes they need not match what         *)
(* others have committed, and LogMatching fails.                             *)
(*****************************************************************************)
EXTENDS RaftLogProofs

-----------------------------------------------------------------------------
(* What a leader does. *)

\* s is r, a leader, after work on its prs_ and on messages to its followers.
Work(r, s) ==
    /\ s \in RaftType /\ s.id = r.id /\ s.term = r.term /\ s.vote = r.vote
    /\ s.state = r.state /\ s.lead = r.lead /\ s.raft_log = r.raft_log
    /\ \A p \in Node : Fits(s.prs[p], Len(r.raft_log.ents)) /\ s.prs[p].match = r.prs[p].match
    /\ \A x \in s.msgs : x \in r.msgs \/ LeaderSays(r, x)

\* Every follower is where the leader's log reaches.
Viewed(r) == \A p \in Node : Fits(r.prs[p], Len(r.raft_log.ents))

\* Doing nothing
LEMMA WorkRefl == ASSUME NEW r \in RaftType, Viewed(r) PROVE Work(r, r)
  BY DEF Work, Viewed

\* Work may be done in a row.
LEMMA WorkTrans ==
    ASSUME NEW r, NEW s, NEW t, Work(r, s), Work(s, t)
    PROVE  Work(r, t)
<1>1. \A x : LeaderSays(s, x) => LeaderSays(r, x) \/ x.to \notin Node
  BY DEF Work, LeaderSays
<1>2. t \in RaftType BY DEF Work
<1>3. t.msgs \in SUBSET MessageType BY <1>2, RaftFields
<1>4. \A x \in t.msgs : x.to \in Node BY <1>3 DEF MessageType
<1>5. /\ t.id = r.id /\ t.term = r.term /\ t.vote = r.vote
      /\ t.state = r.state /\ t.lead = r.lead /\ t.raft_log = r.raft_log
  BY DEF Work
<1>6. \A p \in Node : Fits(t.prs[p], Len(r.raft_log.ents)) /\ t.prs[p].match = r.prs[p].match
  BY DEF Work
<1>7. \A x \in t.msgs : x \in r.msgs \/ LeaderSays(r, x) BY <1>1, <1>4 DEF Work
<1> QED BY <1>2, <1>5, <1>6, <1>7 DEF Work

\* Work leaves the leader's view in reach.
LEMMA WorkViewed == ASSUME NEW r, NEW s, Work(r, s) PROVE Viewed(s)
  BY DEF Work, Viewed

\* A MsgApp that starts above what is compacted says what the log has.
LEMMA AppendMessageSays ==
    ASSUME NEW r \in RaftType, NEW to \in Node, to # r.id, NEW next \in Nat \ {0},
           NEW last \in Nat, last <= Len(r.raft_log.ents), next <= Len(r.raft_log.ents) + 1,
           ~(next < first_index(r.raft_log))
    PROVE  LeaderSays(r, AppendMessage(r, to, next, last))
<1> DEFINE l  == r.raft_log
           es == slice(l, next, last + 1)
           lt == term(l, next - 1)
           x  == AppendMessage(r, to, next, last)
<1>1. l \in LogType BY RaftFields
<1>2. /\ x.type = "MsgApp" /\ x.from = r.id /\ x.to = to /\ x.term = r.term
      /\ x.index = next - 1 /\ x.log_term = lt /\ x.entries = es /\ x.commit = l.committed
  <2> HIDE DEF es, lt
  <2> QED BY DEF AppendMessage, Stamped, NewMessage, CampaignType, es, lt
<1> HIDE DEF x
<1>3. /\ l.ents \in Seq(Entry) /\ Len(l.ents) \in Nat /\ l.offset \in Nat /\ l.committed \in Nat
  <2> HIDE DEF l
  <2> QED BY <1>1, LogFields
<1>4. lt = LastTerm(First(l.ents, next - 1))
  <2>1. l.offset <= next - 1 /\ next - 1 \in Nat /\ next - 1 <= Len(l.ents)
    BY <1>3 DEF first_index
  <2> HIDE DEF l
  <2> QED BY <1>1, <2>1, LogTerms DEF lt
<1>5. es = SubSeq(l.ents, next, last) BY <1>3 DEF slice
<1>6. Len(es) = (IF next <= last THEN last - next + 1 ELSE 0)
      /\ \A k \in 1..Len(es) : es[k] = l.ents[next - 1 + k]
  <2> HIDE DEF l, es
  <2> QED BY <1>3, <1>5
<1> HIDE DEF es, lt
<1>7. x.index + Len(x.entries) <= Len(l.ents) BY <1>2, <1>3, <1>6
<1>8. \A k \in 1..Len(x.entries) : x.entries[k] = l.ents[x.index + k] BY <1>2, <1>6
<1>9. x.log_term = LastTerm(First(l.ents, x.index)) /\ x.commit <= l.committed
  BY <1>2, <1>3, <1>4
<1>10. x.type = "MsgApp" /\ x.from = r.id /\ x.to # r.id /\ x.term = r.term BY <1>2
<1>11. LeaderSays(r, x) BY <1>7, <1>8, <1>9, <1>10 DEF LeaderSays
<1> QED BY <1>11 DEF x

\* So does whatever maybe_send_append sends.
LEMMA AppendMsgsSay ==
    ASSUME NEW r \in RaftType, NEW to \in Node, to # r.id, NEW b \in BOOLEAN,
           Fits(r.prs[to], Len(r.raft_log.ents)), NEW x \in AppendMsgs(r, to, b)
    PROVE  LeaderSays(r, x)
<1> DEFINE pr == r.prs[to]
           l  == r.raft_log
<1>1. l \in LogType /\ pr \in ProgressType BY RaftFields
<1>2. pr.next \in Nat \ {0} BY <1>1 DEF ProgressType
<1>3. /\ l.ents \in Seq(Entry) /\ Len(l.ents) \in Nat /\ l.snap \in Nat /\ l.committed \in Nat
      /\ l.snap <= l.committed /\ l.committed <= Len(l.ents)
  <2> HIDE DEF l
  <2> QED BY <1>1, LogFields
<1>4. \/ x = SnapMessage(r, to) /\ l.snap > 0
      \/ x = AppendMessage(r, to, pr.next, LastSent(r, pr.next)) /\ ~Compacted(r, to)
  BY DEF AppendMsgs
<1>5. CASE x = SnapMessage(r, to) /\ l.snap > 0
  <2>1. /\ x.type = "MsgSnap" /\ x.from = r.id /\ x.to = to /\ x.term = r.term
        /\ x.snapshot = First(l.ents, l.snap)
    BY <1>5 DEF SnapMessage, Stamped, NewMessage, CampaignType, First
  <2>2. 0 < l.snap BY <1>3, <1>5
  <2> HIDE DEF l
  <2> QED BY <1>3, <2>1, <2>2 DEF LeaderSays, l
<1>6. CASE x = AppendMessage(r, to, pr.next, LastSent(r, pr.next)) /\ ~Compacted(r, to)
  <2>1. LastSent(r, pr.next) \in Nat /\ LastSent(r, pr.next) <= Len(l.ents)
    <3> HIDE DEF pr
    <3> QED BY <1>2, LastSentType DEF last_index
  <2>2. pr.next <= Len(l.ents) + 1 /\ ~(pr.next < first_index(l)) BY <1>6 DEF Fits, Compacted
  <2> HIDE DEF pr
  <2> QED BY <1>2, <1>6, <2>1, <2>2, AppendMessageSays
<1> QED BY <1>4, <1>5, <1>6

\* maybe_send_append leaves a follower in reach.
LEMMA AppendProgressFits ==
    ASSUME NEW r \in RaftType, NEW to \in Node, NEW b \in BOOLEAN,
           Fits(r.prs[to], Len(r.raft_log.ents))
    PROVE  LET q == AppendProgress(r, to, b)
           IN  Fits(q, Len(r.raft_log.ents)) /\ q.match = r.prs[to].match
<1> DEFINE pr   == r.prs[to]
           l    == r.raft_log
           q    == AppendProgress(r, to, b)
           last == LastSent(r, pr.next)
           n    == Len(l.ents)
<1>1. l \in LogType /\ pr \in ProgressType BY RaftFields
<1>2. l.snap \in Nat /\ l.snap <= n /\ n \in Nat
  <2> HIDE DEF l
  <2> QED BY <1>1, LogFields
<1>3. pr.next \in Nat \ {0} /\ pr.match \in Nat BY <1>1 DEF ProgressType
<1>4. last \in Nat /\ last <= n
  <2> HIDE DEF pr
  <2> QED BY <1>3, LastSentType DEF last_index
<1>5. Fits(pr, n) OBVIOUS
<1>6. \/ q = pr
      \/ q = become_snapshot(pr, l.snap)
      \/ q = [pr EXCEPT !.next = last + 1, !.inflights = Append(@, last)]
      \/ q = [pr EXCEPT !.paused = TRUE]
  BY DEF AppendProgress
<1> HIDE DEF pr, l, q, last, n
<1>7. q.match = pr.match /\ Fits(q, n)
  <2>1. CASE q = pr BY <1>5, <2>1
  <2>2. CASE q = become_snapshot(pr, l.snap)
    BY <1>1, <1>2, <1>3, <1>5, <2>2 DEF become_snapshot, reset_state, ProgressType, Fits
  <2>3. CASE q = [pr EXCEPT !.next = last + 1, !.inflights = Append(@, last)]
    BY <1>1, <1>2, <1>3, <1>4, <1>5, <2>3 DEF ProgressType, Fits
  <2>4. CASE q = [pr EXCEPT !.paused = TRUE] BY <1>1, <1>5, <2>4 DEF ProgressType, Fits
  <2> QED BY <1>6, <2>1, <2>2, <2>3, <2>4
<1> QED BY <1>7 DEF pr, l, q, n
\* Work that leaves everything but prs_ and the messages alone
LEMMA WorkIs ==
    ASSUME NEW r \in RaftType, NEW s, Quiet(r, s), s.lead = r.lead, s.raft_log = r.raft_log,
           \A p \in Node : Fits(s.prs[p], Len(r.raft_log.ents)) /\ s.prs[p].match = r.prs[p].match,
           \A x \in s.msgs : x \in r.msgs \/ LeaderSays(r, x)
    PROVE  Work(r, s)
  BY DEF Work, Quiet

\* send_append and bcast_append, which never have to send a snapshot that there is not
LEMMA SendAppendsWork ==
    ASSUME NEW r \in RaftType, Viewed(r), NEW dest \in SUBSET Node, r.id \notin dest
    PROVE  Work(r, SendAppends(r, dest))
<1> DEFINE yes == TRUE
           prs == [p \in Node |-> IF p \in dest THEN AppendProgress(r, p, yes) ELSE r.prs[p]]
           ms  == UNION {AppendMsgs(r, p, yes) : p \in dest}
           f   == r.raft_log.fatal \/ \E p \in dest : AppendFatal(r, p)
           l   == [r.raft_log EXCEPT !.fatal = f]
           s   == [r EXCEPT !.prs = prs, !.msgs = @ \cup ms, !.raft_log = l]
           len == Len(r.raft_log.ents)
<1>1. SendAppends(r, dest) = s BY DEF SendAppends
<1>2. r.raft_log \in LogType BY RaftFields
<1>3. l = r.raft_log
  <2>1. ASSUME NEW p \in dest, AppendFatal(r, p) PROVE FALSE
    <3>1. r.raft_log.snap = 0 /\ r.prs[p].next < r.raft_log.offset + 1
      BY <2>1 DEF AppendFatal, Compacted, first_index
    <3>2. r.raft_log.offset \in Nat /\ r.raft_log.offset <= 0
      BY <1>2, <3>1, LogFields
    <3>3. r.prs[p] \in ProgressType BY RaftFields
    <3>4. r.prs[p].next \in Nat \ {0} BY <3>3 DEF ProgressType
    <3> QED BY <3>1, <3>2, <3>4
  <2>2. r.raft_log \in LogRecord BY <1>2, LogFields
  <2>3. r.raft_log.fatal \in BOOLEAN BY <2>2 DEF LogRecord
  <2>4. f = r.raft_log.fatal BY <2>1, <2>3
  <2> HIDE DEF f
  <2> QED BY <2>2, <2>4 DEF LogRecord
<1>4. yes \in BOOLEAN OBVIOUS
<1> HIDE DEF yes, f, l
<1>5. \A p \in Node : Fits(prs[p], len) /\ prs[p].match = r.prs[p].match
  <2> TAKE p \in Node
  <2>1. Fits(r.prs[p], len) BY DEF Viewed
  <2>2. Fits(AppendProgress(r, p, yes), len) /\ AppendProgress(r, p, yes).match = r.prs[p].match
    BY <1>4, <2>1, AppendProgressFits
  <2> HIDE DEF len
  <2> QED BY <2>1, <2>2
<1>6. \A x \in ms : LeaderSays(r, x)
  <2> TAKE x \in ms
  <2>1. PICK p \in dest : x \in AppendMsgs(r, p, yes) OBVIOUS
  <2>2. p \in Node /\ p # r.id /\ Fits(r.prs[p], Len(r.raft_log.ents)) BY DEF Viewed
  <2> QED BY <1>4, <2>1, <2>2, AppendMsgsSay
<1> HIDE DEF prs, ms
<1>7. s.prs = prs /\ s.msgs = r.msgs \cup ms /\ s.raft_log = l /\ s.lead = r.lead BY DEF RaftType
<1>8. Quiet(r, s) BY <1>1, SendAppendsQuiet
<1> HIDE DEF s
<1>9. \A p \in Node : Fits(s.prs[p], len) /\ s.prs[p].match = r.prs[p].match BY <1>5, <1>7
<1>10. \A x \in s.msgs : x \in r.msgs \/ LeaderSays(r, x) BY <1>6, <1>7
<1>11. s.raft_log = r.raft_log /\ s.lead = r.lead BY <1>3, <1>7
<1>12. Work(r, s) BY <1>8, <1>9, <1>10, <1>11, WorkIs
<1> QED BY <1>1, <1>12

\* Raft::bcast_append and Raft::send_append
LEMMA AppendsWork ==
    ASSUME NEW r \in RaftType, Viewed(r)
    PROVE  /\ Work(r, bcast_append(r))
           /\ \A p \in Node : p # r.id => Work(r, send_append(r, p))
<1>1. Peers(r) \in SUBSET Node /\ r.id \notin Peers(r) BY DEF Peers
<1>2. Work(r, bcast_append(r)) BY <1>1, SendAppendsWork DEF bcast_append
<1>3. ASSUME NEW p \in Node, p # r.id PROVE Work(r, send_append(r, p))
  <2> DEFINE d == {p}
  <2>1. d \in SUBSET Node /\ r.id \notin d BY <1>3
  <2> HIDE DEF d
  <2>2. Work(r, SendAppends(r, d)) BY <2>1, SendAppendsWork
  <2> QED BY <2>2 DEF d, send_append
<1> QED BY <1>2, <1>3

\* A change of one follower's Progress that leaves what it matches
LEMMA OneWork ==
    ASSUME NEW r \in RaftType, Viewed(r), NEW to \in Node, NEW pr \in ProgressType,
           Fits(pr, Len(r.raft_log.ents)), pr.match = r.prs[to].match
    PROVE  Work(r, [r EXCEPT !.prs[to] = pr])
<1> DEFINE prs == [r.prs EXCEPT ![to] = pr]
           s   == [r EXCEPT !.prs = prs]
<1>1. Quiet(r, [r EXCEPT !.prs[to] = pr]) BY OnePrs
<1>2. r.prs \in [Node -> ProgressType] BY RaftFields
<1>3. \A p \in Node : Fits(prs[p], Len(r.raft_log.ents)) /\ prs[p].match = r.prs[p].match
  BY <1>2 DEF Viewed
<1> HIDE DEF prs
<1>4. s.prs = prs /\ s.lead = r.lead /\ s.raft_log = r.raft_log /\ s.msgs = r.msgs BY DEF RaftType
<1>5. s = [r EXCEPT !.prs[to] = pr] BY DEF prs
<1> HIDE DEF s
<1>6. Quiet(r, s) BY <1>1, <1>5
<1>7. \A p \in Node : Fits(s.prs[p], Len(r.raft_log.ents)) /\ s.prs[p].match = r.prs[p].match
  BY <1>3, <1>4
<1>8. Work(r, s) BY <1>4, <1>6, <1>7, WorkIs
<1> QED BY <1>5, <1>8

\* Messages to followers
LEMMA SayWork ==
    ASSUME NEW r \in RaftType, Viewed(r), NEW s, Quiet(r, s), s.prs = r.prs, s.lead = r.lead,
           s.raft_log = r.raft_log, \A x \in s.msgs : x \in r.msgs \/ LeaderSays(r, x)
    PROVE  Work(r, s)
<1>1. \A p \in Node : Fits(s.prs[p], Len(r.raft_log.ents)) /\ s.prs[p].match = r.prs[p].match
  BY DEF Viewed
<1> QED BY <1>1, WorkIs

\* Raft::send_timeout_now
LEMMA TimeoutNowWork ==
    ASSUME NEW r \in RaftType, Viewed(r), NEW to \in Node, to # r.id
    PROVE  Work(r, TimeoutNow(r, to))
<1> DEFINE s == TimeoutNow(r, to)
           x == Stamped(r, NewMessage("MsgTimeoutNow", to))
<1>1. s = r \/ s = [r EXCEPT !.msgs = @ \cup {x}] BY DEF TimeoutNow, send
<1>2. x.type = "MsgTimeoutNow" /\ x.from = r.id /\ x.to = to /\ x.term = r.term
  BY DEF Stamped, NewMessage, CampaignType
<1>3. Quiet(r, s) BY TimeoutNowQuiet
<1> HIDE DEF s, x
<1>4. LeaderSays(r, x) BY <1>2 DEF LeaderSays
<1>5. s.prs = r.prs /\ s.lead = r.lead /\ s.raft_log = r.raft_log /\ s.msgs \subseteq r.msgs \cup {x}
  BY <1>1 DEF RaftType
<1>6. \A y \in s.msgs : y \in r.msgs \/ LeaderSays(r, y) BY <1>4, <1>5
<1>7. Work(r, s) BY <1>3, <1>5, <1>6, SayWork
<1> QED BY <1>7 DEF s

\* Raft::bcast_heartbeat caps the commit index by what its receiver matches.
LEMMA BcastHeartbeatWork ==
    ASSUME NEW r \in RaftType, Viewed(r)
    PROVE  Work(r, bcast_heartbeat(r))
<1> DEFINE c(p) == Least(r.prs[p].match, r.raft_log.committed)
           h(p) == Stamped(r, [NewMessage("MsgHeartbeat", p) EXCEPT !.commit = c(p)])
           ms   == {h(p) : p \in Peers(r)}
           s    == [r EXCEPT !.msgs = @ \cup ms]
<1>1. bcast_heartbeat(r) = s BY DEF bcast_heartbeat
<1>2. ASSUME NEW p \in Peers(r) PROVE LeaderSays(r, h(p))
  <2>1. r.prs[p] \in ProgressType /\ r.raft_log \in LogType BY RaftFields DEF Peers
  <2>2. r.prs[p].match \in Nat /\ r.raft_log.committed \in Nat
    BY <2>1, LogFields DEF ProgressType
  <2>3. c(p) <= r.prs[p].match /\ c(p) <= r.raft_log.committed BY <2>2 DEF Least
  <2> HIDE DEF c
  <2>4. /\ h(p).type = "MsgHeartbeat" /\ h(p).from = r.id /\ h(p).to = p /\ h(p).term = r.term
        /\ h(p).commit = c(p)
    BY DEF Stamped, NewMessage, CampaignType
  <2>5. p # r.id BY DEF Peers
  <2> HIDE DEF h
  <2> QED BY <2>3, <2>4, <2>5 DEF LeaderSays
<1>3. \A x \in ms : LeaderSays(r, x) BY <1>2
<1> HIDE DEF ms
<1>4. Quiet(r, s) BY <1>1, BcastHeartbeatQuiet
<1>5. s.prs = r.prs /\ s.lead = r.lead /\ s.raft_log = r.raft_log /\ s.msgs = r.msgs \cup ms
  BY DEF RaftType
<1> HIDE DEF s
<1>6. \A x \in s.msgs : x \in r.msgs \/ LeaderSays(r, x) BY <1>3, <1>5
<1>7. Work(r, s) BY <1>4, <1>5, <1>6, SayWork
<1> QED BY <1>1, <1>7
\* The messages that carry the entries next..last, e in each, start within them.
LEMMA BatchStarts ==
    ASSUME NEW e \in Nat \ {0}, NEW next \in Nat \ {0}, NEW last \in Nat, next <= last,
           NEW n \in Nat, n <= (last + 1 - next + e - 1) \div e, NEW k \in 1..n
    PROVE  next + (k - 1) * e \in Nat \ {0} /\ next + (k - 1) * e <= last
<1>1. CASE k = 1
  <2>1. (k - 1) * e = 0 BY <1>1
  <2> DEFINE z == (k - 1) * e
  <2>2. z = 0 BY <2>1
  <2> HIDE DEF z
  <2>3. next + z \in Nat \ {0} /\ next + z <= last BY <2>2
  <2> QED BY <2>3 DEF z
<1>2. CASE k # 1
  <2> DEFINE g(j) == Least(last, next + (j - 1) * e + e - 1)
             p == k - 1
             y == (p - 1) * e
             z == (k - 1) * e
  <2>1. p \in 1..n /\ p < k /\ p \in Nat /\ p >= 1 /\ k \in Nat BY <1>2
  <2>2. /\ \A j \in 1..n : g(j) \in Nat /\ next <= g(j) /\ g(j) <= last
        /\ \A i, j \in 1..n : i < j => g(i) < g(j)
    <3> HIDE DEF p
    <3>1. next \in Nat OBVIOUS
    <3> QED BY <3>1, Batches
  <2>3. g(p) < last
    <3>1. g(p) \in Nat /\ g(k) \in Nat /\ g(k) <= last /\ g(p) < g(k) BY <2>1, <2>2
    <3> HIDE DEF g
    <3> QED BY <3>1
  <2>4. y \in Nat /\ z = y + e
    <3>1. p - 1 \in Nat /\ k - 1 = (p - 1) + 1 BY <2>1
    <3> DEFINE q == p - 1
    <3>2. q \in Nat /\ k - 1 = q + 1 BY <3>1
    <3> HIDE DEF q, p
    <3>3. q * e \in Nat /\ (q + 1) * e = q * e + e BY <3>2
    <3> QED BY <3>2, <3>3 DEF q
  <2> HIDE DEF y, z, p
  <2>5. Least(last, next + y + e - 1) < last BY <2>3 DEF y
  <2>6. next + y + e - 1 < last BY <2>4, <2>5 DEF Least
  <2>7. next + z \in Nat \ {0} /\ next + z <= last BY <2>4, <2>6
  <2> QED BY <2>7 DEF z
<1> QED BY <1>1, <1>2

\* The loop of maybe_send_append after an acknowledgement
LEMMA DrainAppendsWork ==
    ASSUME NEW r \in RaftType, Viewed(r), NEW to \in Node, to # r.id
    PROVE  Work(r, DrainAppends(r, to))
<1> DEFINE pr   == r.prs[to]
           li   == Len(r.raft_log.ents)
           todo == last_index(r.raft_log) + 1 - pr.next
           need == (todo + MaxEntsPerMsg - 1) \div MaxEntsPerMsg
           n    == Least(need, MaxInflight - Len(pr.inflights))
           from(k) == pr.next + (k - 1) * MaxEntsPerMsg
           no == FALSE
           a1 == AppendProgress(r, to, no)
           ms1 == AppendMsgs(r, to, no)
           ms2 == {AppendMessage(r, to, from(k), LastSent(r, from(k))) : k \in 1..n}
           fl == pr.inflights \o [k \in 1..n |-> LastSent(r, from(k))]
           a2 == [pr EXCEPT !.next = LastSent(r, from(n)) + 1, !.inflights = fl]
           s == DrainAppends(r, to)
<1>1. pr \in ProgressType /\ r.prs \in [Node -> ProgressType] BY RaftFields
<1>2. pr.next \in Nat \ {0} /\ pr.match \in Nat /\ pr.inflights \in Seq(Nat) /\ Len(pr.inflights) \in Nat
  BY <1>1 DEF ProgressType
<1>3. li \in Nat /\ last_index(r.raft_log) = li
  BY <1>2, LastSentType DEF last_index
<1>4. Fits(pr, li) /\ no \in BOOLEAN BY DEF Viewed
<1>5. Quiet(r, s) BY DrainAppendsQuiet
<1>6. ASSUME NEW a, NEW ms, Fits(a, li), a.match = pr.match,
             s = [r EXCEPT !.prs = [r.prs EXCEPT ![to] = a], !.msgs = @ \cup ms],
             \A x \in ms : LeaderSays(r, x)
      PROVE  Work(r, s)
  <2> DEFINE prs == [r.prs EXCEPT ![to] = a]
  <2>1. \A p \in Node : Fits(prs[p], li) /\ prs[p].match = r.prs[p].match
    BY <1>1, <1>6 DEF Viewed
  <2> HIDE DEF prs
  <2>2. s = [r EXCEPT !.prs = prs, !.msgs = @ \cup ms] BY <1>6 DEF prs
  <2> HIDE DEF s, pr
  <2>3. s.prs = prs /\ s.lead = r.lead /\ s.raft_log = r.raft_log /\ s.msgs = r.msgs \cup ms
    BY <2>2 DEF RaftType
  <2>4. \A p \in Node : Fits(s.prs[p], Len(r.raft_log.ents)) /\ s.prs[p].match = r.prs[p].match
    BY <2>1, <2>3
  <2>5. \A x \in s.msgs : x \in r.msgs \/ LeaderSays(r, x) BY <1>6, <2>3
  <2>6. Work(r, s) BY <1>5, <2>3, <2>4, <2>5, WorkIs
  <2> QED BY <2>6 DEF s
<1>7. CASE pr.state # "Replicate"
  <2>1. s = [r EXCEPT !.prs = [r.prs EXCEPT ![to] = a1], !.msgs = @ \cup ms1]
    BY <1>7 DEF DrainAppends
  <2>2. Fits(a1, li) /\ a1.match = pr.match
    <3> HIDE DEF no
    <3> QED BY <1>4, AppendProgressFits
  <2>3. \A x \in ms1 : LeaderSays(r, x)
    <3> HIDE DEF no
    <3> QED BY <1>4, AppendMsgsSay
  <2> HIDE DEF a1, ms1, s, pr
  <2>4. Work(r, s) BY <1>6, <2>1, <2>2, <2>3
  <2> QED BY <2>4 DEF s
<1>8. CASE pr.state = "Replicate" /\ (todo <= 0 \/ n <= 0 \/ Compacted(r, to))
  <2>1. s = r BY <1>8 DEF DrainAppends
  <2> HIDE DEF s
  <2>2. Work(r, s) BY <2>1, WorkRefl
  <2> QED BY <2>2 DEF s
<1>9. CASE pr.state = "Replicate" /\ ~(todo <= 0 \/ n <= 0 \/ Compacted(r, to))
  <2>1. todo \in Nat /\ todo = li + 1 - pr.next /\ pr.next <= li
    <3>1. todo = li + 1 - pr.next /\ ~(todo <= 0) BY <1>3, <1>9
    <3> HIDE DEF todo, li, pr
    <3> QED BY <1>2, <1>3, <3>1
  <2>2. MaxEntsPerMsg \in Nat \ {0} /\ MaxInflight \in Nat BY LimitAssumption, MaxInflightAssumption
  <2>3. need \in Int BY <2>1, <2>2
  <2>4. n \in Nat /\ n >= 1 /\ n <= need
    <3> DEFINE w == MaxInflight - Len(pr.inflights)
    <3>1. w \in Int BY <1>2, <2>2
    <3>2. n = Least(need, w) /\ ~(n <= 0) BY <1>9
    <3> HIDE DEF n, need, w
    <3> QED BY <2>3, <3>1, <3>2 DEF Least
  <2>5. n <= (li + 1 - pr.next + MaxEntsPerMsg - 1) \div MaxEntsPerMsg BY <1>3, <2>4
  <2> HIDE DEF n, need, todo
  <2>6. ASSUME NEW k \in 1..n PROVE from(k) \in Nat \ {0} /\ pr.next <= from(k) /\ from(k) <= li
    <3> DEFINE x == pr.next
               z == (k - 1) * MaxEntsPerMsg
    <3>1. x \in Nat \ {0} BY <1>2
    <3>2. x + z \in Nat \ {0} /\ x + z <= li
      <4> HIDE DEF x, li, pr
      <4> QED BY <1>3, <2>1, <2>2, <2>4, <2>5, <3>1, BatchStarts DEF x
    <3>3. z \in Nat
      <4>1. k - 1 \in Nat BY <2>4
      <4> QED BY <2>2, <4>1
    <3> HIDE DEF x, z, pr, li
    <3>4. x <= x + z BY <3>1, <3>3
    <3> QED BY <3>2, <3>4 DEF x, z
  <2>7. \A x \in ms2 : LeaderSays(r, x)
    <3> SUFFICES ASSUME NEW k \in 1..n
                 PROVE  LeaderSays(r, AppendMessage(r, to, from(k), LastSent(r, from(k))))
      OBVIOUS
    <3> DEFINE f == from(k)
               z == LastSent(r, f)
    <3>1. f \in Nat \ {0} /\ pr.next <= f /\ f <= li BY <2>6
    <3> HIDE DEF f
    <3>2. z \in Nat /\ z <= li BY <1>3, <3>1, LastSentType
    <3> HIDE DEF z
    <3>3. ~(pr.next < first_index(r.raft_log)) BY <1>9 DEF Compacted
    <3>4. first_index(r.raft_log) \in Nat
      <4>1. r.raft_log \in LogType BY RaftFields
      <4> QED BY <4>1, LogFields DEF first_index
    <3>5. ~(f < first_index(r.raft_log)) /\ f <= li + 1 BY <1>2, <1>3, <3>1, <3>3, <3>4
    <3>6. LeaderSays(r, AppendMessage(r, to, f, z)) BY <3>1, <3>2, <3>5, AppendMessageSays
    <3> QED BY <3>6 DEF f, z
  <2>8. Fits(a2, li) /\ a2.match = pr.match
    <3> DEFINE f == from(n)
               z == LastSent(r, f)
    <3>1. f \in Nat \ {0} BY <2>4, <2>6
    <3> HIDE DEF f
    <3>2. z \in Nat /\ z <= li BY <1>3, <3>1, LastSentType
    <3>3. a2 = [pr EXCEPT !.next = z + 1, !.inflights = fl] BY DEF f
    <3> HIDE DEF z, fl, a2, pr, li
    <3>4. a2.next = z + 1 /\ a2.match = pr.match /\ a2.pending_snapshot = pr.pending_snapshot
      BY <1>1, <3>3 DEF ProgressType
    <3> QED BY <1>3, <1>4, <3>2, <3>4 DEF Fits
  <2>9. s = [r EXCEPT !.prs = [r.prs EXCEPT ![to] = a2], !.msgs = @ \cup ms2]
    BY <1>9 DEF DrainAppends, n, need, todo
  <2> HIDE DEF a2, ms2, s, pr
  <2>10. Work(r, s) BY <1>6, <2>7, <2>8, <2>9
  <2> QED BY <2>10 DEF s
<1> QED BY <1>7, <1>8, <1>9
-----------------------------------------------------------------------------
(* What a leader commits and appends. *)

\* maybe_commit commits an entry of the leader's term that a quorum matches.
Commits(r, s) ==
    LET n == s.raft_log.committed
    IN  /\ s.prs = r.prs /\ s.lead = r.lead /\ s.msgs = r.msgs
        /\ s.raft_log.ents = r.raft_log.ents /\ ~s.raft_log.fatal
        /\ r.raft_log.committed <= n
        /\ \/ n = r.raft_log.committed
           \/ /\ LastTerm(First(r.raft_log.ents, n)) = r.term
              /\ \E Q \in SUBSET Node :
                    Cardinality(Q) >= quorum /\ \A p \in Q : r.prs[p].match >= n

\* RaftLog::maybe_commit within the log
LEMMA LogMaybeCommitFacts ==
    ASSUME NEW l \in LogType, ~l.fatal, NEW n \in Nat, n <= Len(l.ents), NEW t \in Nat, 0 < t
    PROVE  LET q == log_maybe_commit(l, n, t)
           IN  /\ q \in LogType /\ q.ents = l.ents /\ ~q.fatal /\ l.committed <= q.committed
               /\ \/ q.committed = l.committed
                  \/ q.committed = n /\ LastTerm(First(l.ents, n)) = t
<1> DEFINE q == log_maybe_commit(l, n, t)
<1>1. l.committed \in Nat /\ l.offset \in Nat /\ l.offset <= l.committed /\ Len(l.ents) \in Nat
  BY LogFields
<1>2. commit_to(l, n) \in LogType BY CommitToType
<1>3. CASE n > l.committed /\ match_term(l, n, t)
  <2>1. term(l, n) = LastTerm(First(l.ents, n))
    <3>1. l.offset <= n BY <1>1, <1>3
    <3> QED BY <3>1, LogTerms
  <2>2. commit_to(l, n) = [l EXCEPT !.committed = n]
    BY <1>1, <1>3 DEF commit_to, last_index
  <2>3. q = commit_to(l, n) BY <1>3 DEF log_maybe_commit
  <2>4. q.ents = l.ents /\ q.fatal = l.fatal /\ q.committed = n
    BY <2>2, <2>3, LogFields DEF LogRecord
  <2>5. LastTerm(First(l.ents, n)) = t BY <1>3, <2>1 DEF match_term
  <2>6. l.committed <= n BY <1>1, <1>3
  <2>7. q \in LogType BY <1>2, <2>3
  <2> HIDE DEF q
  <2>8. /\ q \in LogType /\ q.ents = l.ents /\ ~q.fatal /\ l.committed <= q.committed
        /\ \/ q.committed = l.committed
           \/ q.committed = n /\ LastTerm(First(l.ents, n)) = t
    BY <2>4, <2>5, <2>6, <2>7
  <2> QED BY <2>8 DEF q
<1>4. CASE ~(n > l.committed /\ match_term(l, n, t))
  <2>1. q = l BY <1>4 DEF log_maybe_commit
  <2> QED BY <1>1, <2>1
<1> QED BY <1>3, <1>4

\* Raft::maybe_commit
LEMMA MaybeCommitFacts ==
    ASSUME NEW r \in RaftType, Viewed(r), 0 < r.term, ~r.raft_log.fatal
    PROVE  Commits(r, maybe_commit(r))
<1> DEFINE s == maybe_commit(r)
           l == r.raft_log
<1>1. l \in LogType /\ r.prs \in [Node -> ProgressType] /\ r.term \in Nat BY RaftFields
<1>2. l.committed \in Nat BY <1>1, LogFields
<1>3. CASE QuorumMatch(r) = {}
  <2>1. s = r BY <1>3 DEF maybe_commit
  <2> HIDE DEF s
  <2>2. Commits(r, s) BY <1>2, <2>1 DEF Commits
  <2> QED BY <2>2 DEF s
<1>4. CASE QuorumMatch(r) # {}
  <2> DEFINE n == CHOOSE m \in QuorumMatch(r) : TRUE
             q == log_maybe_commit(l, n, r.term)
  <2>1. n \in QuorumMatch(r) BY <1>4
  <2>2. s = [r EXCEPT !.raft_log = q] BY <1>4 DEF maybe_commit
  <2> HIDE DEF n
  <2>3. PICK o \in Node : n = r.prs[o].match BY <2>1 DEF QuorumMatch
  <2>4. n \in Nat /\ n <= Len(l.ents)
    <3>1. r.prs[o] \in ProgressType BY <1>1
    <3> QED BY <2>3, <3>1 DEF ProgressType, Viewed, Fits
  <2> DEFINE Q == {p \in Node : r.prs[p].match >= n}
  <2>5. Q \in SUBSET Node /\ Cardinality(Q) >= quorum /\ \A p \in Q : r.prs[p].match >= n
    BY <2>1 DEF QuorumMatch
  <2> HIDE DEF Q
  <2>6. /\ q.ents = l.ents /\ ~q.fatal /\ l.committed <= q.committed
        /\ \/ q.committed = l.committed
           \/ q.committed = n /\ LastTerm(First(l.ents, n)) = r.term
    <3> HIDE DEF l
    <3>1. ~l.fatal BY DEF l
    <3> QED BY <1>1, <2>4, <3>1, LogMaybeCommitFacts
  <2> HIDE DEF q, s
  <2>7. s.raft_log = q /\ s.prs = r.prs /\ s.lead = r.lead /\ s.msgs = r.msgs
    BY <2>2 DEF RaftType
  <2>8. Commits(r, s) BY <2>5, <2>6, <2>7 DEF Commits
  <2> QED BY <2>8 DEF s
<1> QED BY <1>3, <1>4

\* s is r after it has appended an entry of its own, and committed what it may.
Appends(r, s) ==
    LET n == s.raft_log.committed
    IN  /\ Quiet(r, s) /\ s.lead = r.lead /\ s.msgs = r.msgs
        /\ Longer(r.raft_log.ents, s.raft_log.ents, r.term) /\ ~s.raft_log.fatal
        /\ r.raft_log.committed <= n
        /\ \A p \in Node : /\ Fits(s.prs[p], Len(s.raft_log.ents))
                           /\ p # r.id => s.prs[p].match = r.prs[p].match
        /\ \/ n = r.raft_log.committed
           \/ /\ LastTerm(First(s.raft_log.ents, n)) = r.term
              /\ \E Q \in SUBSET Node :
                    Cardinality(Q) >= quorum /\ \A p \in Q : s.prs[p].match >= n

\* RaftLog::append at the end of the log
LEMMA AppendEnd ==
    ASSUME NEW l \in LogType, NEW e \in Entry
    PROVE  LET q == append(l, Len(l.ents), <<e>>)
           IN  /\ q.ents = Append(l.ents, e) /\ q.fatal = l.fatal /\ q.committed = l.committed
               /\ Len(q.ents) = Len(l.ents) + 1
<1> DEFINE n == Len(l.ents)
           new == SubSeq(l.ents, 1, n) \o <<e>>
           q == append(l, n, <<e>>)
<1>1. l.ents \in Seq(Entry) /\ n \in Nat /\ l.committed \in Nat /\ l.committed <= n
  BY LogFields
<1>2. <<e>> # <<>> /\ ~(n < l.committed \/ n > last_index(l)) BY <1>1 DEF last_index
<1>3. SubSeq(l.ents, 1, n) = l.ents BY <1>1
<1>4. new = Append(l.ents, e)
  <2>1. l.ents \o <<e>> = Append(l.ents, e) BY <1>1
  <2> QED BY <1>3, <2>1
<1>5. q = [l EXCEPT !.ents = new, !.wal = new] BY <1>2 DEF append
<1>6. Len(Append(l.ents, e)) = n + 1 BY <1>1
<1> HIDE DEF new, q
<1>7. q.ents = new /\ q.fatal = l.fatal /\ q.committed = l.committed
  BY <1>5, LogFields DEF LogRecord
<1>8. q.ents = Append(l.ents, e) /\ Len(q.ents) = n + 1 BY <1>4, <1>6, <1>7
<1> QED BY <1>7, <1>8 DEF q

\* Raft::append_entry
LEMMA AppendEntryAppends ==
    ASSUME NEW r \in RaftType, Viewed(r), 0 < r.term, ~r.raft_log.fatal,
           NEW data \in Value \cup {Conf, Empty}
    PROVE  Appends(r, append_entry(r, data))
<1> DEFINE e   == [term |-> r.term, data |-> data]
           l   == r.raft_log
           n   == Len(l.ents)
           q   == append(l, n, <<e>>)
           old == r.prs[r.id]
           up  == maybe_update(old, n + 1)
           prs == [r.prs EXCEPT ![r.id] = up]
           u   == r.uncommitted_size + PayloadSize(e)
           r1  == [r EXCEPT !.raft_log = q, !.prs = prs, !.uncommitted_size = u]
           s   == append_entry(r, data)
<1>1. /\ l \in LogType /\ r.prs \in [Node -> ProgressType] /\ r.term \in Nat /\ r.id \in Node
      /\ r.uncommitted_size \in Nat
  BY RaftFields
<1>2. e \in Entry BY <1>1 DEF Entry
<1>3. n \in Nat /\ l.ents \in Seq(Entry) /\ l.committed \in Nat BY <1>1, LogFields
<1>4. q \in LogType
  <2>1. <<e>> \in Seq(Entry) BY <1>2
  <2> HIDE DEF l, n, e
  <2> QED BY <1>1, <1>3, <2>1, AppendType
<1>5. /\ q.ents = Append(l.ents, e) /\ q.fatal = l.fatal /\ q.committed = l.committed
      /\ Len(q.ents) = n + 1
  <2> HIDE DEF l, e
  <2> QED BY <1>1, <1>2, AppendEnd
<1>6. old \in ProgressType /\ up \in ProgressType
  <2>1. old \in ProgressType BY <1>1
  <2>2. n + 1 \in Nat BY <1>3
  <2> HIDE DEF old, n
  <2> QED BY <2>1, <2>2, MaybeUpdateType
<1>7. prs \in [Node -> ProgressType] BY <1>1, <1>6
<1>8. u \in Nat BY <1>1 DEF PayloadSize
<1>9. Fits(up, n + 1)
  <2>1. Fits(old, n) BY <1>1 DEF Viewed
  <2>2. /\ up.match = IF old.match < n + 1 THEN n + 1 ELSE old.match
        /\ up.next = IF old.next < n + 1 + 1 THEN n + 1 + 1 ELSE old.next
        /\ up.pending_snapshot = old.pending_snapshot
    BY <1>6 DEF maybe_update, ProgressType
  <2>3. old.match \in Nat /\ old.next \in Nat /\ old.pending_snapshot \in Nat
    BY <1>6 DEF ProgressType
  <2> HIDE DEF old, up, n
  <2> QED BY <1>3, <2>1, <2>2, <2>3 DEF Fits
<1>10. s = maybe_commit(r1)
  <2>1. last_index(l) + 1 - 1 = n /\ last_index(l) + 1 = n + 1 BY <1>3 DEF last_index
  <2>2. r1 = [r EXCEPT !.raft_log = append(@, n, <<e>>), !.prs[r.id] = maybe_update(@, n + 1),
                       !.uncommitted_size = @ + PayloadSize(e)]
    BY DEF RaftType
  <2> DEFINE li == last_index(l) + 1
             r2 == [r EXCEPT !.raft_log = append(@, li - 1, <<e>>), !.prs[r.id] = maybe_update(@, li),
                             !.uncommitted_size = @ + PayloadSize(e)]
  <2>3. s = maybe_commit(r2) BY DEF append_entry
  <2>4. r2 = r1
    <3> HIDE DEF li, e, r1
    <3>1. li - 1 = n /\ li = n + 1 BY <2>1 DEF li
    <3> QED BY <2>2, <3>1
  <2> HIDE DEF r1, r2
  <2> QED BY <2>3, <2>4
<1>11. Quiet(r, r1)
  <2> HIDE DEF prs, q, u
  <2> QED BY <1>4, <1>7, <1>8, QuietEntry
<1>12. /\ r1.raft_log = q /\ r1.prs = prs /\ r1.lead = r.lead /\ r1.msgs = r.msgs
       /\ r1.term = r.term /\ r1.id = r.id
  <2> HIDE DEF prs, q, u
  <2> QED BY DEF RaftType
<1>13. r1 \in RaftType BY <1>11 DEF Quiet
<1>14. \A p \in Node : Fits(prs[p], n + 1) /\ (p # r.id => prs[p].match = r.prs[p].match)
  <2> TAKE p \in Node
  <2>1. CASE p = r.id
    <3>1. prs[p] = up BY <1>1, <2>1
    <3> QED BY <1>9, <2>1, <3>1
  <2>2. CASE p # r.id
    <3>1. prs[p] = r.prs[p] BY <1>1, <2>2
    <3>2. Fits(r.prs[p], n) BY DEF Viewed
    <3>3. r.prs[p] \in ProgressType BY <1>1
    <3>4. Fits(r.prs[p], n + 1) BY <1>3, <3>2, <3>3, SMTT(30) DEF Fits, ProgressType
    <3> QED BY <3>1, <3>4
  <2> QED BY <2>1, <2>2
<1>15. Viewed(r1)
  <2> HIDE DEF prs, q, r1, n
  <2> QED BY <1>5, <1>12, <1>14 DEF Viewed
<1>16. Quiet(r, s)
  <2>1. Quiet(r1, s) BY <1>10, <1>13, MaybeCommitQuiet
  <2> HIDE DEF s, r1
  <2> QED BY <1>11, <2>1, QuietTrans
<1>17. Commits(r1, s)
  <2>1. ~r1.raft_log.fatal /\ 0 < r1.term BY <1>5, <1>12
  <2> HIDE DEF s, r1
  <2>2. Commits(r1, maybe_commit(r1)) BY <1>13, <1>15, <2>1, MaybeCommitFacts
  <2> QED BY <1>10, <2>2
<1>18. Longer(l.ents, Append(l.ents, e), r.term)
  <2>1. e.term = r.term OBVIOUS
  <2> HIDE DEF e
  <2> QED BY <1>2, <2>1 DEF Longer
<1> HIDE DEF s, r1, prs, q, u, up, old, e, n
<1>19. /\ s.prs = prs /\ s.lead = r.lead /\ s.msgs = r.msgs
       /\ s.raft_log.ents = Append(l.ents, e) /\ ~s.raft_log.fatal
       /\ Len(s.raft_log.ents) = n + 1
       /\ r.raft_log.committed <= s.raft_log.committed
       /\ \/ s.raft_log.committed = r.raft_log.committed
          \/ /\ LastTerm(First(s.raft_log.ents, s.raft_log.committed)) = r.term
             /\ \E Q \in SUBSET Node :
                   Cardinality(Q) >= quorum /\ \A p \in Q : s.prs[p].match >= s.raft_log.committed
  BY <1>5, <1>12, <1>17 DEF Commits
<1>20. Longer(r.raft_log.ents, s.raft_log.ents, r.term) BY <1>18, <1>19
<1>21. \A p \in Node : /\ Fits(s.prs[p], Len(s.raft_log.ents))
                       /\ p # r.id => s.prs[p].match = r.prs[p].match
  BY <1>14, <1>19
<1>22. Appends(r, s) BY <1>16, <1>19, <1>20, <1>21 DEF Appends
<1> QED BY <1>22 DEF s
-----------------------------------------------------------------------------
(* A leader's steps. *)

\* r becomes s, a leader that has heard of K, and sends what it may.
Onward(r, K, s) ==
    s \in RaftType /\ Leads(r, K, s) /\ \A x \in s.msgs : x \in r.msgs \/ LeaderSays(s, x)

\* A leader in order
Leading(r) ==
    /\ r \in RaftType /\ r.state = "Leader" /\ ~r.raft_log.fatal /\ Viewed(r) /\ 1 < r.term

\* Work goes on from what a leader has done.
LEMMA HeadWork ==
    ASSUME NEW r, NEW K, NEW s, Onward(r, K, s), NEW t, Work(s, t)
    PROVE  Onward(r, K, t)
<1>1. t \in RaftType /\ t.raft_log = s.raft_log /\ t.id = s.id /\ t.term = s.term
  BY DEF Work
<1>2. \A p \in Node : t.prs[p].match = s.prs[p].match BY DEF Work
<1>3. Leads(r, K, t) BY <1>1, <1>2 DEF Onward, Leads, Work
<1>4. ASSUME NEW x \in t.msgs, LeaderSays(s, x) PROVE LeaderSays(t, x)
  <2>1. x.to \in Node
    <3>1. x \in MessageType BY <1>1, RaftFields
    <3> QED BY <3>1 DEF MessageType
  <2>2. t.prs[x.to].match = s.prs[x.to].match BY <1>2, <2>1
  <2> QED BY <1>1, <1>4, <2>2 DEF LeaderSays
<1>5. \A x \in t.msgs : x \in s.msgs \/ LeaderSays(s, x) BY DEF Work
<1>6. \A x \in s.msgs : x \in r.msgs \/ LeaderSays(s, x) BY DEF Onward
<1>7. \A x \in t.msgs : x \in r.msgs \/ LeaderSays(t, x) BY <1>4, <1>5, <1>6
<1> QED BY <1>1, <1>3, <1>7 DEF Onward

\* A leader that does nothing leads on.
LEMMA HeadStart ==
    ASSUME NEW r, Leading(r), NEW K
    PROVE  Onward(r, K, r)
<1>1. r \in RaftType BY DEF Leading
<1>2. r.raft_log.committed \in Nat BY <1>1, RaftFields, LogFields
<1>3. Leads(r, K, r) BY <1>2 DEF Leading, Leads, Viewed
<1> QED BY <1>1, <1>3 DEF Onward

\* A leader at work leads on.
LEMMA WorkLeads ==
    ASSUME NEW r, Leading(r), NEW K, NEW s, Work(r, s)
    PROVE  Onward(r, K, s)
  BY HeadStart, HeadWork

\* Its followers stay in reach.
LEMMA HeadViewed ==
    ASSUME NEW r, NEW K, NEW s, Onward(r, K, s)
    PROVE  Viewed(s) /\ s \in RaftType /\ s.state = "Leader" /\ ~s.raft_log.fatal
  BY DEF Onward, Leads, Viewed

\* Work without messages may come first.
LEMMA WorkHead ==
    ASSUME NEW r, NEW a, Work(r, a), a.msgs = r.msgs, NEW K, NEW s, Onward(a, K, s)
    PROVE  Onward(r, K, s)
<1>1. /\ a.raft_log = r.raft_log /\ a.state = r.state /\ a.term = r.term /\ a.lead = r.lead
      /\ \A p \in Node : a.prs[p].match = r.prs[p].match
  BY DEF Work
<1>2. Leads(a, K, s) BY DEF Onward
<1>3. Leads(r, K, s) BY <1>1, <1>2 DEF Leads
<1> QED BY <1>3 DEF Onward

\* So does a leader that keeps in order.
LEMMA WorkLeading ==
    ASSUME NEW r, NEW s, Leading(r), Work(r, s)
    PROVE  Leading(s)
<1>1. Viewed(s) BY WorkViewed
<1> QED BY <1>1 DEF Leading, Work

\* Committing after hearing of an acknowledgement
LEMMA HeadCommit ==
    ASSUME NEW r, NEW K, NEW s, Onward(r, K, s), s.msgs = r.msgs, 1 < s.term,
           s.raft_log.committed = r.raft_log.committed
    PROVE  /\ Onward(r, K, maybe_commit(s)) /\ maybe_commit(s).prs = s.prs
           /\ maybe_commit(s).id = s.id
<1> DEFINE t == maybe_commit(s)
<1>1. Viewed(s) /\ s \in RaftType /\ s.state = "Leader" /\ ~s.raft_log.fatal BY HeadViewed
<1>2. 0 < s.term BY <1>1, RaftFields
<1>3. Commits(s, t) BY <1>1, <1>2, MaybeCommitFacts
<1>4. Quiet(s, t) BY <1>1, MaybeCommitQuiet
<1> HIDE DEF t
<1>5. t.id = s.id /\ t.term = s.term /\ t.state = s.state /\ t \in RaftType BY <1>4 DEF Quiet
<1>6. /\ t.prs = s.prs /\ t.lead = s.lead /\ t.msgs = r.msgs
      /\ t.raft_log.ents = s.raft_log.ents /\ ~t.raft_log.fatal
      /\ r.raft_log.committed <= t.raft_log.committed
      /\ \/ t.raft_log.committed = r.raft_log.committed
         \/ /\ LastTerm(First(t.raft_log.ents, t.raft_log.committed)) = t.term
            /\ \E Q \in SUBSET Node :
                  Cardinality(Q) >= quorum /\ \A p \in Q : t.prs[p].match >= t.raft_log.committed
  BY <1>3, <1>5 DEF Commits
<1>7. Leads(r, K, s) BY DEF Onward
<1>8. Leads(r, K, t) BY <1>5, <1>6, <1>7 DEF Leads
<1>9. Onward(r, K, t) BY <1>5, <1>6, <1>8 DEF Onward
<1> QED BY <1>5, <1>6, <1>9 DEF t

\* What a leader's own entry makes of it
LEMMA HeadAppend ==
    ASSUME NEW r, Leading(r), NEW K, NEW s, Appends(r, s)
    PROVE  Onward(r, K, s)
<1>1. /\ s \in RaftType /\ s.id = r.id /\ s.term = r.term /\ s.state = "Leader"
      /\ s.lead = r.lead /\ s.msgs = r.msgs
  BY DEF Appends, Quiet, Leading
<1>2. Leads(r, K, s) BY <1>1 DEF Leads, Appends, Leading
<1> QED BY <1>1, <1>2 DEF Onward

\* A leader's handling of MsgProp
LEMMA StepPropHead ==
    ASSUME NEW r, Leading(r), NEW m \in MessageType, m.entries # <<>>
    PROVE  Onward(r, {}, step_prop(r, m))
<1> DEFINE d == m.entries[1].data
           a == append_entry(r, d)
           s == step_prop(r, m)
           none == {}
<1>1. r \in RaftType /\ Viewed(r) /\ 0 < r.term /\ ~r.raft_log.fatal
  <2>1. r \in RaftType /\ 1 < r.term BY DEF Leading
  <2>2. r.term \in Nat BY <2>1, RaftFields
  <2> QED BY <2>1, <2>2 DEF Leading
<1>2. d \in Value \cup {Conf, Empty}
  <2>1. m.entries \in Seq(Entry) BY DEF MessageType
  <2>2. m.entries[1] \in Entry BY <2>1
  <2> QED BY <2>2 DEF Entry
<1>3. Onward(r, none, a)
  <2> HIDE DEF d, none
  <2>1. Appends(r, a) BY <1>1, <1>2, AppendEntryAppends
  <2> HIDE DEF a
  <2> QED BY <2>1, HeadAppend
<1>4. Onward(r, none, bcast_append(a))
  <2> HIDE DEF a, none
  <2>1. Viewed(a) /\ a \in RaftType BY <1>3, HeadViewed
  <2>2. Work(a, bcast_append(a)) BY <2>1, AppendsWork
  <2> QED BY <1>3, <2>2, HeadWork
<1>5. Onward(r, none, r)
  <2> HIDE DEF none
  <2> QED BY HeadStart
<1>6. s = r \/ s = bcast_append(a) BY DEF step_prop
<1> HIDE DEF a, s, none
<1>7. Onward(r, none, s) BY <1>3, <1>4, <1>5, <1>6
<1> QED BY <1>7 DEF s, none

\* A leader's handling of MsgHeartbeatResp
LEMMA StepHeartbeatRespHead ==
    ASSUME NEW r, Leading(r), NEW m \in MessageType, m.from # r.id
    PROVE  Onward(r, {}, step_heartbeat_resp(r, m))
<1> DEFINE pr == r.prs[m.from]
           fl == IF pr.state = "Replicate" /\ is_full(pr.inflights)
                 THEN free_first_one(pr.inflights) ELSE pr.inflights
           b  == [pr EXCEPT !.recent_active = TRUE, !.paused = FALSE, !.inflights = fl]
           a  == [r EXCEPT !.prs[m.from] = b]
           s  == step_heartbeat_resp(r, m)
           none == {}
<1>1. r \in RaftType /\ Viewed(r) /\ m.from \in Node BY DEF Leading, MessageType
<1>2. pr \in ProgressType BY <1>1, RaftFields
<1>3. fl \in Seq(Nat)
  <2>1. pr.inflights \in Seq(Nat) BY <1>2 DEF ProgressType
  <2>2. CASE pr.state = "Replicate" /\ is_full(pr.inflights)
    <3>1. Len(pr.inflights) >= 1
      BY <2>2, MaxInflightAssumption DEF is_full
    <3>2. pr.inflights[1] \in Nat BY <2>1, <3>1
    <3>3. free_first_one(pr.inflights) \in Seq(Nat)
      BY <2>1, <3>2, FreeToType DEF free_first_one
    <3> QED BY <2>2, <3>3
  <2> QED BY <2>1, <2>2
<1>4. b \in ProgressType /\ b.match = pr.match /\ b.next = pr.next
      /\ b.pending_snapshot = pr.pending_snapshot
  <2> HIDE DEF fl
  <2> QED BY <1>2, <1>3 DEF ProgressType
<1>5. Work(r, a)
  <2>1. Fits(b, Len(r.raft_log.ents))
    <3>1. Fits(pr, Len(r.raft_log.ents)) BY <1>1 DEF Viewed
    <3> HIDE DEF b, pr
    <3> QED BY <1>4, <3>1 DEF Fits
  <2>2. b.match = r.prs[m.from].match BY <1>4
  <2> HIDE DEF b
  <2> QED BY <1>1, <1>4, <2>1, <2>2, OneWork
<1>6. s = a \/ s = send_append(a, m.from)
  BY DEF step_heartbeat_resp
<1> HIDE DEF a, s, none
<1>7. Onward(r, none, a) BY <1>5, WorkLeads
<1>8. Onward(r, none, send_append(a, m.from))
  <2>1. Viewed(a) /\ a \in RaftType BY <1>7, HeadViewed
  <2>2. m.from # a.id BY <1>5 DEF Work
  <2>3. Work(a, send_append(a, m.from)) BY <1>1, <2>1, <2>2, AppendsWork
  <2> QED BY <1>7, <2>3, HeadWork
<1>9. Onward(r, none, s) BY <1>6, <1>7, <1>8
<1> QED BY <1>9 DEF s, none
\* A leader's handling of MsgTransferLeader
LEMMA StepTransferLeaderHead ==
    ASSUME NEW r, Leading(r), NEW m \in MessageType
    PROVE  Onward(r, {}, step_transfer_leader(r, m))
<1> DEFINE to == m.from
           s  == step_transfer_leader(r, m)
           n  == [r EXCEPT !.lead_transferee = Nil]
           t  == [r EXCEPT !.lead_transferee = to, !.past = FALSE]
           none == {}
<1>1. r \in RaftType /\ Viewed(r) /\ to \in Node BY DEF Leading, MessageType
<1>2. Work(r, n)
  <2>1. Quiet(r, n) BY <1>1, QuietTransfer
  <2>2. n.prs = r.prs /\ n.lead = r.lead /\ n.raft_log = r.raft_log /\ n.msgs = r.msgs
    BY <1>1 DEF RaftType
  <2> HIDE DEF n
  <2> QED BY <1>1, <2>1, <2>2, SayWork
<1>3. Work(r, t)
  <2>1. Quiet(r, t)
    <3> HIDE DEF to
    <3> QED BY <1>1, QuietTransfer
  <2>2. t.prs = r.prs /\ t.lead = r.lead /\ t.raft_log = r.raft_log /\ t.msgs = r.msgs
    BY <1>1 DEF RaftType
  <2> HIDE DEF t
  <2> QED BY <1>1, <2>1, <2>2, SayWork
<1>4. s = r \/ s = n \/ (to # r.id /\ (s = TimeoutNow(t, to) \/ s = send_append(t, to)))
  BY DEF step_transfer_leader
<1> HIDE DEF n, t, to, s, none
<1>5. ASSUME to # r.id
      PROVE  Work(r, TimeoutNow(t, to)) /\ Work(r, send_append(t, to))
  <2>1. Viewed(t) /\ t \in RaftType /\ to # t.id
    <3>1. Viewed(t) BY <1>3, WorkViewed
    <3> QED BY <1>3, <1>5, <3>1 DEF Work
  <2>2. Work(t, TimeoutNow(t, to)) BY <1>1, <2>1, TimeoutNowWork
  <2>3. Work(t, send_append(t, to)) BY <1>1, <2>1, AppendsWork
  <2> QED BY <1>3, <2>2, <2>3, WorkTrans
<1>6. Work(r, s)
  <2>1. Work(r, r) BY <1>1, WorkRefl
  <2> QED BY <1>2, <1>4, <1>5, <2>1
<1>7. Onward(r, none, s) BY <1>6, WorkLeads
<1> QED BY <1>7 DEF s, none

\* A leader's handling of a rejection
LEMMA RejectAppRespWork ==
    ASSUME NEW r, Leading(r), NEW m \in MessageType, m.from # r.id
    PROVE  Work(r, RejectAppResp(r, m))
<1> DEFINE to  == m.from
           old == r.prs[to]
           pr  == maybe_decreases_to(old, m.index, m.reject_hint)
           b   == IF pr.state = "Replicate" THEN become_probe(pr) ELSE pr
           a   == [r EXCEPT !.prs[to] = b]
           s   == RejectAppResp(r, m)
           n   == Len(r.raft_log.ents)
<1>1. r \in RaftType /\ Viewed(r) /\ to \in Node /\ m.index \in Nat /\ m.reject_hint \in Nat
  BY DEF Leading, MessageType
<1>2. old \in ProgressType /\ n \in Nat
  <2>1. r.raft_log \in LogType BY <1>1, RaftFields
  <2> QED BY <1>1, <2>1, RaftFields, LogFields
<1>3. pr \in ProgressType
  <2> HIDE DEF old
  <2> QED BY <1>1, <1>2, MaybeDecreasesType
<1>4. Fits(old, n) BY <1>1 DEF Viewed
<1>5. Fits(pr, n) /\ pr.match = old.match
  <2>1. /\ pr.match = old.match /\ pr.pending_snapshot = old.pending_snapshot
        /\ pr.next <= n + 1
    <3>1. CASE ~Rejects(old, m.index)
      <4>1. pr = old BY <3>1 DEF maybe_decreases_to
      <4> HIDE DEF old, pr
      <4> QED BY <1>4, <4>1 DEF Fits
    <3>2. CASE Rejects(old, m.index) /\ old.state = "Replicate"
      <4>1. pr = [old EXCEPT !.next = old.match + 1] BY <3>2 DEF maybe_decreases_to
      <4>2. old.match \in Nat /\ old.match <= n BY <1>2, <1>4 DEF Fits, ProgressType
      <4> HIDE DEF old, pr
      <4>3. pr.match = old.match /\ pr.pending_snapshot = old.pending_snapshot
            /\ pr.next = old.match + 1
        BY <1>2, <4>1 DEF ProgressType
      <4> QED BY <1>2, <4>2, <4>3
    <3>3. CASE Rejects(old, m.index) /\ old.state # "Replicate"
      <4> DEFINE k == IF m.index < m.reject_hint + 1 THEN m.index ELSE m.reject_hint + 1
                 j == IF k < 1 THEN 1 ELSE k
      <4>1. pr = [old EXCEPT !.next = j, !.paused = FALSE] BY <3>3 DEF maybe_decreases_to
      <4>2. old.next - 1 = m.index BY <3>3 DEF Rejects
      <4>3. old.next \in Nat \ {0} /\ old.next <= n + 1 BY <1>2, <1>4 DEF Fits, ProgressType
      <4>4. j <= n + 1
        <5> HIDE DEF old, n
        <5> QED BY <1>1, <1>2, <4>2, <4>3
      <4> HIDE DEF old, pr, j
      <4>5. pr.match = old.match /\ pr.pending_snapshot = old.pending_snapshot /\ pr.next = j
        BY <1>2, <4>1 DEF ProgressType
      <4> QED BY <4>4, <4>5
    <3> QED BY <3>1, <3>2, <3>3
  <2> HIDE DEF pr, old, n
  <2> QED BY <1>4, <2>1 DEF Fits
<1>6. b \in ProgressType
  <2> HIDE DEF pr
  <2> QED BY <1>3, BecomeProbeType
<1>7. Fits(b, n) /\ b.match = old.match
  <2>1. CASE pr.state = "Replicate"
    <3> HIDE DEF pr, old, n
    <3>1. b = become_probe(pr) BY <2>1
    <3>2. b.match = pr.match /\ b.pending_snapshot = 0 /\ b.next = pr.match + 1
      BY <1>3, <2>1, <3>1 DEF become_probe, reset_state, ProgressType
    <3>3. pr.match \in Nat BY <1>3 DEF ProgressType
    <3> HIDE DEF b
    <3> QED BY <1>2, <1>5, <3>2, <3>3 DEF Fits
  <2>2. CASE pr.state # "Replicate"
    <3> HIDE DEF pr, old, n
    <3> QED BY <1>5, <2>2
  <2> QED BY <2>1, <2>2
<1>8. s = send_append(a, to) BY DEF RejectAppResp
<1>9. Work(r, a)
  <2> HIDE DEF b
  <2>1. Fits(b, Len(r.raft_log.ents)) /\ b.match = r.prs[to].match BY <1>7
  <2> HIDE DEF to
  <2> QED BY <1>1, <1>6, <2>1, OneWork
<1> HIDE DEF a, s
<1>10. Work(r, s)
  <2>1. Viewed(a) /\ a \in RaftType /\ to # a.id
    <3>1. Viewed(a) BY <1>9, WorkViewed
    <3> QED BY <1>9, <3>1 DEF Work
  <2> HIDE DEF to
  <2>2. Work(a, send_append(a, to)) BY <1>1, <2>1, AppendsWork
  <2> QED BY <1>8, <1>9, <2>2, WorkTrans
<1> QED BY <1>10 DEF s

\* What an acknowledgement with news makes of a follower's Progress
Accepted(old, n) ==
    LET up == maybe_update(old, n)
    IN  CASE up.state = "Probe" -> become_replicate(up)
          [] up.state = "Snapshot" -> IF need_snapshot_abort(up) THEN become_probe(up) ELSE up
          [] OTHER -> [up EXCEPT !.inflights = free_to(@, n)]

\* The follower matches the acknowledged index, and stays in reach.
LEMMA AcceptFits ==
    ASSUME NEW old \in ProgressType, NEW n \in Nat, NEW li \in Nat, n <= li, Fits(old, li),
           Updates(old, n)
    PROVE  LET pr == Accepted(old, n) IN pr \in ProgressType /\ Fits(pr, li) /\ pr.match = n
<1> DEFINE up == maybe_update(old, n)
           pr == Accepted(old, n)
<1>1. up \in ProgressType BY MaybeUpdateType
<1>2. /\ up.match = n /\ up.pending_snapshot = old.pending_snapshot
      /\ up.next = IF old.next < n + 1 THEN n + 1 ELSE old.next
  BY <1>1 DEF maybe_update, ProgressType, Updates
<1>3. Fits(up, li)
  <2>1. old.next \in Nat /\ old.next <= li + 1 /\ old.pending_snapshot <= li
    BY DEF ProgressType, Fits
  <2> HIDE DEF up
  <2> QED BY <1>2, <2>1 DEF Fits
<1>4. pr = CASE up.state = "Probe" -> become_replicate(up)
             [] up.state = "Snapshot" ->
                  IF need_snapshot_abort(up) THEN become_probe(up) ELSE up
             [] OTHER -> [up EXCEPT !.inflights = free_to(@, n)]
  BY DEF Accepted
<1> HIDE DEF up, pr
<1>5. ASSUME up.state = "Probe" PROVE pr \in ProgressType /\ Fits(pr, li) /\ pr.match = n
  <2>1. pr = become_replicate(up) BY <1>4, <1>5
  <2>2. pr.match = n /\ pr.next = n + 1 /\ pr.pending_snapshot = 0
    BY <1>1, <1>2, <2>1 DEF become_replicate, reset_state, ProgressType
  <2>3. pr \in ProgressType BY <1>1, <2>1, BecomeReplicateType
  <2> QED BY <2>2, <2>3 DEF Fits
<1>6. ASSUME up.state = "Snapshot" /\ need_snapshot_abort(up)
      PROVE  pr \in ProgressType /\ Fits(pr, li) /\ pr.match = n
  <2>1. pr = become_probe(up) BY <1>4, <1>6
  <2>2. /\ pr.match = n /\ pr.pending_snapshot = 0
        /\ pr.next = IF up.state = "Snapshot" /\ up.pending_snapshot > up.match
                     THEN up.pending_snapshot + 1 ELSE up.match + 1
    BY <1>1, <1>2, <2>1 DEF become_probe, reset_state, ProgressType
  <2>3. pr \in ProgressType BY <1>1, <2>1, BecomeProbeType
  <2>4. up.pending_snapshot \in Nat /\ up.pending_snapshot <= li BY <1>1, <1>3 DEF ProgressType, Fits
  <2>5. pr.next <= li + 1 BY <1>2, <2>2, <2>4
  <2> QED BY <2>2, <2>3, <2>5 DEF Fits
<1>7. ASSUME up.state = "Snapshot" /\ ~need_snapshot_abort(up)
      PROVE  pr \in ProgressType /\ Fits(pr, li) /\ pr.match = n
  <2>1. pr = up BY <1>4, <1>7
  <2> QED BY <1>1, <1>2, <1>3, <2>1
<1>8. ASSUME up.state \notin {"Probe", "Snapshot"}
      PROVE  pr \in ProgressType /\ Fits(pr, li) /\ pr.match = n
  <2> DEFINE fl == free_to(up.inflights, n)
  <2>1. pr = [up EXCEPT !.inflights = fl] BY <1>4, <1>8
  <2>2. fl \in Seq(Nat)
    <3>1. up.inflights \in Seq(Nat) BY <1>1 DEF ProgressType
    <3> QED BY <3>1, FreeToType
  <2> HIDE DEF fl
  <2>3. pr \in ProgressType /\ pr.match = up.match /\ pr.next = up.next
        /\ pr.pending_snapshot = up.pending_snapshot
    BY <1>1, <2>1, <2>2 DEF ProgressType
  <2> QED BY <1>2, <1>3, <2>3 DEF Fits
<1>9. pr \in ProgressType /\ Fits(pr, li) /\ pr.match = n BY <1>5, <1>6, <1>7, <1>8
<1> QED BY <1>9 DEF pr
\* A leader's handling of an acknowledgement of entries that it has
LEMMA AcceptAppRespHead ==
    ASSUME NEW r, Leading(r), NEW m \in MessageType, m.from # r.id,
           m.index <= Len(r.raft_log.ents), Updates(r.prs[m.from], m.index)
    PROVE  Onward(r, {<<m.from, m.index>>}, AcceptAppResp(r, m))
<1> DEFINE to  == m.from
           old == r.prs[to]
           up  == maybe_update(old, m.index)
           pr  == CASE up.state = "Probe" -> become_replicate(up)
                    [] up.state = "Snapshot" ->
                         IF need_snapshot_abort(up) THEN become_probe(up) ELSE up
                    [] OTHER -> [up EXCEPT !.inflights = free_to(@, m.index)]
           r1  == [r EXCEPT !.prs[to] = pr]
           r2  == maybe_commit(r1)
           r3  == IF r2.raft_log.committed # r.raft_log.committed THEN bcast_append(r2)
                  ELSE IF is_paused(old) THEN send_append(r2, to) ELSE r2
           r4  == DrainAppends(r3, to)
           K   == {<<to, m.index>>}
           s   == AcceptAppResp(r, m)
           n   == Len(r.raft_log.ents)
<1>1. /\ r \in RaftType /\ Viewed(r) /\ to \in Node /\ m.index \in Nat
      /\ r.state = "Leader" /\ ~r.raft_log.fatal /\ 1 < r.term
  BY DEF Leading, MessageType
<1>2. old \in ProgressType /\ n \in Nat /\ r.prs \in [Node -> ProgressType]
      /\ r.raft_log.committed \in Nat
  <2>1. r.raft_log \in LogType BY <1>1, RaftFields
  <2> QED BY <1>1, <2>1, RaftFields, LogFields
<1>3. pr \in ProgressType /\ Fits(pr, n) /\ pr.match = m.index
  <2>1. Fits(old, n) BY <1>1 DEF Viewed
  <2>2. m.index <= n /\ Updates(old, m.index) OBVIOUS
  <2>3. pr = Accepted(old, m.index) BY DEF Accepted
  <2> HIDE DEF old, n, up, pr
  <2> QED BY <1>1, <1>2, <2>1, <2>2, <2>3, AcceptFits
<1>4. s = TimeoutNow(r4, to) BY DEF AcceptAppResp
<1> HIDE DEF pr
<1>5. /\ r1 \in RaftType /\ r1.id = r.id /\ r1.term = r.term /\ r1.state = r.state
      /\ Quiet(r, r1)
  <2>1. Quiet(r, r1)
    <3> HIDE DEF to
    <3> QED BY <1>1, <1>3, OnePrs
  <2> HIDE DEF r1
  <2> QED BY <2>1 DEF Quiet
<1>6. /\ r1.raft_log = r.raft_log /\ r1.msgs = r.msgs /\ r1.lead = r.lead
      /\ r1.prs = [r.prs EXCEPT ![to] = pr]
  BY <1>1 DEF RaftType
<1>7. \A p \in Node : /\ Fits(r1.prs[p], n)
                      /\ r1.prs[p].match = r.prs[p].match \/ <<p, r1.prs[p].match>> \in K
  <2> TAKE p \in Node
  <2> HIDE DEF r1
  <2>1. CASE p = to
    <3>1. r1.prs[p] = pr BY <1>1, <1>2, <1>6, <2>1
    <3> QED BY <1>3, <2>1, <3>1
  <2>2. CASE p # to
    <3>1. r1.prs[p] = r.prs[p] BY <1>2, <1>6, <2>2
    <3>2. Fits(r.prs[p], n) BY <1>1 DEF Viewed
    <3> QED BY <3>1, <3>2
  <2> QED BY <2>1, <2>2
<1> HIDE DEF r1, K, old
<1>8. Onward(r, K, r1)
  <2>1. Leads(r, K, r1)
    <3>1. r.raft_log.committed <= r1.raft_log.committed BY <1>2, <1>6
    <3>2. \A p \in Node : Fits(r1.prs[p], Len(r1.raft_log.ents)) BY <1>6, <1>7
    <3> HIDE DEF n, to
    <3> QED BY <1>1, <1>5, <1>6, <1>7, <3>1, <3>2 DEF Leads
  <2> QED BY <1>5, <1>6, <2>1 DEF Onward
<1>9. Onward(r, K, r2) /\ r2.id = r.id
  <2>1. r1.msgs = r.msgs /\ 1 < r1.term /\ r1.raft_log.committed = r.raft_log.committed
    BY <1>1, <1>5, <1>6
  <2> QED BY <1>5, <1>8, <2>1, HeadCommit
<1> HIDE DEF r2
<1>10. ASSUME NEW q, Onward(r, K, q), q.id = r.id, NEW t, Work(q, t)
       PROVE  Onward(r, K, t) /\ t.id = r.id /\ t \in RaftType /\ Viewed(t)
  <2>1. Onward(r, K, t) BY <1>10, HeadWork
  <2>2. t.id = r.id BY <1>10 DEF Work
  <2> QED BY <2>1, <2>2, HeadViewed
<1>11. r2 \in RaftType /\ Viewed(r2) BY <1>9, HeadViewed
<1> HIDE DEF n, to
<1>12. Work(r2, r3)
  <2>1. Work(r2, r2) BY <1>11, WorkRefl
  <2>2. Work(r2, bcast_append(r2)) BY <1>11, AppendsWork
  <2>3. Work(r2, send_append(r2, to))
    <3>1. to # r2.id BY <1>9 DEF to
    <3> QED BY <1>1, <1>11, <3>1, AppendsWork
  <2> QED BY <2>1, <2>2, <2>3
<1> HIDE DEF r3
<1>13. Onward(r, K, r3) /\ r3.id = r.id /\ r3 \in RaftType /\ Viewed(r3) BY <1>9, <1>10, <1>12
<1>14. to # r.id BY DEF to
<1>15. Work(r3, r4) BY <1>1, <1>13, <1>14, DrainAppendsWork
<1> HIDE DEF r4
<1>16. Onward(r, K, r4) /\ r4.id = r.id /\ r4 \in RaftType /\ Viewed(r4) BY <1>10, <1>13, <1>15
<1>17. Work(r4, TimeoutNow(r4, to)) BY <1>1, <1>14, <1>16, TimeoutNowWork
<1>18. Onward(r, K, TimeoutNow(r4, to)) BY <1>10, <1>16, <1>17
<1> HIDE DEF s
<1>19. Onward(r, K, s) BY <1>4, <1>18
<1> QED BY <1>19 DEF s, K, to

\* A leader's handling of MsgAppResp
LEMMA StepAppRespHead ==
    ASSUME NEW r, Leading(r), NEW m \in MessageType, m.from # r.id,
           ~m.reject => m.index <= Len(r.raft_log.ents)
    PROVE  Onward(r, IF m.reject THEN {} ELSE {<<m.from, m.index>>}, step_app_resp(r, m))
<1> DEFINE to  == m.from
           old == r.prs[to]
           b   == [old EXCEPT !.recent_active = TRUE]
           a   == [r EXCEPT !.prs[to].recent_active = TRUE]
           c   == maybe_update(b, m.index)
           d   == [a EXCEPT !.prs[to] = maybe_update(@, m.index)]
           K   == IF m.reject THEN {} ELSE {<<to, m.index>>}
           s   == step_app_resp(r, m)
           n   == Len(r.raft_log.ents)
<1>1. r \in RaftType /\ Viewed(r) /\ to \in Node /\ m.index \in Nat BY DEF Leading, MessageType
<1>2. old \in ProgressType /\ n \in Nat
  <2>1. r.raft_log \in LogType BY <1>1, RaftFields
  <2> QED BY <1>1, <2>1, RaftFields, LogFields
<1>3. b \in ProgressType /\ b.match = old.match /\ b.next = old.next
      /\ b.pending_snapshot = old.pending_snapshot
  <2> HIDE DEF old
  <2> QED BY <1>2 DEF ProgressType
<1>4. Fits(old, n) BY <1>1 DEF Viewed
<1>5. Work(r, a) /\ a.msgs = r.msgs /\ a.raft_log = r.raft_log /\ a.prs[to] = b
  <2>1. a = [r EXCEPT !.prs[to] = b] BY <1>1 DEF RaftType
  <2>2. Fits(b, n)
    <3> HIDE DEF b, old
    <3> QED BY <1>3, <1>4 DEF Fits
  <2> HIDE DEF b, a
  <2>3. Fits(b, Len(r.raft_log.ents)) /\ b.match = r.prs[m.from].match BY <1>3, <2>2
  <2>4. Work(r, [r EXCEPT !.prs[m.from] = b]) BY <1>1, <1>3, <2>3, OneWork
  <2>5. a.msgs = r.msgs /\ a.raft_log = r.raft_log /\ a.prs[to] = b
    BY <1>1, <1>3, <2>1 DEF RaftType
  <2> QED BY <2>1, <2>4, <2>5
<1>6. Leading(a) /\ a.id = r.id
  <2> HIDE DEF a
  <2>1. Leading(a) BY <1>5, WorkLeading
  <2> QED BY <1>5, <2>1 DEF Work
<1>7. /\ s = RejectAppResp(a, m)
         \/ (~m.reject /\ Updates(old, m.index) /\ s = AcceptAppResp(a, m))
         \/ (~m.reject /\ ~Updates(old, m.index) /\ s = d) \/ s = a
  BY DEF step_app_resp
<1>8. ASSUME ~m.reject, ~Updates(old, m.index) PROVE Work(a, d)
  <2>1. d = [a EXCEPT !.prs[to] = c]
    <3> HIDE DEF a
    <3>1. a.prs[to] = b BY <1>5
    <3>2. a \in RaftType BY <1>6 DEF Leading
    <3> QED BY <1>1, <3>1, <3>2 DEF RaftType
  <2>2. c \in ProgressType
    <3> HIDE DEF b
    <3> QED BY <1>1, <1>3, MaybeUpdateType
  <2>3. c.match = b.match /\ c.pending_snapshot = b.pending_snapshot
        /\ c.next = IF b.next < m.index + 1 THEN m.index + 1 ELSE b.next
    <3>1. ~(b.match < m.index) BY <1>3, <1>8 DEF Updates
    <3> HIDE DEF b
    <3> QED BY <1>3, <3>1 DEF maybe_update, ProgressType
  <2>4. m.index <= n BY <1>8
  <2>5. Fits(c, n)
    <3> HIDE DEF b, c, old, n
    <3>1. b.next \in Nat BY <1>3 DEF ProgressType
    <3> QED BY <1>1, <1>2, <1>3, <1>4, <2>3, <2>4, <3>1 DEF Fits
  <2> HIDE DEF a, b, c, d
  <2>6. Fits(c, Len(a.raft_log.ents)) /\ c.match = a.prs[m.from].match BY <1>5, <2>3, <2>5
  <2>7. a \in RaftType /\ Viewed(a) BY <1>6 DEF Leading
  <2>8. Work(a, [a EXCEPT !.prs[m.from] = c]) BY <1>1, <2>2, <2>6, <2>7, OneWork
  <2> QED BY <2>1, <2>8
<1>9. ASSUME ~m.reject, Updates(old, m.index) PROVE Onward(a, K, AcceptAppResp(a, m))
  <2>1. m.index <= Len(a.raft_log.ents) /\ m.from # a.id BY <1>5, <1>6, <1>9
  <2>2. Updates(a.prs[m.from], m.index) BY <1>3, <1>5, <1>9 DEF Updates
  <2> HIDE DEF a
  <2>3. Onward(a, {<<m.from, m.index>>}, AcceptAppResp(a, m))
    BY <1>6, <2>1, <2>2, AcceptAppRespHead
  <2> QED BY <1>9, <2>3
<1>10. Work(a, RejectAppResp(a, m))
  <2>1. m.from # a.id BY <1>6
  <2> HIDE DEF a
  <2> QED BY <1>6, <2>1, RejectAppRespWork
<1> HIDE DEF a, d, K, s
<1>11. Onward(a, K, a) BY <1>6, HeadStart
<1>12. Onward(a, K, RejectAppResp(a, m)) BY <1>6, <1>10, WorkLeads
<1>13. ASSUME ~m.reject, ~Updates(old, m.index) PROVE Onward(a, K, d)
  BY <1>6, <1>8, <1>13, WorkLeads
<1> HIDE DEF old
<1>14. Onward(a, K, s) BY <1>7, <1>9, <1>11, <1>12, <1>13
<1>15. Onward(r, K, s) BY <1>5, <1>14, WorkHead
<1> QED BY <1>15 DEF s, K

\* A leader's handling of a message of its term
LEMMA StepLeaderHead ==
    ASSUME NEW r, Leading(r), NEW m \in MessageType,
           m.type \in {"MsgAppResp", "MsgHeartbeatResp"} => m.from # r.id,
           m.type = "MsgAppResp" /\ ~m.reject => m.index <= Len(r.raft_log.ents),
           m.type = "MsgProp" => m.entries # <<>>
    PROVE  \E K : /\ Onward(r, K, step_leader(r, m))
                  /\ K = {} \/ (/\ m.type = "MsgAppResp" /\ ~m.reject
                                /\ K = {<<m.from, m.index>>})
<1> DEFINE s == step_leader(r, m)
           Good(K) == K = {} \/ (/\ m.type = "MsgAppResp" /\ ~m.reject
                                 /\ K = {<<m.from, m.index>>})
           none == {}
<1>1. CASE m.type = "MsgProp"
  <2>1. s = step_prop(r, m) BY <1>1 DEF step_leader
  <2>2. Onward(r, {}, step_prop(r, m)) BY <1>1, StepPropHead
  <2> QED BY <2>1, <2>2
<1>2. CASE m.type = "MsgAppResp"
  <2> DEFINE K == IF m.reject THEN {} ELSE {<<m.from, m.index>>}
  <2>1. s = step_app_resp(r, m) BY <1>2 DEF step_leader
  <2>2. Onward(r, K, step_app_resp(r, m)) BY <1>2, StepAppRespHead
  <2>3. Good(K) BY <1>2
  <2> QED BY <2>1, <2>2, <2>3
<1>3. CASE m.type = "MsgHeartbeatResp"
  <2>1. s = step_heartbeat_resp(r, m) BY <1>3 DEF step_leader
  <2>2. Onward(r, {}, step_heartbeat_resp(r, m)) BY <1>3, StepHeartbeatRespHead
  <2> QED BY <2>1, <2>2
<1>4. CASE m.type = "MsgTransferLeader"
  <2>1. s = step_transfer_leader(r, m) BY <1>4 DEF step_leader
  <2>2. Onward(r, {}, step_transfer_leader(r, m)) BY StepTransferLeaderHead
  <2> QED BY <2>1, <2>2
<1>5. CASE m.type \notin {"MsgProp", "MsgAppResp", "MsgHeartbeatResp", "MsgTransferLeader"}
  <2>1. s = r BY <1>5 DEF step_leader
  <2>2. Onward(r, {}, r) BY HeadStart
  <2> QED BY <2>1, <2>2
<1> QED BY <1>1, <1>2, <1>3, <1>4, <1>5
-----------------------------------------------------------------------------
(* Elections. *)

\* Node i, between events, is up.
Up(N, i) ==
    N[i] \in RaftType /\ N[i].id = i /\ 0 < N[i].term /\ ~N[i].raft_log.fatal /\ N[i].msgs = {}

\* Raft::poll leaves everything but the votes.
LEMMA PollLeaves ==
    ASSUME NEW r \in RaftType, NEW v \in Node, NEW b \in BOOLEAN
    PROVE  LET p == poll(r, v, b) IN p.raft_log = r.raft_log /\ p.lead = r.lead
<1>1. poll(r, v, b) \in {r, [r EXCEPT !.granted = @ \cup {v}], [r EXCEPT !.refused = @ \cup {v}]}
  BY DEF poll
<1> QED BY <1>1 DEF RaftType

\* Whoever becomes leader leads with an entry of its term.
LEMMA BecomeLeaderLeads ==
    ASSUME NEW r \in RaftType, 0 < r.term, ~r.raft_log.fatal, NEW o, NEW K,
           o.raft_log.ents = r.raft_log.ents, o.raft_log.committed = r.raft_log.committed
    PROVE  LET s == become_leader(r)
           IN  /\ Leads(o, K, s) /\ s \in RaftType /\ s.id = r.id /\ s.term = r.term
               /\ s.vote = r.vote /\ s.state = "Leader" /\ s.msgs = r.msgs /\ Viewed(s)
<1> DEFINE li  == Len(r.raft_log.ents)
           own == become_replicate(NewProgress(li, li + 1))
           far == NewProgress(0, li + 1)
           prs == [p \in Node |-> IF p = r.id THEN own ELSE far]
           z   == reset(r, r.term)
           c   == [z EXCEPT !.lead = r.id, !.state = "Leader", !.prs = prs]
           s   == become_leader(r)
<1>1. r.raft_log \in LogType /\ r.id \in Node /\ r.term \in Nat BY RaftFields
<1>2. li \in Nat /\ r.raft_log.committed \in Nat BY <1>1, LogFields
<1>3. own \in ProgressType /\ far \in ProgressType
  <2>1. li + 1 \in Nat \ {0} BY <1>2
  <2> HIDE DEF li
  <2> QED BY <1>2, <2>1, NewProgressType, BecomeReplicateType
<1>4. Fits(own, li) /\ Fits(far, li) /\ far.match = 0
  <2>1. own.match = li /\ own.next = li + 1 /\ own.pending_snapshot = 0
    BY DEF become_replicate, reset_state, NewProgress
  <2>2. far.match = 0 /\ far.next = li + 1 /\ far.pending_snapshot = 0 BY DEF NewProgress
  <2> HIDE DEF li, own, far
  <2> QED BY <1>2, <2>1, <2>2 DEF Fits
<1>5. /\ z \in RaftType /\ z.id = r.id /\ z.term = r.term /\ z.vote = r.vote
      /\ z.msgs = r.msgs /\ z.raft_log = r.raft_log
  BY <1>1, ResetFacts
<1>6. s = append_entry(c, Empty) BY DEF become_leader, last_index
<1> HIDE DEF own, far, z, s
<1>7. prs \in [Node -> ProgressType] BY <1>3
<1>8. \A p \in Node : Fits(prs[p], li) /\ (p # r.id => prs[p].match = 0) BY <1>4
<1> HIDE DEF prs
<1>9. /\ c \in RaftType /\ c.id = r.id /\ c.term = r.term /\ c.vote = r.vote
      /\ c.msgs = r.msgs /\ c.raft_log = r.raft_log /\ c.lead = r.id /\ c.state = "Leader"
      /\ c.prs = prs
  BY <1>1, <1>5, <1>7 DEF RaftType, StateType
<1> HIDE DEF c
<1>10. Viewed(c) BY <1>8, <1>9 DEF Viewed
<1>11. Appends(c, s)
  <2>1. ~c.raft_log.fatal /\ 0 < c.term BY <1>9
  <2> QED BY <1>6, <1>9, <1>10, <2>1, AppendEntryAppends
<1>12. /\ s \in RaftType /\ s.id = r.id /\ s.term = r.term /\ s.vote = r.vote
       /\ s.state = "Leader" /\ s.msgs = r.msgs /\ s.lead = s.id
  BY <1>9, <1>11 DEF Appends, Quiet
<1>13. Viewed(s) BY <1>11 DEF Appends, Viewed
<1>14. Leads(o, K, s)
  <2>1. \A p \in Node : p = s.id \/ s.prs[p].match = 0
    BY <1>8, <1>9, <1>11, <1>12 DEF Appends
  <2>2. Longer(o.raft_log.ents, s.raft_log.ents, s.term) BY <1>9, <1>11, <1>12 DEF Appends
  <2>3. /\ ~s.raft_log.fatal /\ o.raft_log.committed <= s.raft_log.committed
        /\ \A p \in Node : Fits(s.prs[p], Len(s.raft_log.ents))
        /\ \/ s.raft_log.committed = o.raft_log.committed
           \/ /\ LastTerm(First(s.raft_log.ents, s.raft_log.committed)) = s.term
              /\ \E Q \in SUBSET Node :
                    Cardinality(Q) >= quorum /\ \A p \in Q : s.prs[p].match >= s.raft_log.committed
    BY <1>9, <1>11, <1>12 DEF Appends
  <2> QED BY <1>12, <2>1, <2>2, <2>3 DEF Leads
<1> QED BY <1>12, <1>13, <1>14 DEF s

\* A node that keeps its log and commit index and does not lead is at rest.
LEMMA SameLogRests ==
    ASSUME NEW r \in RaftType, NEW s, s.raft_log.ents = r.raft_log.ents,
           s.raft_log.committed = r.raft_log.committed, ~s.raft_log.fatal,
           s.state # "Leader", r.term <= s.term,
           s.lead = Nil \/ (s.lead = r.lead /\ s.term = r.term /\ r.state # "Leader")
    PROVE  Rests(r, s)
<1>1. r.raft_log.committed \in Nat BY RaftFields, LogFields
<1>2. r.raft_log.committed <= r.raft_log.committed BY <1>1
<1> QED BY <1>2 DEF Rests

\* Raft::campaign
LEMMA CampaignOutcome ==
    ASSUME NEW N, NEW B, NEW E, NEW G, NEW H, NEW i \in Node, Up(N, i),
           NEW r \in RaftType, Alike(N[i], r), r.msgs = {}, NEW tr \in BOOLEAN
    PROVE  Outcome(N, B, E, G, H, i, campaign(r, tr), campaign(r, tr).msgs)
<1> DEFINE b == become_candidate(r)
           c == poll(b, r.id, TRUE)
           s == campaign(r, tr)
           old == N[i]
<1>1. /\ old \in RaftType /\ old.id = i /\ 0 < old.term /\ ~old.raft_log.fatal
      /\ old.term \in Nat /\ r.id = i /\ r.term = old.term
      /\ r.raft_log.ents = old.raft_log.ents /\ r.raft_log.committed = old.raft_log.committed
      /\ ~r.raft_log.fatal
  BY RaftFields DEF Up, Alike
<1>2. /\ b \in RaftType /\ b.id = i /\ b.term = r.term + 1 /\ b.vote = i
      /\ b.state = "Candidate" /\ b.granted = {} /\ b.msgs = {}
  BY <1>1, BecomeCandidateFacts
<1>3. b.raft_log = r.raft_log /\ b.lead = Nil /\ b.refused = {}
  <2> DEFINE z == reset(r, r.term + 1)
  <2>1. z \in RaftType /\ z.raft_log = r.raft_log
    <3>1. r.term + 1 \in Nat BY <1>1
    <3> QED BY <3>1, ResetFacts
  <2>2. z.lead = Nil /\ z.refused = {} BY DEF reset, RaftType
  <2>3. b = [z EXCEPT !.vote = r.id, !.state = "Candidate"] BY DEF become_candidate
  <2> HIDE DEF z, b
  <2> QED BY <2>1, <2>2, <2>3 DEF RaftType
<1> HIDE DEF b
<1>4. /\ c \in RaftType /\ c.id = i /\ c.term = r.term + 1 /\ c.vote = i
      /\ c.state = "Candidate" /\ c.msgs = {} /\ c.granted \subseteq {i}
      /\ c.raft_log = r.raft_log /\ c.lead = Nil
  <2> DEFINE yes == TRUE
  <2>1. yes \in BOOLEAN /\ r.id \in Node BY <1>1
  <2> HIDE DEF yes
  <2>2. LET p == poll(b, r.id, yes)
        IN  /\ p \in RaftType /\ p.id = b.id /\ p.term = b.term /\ p.vote = b.vote
            /\ p.state = b.state /\ p.msgs = b.msgs
            /\ \A x \in p.granted : x \in b.granted \/ (yes /\ x = r.id)
            /\ p.raft_log = b.raft_log /\ p.lead = b.lead
    <3> DEFINE p == poll(b, r.id, yes)
    <3>1. b \in RaftType BY <1>2
    <3>2. /\ p \in RaftType /\ p.id = b.id /\ p.term = b.term /\ p.vote = b.vote
          /\ p.state = b.state /\ p.msgs = b.msgs
          /\ \A x \in p.granted : x \in b.granted \/ (yes /\ x = r.id)
      BY <2>1, <3>1, PollFacts, SMTT(30)
    <3>3. p.raft_log = b.raft_log /\ p.lead = b.lead BY <2>1, <3>1, PollLeaves
    <3> HIDE DEF p
    <3> QED BY <3>2, <3>3 DEF p
  <2> QED BY <1>1, <1>2, <1>3, <2>2 DEF yes
<1>5. s = IF Cardinality(c.granted) = quorum THEN become_leader(c)
          ELSE [c EXCEPT !.msgs = @ \cup VoteRequests(c, "MsgVote", c.term, tr)]
  BY DEF campaign, b
<1>6. r.term + 1 \in Nat /\ old.term < r.term + 1 /\ 1 < r.term + 1 BY <1>1
<1> HIDE DEF c, s
<1>7. CASE Cardinality(c.granted) = quorum
  <2> DEFINE K == {}
  <2>1. Real(G, H, K, s.term) BY DEF Real
  <2> HIDE DEF K
  <2>2. s = become_leader(c) BY <1>5, <1>7
  <2>3. /\ Leads(old, K, s) /\ s \in RaftType /\ s.id = i /\ s.term = r.term + 1
        /\ s.vote = i /\ s.state = "Leader" /\ s.msgs = {}
    <3>1. 0 < c.term /\ ~c.raft_log.fatal BY <1>1, <1>4, <1>6
    <3>2. old.raft_log.ents = c.raft_log.ents /\ old.raft_log.committed = c.raft_log.committed
      BY <1>1, <1>4
    <3> HIDE DEF old
    <3> QED BY <1>4, <2>2, <3>1, <3>2, BecomeLeaderLeads
  <2>4. Wins(N, B, i, s)
    <3>1. c.granted \in SUBSET Node /\ Cardinality(c.granted) >= quorum
      BY <1>4, <1>7, QuorumNat
    <3>2. \A v \in c.granted : v = i BY <1>4
    <3>3. N[i].term < s.term BY <1>6, <2>3
    <3> QED BY <3>1, <3>2, <3>3 DEF Wins
  <2>5. VotesFor(N, i, s) /\ Stands(N[i], s) /\ N[i].term <= s.term /\ 1 < s.term
    BY <1>1, <1>6, <2>3 DEF VotesFor, Stands
  <2>6. Outcome(N, B, E, G, H, i, s, s.msgs)
    BY <2>1, <2>3, <2>4, <2>5 DEF Outcome
  <2> QED BY <2>6 DEF s
<1>8. CASE Cardinality(c.granted) # quorum
  <2> DEFINE ms == VoteRequests(c, "MsgVote", c.term, tr)
  <2>1. s = [c EXCEPT !.msgs = @ \cup ms] BY <1>5, <1>8
  <2>2. \A x \in ms : Sends(E, c, x)
    <3> SUFFICES ASSUME NEW p \in Node \ {c.id}
                 PROVE  Sends(E, c, Stamped(c, [NewMessage("MsgVote", p) EXCEPT
                            !.term = c.term, !.index = last_index(c.raft_log),
                            !.log_term = last_term(c.raft_log), !.transfer = tr]))
      BY DEF VoteRequests, Peers
    <3> DEFINE y == [NewMessage("MsgVote", p) EXCEPT
                        !.term = c.term, !.index = last_index(c.raft_log),
                        !.log_term = last_term(c.raft_log), !.transfer = tr]
               x == Stamped(c, y)
    <3>1. /\ x.type = "MsgVote" /\ x.from = c.id /\ x.to = p /\ x.term = c.term
          /\ x.index = last_index(c.raft_log) /\ x.log_term = last_term(c.raft_log)
      BY DEF Stamped, NewMessage, CampaignType
    <3> HIDE DEF y, x
    <3>2. c.raft_log \in LogType BY <1>4, RaftFields
    <3>3. last_term(c.raft_log) = LastTerm(c.raft_log.ents)
          /\ last_index(c.raft_log) = Len(c.raft_log.ents)
      BY <3>2, LogTerms
    <3>4. Sends(E, c, x) BY <3>1, <3>3 DEF Sends
    <3> QED BY <3>4 DEF x, y
  <2> HIDE DEF ms
  <2>3. /\ s.id = i /\ s.term = r.term + 1 /\ s.vote = i /\ s.state = "Candidate"
        /\ s.raft_log = r.raft_log /\ s.lead = Nil /\ s.msgs = ms
        /\ c.id = i /\ c.term = r.term + 1 /\ c.raft_log = r.raft_log
    BY <1>4, <2>1 DEF RaftType
  <2>4. \A x \in s.msgs : Sends(E, s, x) BY <2>2, <2>3 DEF Sends
  <2>5. Rests(N[i], s) BY <1>1, <1>6, <2>3, SameLogRests
  <2>6. VotesFor(N, i, s) /\ Stands(N[i], s) /\ N[i].term <= s.term /\ 1 < s.term
    BY <1>1, <1>6, <2>3 DEF VotesFor, Stands
  <2>7. Outcome(N, B, E, G, H, i, s, s.msgs) BY <2>3, <2>4, <2>5, <2>6 DEF Outcome
  <2> QED BY <2>7 DEF s
<1> QED BY <1>7, <1>8
\* A leader that goes on leading
LEMMA HeadOutcome ==
    ASSUME NEW N, NEW B, NEW E, NEW G, NEW H, NEW i \in Node, Up(N, i), Leading(N[i]),
           NEW s, NEW K, Onward(N[i], K, s), Quiet(N[i], s), Real(G, H, K, N[i].term)
    PROVE  Outcome(N, B, E, G, H, i, s, s.msgs)
<1>1. /\ s.id = i /\ s.term = N[i].term /\ s.vote = N[i].vote /\ s.state = "Leader"
      /\ N[i].state = "Leader" /\ 1 < s.term /\ N[i].msgs = {} /\ N[i].term \in Nat
  BY RaftFields DEF Quiet, Leading, Up
<1>2. Wins(N, B, i, s) BY <1>1 DEF Wins
<1>3. VotesFor(N, i, s) /\ Stands(N[i], s) /\ N[i].term <= s.term
  BY <1>1 DEF VotesFor, Stands
<1>4. Leads(N[i], K, s) /\ \A x \in s.msgs : LeaderSays(s, x) BY <1>1 DEF Onward
<1>5. Real(G, H, K, s.term) BY <1>1
<1> QED BY <1>1, <1>2, <1>3, <1>4, <1>5 DEF Outcome

\* A node that leads nobody and rests
LEMMA RestOutcome ==
    ASSUME NEW N, NEW B, NEW E, NEW G, NEW H, NEW i \in Node, Up(N, i),
           NEW s, s.id = i, Rests(N[i], s), s.term = N[i].term => s.vote = N[i].vote,
           s.term # N[i].term => s.vote = Nil,
           s.state = "Candidate" => /\ N[i].state = "Candidate" /\ s.term = N[i].term
                                    /\ 1 < s.term,
           \A x \in s.msgs : Sends(E, s, x)
    PROVE  Outcome(N, B, E, G, H, i, s, s.msgs)
<1>1. VotesFor(N, i, s) BY DEF VotesFor
<1>2. Stands(N[i], s) BY DEF Stands, Rests
<1>3. N[i].term <= s.term /\ s.state # "Leader" BY DEF Rests
<1> QED BY <1>1, <1>2, <1>3 DEF Outcome

\* The candidate's handling of a response to its request
LEMMA StepVoteRespOutcome ==
    ASSUME NEW N, NEW B, NEW E, NEW G, NEW H, NEW i \in Node, Up(N, i),
           N[i].state = "Candidate", 1 < N[i].term, NEW m \in MessageType,
           \A v \in N[i].granted : <<v, N[i].term, i>> \in B,
           ~m.reject => <<m.from, N[i].term, i>> \in B
    PROVE  Outcome(N, B, E, G, H, i, step_vote_resp(N[i], m), step_vote_resp(N[i], m).msgs)
<1> DEFINE r == N[i]
           p == poll(r, m.from, ~m.reject)
           q == become_leader(p)
           s == step_vote_resp(r, m)
           f == become_follower(p, p.term, Nil)
<1>1. /\ r \in RaftType /\ r.id = i /\ 0 < r.term /\ ~r.raft_log.fatal /\ r.msgs = {}
      /\ r.term \in Nat /\ r.state = "Candidate" /\ 1 < r.term /\ r.raft_log.committed \in Nat
  BY RaftFields, LogFields DEF Up
<1>2. /\ p \in RaftType /\ p.id = i /\ p.term = r.term /\ p.vote = r.vote
      /\ p.state = "Candidate" /\ p.msgs = {}
      /\ \A x \in p.granted : x \in r.granted \/ (~m.reject /\ x = m.from)
      /\ \/ Cardinality(p.granted) = quorum /\ s = bcast_append(q)
         \/ s = f
         \/ s = p
  <2> HIDE DEF r
  <2> QED BY <1>1, StepVoteRespCases
<1>3. p.raft_log = r.raft_log /\ p.lead = r.lead
  <2>1. m.from \in Node /\ (~m.reject) \in BOOLEAN BY DEF MessageType
  <2> DEFINE b == ~m.reject
  <2>2. b \in BOOLEAN BY <2>1
  <2> HIDE DEF r, b
  <2>3. LET z == poll(r, m.from, b) IN z.raft_log = r.raft_log /\ z.lead = r.lead
    BY <1>1, <2>1, <2>2, PollLeaves
  <2> QED BY <2>3 DEF b
<1> HIDE DEF p, s
<1>4. CASE Cardinality(p.granted) = quorum /\ s = bcast_append(q)
  <2> DEFINE K == {}
  <2>1. Real(G, H, K, s.term) BY DEF Real
  <2> HIDE DEF K
  <2>2. /\ Leads(r, K, q) /\ q \in RaftType /\ q.id = i /\ q.term = r.term
        /\ q.vote = r.vote /\ q.state = "Leader" /\ q.msgs = {} /\ Viewed(q)
    <3>1. 0 < p.term /\ ~p.raft_log.fatal BY <1>1, <1>2, <1>3
    <3>2. r.raft_log.ents = p.raft_log.ents /\ r.raft_log.committed = p.raft_log.committed
      BY <1>3
    <3> HIDE DEF r
    <3> QED BY <1>2, <3>1, <3>2, BecomeLeaderLeads
  <2> HIDE DEF q
  <2>3. Onward(r, K, q) BY <2>2 DEF Onward
  <2>4. Work(q, s) BY <1>4, <2>2, AppendsWork
  <2>5. Onward(r, K, s) BY <2>3, <2>4, HeadWork
  <2>6. s.id = i /\ s.term = r.term /\ s.vote = r.vote /\ s.state = "Leader"
    BY <2>2, <2>4 DEF Work
  <2>7. Wins(N, B, i, s)
    <3>1. p.granted \in SUBSET Node /\ Cardinality(p.granted) >= quorum
      <4>1. p.granted \in SUBSET Node BY <1>2, RaftFields
      <4> QED BY <1>4, <4>1, QuorumNat
    <3>2. \A v \in p.granted : <<v, s.term, i>> \in B BY <1>2, <2>6
    <3> QED BY <1>1, <2>6, <3>1, <3>2 DEF Wins
  <2>8. VotesFor(N, i, s) /\ Stands(N[i], s) /\ N[i].term <= s.term /\ 1 < s.term
    BY <1>1, <2>6 DEF VotesFor, Stands
  <2>9. Leads(N[i], K, s) /\ \A x \in s.msgs : LeaderSays(s, x) BY <1>1, <2>5 DEF Onward
  <2>10. Outcome(N, B, E, G, H, i, s, s.msgs)
    BY <2>1, <2>6, <2>7, <2>8, <2>9 DEF Outcome
  <2> QED BY <2>10 DEF s
<1>5. CASE s = f
  <2>1. /\ s.id = i /\ s.term = r.term /\ s.vote = r.vote /\ s.lead = Nil
        /\ s.state = "Follower" /\ s.raft_log = r.raft_log /\ s.msgs = {}
    <3>1. Nil \in Node \cup {Nil} /\ p.term \in Nat BY <1>2, RaftFields
    <3> HIDE DEF r
    <3> QED BY <1>2, <1>3, <1>5, <3>1, FollowerFields, SMTT(30)
  <2> HIDE DEF f
  <2>2. Rests(N[i], s) BY <1>1, <2>1 DEF Rests
  <2>3. Outcome(N, B, E, G, H, i, s, s.msgs) BY <2>1, <2>2, RestOutcome
  <2> QED BY <2>3 DEF s
<1>6. CASE s = p
  <2>1. /\ s.id = i /\ s.term = r.term /\ s.vote = r.vote /\ s.lead = r.lead
        /\ s.state = "Candidate" /\ s.raft_log = r.raft_log /\ s.msgs = {}
    BY <1>2, <1>3, <1>6
  <2>2. Rests(N[i], s) BY <1>1, <2>1 DEF Rests
  <2>3. Outcome(N, B, E, G, H, i, s, s.msgs) BY <1>1, <2>1, <2>2, RestOutcome
  <2> QED BY <2>3 DEF s
<1> QED BY <1>2, <1>4, <1>5, <1>6

\* A node's answer to a request for its vote
LEMMA StepVoteOutcome ==
    ASSUME NEW N, NEW B, NEW E, NEW G, NEW H, NEW i \in Node, Up(N, i),
           N[i].state \in {"Candidate", "Leader"} => 1 < N[i].term,
           N[i].state = "Leader" => Leading(N[i]),
           NEW m \in MessageType, m.type = "MsgVote", m.term = N[i].term, m.from # i,
           VoteOK(N, m)
    PROVE  Outcome(N, B, E, G, H, i, step_vote(N[i], m), step_vote(N[i], m).msgs)
<1> DEFINE r == N[i]
           resp == [NewMessage("MsgVoteResp", m.from) EXCEPT !.term = m.term]
           no   == [resp EXCEPT !.term = r.term, !.reject = TRUE]
           y    == [send(r, resp) EXCEPT !.past = FALSE, !.vote = m.from]
           n    == send(r, no)
           s    == step_vote(r, m)
<1>1. /\ r \in RaftType /\ r.id = i /\ 0 < r.term /\ ~r.raft_log.fatal /\ r.msgs = {}
      /\ r.term \in Nat /\ r.raft_log \in LogType /\ r.raft_log.committed \in Nat
      /\ m.from \in Node
  BY RaftFields, LogFields DEF Up, MessageType
<1>2. \/ s = y /\ is_up_to_date(r.raft_log, m.index, m.log_term)
      \/ s = n
  BY DEF step_vote
<1>3. resp \in MessageType /\ no \in MessageType /\ resp.type = "MsgVoteResp"
      /\ no.type = "MsgVoteResp" /\ resp.to = m.from /\ no.to = m.from
      /\ resp.term = m.term /\ no.term = m.term
  <2>1. NewMessage("MsgVoteResp", m.from) \in MessageType BY <1>1, NewMessageType DEF MsgType
  <2>2. m.term \in Nat BY <1>1
  <2> DEFINE w == NewMessage("MsgVoteResp", m.from)
  <2>3. w.type = "MsgVoteResp" /\ w.to = m.from /\ w \in MessageType BY <2>1 DEF NewMessage
  <2> HIDE DEF w
  <2>4. resp = [w EXCEPT !.term = m.term] BY DEF w
  <2> HIDE DEF resp
  <2>5. resp \in MessageType /\ resp.type = "MsgVoteResp" /\ resp.to = m.from
        /\ resp.term = m.term
    BY <2>2, <2>3, <2>4 DEF MessageType
  <2>6. no = [resp EXCEPT !.term = r.term, !.reject = TRUE] OBVIOUS
  <2> HIDE DEF no
  <2>7. no \in MessageType /\ no.type = resp.type /\ no.to = resp.to /\ no.term = r.term
    BY <1>1, <2>5, <2>6 DEF MessageType
  <2> QED BY <2>5, <2>7
<1> HIDE DEF resp, no
<1>4. ASSUME NEW z \in MessageType, z.type = "MsgVoteResp", z.to = m.from, z.term = m.term
      PROVE  /\ Stamped(r, z).type = "MsgVoteResp" /\ Stamped(r, z).from = i
             /\ Stamped(r, z).to = m.from /\ Stamped(r, z).term = m.term
  <2>1. z.type \in CampaignType BY <1>4 DEF CampaignType
  <2> HIDE DEF r
  <2> QED BY <1>1, <1>4, <2>1, StampedType
<1>5. /\ s.id = i /\ s.term = r.term /\ s.state = r.state /\ s.lead = r.lead
      /\ s.raft_log = r.raft_log /\ s.prs = r.prs
      /\ s.vote = r.vote \/ (s.vote = m.from /\ is_up_to_date(r.raft_log, m.index, m.log_term))
      /\ s.msgs = {Stamped(r, resp)} \/ s.msgs = {Stamped(r, no)}
  <2>1. CASE s = y /\ is_up_to_date(r.raft_log, m.index, m.log_term)
    <3>1. y = [r EXCEPT !.msgs = @ \cup {Stamped(r, resp)}, !.past = FALSE, !.vote = m.from]
      BY <1>1 DEF send, RaftType
    <3> HIDE DEF r, s, y
    <3> QED BY <1>1, <2>1, <3>1 DEF RaftType
  <2>2. CASE s = n
    <3>1. n = [r EXCEPT !.msgs = @ \cup {Stamped(r, no)}] BY DEF send
    <3> HIDE DEF r, s, n
    <3> QED BY <1>1, <2>2, <3>1 DEF RaftType
  <2> QED BY <1>2, <2>1, <2>2
<1> HIDE DEF s
<1>6. \A x \in s.msgs : Sends(E, s, x) BY <1>1, <1>3, <1>4, <1>5 DEF Sends
<1>7. VotesFor(N, i, s)
  <2>1. CASE s.vote = r.vote BY <1>5, <2>1 DEF VotesFor
  <2>2. CASE s.vote = m.from /\ is_up_to_date(r.raft_log, m.index, m.log_term)
    <3>1. last_term(r.raft_log) = LastTerm(r.raft_log.ents)
          /\ last_index(r.raft_log) = Len(r.raft_log.ents)
      BY <1>1, LogTerms
    <3>2. \/ m.log_term > LastTerm(r.raft_log.ents)
          \/ m.log_term = LastTerm(r.raft_log.ents) /\ m.index >= Len(r.raft_log.ents)
      BY <2>2, <3>1 DEF is_up_to_date
    <3>3. N[m.from].term >= s.term BY <1>5 DEF VoteOK
    <3>4. N[m.from].term = s.term /\ N[m.from].state = "Candidate" =>
            /\ m.index = Len(N[m.from].raft_log.ents)
            /\ m.log_term = LastTerm(N[m.from].raft_log.ents)
      BY <1>5 DEF VoteOK
    <3> QED BY <2>2, <3>2, <3>3, <3>4 DEF VotesFor
  <2> QED BY <1>5, <2>1, <2>2
<1>8. Stands(N[i], s) /\ N[i].term <= s.term BY <1>1, <1>5 DEF Stands
<1>9. s.state \in {"Candidate", "Leader"} => 1 < s.term BY <1>5
<1>10. CASE r.state # "Leader"
  <2>1. Rests(N[i], s) BY <1>1, <1>5, <1>10 DEF Rests
  <2>2. Outcome(N, B, E, G, H, i, s, s.msgs)
    BY <1>5, <1>6, <1>7, <1>8, <1>9, <2>1 DEF Outcome
  <2> QED BY <2>2 DEF s
<1>11. CASE r.state = "Leader"
  <2> DEFINE K == {}
  <2>1. Real(G, H, K, s.term) BY DEF Real
  <2> HIDE DEF K
  <2>2. Leads(r, K, r)
    <3>1. Onward(r, K, r) BY <1>11, HeadStart
    <3> QED BY <3>1 DEF Onward
  <2>3. Leads(r, K, s) BY <1>1, <1>5, <2>2 DEF Leads
  <2>4. Wins(N, B, i, s) BY <1>5, <1>11 DEF Wins
  <2>5. Outcome(N, B, E, G, H, i, s, s.msgs)
    BY <1>5, <1>6, <1>7, <1>8, <1>9, <2>1, <2>3, <2>4 DEF Outcome
  <2> QED BY <2>5 DEF s
<1> QED BY <1>10, <1>11
-----------------------------------------------------------------------------
(* What a follower takes over. *)

\* The size of a beginning of 1..n is its end.
LEMMA BeginningSize ==
    ASSUME NEW n \in Nat, NEW S \in SUBSET (1..n), \A k \in S : \A j \in 1..k : j \in S
    PROVE  /\ Cardinality(S) \in Nat /\ Cardinality(S) <= n
           /\ \A k \in 1..n : k \in S <=> k <= Cardinality(S)
<1> DEFINE c == Cardinality(S)
<1>1. IsFiniteSet(S) /\ c \in Nat /\ c <= n BY IntervalSubset
<1>2. ASSUME NEW k \in 1..n, k \in S PROVE k <= c
  <2>1. IsFiniteSet(1..k) /\ Cardinality(1..k) = k
    <3>1. k \in Nat OBVIOUS
    <3> QED BY <3>1, FS_Interval
  <2>2. (1..k) \subseteq S BY <1>2
  <2> HIDE DEF c
  <2>3. Cardinality(1..k) <= c BY <1>1, <2>2, FS_Subset DEF c
  <2> QED BY <2>1, <2>3
<1>3. ASSUME NEW k \in 1..n, k <= c PROVE k \in S
  <2>1. SUFFICES ASSUME k \notin S PROVE FALSE OBVIOUS
  <2>2. S \in SUBSET (1..(k - 1))
    <3> SUFFICES ASSUME NEW j \in S PROVE j \in 1..(k - 1) OBVIOUS
    <3>1. j \in 1..n OBVIOUS
    <3>2. ~(k \in 1..j) BY <2>1
    <3> QED BY <3>1, <3>2
  <2>3. k - 1 \in Nat BY <1>3
  <2> DEFINE p == k - 1
  <2>4. p \in Nat /\ S \in SUBSET (1..p) BY <2>2, <2>3
  <2> HIDE DEF p, c
  <2>5. c <= p BY <2>4, IntervalSubset DEF c
  <2> QED BY <1>1, <1>3, <2>5 DEF p
<1> QED BY <1>1, <1>2, <1>3

\* RaftLog::find_conflict: how many of the entries the log has, one after the other
LEMMA MatchingFacts ==
    ASSUME NEW l, NEW index \in Nat, NEW es \in Seq(Entry)
    PROVE  LET n == Matching(l, index, es)
           IN  /\ n \in Nat /\ n <= Len(es)
               /\ \A k \in 1..n : match_term(l, index + k, es[k].term)
               /\ n < Len(es) => ~match_term(l, index + (n + 1), es[n + 1].term)
<1> DEFINE P(j) == match_term(l, index + j, es[j].term)
           m == Len(es)
           S == {k \in 1..m : \A j \in 1..k : P(j)}
           n == Matching(l, index, es)
<1>1. m \in Nat OBVIOUS
<1>2. n = Cardinality(S) BY DEF Matching
<1> HIDE DEF m, P, n
<1>3. S \in SUBSET (1..m) OBVIOUS
<1>4. \A k \in S : \A j \in 1..k : j \in S
  <2> TAKE k \in S
  <2> TAKE j \in 1..k
  <2>1. k \in 1..m /\ \A h \in 1..k : P(h) OBVIOUS
  <2>2. j \in 1..m BY <1>1, <2>1
  <2>3. \A h \in 1..j : h \in 1..k BY <1>1, <2>1
  <2> QED BY <2>1, <2>2, <2>3
<1>5. n \in Nat /\ n <= m /\ \A k \in 1..m : k \in S <=> k <= n
  <2> HIDE DEF S
  <2> QED BY <1>1, <1>2, <1>3, <1>4, BeginningSize
<1>6. \A k \in 1..n : P(k)
  <2> TAKE k \in 1..n
  <2>1. k \in 1..m /\ k <= n BY <1>1, <1>5
  <2>2. k \in S BY <1>5, <2>1
  <2>3. k \in 1..k BY <2>1, <1>1
  <2> QED BY <2>2, <2>3
<1>7. n < m => ~P(n + 1)
  <2> SUFFICES ASSUME n < m, P(n + 1) PROVE FALSE OBVIOUS
  <2>1. n + 1 \in 1..m /\ ~(n + 1 <= n) BY <1>1, <1>5
  <2>2. \A j \in 1..(n + 1) : j \in 1..n \/ j = n + 1 BY <1>5
  <2>3. \A j \in 1..(n + 1) : P(j) BY <1>6, <2>2
  <2>4. n + 1 \in S BY <2>1, <2>3
  <2> HIDE DEF S
  <2> QED BY <1>5, <2>1, <2>4
<1>8. /\ n \in Nat /\ n <= Len(es)
      /\ \A k \in 1..n : match_term(l, index + k, es[k].term)
      /\ n < Len(es) => ~match_term(l, index + (n + 1), es[n + 1].term)
  BY <1>5, <1>6, <1>7 DEF m, P
<1> QED BY <1>8 DEF n

\* RaftLog::commit_to within the log
LEMMA CommitToFacts ==
    ASSUME NEW l \in LogType, NEW n \in Nat, n <= Len(l.ents)
    PROVE  LET q == commit_to(l, n)
           IN  /\ q.ents = l.ents /\ q.fatal = l.fatal
               /\ q.committed = IF l.committed >= n THEN l.committed ELSE n
<1> DEFINE q == commit_to(l, n)
<1>1. l.committed \in Nat /\ Len(l.ents) \in Nat BY LogFields
<1>2. CASE l.committed >= n
  <2>1. q = l BY <1>2 DEF commit_to
  <2> QED BY <1>2, <2>1
<1>3. CASE ~(l.committed >= n)
  <2>1. q = [l EXCEPT !.committed = n] BY <1>1, <1>3 DEF commit_to, last_index
  <2> HIDE DEF q
  <2>2. q.ents = l.ents /\ q.fatal = l.fatal /\ q.committed = n
    BY <2>1, LogFields DEF LogRecord
  <2>3. q.ents = l.ents /\ q.fatal = l.fatal
        /\ q.committed = IF l.committed >= n THEN l.committed ELSE n
    BY <1>3, <2>2
  <2> QED BY <2>3 DEF q
<1> QED BY <1>2, <1>3

\* A log that matches a term of a log there has been has its entries up to there.
LEMMA MatchTermFirst ==
    ASSUME NEW E, NEW G, Logs(E, G), NEW l \in LogType, l.ents \in G, NEW A \in G,
           NEW n \in Nat, n <= Len(A), l.offset <= n,
           match_term(l, n, LastTerm(First(A, n)))
    PROVE  n <= Len(l.ents) /\ First(l.ents, n) = First(A, n)
<1> DEFINE L == l.ents
<1>1. L \in Seq(Entry) /\ Len(L) \in Nat BY LogFields
<1>2. n <= Len(L)
  <2> SUFFICES ASSUME ~(n <= Len(L)) PROVE FALSE OBVIOUS
  <2>1. n > Len(L) /\ 0 < n BY <1>1
  <2>2. term(l, n) = 0 BY <2>1, LogTerms
  <2>3. LastTerm(First(A, n)) > 0 BY <2>1, LogsTerm
  <2> QED BY <2>2, <2>3 DEF match_term
<1>3. term(l, n) = LastTerm(First(L, n)) BY <1>2, LogTerms
<1>4. LastTerm(First(L, n)) = LastTerm(First(A, n)) BY <1>3 DEF match_term
<1> HIDE DEF L
<1>5. First(L, n) = First(A, n)
  <2>1. L \in G BY DEF L
  <2> QED BY <1>2, <1>4, <2>1, LogsMatch
<1> QED BY <1>2, <1>5 DEF L
\* What maybe_append makes of the entries, before it commits: the log has those of the
\* leader, and takes over the leader's log where it differs.
LEMMA Appended ==
    ASSUME NEW E, NEW G, Logs(E, G), NEW l \in LogType, l.ents \in G, NEW A \in G,
           NEW index \in Nat, NEW es \in Seq(Entry), Len(A) = index + Len(es),
           \A k \in 1..Len(es) : es[k] = A[index + k],
           l.committed <= index, match_term(l, index, LastTerm(First(A, index)))
    PROVE  LET ci == find_conflict(l, index, es)
               l1 == IF ci = 0 THEN l
                     ELSE IF ci <= l.committed THEN Fatal(l)
                     ELSE append(l, ci - 1, SubSeq(es, ci - index, Len(es)))
           IN  /\ l1 \in LogType /\ l1.fatal = l.fatal /\ l1.committed = l.committed
               /\ l1.ents = l.ents \/ (l1.ents = A /\ ~Within(A, l.ents))
               /\ Within(A, l1.ents)
               /\ First(l1.ents, l.committed) = First(l.ents, l.committed)
<1> DEFINE L  == l.ents
           n  == Matching(l, index, es)
           p  == index + n
           m  == Len(es)
           ci == find_conflict(l, index, es)
           l1 == IF ci = 0 THEN l
                 ELSE IF ci <= l.committed THEN Fatal(l)
                 ELSE append(l, ci - 1, SubSeq(es, ci - index, Len(es)))
           Good == /\ l1 \in LogType /\ l1.fatal = l.fatal /\ l1.committed = l.committed
                   /\ l1.ents = l.ents \/ (l1.ents = A /\ ~Within(A, l.ents))
                   /\ Within(A, l1.ents)
                   /\ First(l1.ents, l.committed) = First(l.ents, l.committed)
<1>1. /\ L \in Seq(Entry) /\ Len(L) \in Nat /\ l.committed \in Nat /\ l.committed <= Len(L)
      /\ l.offset \in Nat /\ l.offset <= l.committed
  BY LogFields
<1>2. A \in Seq(Entry) /\ m \in Nat /\ L \in G BY DEF Logs
<1>3. /\ n \in Nat /\ n <= m
      /\ \A k \in 1..n : match_term(l, index + k, es[k].term)
      /\ n < m => ~match_term(l, index + (n + 1), es[n + 1].term)
  BY MatchingFacts
<1>4. ci = IF n = m THEN 0 ELSE index + n + 1 BY DEF find_conflict
<1> HIDE DEF n, m, ci
<1>5. p \in Nat /\ p <= Len(A) /\ l.offset <= p /\ l.committed <= p /\ Len(A) = index + m
  BY <1>1, <1>3 DEF m
<1>6. match_term(l, p, LastTerm(First(A, p)))
  <2>1. CASE n = 0
    <3>1. p = index BY <2>1
    <3> QED BY <3>1
  <2>2. CASE n # 0
    <3>1. n \in 1..n /\ n \in 1..Len(es) /\ 0 < p BY <1>3, <2>2 DEF m
    <3>2. es[n] = A[p] BY <3>1
    <3>3. LastTerm(First(A, p)) = A[p].term
      <4> HIDE DEF p
      <4> QED BY <1>5, <3>1, LogsTerm
    <3> QED BY <1>3, <3>1, <3>2, <3>3
  <2> QED BY <2>1, <2>2
<1>7. p <= Len(L) /\ First(L, p) = First(A, p)
  <2> HIDE DEF p
  <2> QED BY <1>5, <1>6, MatchTermFirst
<1>8. First(A, l.committed) = First(L, l.committed)
  <2> HIDE DEF p, L
  <2> DEFINE c == l.committed
  <2>1. c \in Nat /\ c <= p /\ L \in Seq(Entry) BY <1>1, <1>5
  <2> HIDE DEF c
  <2>2. First(First(A, p), c) = First(A, c) BY <1>2, <1>5, <2>1, FirstFirst
  <2>3. First(First(L, p), c) = First(L, c) BY <1>5, <1>7, <2>1, FirstFirst
  <2> QED BY <1>7, <2>2, <2>3 DEF c
<1>9. ASSUME n = m PROVE Good
  <2>1. p = Len(A) BY <1>5, <1>9
  <2>2. Within(A, L)
    <3> HIDE DEF p, L
    <3>1. First(A, Len(A)) = A /\ Within(First(L, p), L) BY <1>1, <1>2, <1>5, <1>7, FirstFacts DEF L
    <3> QED BY <1>7, <2>1, <3>1
  <2>3. l1 = l BY <1>4, <1>9
  <2> HIDE DEF l1
  <2> QED BY <2>2, <2>3
<1>10. ASSUME n # m PROVE Good
  <2> DEFINE tl  == SubSeq(es, n + 1, Len(es))
             hd  == SubSeq(L, 1, p)
             new == hd \o tl
  <2>1. n < m /\ p + 1 \in Nat /\ p + 1 <= Len(A)
    <3>1. n < m BY <1>2, <1>3, <1>10
    <3> QED BY <1>2, <1>3, <1>5, <3>1
  <2>2. ci # 0 /\ ~(ci <= l.committed) /\ ci - 1 = p /\ ci - index = n + 1
    BY <1>1, <1>3, <1>4, <1>5, <1>10
  <2>3. l1 = append(l, p, tl) BY <2>2
  <2>4. /\ tl \in Seq(Entry) /\ Len(tl) = m - n /\ Len(tl) # 0
        /\ \A k \in 1..(m - n) : tl[k] = es[n + k]
    <3>1. Len(es) = m /\ n + 1 \in Nat /\ n + 1 >= 1 BY <1>3 DEF m
    <3>2. tl = SubSeq(es, n + 1, m) BY <3>1
    <3>3. tl \in Seq(Entry) BY <1>3, SuffixType
    <3>4. Len(tl) = m - n BY <1>3, <2>1, <3>1, <3>2
    <3>5. \A k \in 1..(m - n) : tl[k] = es[n + k]
      <4> TAKE k \in 1..(m - n)
      <4>1. tl[k] = es[n + 1 + k - 1] BY <1>3, <2>1, <3>1, <3>2
      <4>2. n + 1 + k - 1 = n + k BY <1>3
      <4> QED BY <4>1, <4>2
    <3> HIDE DEF tl
    <3> QED BY <1>2, <1>3, <2>1, <3>3, <3>4, <3>5, SMTT(30)
  <2> HIDE DEF tl
  <2>5. hd \in Seq(Entry) /\ Len(hd) = p /\ \A k \in 1..p : hd[k] = L[k]
    <3>1. hd = First(L, p) BY DEF First
    <3> HIDE DEF hd, L, p
    <3> QED BY <1>1, <1>5, <1>7, <3>1, FirstFacts DEF L
  <2>6. \A k \in 1..p : L[k] = A[k]
    <3> TAKE k \in 1..p
    <3> HIDE DEF L, p
    <3>1. First(L, p)[k] = L[k] /\ First(A, p)[k] = A[k] BY <1>1, <1>2, <1>5, <1>7, FirstFacts DEF L
    <3> QED BY <1>7, <3>1
  <2> HIDE DEF hd
  <2>7. new \in Seq(Entry) /\ Len(new) = Len(A)
    <3>0. hd \in Seq(Entry) /\ tl \in Seq(Entry) BY <2>4, <2>5
    <3>1. Len(new) = Len(hd) + Len(tl) BY <3>0, ConcatLength
    <3>2. new \in Seq(Entry) BY <3>0, ConcatType
    <3> HIDE DEF new, p
    <3>3. Len(new) = p + (m - n) /\ p = index + n BY <2>4, <2>5, <3>1 DEF p
    <3>4. Len(new) = Len(A)
      <4>1. n \in Nat /\ m \in Nat /\ index \in Nat /\ Len(A) = index + m BY <1>2, <1>3, <1>5
      <4>2. p \in Nat BY <1>5
      <4>3. p + (m - n) = index + m
        <5>1. \A a, b, c \in Nat : (a + b) + (c - b) = a + c OBVIOUS
        <5>2. p = index + n BY <3>3
        <5> QED BY <4>1, <5>1, <5>2
      <4>4. Len(new) = p + (m - n) BY <3>3
      <4> QED BY <4>1, <4>3, <4>4
    <3> QED BY <3>2, <3>4
  <2>8. \A k \in 1..Len(new) : new[k] = A[k]
    <3> TAKE k \in 1..Len(new)
    <3>1. CASE k \in 1..p
      <4>1. new[k] = hd[k] BY <2>4, <2>5, <3>1
      <4> QED BY <2>5, <2>6, <3>1, <4>1
    <3>2. CASE k \notin 1..p
      <4> DEFINE j == k - p
      <4>1. j \in 1..(m - n) /\ k = p + j /\ k \in Nat /\ k > p
        BY <1>2, <1>3, <1>5, <2>7, <3>2
      <4>2. new[k] = tl[j]
        <5>1. k \in 1..(Len(hd) + Len(tl)) BY <2>4, <2>5, <2>7
        <5>2. ~(k <= Len(hd)) /\ k - Len(hd) = j BY <2>5, <4>1
        <5> QED BY <2>4, <2>5, <5>1, <5>2
      <4>3. tl[j] = es[n + j] /\ n + j \in 1..Len(es) BY <1>3, <2>4, <4>1, SMTT(30) DEF m
      <4>4. es[n + j] = A[index + (n + j)] BY <4>3
      <4>5. index + (n + j) = k BY <1>3, <4>1
      <4> QED BY <4>2, <4>3, <4>4, <4>5
    <3> QED BY <3>1, <3>2
  <2>9. new = A BY <1>2, <2>7, <2>8, SeqEqual
  <2> HIDE DEF new, L
  <2>10. l1 = [l EXCEPT !.ents = new, !.wal = new]
    <3>1. tl # <<>> BY <2>4
    <3>2. ~(p < l.committed \/ p > last_index(l)) BY <1>1, <1>5, <1>7 DEF last_index, L
    <3> HIDE DEF l1, p
    <3> QED BY <2>3, <3>1, <3>2 DEF append, new, hd, L
  <2>11. l1 \in LogType
    <3> HIDE DEF l1
    <3> QED BY <1>5, <2>3, <2>4, AppendType
  <2> HIDE DEF l1
  <2>12. l1.ents = A /\ l1.fatal = l.fatal /\ l1.committed = l.committed
    BY <2>9, <2>10, LogFields DEF LogRecord
  <2>13. ~Within(A, l.ents)
    <3> SUFFICES ASSUME Within(A, L) PROVE FALSE BY DEF L
    <3>1. p + 1 <= Len(L) /\ L[p + 1] = A[p + 1] BY <1>2, <2>1, <1>5 DEF Within
    <3>2. n + 1 \in 1..Len(es) /\ index + (n + 1) = p + 1 BY <1>3, <2>1 DEF m
    <3>3. es[n + 1] = A[p + 1]
      <4>1. es[n + 1] = A[index + (n + 1)] BY <3>2
      <4> QED BY <3>2, <4>1
    <3>4. term(l, p + 1) = L[p + 1].term
      <4>1. ~(p + 1 = 0 \/ p + 1 < l.offset \/ p + 1 > last_index(l))
        BY <1>1, <1>5, <2>1, <3>1 DEF last_index, L
      <4> HIDE DEF p
      <4> QED BY <4>1 DEF term, L
    <3>5. match_term(l, index + (n + 1), es[n + 1].term)
      BY <3>1, <3>2, <3>3, <3>4 DEF match_term
    <3> QED BY <1>3, <2>1, <3>5
  <2>14. Within(A, A) BY <1>2, WithinRefl
  <2>15. First(A, l.committed) = First(l.ents, l.committed) BY <1>8 DEF L
  <2> QED BY <2>11, <2>12, <2>13, <2>14, <2>15
<1>11. Good BY <1>9, <1>10
<1> QED BY <1>11 DEF ci
\* RaftLog::maybe_append of a part of the leader's log that the log goes on with
LEMMA MaybeAppendTakes ==
    ASSUME NEW E, NEW G, Logs(E, G), NEW l \in LogType, l.ents \in G, ~l.fatal, NEW A \in G,
           NEW index \in Nat, NEW es \in Seq(Entry), Len(A) = index + Len(es),
           \A k \in 1..Len(es) : es[k] = A[index + k],
           l.committed <= index, match_term(l, index, LastTerm(First(A, index))),
           NEW H, NEW T, Led(G, A, T), Sure(G, H, First(l.ents, l.committed), T),
           NEW c \in Nat, Sure(G, H, First(A, Least(c, Len(A))), T)
    PROVE  LET q == maybe_append(l, index, c, es)
           IN  Takes(G, H, T, l, q) /\ Within(A, q.ents)
<1> DEFINE ci == find_conflict(l, index, es)
           l1 == IF ci = 0 THEN l
                 ELSE IF ci <= l.committed THEN Fatal(l)
                 ELSE append(l, ci - 1, SubSeq(es, ci - index, Len(es)))
           n  == Least(c, index + Len(es))
           q  == maybe_append(l, index, c, es)
<1>1. /\ l1 \in LogType /\ l1.fatal = l.fatal /\ l1.committed = l.committed
      /\ l1.ents = l.ents \/ (l1.ents = A /\ ~Within(A, l.ents))
      /\ Within(A, l1.ents)
      /\ First(l1.ents, l.committed) = First(l.ents, l.committed)
  BY Appended
<1>2. q = commit_to(l1, n) BY DEF maybe_append
<1> HIDE DEF l1
<1>3. A \in Seq(Entry) /\ Len(A) \in Nat /\ l.committed \in Nat /\ l1.ents \in Seq(Entry)
      /\ Len(l1.ents) \in Nat
  BY <1>1, LogFields DEF Logs
<1>4. n \in Nat /\ n <= Len(A) /\ n = Least(c, Len(A)) BY <1>3 DEF Least
<1>5. n <= Len(l1.ents) BY <1>1, <1>3, <1>4 DEF Within
<1> HIDE DEF n, q
<1>6. q.ents = l1.ents /\ q.fatal = l1.fatal
      /\ q.committed = IF l1.committed >= n THEN l1.committed ELSE n
  BY <1>1, <1>2, <1>4, <1>5, CommitToFacts
<1>7. Sure(G, H, First(q.ents, q.committed), T)
  <2>1. CASE l1.committed >= n
    <3>1. First(q.ents, q.committed) = First(l.ents, l.committed) BY <1>1, <1>6, <2>1
    <3> QED BY <3>1
  <2>2. CASE ~(l1.committed >= n)
    <3>1. First(A, n) = First(l1.ents, n) BY <1>1, <1>3, <1>4, FirstSame
    <3>2. First(q.ents, q.committed) = First(A, n) BY <1>6, <2>2, <3>1
    <3> QED BY <1>4, <3>2
  <2> QED BY <2>1, <2>2
<1>8. l.committed <= q.committed BY <1>1, <1>3, <1>4, <1>6
<1>9. q.ents = l.ents \/ (q.ents \in G /\ Led(G, q.ents, T) /\ ~Within(q.ents, l.ents))
  BY <1>1, <1>6
<1>10. Takes(G, H, T, l, q) BY <1>1, <1>6, <1>7, <1>8, <1>9 DEF Takes
<1>11. Within(A, q.ents) BY <1>1, <1>6
<1> QED BY <1>10, <1>11 DEF q

\* A log that commits what is committed
LEMMA CommitTakes ==
    ASSUME NEW G, NEW H, NEW T, NEW l \in LogType, ~l.fatal,
           Sure(G, H, First(l.ents, l.committed), T),
           NEW n \in Nat, n <= Len(l.ents), Sure(G, H, First(l.ents, n), T)
    PROVE  Takes(G, H, T, l, commit_to(l, n))
<1> DEFINE q == commit_to(l, n)
<1>1. q.ents = l.ents /\ q.fatal = l.fatal
      /\ q.committed = IF l.committed >= n THEN l.committed ELSE n
  BY CommitToFacts
<1>2. l.committed \in Nat BY LogFields
<1> HIDE DEF q
<1>3. Sure(G, H, First(q.ents, q.committed), T)
  <2>1. CASE l.committed >= n BY <1>1, <2>1
  <2>2. CASE ~(l.committed >= n) BY <1>1, <2>2
  <2> QED BY <2>1, <2>2
<1>4. l.committed <= q.committed BY <1>1, <1>2
<1>5. Takes(G, H, T, l, q) BY <1>1, <1>3, <1>4 DEF Takes
<1> QED BY <1>5 DEF q

\* A log that stays as it is
LEMMA SameTakes ==
    ASSUME NEW G, NEW H, NEW T, NEW l \in LogType, ~l.fatal,
           Sure(G, H, First(l.ents, l.committed), T)
    PROVE  Takes(G, H, T, l, l)
  BY LogFields DEF Takes

\* The part of a log that a snapshot replaces
LEMMA RestoreTakes ==
    ASSUME NEW E, NEW G, Logs(E, G), NEW H, NEW T, NEW l \in LogType, l.ents \in G, ~l.fatal,
           NEW s \in G, s # <<>>, Led(G, s, T), Sure(G, H, s, T), l.committed < Len(s),
           ~match_term(l, Len(s), s[Len(s)].term)
    PROVE  Takes(G, H, T, l, log_restore(l, s))
<1> DEFINE q == log_restore(l, s)
           n == Len(s)
<1>1. s \in Seq(Entry) /\ n \in Nat /\ 0 < n /\ l.committed \in Nat /\ l.offset \in Nat
      /\ l.offset <= l.committed /\ l.ents \in Seq(Entry)
  <2>1. s \in Seq(Entry) BY DEF Logs
  <2>2. Len(s) # 0 BY <2>1
  <2> QED BY <2>1, <2>2, LogFields
<1>2. q.ents = s /\ q.fatal = l.fatal /\ q.committed = n
  BY LogFields DEF log_restore, LogRecord
<1>3. ~Within(s, l.ents)
  <2> SUFFICES ASSUME Within(s, l.ents) PROVE FALSE OBVIOUS
  <2>1. n <= Len(l.ents) /\ l.ents[n] = s[n] BY <1>1 DEF Within
  <2>2. ~(n = 0 \/ n < l.offset \/ n > last_index(l)) BY <1>1, <2>1, LogFields DEF last_index
  <2>3. term(l, n) = s[n].term BY <2>1, <2>2 DEF term
  <2> QED BY <2>3 DEF match_term
<1>4. First(s, n) = s BY <1>1, FirstFacts
<1> HIDE DEF q
<1>5. Sure(G, H, First(q.ents, q.committed), T) BY <1>2, <1>4
<1>6. l.committed <= q.committed BY <1>1, <1>2
<1>7. Takes(G, H, T, l, q) BY <1>2, <1>3, <1>5, <1>6 DEF Takes
<1> QED BY <1>7 DEF q

\* A follower that has taken over what its leader sent, and answers
LEMMA AnswerOutcome ==
    ASSUME NEW N, NEW B, NEW E, NEW G, NEW H, NEW i \in Node, Up(N, i), NEW m \in MessageType,
           m.term = N[i].term, m.from # i, <<m.term, m.from>> \in E,
           NEW q \in RaftType, q.id = i, q.term = N[i].term, q.vote = N[i].vote,
           q.state = "Follower", q.lead = m.from, q.msgs = {},
           NEW l \in LogType, Takes(G, H, m.term, N[i].raft_log, l),
           NEW y \in MessageType, y.to = m.from,
           \/ y.type = "MsgHeartbeatResp"
           \/ /\ y.type = "MsgAppResp"
              /\ \/ y.reject \/ y.index = 0
                 \/ \E A \in G : Len(A) = y.index /\ Within(A, l.ents) /\ Led(G, A, m.term)
    PROVE  LET s == send([q EXCEPT !.raft_log = l], y) IN Outcome(N, B, E, G, H, i, s, s.msgs)
<1> DEFINE a == [q EXCEPT !.raft_log = l]
           s == send(a, y)
           x == Stamped(a, y)
<1>1. /\ a \in RaftType /\ a.id = i /\ a.term = m.term /\ a.vote = N[i].vote
      /\ a.state = "Follower" /\ a.lead = m.from /\ a.msgs = {} /\ a.raft_log = l
  BY DEF RaftType
<1> HIDE DEF a
<1>2. s = [a EXCEPT !.msgs = @ \cup {x}] BY DEF send
<1>3. /\ x.type = y.type /\ x.from = i /\ x.to = m.from /\ x.term = m.term
      /\ x.reject = y.reject /\ x.index = y.index
  <2>1. y.type \notin CampaignType \cup {"MsgProp"} BY DEF CampaignType
  <2>2. x = [y EXCEPT !.from = i, !.term = m.term] BY <1>1, <2>1 DEF Stamped
  <2> HIDE DEF x
  <2> QED BY <2>2 DEF MessageType
<1> HIDE DEF x, s
<1>4. /\ s.id = i /\ s.term = m.term /\ s.vote = N[i].vote
      /\ s.state = "Follower" /\ s.lead = m.from /\ s.msgs = {x} /\ s.raft_log = l
  BY <1>1, <1>2 DEF RaftType
<1>5. \A z \in s.msgs : Replies(G, s, z) BY <1>3, <1>4 DEF Replies
<1>6. N[i].term \in Nat BY RaftFields DEF Up
<1>7. Follows(G, H, N[i], m, s) BY <1>4, <1>6 DEF Follows
<1>8. VotesFor(N, i, s) /\ Stands(N[i], s) /\ N[i].term <= s.term
  BY <1>4, <1>6 DEF VotesFor, Stands
<1>9. Outcome(N, B, E, G, H, i, s, s.msgs) BY <1>4, <1>5, <1>7, <1>8 DEF Outcome
<1> QED BY <1>9 DEF s, a
\* Node i gets m of the leader of its term.
Heard(N, E, G, H, i, m) ==
    /\ Logs(E, G) /\ Complete(N, G, H) /\ Acks(N, G, H) /\ Elections(N, E)
    /\ NodeOK(E, G, H, i, N[i]) /\ MsgOK(N, E, G, H, m)
    /\ m.type \in LeaderMsg /\ m.term = N[i].term /\ m.to = i

\* It has become q, which handles m.
Hears(N, i, m, q) ==
    /\ q \in RaftType /\ q.id = i /\ q.term = N[i].term /\ q.vote = N[i].vote
    /\ q.state = "Follower" /\ q.lead = m.from /\ q.msgs = {} /\ q.raft_log = N[i].raft_log

\* What it knows then
LEMMA HeardFacts ==
    ASSUME NEW N, NEW E, NEW G, NEW H, NEW i \in Node, Up(N, i), NEW m \in MessageType,
           Heard(N, E, G, H, i, m)
    PROVE  LET l == N[i].raft_log
           IN  /\ l \in LogType /\ ~l.fatal /\ l.ents \in G /\ l.ents \in Seq(Entry)
               /\ l.committed \in Nat /\ l.committed <= Len(l.ents)
               /\ Sure(G, H, First(l.ents, l.committed), m.term)
               /\ m.term \in Nat /\ 1 < m.term
               /\ m.from \in Node /\ m.from # i /\ <<m.term, m.from>> \in E
<1>1. N[i].raft_log \in LogType /\ ~N[i].raft_log.fatal BY RaftFields DEF Up
<1>2. N[i].raft_log.ents \in G /\ Sure(G, H, First(N[i].raft_log.ents, N[i].raft_log.committed), m.term)
  BY DEF Heard, NodeOK
<1>3. m.from # i /\ <<m.term, m.from>> \in E BY DEF Heard, MsgOK
<1>4. m.term \in Nat /\ m.from \in Node BY DEF MessageType
<1>5. 1 < m.term
  <2>1. <<m.term, m.from>>[1] > 1 BY <1>3 DEF Heard, Elections
  <2> QED BY <1>4, <2>1
<1> QED BY <1>1, <1>2, <1>3, <1>4, <1>5, LogFields

\* An answer after work on the log
LEMMA HearsOutcome ==
    ASSUME NEW N, NEW B, NEW E, NEW G, NEW H, NEW i \in Node, Up(N, i), NEW m \in MessageType,
           Heard(N, E, G, H, i, m), NEW q, Hears(N, i, m, q),
           NEW l \in LogType, Takes(G, H, m.term, N[i].raft_log, l),
           NEW y \in MessageType, y.to = m.from,
           \/ y.type = "MsgHeartbeatResp"
           \/ /\ y.type = "MsgAppResp"
              /\ \/ y.reject \/ y.index = 0
                 \/ \E A \in G : Len(A) = y.index /\ Within(A, l.ents) /\ Led(G, A, m.term),
           NEW s, s = send([q EXCEPT !.raft_log = l], y)
    PROVE  Outcome(N, B, E, G, H, i, s, s.msgs)
<1>1. m.from # i /\ <<m.term, m.from>> \in E /\ m.term = N[i].term BY HeardFacts DEF Heard
<1>2. /\ q \in RaftType /\ q.id = i /\ q.term = N[i].term /\ q.vote = N[i].vote
      /\ q.state = "Follower" /\ q.lead = m.from /\ q.msgs = {}
  BY DEF Hears
<1>3. LET z == send([q EXCEPT !.raft_log = l], y) IN Outcome(N, B, E, G, H, i, z, z.msgs)
  BY <1>1, <1>2, AnswerOutcome
<1> QED BY <1>3

\* An answer without any
LEMMA SameOutcome ==
    ASSUME NEW N, NEW B, NEW E, NEW G, NEW H, NEW i \in Node, Up(N, i), NEW m \in MessageType,
           Heard(N, E, G, H, i, m), NEW q, Hears(N, i, m, q),
           NEW y \in MessageType, y.to = m.from, y.type = "MsgAppResp",
           \/ y.reject \/ y.index = 0
           \/ \E A \in G : Len(A) = y.index /\ Within(A, N[i].raft_log.ents) /\ Led(G, A, m.term),
           NEW s, s = send(q, y)
    PROVE  Outcome(N, B, E, G, H, i, s, s.msgs)
<1> DEFINE l == N[i].raft_log
<1>1. [q EXCEPT !.raft_log = l] = q BY DEF Hears, RaftType
<1>2. l \in LogType /\ Takes(G, H, m.term, l, l) BY HeardFacts, SameTakes
<1>3. s = send([q EXCEPT !.raft_log = l], y) BY <1>1
<1> QED BY <1>2, <1>3, HearsOutcome

\* Raft::handle_append_entries
LEMMA HandleAppendEntriesOutcome ==
    ASSUME NEW N, NEW B, NEW E, NEW G, NEW H, NEW i \in Node, Up(N, i), NEW m \in MessageType,
           Heard(N, E, G, H, i, m), m.type = "MsgApp", NEW q, Hears(N, i, m, q)
    PROVE  LET s == handle_append_entries(q, m) IN Outcome(N, B, E, G, H, i, s, s.msgs)
<1> DEFINE s == handle_append_entries(q, m)
           l == N[i].raft_log
           T == m.term
           resp == NewMessage("MsgAppResp", m.from)
<1>1. /\ l \in LogType /\ ~l.fatal /\ l.ents \in G /\ l.ents \in Seq(Entry)
      /\ l.committed \in Nat /\ l.committed <= Len(l.ents)
      /\ Sure(G, H, First(l.ents, l.committed), m.term)
      /\ T \in Nat /\ 1 < T /\ m.from \in Node
  BY HeardFacts
<1>2. PICK A \in G : /\ Len(A) = m.index + Len(m.entries)
                     /\ \A k \in 1..Len(m.entries) : m.entries[k] = A[m.index + k]
                     /\ m.log_term = LastTerm(First(A, m.index))
                     /\ Led(G, A, m.term)
                     /\ Sure(G, H, First(A, Least(m.commit, Len(A))), m.term)
  BY DEF Heard, MsgOK, AppOK
<1>3. Logs(E, G) /\ Complete(N, G, H) /\ G \subseteq Seq(Entry) BY DEF Heard, Logs
<1>4. m.index \in Nat /\ m.commit \in Nat /\ m.entries \in Seq(Entry) BY DEF MessageType
<1>5. q.raft_log = l BY DEF Hears
<1>6. CASE m.index < l.committed
  <2> DEFINE y == [resp EXCEPT !.index = l.committed]
             C == First(l.ents, l.committed)
  <2>1. s = send(q, y) BY <1>5, <1>6 DEF handle_append_entries
  <2>2. y \in MessageType BY <1>1, ReplyType
  <2>3. y.to = m.from /\ y.type = "MsgAppResp" /\ y.index = l.committed BY DEF NewMessage
  <2>4. C \in G /\ Len(C) = l.committed /\ Within(C, l.ents) /\ C \in Seq(Entry)
    BY <1>1, <1>3, LogsFirst, FirstFacts
  <2>5. Led(G, C, T)
    <3>1. PICK D \in G : LastTerm(D) = T BY <1>2 DEF Led
    <3>2. Sure(G, H, C, T) BY <1>1
    <3> HIDE DEF C, T
    <3> QED BY <1>1, <1>3, <2>4, <3>1, <3>2, SureLed
  <2> HIDE DEF y, s, C
  <2>6. Outcome(N, B, E, G, H, i, s, s.msgs) BY <2>1, <2>2, <2>3, <2>4, <2>5, SameOutcome
  <2> QED BY <2>6 DEF s
<1>7. CASE ~(m.index < l.committed) /\ match_term(l, m.index, m.log_term)
  <2> DEFINE y == [resp EXCEPT !.index = m.index + Len(m.entries)]
             l2 == maybe_append(l, m.index, m.commit, m.entries)
  <2>1. s = send([q EXCEPT !.raft_log = l2], y) BY <1>5, <1>7 DEF handle_append_entries
  <2>2. m.index + Len(m.entries) \in Nat BY <1>4
  <2>3. y \in MessageType BY <1>1, <2>2, ReplyType
  <2>4. y.to = m.from /\ y.type = "MsgAppResp" /\ y.index = m.index + Len(m.entries)
    BY DEF NewMessage
  <2>5. l2 \in LogType BY <1>1, <1>4, MaybeAppendType
  <2>6. l.committed <= m.index BY <1>1, <1>4, <1>7
  <2>7. match_term(l, m.index, LastTerm(First(A, m.index))) BY <1>2, <1>7
  <2>8. Takes(G, H, T, l, l2) /\ Within(A, l2.ents)
    BY <1>1, <1>2, <1>3, <1>4, <2>6, <2>7, MaybeAppendTakes
  <2> HIDE DEF y, s, l2
  <2>9. Outcome(N, B, E, G, H, i, s, s.msgs)
    BY <1>2, <2>1, <2>3, <2>4, <2>5, <2>8, HearsOutcome
  <2> QED BY <2>9 DEF s
<1>8. CASE ~(m.index < l.committed) /\ ~match_term(l, m.index, m.log_term)
  <2> DEFINE y == [resp EXCEPT !.index = m.index, !.reject = TRUE,
                               !.reject_hint = last_index(l)]
  <2>1. s = send(q, y) BY <1>5, <1>8 DEF handle_append_entries
  <2>2. last_index(l) \in Nat BY <1>1, LogFields DEF last_index
  <2>3. y \in MessageType BY <1>1, <1>4, <2>2, ReplyType
  <2>4. y.to = m.from /\ y.type = "MsgAppResp" /\ y.reject BY DEF NewMessage
  <2> HIDE DEF y, s
  <2>5. Outcome(N, B, E, G, H, i, s, s.msgs) BY <2>1, <2>3, <2>4, SameOutcome
  <2> QED BY <2>5 DEF s
<1> QED BY <1>6, <1>7, <1>8

\* Raft::handle_heartbeat
LEMMA HandleHeartbeatOutcome ==
    ASSUME NEW N, NEW B, NEW E, NEW G, NEW H, NEW i \in Node, Up(N, i), NEW m \in MessageType,
           Heard(N, E, G, H, i, m), m.type = "MsgHeartbeat", NEW q, Hears(N, i, m, q)
    PROVE  LET s == handle_heartbeat(q, m) IN Outcome(N, B, E, G, H, i, s, s.msgs)
<1> DEFINE s == handle_heartbeat(q, m)
           l == N[i].raft_log
           T == m.term
           y == NewMessage("MsgHeartbeatResp", m.from)
           l2 == commit_to(l, m.commit)
<1>1. /\ l \in LogType /\ ~l.fatal /\ l.ents \in G /\ l.ents \in Seq(Entry)
      /\ l.committed \in Nat /\ l.committed <= Len(l.ents)
      /\ Sure(G, H, First(l.ents, l.committed), m.term)
      /\ T \in Nat /\ 1 < T /\ m.from \in Node
  BY HeardFacts
<1>2. BeatOK(G, H, m) BY DEF Heard, MsgOK
<1>3. Logs(E, G) /\ Acks(N, G, H) /\ G \subseteq Seq(Entry) /\ m.to = i /\ T = N[i].term
  BY DEF Heard, Logs
<1>4. m.commit \in Nat BY DEF MessageType
<1>5. s = send([q EXCEPT !.raft_log = l2], y) BY DEF handle_heartbeat, Hears
<1>6. y \in MessageType BY <1>1, ReplyType
<1>7. y.to = m.from /\ y.type = "MsgHeartbeatResp" BY DEF NewMessage
<1>8. l2 \in LogType BY <1>1, <1>4, CommitToType
<1>9. Takes(G, H, T, l, l2)
  <2>1. CASE m.commit = 0
    <3>1. l2 = l BY <1>1, <2>1 DEF commit_to
    <3> QED BY <1>1, <3>1, SameTakes
  <2>2. CASE m.commit # 0
    <3>1. PICK A \in G : Len(A) = m.commit /\ <<i, T, A>> \in H /\ Sure(G, H, A, T)
      BY <1>2, <1>3, <2>2 DEF BeatOK
    <3>2. Ack(N, G, H, i, T, A) BY <1>1, <1>3, <3>1 DEF Acks
    <3>3. Within(A, l.ents) BY <1>3, <3>2 DEF Ack
    <3>4. m.commit <= Len(l.ents) BY <3>1, <3>3 DEF Within
    <3>5. First(l.ents, m.commit) = A BY <1>1, <1>3, <3>1, <3>3, WithinFirst
    <3>6. Sure(G, H, First(l.ents, m.commit), T) BY <3>1, <3>5
    <3> QED BY <1>1, <1>4, <3>4, <3>6, CommitTakes
  <2> QED BY <2>1, <2>2
<1> HIDE DEF s, y, l2
<1>10. Outcome(N, B, E, G, H, i, s, s.msgs) BY <1>5, <1>6, <1>7, <1>8, <1>9, HearsOutcome
<1> QED BY <1>10 DEF s

\* Raft::handle_snapshot
LEMMA HandleSnapshotOutcome ==
    ASSUME NEW N, NEW B, NEW E, NEW G, NEW H, NEW i \in Node, Up(N, i), NEW m \in MessageType,
           Heard(N, E, G, H, i, m), m.type = "MsgSnap", NEW q, Hears(N, i, m, q)
    PROVE  LET s == handle_snapshot(q, m) IN Outcome(N, B, E, G, H, i, s, s.msgs)
<1> DEFINE s == handle_snapshot(q, m)
           l == N[i].raft_log
           T == m.term
           S == m.snapshot
           n == Len(S)
           y == NewMessage("MsgAppResp", m.from)
<1>1. /\ l \in LogType /\ ~l.fatal /\ l.ents \in G /\ l.ents \in Seq(Entry)
      /\ l.committed \in Nat /\ l.committed <= Len(l.ents)
      /\ Sure(G, H, First(l.ents, l.committed), m.term)
      /\ T \in Nat /\ 1 < T /\ m.from \in Node
  BY HeardFacts
<1>2. S \in G /\ S # <<>> /\ Led(G, S, T) /\ Sure(G, H, S, T) BY DEF Heard, MsgOK, SnapOK
<1>3. Logs(E, G) /\ G \subseteq Seq(Entry) BY DEF Heard, Logs
<1>4. S \in Seq(Entry) /\ n \in Nat /\ 0 < n
  <2>1. S \in Seq(Entry) BY <1>2, <1>3
  <2> QED BY <1>2, <2>1
<1>5. q.raft_log = l BY DEF Hears
<1>6. y \in MessageType BY <1>1, ReplyType
<1>7. y.to = m.from /\ y.type = "MsgAppResp" /\ y.index = 0 BY DEF NewMessage
<1>8. CASE n <= l.committed
  <2>1. s = send(q, y) BY <1>5, <1>8 DEF handle_snapshot
  <2> HIDE DEF y, s
  <2>2. Outcome(N, B, E, G, H, i, s, s.msgs) BY <1>6, <1>7, <2>1, SameOutcome
  <2> QED BY <2>2 DEF s
<1>9. CASE ~(n <= l.committed) /\ match_term(l, n, S[n].term)
  <2> DEFINE l2 == commit_to(l, n)
  <2>1. s = send([q EXCEPT !.raft_log = l2], y) BY <1>5, <1>9 DEF handle_snapshot
  <2>2. l2 \in LogType BY <1>1, <1>4, CommitToType
  <2>3. First(S, n) = S BY <1>4, FirstFacts
  <2>4. LastTerm(S) = S[n].term BY <1>4 DEF LastTerm
  <2>5. l.offset <= n
    <3>1. l.offset \in Nat /\ l.offset <= l.committed BY <1>1, LogFields, SMTT(30)
    <3> HIDE DEF l, n
    <3> QED BY <1>1, <1>4, <1>9, <3>1
  <2>6. match_term(l, n, LastTerm(First(S, n))) BY <1>9, <2>3, <2>4
  <2>7. n <= Len(l.ents) /\ First(l.ents, n) = First(S, n)
    BY <1>1, <1>2, <1>3, <1>4, <2>5, <2>6, MatchTermFirst
  <2>8. Sure(G, H, First(l.ents, n), T) BY <1>2, <2>3, <2>7
  <2>9. Takes(G, H, T, l, l2) BY <1>1, <1>4, <2>7, <2>8, CommitTakes
  <2> HIDE DEF y, s, l2
  <2>10. Outcome(N, B, E, G, H, i, s, s.msgs)
    BY <1>6, <1>7, <2>1, <2>2, <2>9, HearsOutcome
  <2> QED BY <2>10 DEF s
<1>10. CASE ~(n <= l.committed) /\ ~match_term(l, n, S[n].term)
  <2> DEFINE l2 == log_restore(l, S)
  <2>1. s = send([q EXCEPT !.raft_log = l2], y) BY <1>5, <1>10 DEF handle_snapshot
  <2>2. l.committed < n BY <1>1, <1>4, <1>10
  <2>3. l2 \in LogType BY <1>1, <1>4, <2>2, LogRestoreType
  <2>4. Takes(G, H, T, l, l2) BY <1>1, <1>2, <1>3, <1>10, <2>2, RestoreTakes
  <2> HIDE DEF y, s, l2
  <2>5. Outcome(N, B, E, G, H, i, s, s.msgs)
    BY <1>6, <1>7, <2>1, <2>3, <2>4, HearsOutcome
  <2> QED BY <2>5 DEF s
<1> QED BY <1>8, <1>9, <1>10

\* Whatever the leader sends, handling it is following it.
LEMMA LeaderMessageOutcome ==
    ASSUME NEW N, NEW B, NEW E, NEW G, NEW H, NEW i \in Node, Up(N, i), NEW m \in MessageType,
           Heard(N, E, G, H, i, m), NEW q, Hears(N, i, m, q)
    PROVE  LET s == handle_leader_message(q, m) IN Outcome(N, B, E, G, H, i, s, s.msgs)
<1> DEFINE s == handle_leader_message(q, m)
<1>1. m.type \in LeaderMsg BY DEF Heard
<1>2. CASE m.type = "MsgApp"
  <2>1. s = handle_append_entries(q, m) BY <1>2 DEF handle_leader_message
  <2> QED BY <1>2, <2>1, HandleAppendEntriesOutcome
<1>3. CASE m.type = "MsgHeartbeat"
  <2>1. s = handle_heartbeat(q, m) BY <1>3 DEF handle_leader_message
  <2> QED BY <1>3, <2>1, HandleHeartbeatOutcome
<1>4. CASE m.type = "MsgSnap"
  <2>1. s = handle_snapshot(q, m) BY <1>4 DEF handle_leader_message
  <2> QED BY <1>4, <2>1, HandleSnapshotOutcome
<1> QED BY <1>1, <1>2, <1>3, <1>4 DEF LeaderMsg
-----------------------------------------------------------------------------
(* What a node does with a message of its term. *)

\* The nodes are safe, and node i is between events.
Ready(N, W, B, E, G, H, i) ==
    /\ Ground(N, W, B, E) /\ Safe(N, W, B, E, G, H)
    /\ \A e, f \in E : e[1] = f[1] => e = f
    /\ N[i].msgs = {} /\ N[i].state # "PreCandidate"
    /\ N[i].state = "Candidate" => \A v \in N[i].granted : <<v, N[i].term, i>> \in B

\* m is a message to node i, of its term, or a call of its own server.
Due(N, B, E, G, H, i, m) ==
    /\ m \in MessageType /\ m.type \notin {"MsgPreVote", "MsgPreVoteResp"}
    /\ \/ /\ MsgOK(N, E, G, H, m) /\ m.to = i
          /\ m.term = N[i].term \/ m.type = "MsgProp"
          /\ Grant(m) => <<m.from, m.term, m.to>> \in B
       \/ m.type = "MsgProp" /\ m.term = 0 /\ m.entries # <<>>
       \/ m.type = "MsgTransferLeader" /\ m.term = 0

\* What a node then is
LEMMA ReadyFacts ==
    ASSUME NEW N, NEW W, NEW B, NEW E, NEW G, NEW H, NEW i \in Node, Ready(N, W, B, E, G, H, i)
    PROVE  /\ Up(N, i) /\ NodeOK(E, G, H, i, N[i])
           /\ N[i].state \in {"Candidate", "Leader"} => 1 < N[i].term
           /\ N[i].state = "Leader" => Leading(N[i])
           /\ N[i].state \in {"Follower", "Candidate", "Leader"}
           /\ N[i].raft_log \in LogType /\ N[i].raft_log.committed \in Nat
<1>1. N[i] \in RaftType /\ N[i].id = i /\ 0 < N[i].term /\ N[i].msgs = {}
      /\ N[i].state # "PreCandidate"
  BY DEF Ready, Ground
<1>2. NodeOK(E, G, H, i, N[i]) BY DEF Ready, Safe
<1>3. ~N[i].raft_log.fatal /\ (N[i].state \in {"Candidate", "Leader"} => 1 < N[i].term)
      /\ (N[i].state = "Leader" => View(H, N[i]))
  BY <1>2 DEF NodeOK
<1>4. N[i].state = "Leader" => Leading(N[i]) BY <1>1, <1>3 DEF Leading, View, Viewed
<1>5. N[i].state \in StateType BY <1>1, RaftFields
<1>6. N[i].state \in {"Follower", "Candidate", "Leader"} BY <1>1, <1>5 DEF StateType
<1>7. Up(N, i) BY <1>1, <1>3 DEF Up
<1> QED BY <1>1, <1>2, <1>3, <1>4, <1>6, <1>7, RaftFields, LogFields

\* A node that does nothing
LEMMA StayOutcome ==
    ASSUME NEW N, NEW W, NEW B, NEW E, NEW G, NEW H, NEW i \in Node, Ready(N, W, B, E, G, H, i)
    PROVE  Outcome(N, B, E, G, H, i, N[i], N[i].msgs)
<1>1. /\ Up(N, i) /\ N[i].state \in {"Follower", "Candidate", "Leader"}
      /\ N[i].state = "Leader" => Leading(N[i])
      /\ N[i].state \in {"Candidate", "Leader"} => 1 < N[i].term
      /\ N[i].msgs = {} /\ N[i] \in RaftType /\ N[i].term \in Nat /\ N[i].id = i
      /\ ~N[i].raft_log.fatal
  BY ReadyFacts, RaftFields DEF Up
<1>2. CASE N[i].state = "Leader"
  <2> DEFINE K == {}
  <2>1. Real(G, H, K, N[i].term) BY DEF Real
  <2> HIDE DEF K
  <2>2. Onward(N[i], K, N[i]) BY <1>1, <1>2, HeadStart
  <2>3. Quiet(N[i], N[i]) BY <1>1, QuietRefl
  <2> QED BY <1>1, <1>2, <2>1, <2>2, <2>3, HeadOutcome
<1>3. CASE N[i].state # "Leader"
  <2>1. Rests(N[i], N[i]) BY <1>1, <1>3, SameLogRests
  <2> QED BY <1>1, <1>3, <2>1, RestOutcome
<1> QED BY <1>2, <1>3

\* A follower passes a call on to its leader.
LEMMA ForwardOutcome ==
    ASSUME NEW N, NEW W, NEW B, NEW E, NEW G, NEW H, NEW i \in Node, Ready(N, W, B, E, G, H, i),
           N[i].state = "Follower", NEW m, Due(N, B, E, G, H, i, m),
           m.type \in {"MsgProp", "MsgTransferLeader"}
    PROVE  LET s == forward(N[i], m) IN Outcome(N, B, E, G, H, i, s, s.msgs)
<1> DEFINE r == N[i]
           s == forward(r, m)
           w == [m EXCEPT !.to = r.lead]
           x == Stamped(r, w)
<1>1. /\ Up(N, i) /\ NodeOK(E, G, H, i, r)
      /\ r \in RaftType /\ r.id = i /\ 0 < r.term /\ r.term \in Nat /\ ~r.raft_log.fatal /\ r.msgs = {}
      /\ r.lead \in Node \cup {Nil}
  BY ReadyFacts, RaftFields DEF Up
<1>2. \A e, f \in E : e[1] = f[1] => e = f BY DEF Ready
<1>3. m \in MessageType
      /\ (m.type = "MsgProp" => m.term = 0 /\ m.entries # <<>>)
      /\ (m.type = "MsgTransferLeader" => m.term = 0 \/ (<<m.term, i>> \in E /\ m.term = r.term))
  BY DEF Due, MsgOK
<1>4. r.lead # Nil => <<r.term, r.lead>> \in E /\ r.lead # i BY <1>1 DEF NodeOK
<1>5. CASE r.lead = Nil
  <2>1. s = r BY <1>5 DEF forward
  <2> QED BY <2>1, StayOutcome
<1>6. CASE r.lead # Nil /\ m.term # 0
  <2>1. <<r.term, i>> \in E /\ <<r.term, r.lead>> \in E /\ r.lead # i
    BY <1>3, <1>4, <1>6
  <2>2. <<r.term, i>>[1] = <<r.term, r.lead>>[1] OBVIOUS
  <2>3. <<r.term, i>> = <<r.term, r.lead>> BY <1>2, <2>1, <2>2
  <2> QED BY <2>1, <2>3
<1>7. CASE r.lead # Nil /\ m.term = 0
  <2>1. s = send(r, w) BY <1>7 DEF forward
  <2>2. r.lead \in Node BY <1>1, <1>7
  <2>3. w \in MessageType /\ w.type = m.type /\ w.to = r.lead /\ w.term = 0 /\ w.entries = m.entries
    <3> HIDE DEF r
    <3> QED BY <1>3, <1>7, <2>2 DEF MessageType
  <2> HIDE DEF w
  <2>4. /\ x.type = m.type /\ x.from = i /\ x.to = r.lead /\ x.entries = m.entries
        /\ x.term = IF m.type = "MsgProp" THEN 0 ELSE r.term
    <3>1. m.type \notin CampaignType BY DEF CampaignType
    <3>2. x = [w EXCEPT !.from = i,
                        !.term = IF m.type = "MsgProp" THEN @ ELSE r.term]
      BY <1>1, <2>3, <3>1 DEF Stamped
    <3> HIDE DEF x, r
    <3> QED BY <2>3, <3>2 DEF MessageType
  <2>5. s = [r EXCEPT !.msgs = @ \cup {x}] BY <2>1 DEF send
  <2> HIDE DEF x, s
  <2>6. /\ s.id = i /\ s.term = r.term /\ s.vote = r.vote /\ s.state = "Follower"
        /\ s.lead = r.lead /\ s.raft_log = r.raft_log /\ s.msgs = {x}
    BY <1>1, <2>5 DEF RaftType
  <2>7. Sends(E, s, x) BY <1>1, <1>3, <1>4, <1>7, <2>4, <2>6 DEF Sends
  <2>8. Rests(N[i], s) BY <1>1, <2>6, SameLogRests
  <2>9. Outcome(N, B, E, G, H, i, s, s.msgs) BY <1>1, <2>6, <2>7, <2>8, RestOutcome
  <2> QED BY <2>9 DEF s
<1> QED BY <1>5, <1>6, <1>7

\* A leader's handling of a message of its term
LEMMA StepLeaderOutcome ==
    ASSUME NEW N, NEW W, NEW B, NEW E, NEW G, NEW H, NEW i \in Node, Ready(N, W, B, E, G, H, i),
           N[i].state = "Leader", NEW m, Due(N, B, E, G, H, i, m)
    PROVE  LET s == step_leader(N[i], m) IN Outcome(N, B, E, G, H, i, s, s.msgs)
<1> DEFINE r == N[i]
           L == r.raft_log.ents
           s == step_leader(r, m)
<1>1. Up(N, i) /\ Leading(r) /\ r.id = i /\ r \in RaftType /\ m \in MessageType
  BY ReadyFacts DEF Up, Due
<1>2. NodeOK(E, G, H, i, r) /\ Logs(E, G) /\ Acks(N, G, H) BY ReadyFacts DEF Ready, Safe
<1>3. m.type \in {"MsgAppResp", "MsgHeartbeatResp"} =>
         m.from # i /\ m.term = r.term /\ MsgOK(N, E, G, H, m)
  BY DEF Due, MsgOK
<1>4. m.type = "MsgProp" => m.entries # <<>> BY DEF Due, MsgOK
<1>5. ASSUME m.type = "MsgAppResp", ~m.reject
      PROVE  /\ m.index <= Len(L)
             /\ m.index = 0 \/ \E A \in G : Len(A) = m.index /\ <<m.from, r.term, A>> \in H
  <2>1. m.index = 0 \/ \E A \in G : Len(A) = m.index /\ <<m.from, r.term, A>> \in H
    BY <1>3, <1>5 DEF MsgOK, RespOK
  <2>2. L \in Seq(Entry) /\ Len(L) \in Nat /\ r.term \in Nat /\ m.from \in Node
    BY <1>1, RaftFields, LogFields DEF MessageType
  <2>3. CASE m.index = 0 BY <2>2, <2>3
  <2>4. CASE m.index # 0
    <3>1. PICK A \in G : Len(A) = m.index /\ <<m.from, r.term, A>> \in H BY <2>1, <2>4
    <3>2. Ack(N, G, H, m.from, r.term, A) BY <1>2, <2>2, <3>1 DEF Acks
    <3>3. PICK D \in G : LastTerm(D) = r.term /\ Within(A, D) BY <3>2 DEF Ack, Led
    <3>4. Within(D, L) BY <1>2, <3>3 DEF NodeOK
    <3>5. Len(A) <= Len(D) /\ Len(D) <= Len(L) BY <3>3, <3>4 DEF Within
    <3>6. A \in Seq(Entry) /\ D \in Seq(Entry) BY <1>2 DEF Logs
    <3>7. Len(A) \in Nat /\ Len(D) \in Nat BY <3>6
    <3> HIDE DEF L
    <3>8. m.index <= Len(L) BY <2>2, <3>1, <3>5, <3>7
    <3> QED BY <2>1, <3>8
  <2> QED BY <2>3, <2>4
<1>6. PICK K : /\ Onward(r, K, s)
               /\ K = {} \/ (m.type = "MsgAppResp" /\ ~m.reject /\ K = {<<m.from, m.index>>})
  BY <1>1, <1>3, <1>4, <1>5, StepLeaderHead
<1>7. Real(G, H, K, r.term)
  <2>1. CASE K = {} BY <2>1 DEF Real
  <2>2. CASE m.type = "MsgAppResp" /\ ~m.reject /\ K = {<<m.from, m.index>>}
    BY <1>5, <2>2 DEF Real
  <2> QED BY <1>6, <2>1, <2>2
<1>8. Quiet(r, s) BY <1>1, StepLeaderQuiet
<1> HIDE DEF s
<1>9. Outcome(N, B, E, G, H, i, s, s.msgs) BY <1>1, <1>6, <1>7, <1>8, HeadOutcome
<1> QED BY <1>9 DEF s

\* A follower's handling of a message of its term
LEMMA StepFollowerOutcome ==
    ASSUME NEW N, NEW W, NEW B, NEW E, NEW G, NEW H, NEW i \in Node, Ready(N, W, B, E, G, H, i),
           N[i].state = "Follower", NEW m, Due(N, B, E, G, H, i, m)
    PROVE  LET s == step_follower(N[i], m) IN Outcome(N, B, E, G, H, i, s, s.msgs)
<1> DEFINE r == N[i]
           s == step_follower(r, m)
<1>1. Up(N, i) /\ r.id = i /\ r \in RaftType /\ m \in MessageType /\ r.msgs = {}
  BY ReadyFacts DEF Up, Due
<1>2. CASE m.type \in LeaderMsg
  <2> DEFINE q == [r EXCEPT !.past = FALSE, !.lead = m.from]
  <2>1. s = handle_leader_message(q, m)
    <3> HIDE DEF r
    <3> QED BY <1>2 DEF step_follower, LeaderMsg
  <2>2. Heard(N, E, G, H, i, m)
    BY <1>2, ReadyFacts DEF Heard, Ready, Safe, Due, LeaderMsg
  <2>3. m.from \in Node BY <1>1 DEF MessageType
  <2>4. Hears(N, i, m, q) BY <1>1, <2>3 DEF Hears, RaftType
  <2> HIDE DEF q
  <2>5. LET z == handle_leader_message(q, m) IN Outcome(N, B, E, G, H, i, z, z.msgs)
    BY <1>1, <2>2, <2>4, LeaderMessageOutcome
  <2> QED BY <2>1, <2>5
<1>3. CASE m.type \in {"MsgProp", "MsgTransferLeader"}
  <2>1. s = forward(r, m) BY <1>3 DEF step_follower, LeaderMsg
  <2> QED BY <1>3, <2>1, ForwardOutcome
<1>4. CASE m.type = "MsgTimeoutNow"
  <2> DEFINE yes == TRUE
  <2>1. s = campaign(r, yes) BY <1>4 DEF step_follower, LeaderMsg
  <2>2. Alike(N[i], r) BY DEF Alike
  <2>3. yes \in BOOLEAN OBVIOUS
  <2> HIDE DEF yes, r, s
  <2>4. Outcome(N, B, E, G, H, i, campaign(r, yes), campaign(r, yes).msgs)
    BY <1>1, <2>2, <2>3, CampaignOutcome
  <2>5. Outcome(N, B, E, G, H, i, s, s.msgs) BY <2>1, <2>4
  <2> QED BY <2>5 DEF s, r
<1>5. CASE m.type \notin LeaderMsg \cup {"MsgProp", "MsgTransferLeader", "MsgTimeoutNow"}
  <2>1. s = r BY <1>5 DEF step_follower
  <2> QED BY <2>1, StayOutcome
<1> QED BY <1>2, <1>3, <1>4, <1>5

\* A candidate's handling of a message of its term
LEMMA StepCandidateOutcome ==
    ASSUME NEW N, NEW W, NEW B, NEW E, NEW G, NEW H, NEW i \in Node, Ready(N, W, B, E, G, H, i),
           N[i].state = "Candidate", NEW m, Due(N, B, E, G, H, i, m)
    PROVE  LET s == step_candidate(N[i], m) IN Outcome(N, B, E, G, H, i, s, s.msgs)
<1> DEFINE r == N[i]
           s == step_candidate(r, m)
<1>1. /\ Up(N, i) /\ r.id = i /\ r \in RaftType /\ m \in MessageType /\ r.msgs = {}
      /\ 1 < r.term /\ r.term \in Nat
  BY ReadyFacts, RaftFields DEF Up, Due
<1>2. CASE m.type \in LeaderMsg
  <2> DEFINE q == become_follower(r, m.term, m.from)
  <2>1. s = handle_leader_message(q, m)
    <3> HIDE DEF r
    <3> QED BY <1>2 DEF step_candidate, LeaderMsg
  <2>2. Heard(N, E, G, H, i, m)
    BY <1>2, ReadyFacts DEF Heard, Ready, Safe, Due, LeaderMsg
  <2>3. m.from \in Node \cup {Nil} /\ m.term \in Nat BY <1>1 DEF MessageType
  <2>4. m.term = r.term BY <2>2 DEF Heard
  <2>5. /\ q \in RaftType /\ q.id = r.id /\ q.term = m.term /\ q.lead = m.from
        /\ q.vote = r.vote /\ q.state = "Follower"
        /\ q.raft_log = r.raft_log /\ q.msgs = r.msgs
    <3> DEFINE t == m.term
               d == m.from
    <3>1. r \in RaftType /\ t \in Nat /\ d \in Node \cup {Nil} /\ t = r.term BY <1>1, <2>3, <2>4
    <3> HIDE DEF r, t, d
    <3>2. LET z == become_follower(r, t, d)
          IN  /\ z \in RaftType /\ z.id = r.id /\ z.term = t /\ z.lead = d
              /\ z.vote = (IF r.term # t THEN Nil ELSE r.vote) /\ z.state = "Follower"
              /\ z.raft_log = r.raft_log /\ z.msgs = r.msgs /\ z.granted = {}
      BY <3>1, FollowerFields
    <3> QED BY <3>1, <3>2 DEF t, d
  <2> HIDE DEF q
  <2>6. Hears(N, i, m, q) BY <1>1, <2>4, <2>5 DEF Hears
  <2>7. LET z == handle_leader_message(q, m) IN Outcome(N, B, E, G, H, i, z, z.msgs)
    BY <1>1, <2>2, <2>6, LeaderMessageOutcome
  <2> QED BY <2>1, <2>7
<1>3. CASE m.type = "MsgVoteResp"
  <2>1. s = step_vote_resp(r, m) BY <1>3 DEF step_candidate, LeaderMsg
  <2>2. \A v \in r.granted : <<v, r.term, i>> \in B BY DEF Ready
  <2>3. ~m.reject => <<m.from, r.term, i>> \in B BY <1>3 DEF Due, Grant
  <2>4. Outcome(N, B, E, G, H, i, step_vote_resp(r, m), step_vote_resp(r, m).msgs)
    BY <1>1, <2>2, <2>3, StepVoteRespOutcome
  <2> QED BY <2>1, <2>4
<1>4. CASE m.type \notin LeaderMsg \cup {"MsgVoteResp"}
  <2>1. m.type # "MsgPreVoteResp" BY DEF Due
  <2>2. s = r BY <1>4, <2>1 DEF step_candidate
  <2> QED BY <2>2, StayOutcome
<1> QED BY <1>2, <1>3, <1>4

\* Whatever its role
LEMMA RoleOutcome ==
    ASSUME NEW N, NEW W, NEW B, NEW E, NEW G, NEW H, NEW i \in Node, Ready(N, W, B, E, G, H, i),
           NEW m, Due(N, B, E, G, H, i, m)
    PROVE  LET s == step_role(N[i], m) IN Outcome(N, B, E, G, H, i, s, s.msgs)
<1> DEFINE r == N[i]
           s == step_role(r, m)
<1>1. /\ Up(N, i) /\ r.state \in {"Follower", "Candidate", "Leader"}
      /\ m.type \notin {"MsgPreVote", "MsgPreVoteResp"} /\ m \in MessageType
  BY ReadyFacts DEF Due
<1>2. CASE m.type = "MsgVote"
  <2>1. s = step_vote(r, m) BY <1>2 DEF step_role
  <2>2. m.term = r.term /\ m.from # i /\ VoteOK(N, m) BY <1>2 DEF Due, MsgOK
  <2>3. Outcome(N, B, E, G, H, i, step_vote(r, m), step_vote(r, m).msgs)
    BY <1>1, <1>2, <2>2, ReadyFacts, StepVoteOutcome
  <2> QED BY <2>1, <2>3
<1>3. CASE m.type # "MsgVote" /\ r.state = "Leader"
  <2>1. s = step_leader(r, m) BY <1>1, <1>3 DEF step_role
  <2> QED BY <1>3, <2>1, StepLeaderOutcome
<1>4. CASE m.type # "MsgVote" /\ r.state = "Follower"
  <2>1. s = step_follower(r, m) BY <1>1, <1>4 DEF step_role
  <2> QED BY <1>4, <2>1, StepFollowerOutcome
<1>5. CASE m.type # "MsgVote" /\ r.state = "Candidate"
  <2>1. s = step_candidate(r, m) BY <1>1, <1>5 DEF step_role
  <2> QED BY <1>5, <2>1, StepCandidateOutcome
<1> QED BY <1>1, <1>2, <1>3, <1>4, <1>5
-----------------------------------------------------------------------------
(* The other events. *)

\* The answer to a leader of an earlier term
LEMMA LowerTermOutcome ==
    ASSUME NEW N, NEW W, NEW B, NEW E, NEW G, NEW H, NEW i \in Node, Ready(N, W, B, E, G, H, i),
           NEW m \in MessageType, m.type # "MsgPreVote", m.from # i
    PROVE  LET s == step_lower_term(N[i], m) IN Outcome(N, B, E, G, H, i, s, s.msgs)
<1> DEFINE r == N[i]
           s == step_lower_term(r, m)
           w == NewMessage("MsgAppResp", m.from)
           x == Stamped(r, w)
<1>1. /\ Up(N, i) /\ r.id = i /\ r \in RaftType /\ r.msgs = {} /\ 0 < r.term /\ r.term \in Nat
      /\ r.state \in {"Follower", "Candidate", "Leader"} /\ ~r.raft_log.fatal
      /\ (r.state \in {"Candidate", "Leader"} => 1 < r.term)
      /\ (r.state = "Leader" => Leading(r))
  BY ReadyFacts, RaftFields DEF Up
<1>2. s = send(r, w) \/ s = r BY DEF step_lower_term
<1>3. CASE s = r BY <1>3, StayOutcome
<1>4. CASE s = send(r, w)
  <2>1. w \in MessageType /\ w.type = "MsgAppResp" /\ w.to = m.from /\ w.index = 0
    <3>1. m.from \in Node BY DEF MessageType
    <3>2. w \in MessageType BY <3>1, NewMessageType DEF MsgType
    <3> QED BY <3>2 DEF NewMessage
  <2> HIDE DEF w
  <2>2. x.type = "MsgAppResp" /\ x.from = i /\ x.to = m.from /\ x.index = 0 /\ x.term = r.term
    <3>1. w.type \notin CampaignType \cup {"MsgProp"} BY <2>1 DEF CampaignType
    <3>2. x = [w EXCEPT !.from = i, !.term = r.term] BY <1>1, <3>1 DEF Stamped
    <3> HIDE DEF x, r
    <3> QED BY <2>1, <3>2 DEF MessageType
  <2>3. s = [r EXCEPT !.msgs = @ \cup {x}] BY <1>4 DEF send
  <2> HIDE DEF x, s
  <2>4. /\ s.id = i /\ s.term = r.term /\ s.vote = r.vote /\ s.state = r.state
        /\ s.lead = r.lead /\ s.raft_log = r.raft_log /\ s.msgs = {x} /\ s.prs = r.prs
    BY <1>1, <2>3 DEF RaftType
  <2>5. Sends(E, s, x) BY <1>1, <2>2 DEF Sends
  <2>6. CASE r.state # "Leader"
    <3>1. Rests(N[i], s) BY <1>1, <2>4, <2>6, SameLogRests
    <3>2. Outcome(N, B, E, G, H, i, s, s.msgs) BY <1>1, <2>4, <2>5, <3>1, RestOutcome
    <3> QED BY <3>2 DEF s
  <2>7. CASE r.state = "Leader"
    <3> DEFINE K == {}
    <3>1. Real(G, H, K, s.term) BY DEF Real
    <3> HIDE DEF K
    <3>2. Leads(r, K, r) BY <1>1, <2>7, HeadStart DEF Onward
    <3>3. Leads(r, K, s)
      <4> HIDE DEF r
      <4> QED BY <1>1, <2>4, <3>2 DEF Leads
    <3>4. Wins(N, B, i, s) BY <2>4, <2>7 DEF Wins
    <3>5. VotesFor(N, i, s) /\ Stands(N[i], s) /\ N[i].term <= s.term /\ 1 < s.term
      BY <1>1, <2>4, <2>7 DEF VotesFor, Stands
    <3>6. \A z \in s.msgs : LeaderSays(s, z) \/ Sends(E, s, z) BY <2>4, <2>5
    <3>7. Outcome(N, B, E, G, H, i, s, s.msgs)
      BY <2>4, <3>1, <3>3, <3>4, <3>5, <3>6 DEF Outcome
    <3> QED BY <3>7 DEF s
  <2> QED BY <2>6, <2>7
<1> QED BY <1>2, <1>3, <1>4

\* Stepping down, or starting again
LEMMA DownOutcome ==
    ASSUME NEW N, NEW W, NEW B, NEW E, NEW G, NEW H, NEW i \in Node, Ready(N, W, B, E, G, H, i),
           NEW r \in RaftType, r.id = i, r.term = N[i].term, r.vote = N[i].vote, r.msgs = {},
           r.raft_log.ents = N[i].raft_log.ents, ~r.raft_log.fatal,
           r.raft_log.committed <= N[i].raft_log.committed
    PROVE  LET s == become_follower(r, r.term, Nil) IN Outcome(N, B, E, G, H, i, s, s.msgs)
<1> DEFINE t == r.term
           s == become_follower(r, t, Nil)
<1>1. Up(N, i) /\ t = N[i].term /\ t \in Nat /\ Nil \in Node \cup {Nil}
  BY ReadyFacts, RaftFields
<1> HIDE DEF t
<1>2. /\ s.id = r.id /\ s.term = t /\ s.lead = Nil
      /\ s.vote = (IF r.term # t THEN Nil ELSE r.vote) /\ s.state = "Follower"
      /\ s.raft_log = r.raft_log /\ s.msgs = r.msgs
  <2>1. LET z == become_follower(r, t, Nil)
        IN  /\ z \in RaftType /\ z.id = r.id /\ z.term = t /\ z.lead = Nil
            /\ z.vote = (IF r.term # t THEN Nil ELSE r.vote) /\ z.state = "Follower"
            /\ z.raft_log = r.raft_log /\ z.msgs = r.msgs /\ z.granted = {}
    BY <1>1, FollowerFields
  <2> QED BY <2>1
<1> HIDE DEF s
<1>3. s.vote = N[i].vote BY <1>1, <1>2 DEF t
<1>4. Rests(N[i], s) BY <1>1, <1>2 DEF Rests
<1>5. Outcome(N, B, E, G, H, i, s, s.msgs) BY <1>1, <1>2, <1>3, <1>4, RestOutcome
<1> QED BY <1>5 DEF s, t

\* tick_heartbeat
LEMMA TickHeartbeatOutcome ==
    ASSUME NEW N, NEW W, NEW B, NEW E, NEW G, NEW H, NEW i \in Node, Ready(N, W, B, E, G, H, i),
           N[i].state = "Leader"
    PROVE  LET s == bcast_heartbeat(N[i]) IN Outcome(N, B, E, G, H, i, s, s.msgs)
<1> DEFINE s == bcast_heartbeat(N[i])
           K == {}
<1>1. Up(N, i) /\ Leading(N[i]) /\ N[i] \in RaftType BY ReadyFacts DEF Up
<1>2. Work(N[i], s) BY <1>1, BcastHeartbeatWork DEF Leading
<1>3. Quiet(N[i], s) BY <1>1, BcastHeartbeatQuiet
<1>4. Real(G, H, K, N[i].term) BY DEF Real
<1> HIDE DEF s, K
<1>5. Onward(N[i], K, s) BY <1>1, <1>2, WorkLeads
<1>6. Outcome(N, B, E, G, H, i, s, s.msgs) BY <1>1, <1>3, <1>4, <1>5, HeadOutcome
<1> QED BY <1>6 DEF s

\* tick_heartbeat when an election timeout has passed
LEMMA TickQuorumOutcome ==
    ASSUME NEW N, NEW W, NEW B, NEW E, NEW G, NEW H, NEW i \in Node, Ready(N, W, B, E, G, H, i),
           N[i].state = "Leader"
    PROVE  LET s == tick_quorum(N[i]) IN Outcome(N, B, E, G, H, i, s, s.msgs)
<1> DEFINE r == N[i]
           s == tick_quorum(r)
           a == [r EXCEPT !.lead_transferee = Nil]
<1>1. /\ Up(N, i) /\ Leading(r) /\ r \in RaftType /\ r.id = i /\ r.msgs = {}
      /\ Nil \in Node \cup {Nil} /\ Viewed(r) /\ ~r.raft_log.fatal
  BY ReadyFacts DEF Up, Leading
<1>2. s = become_follower(r, r.term, Nil) \/ s = bcast_heartbeat(a) BY DEF tick_quorum
<1>3. CASE s = become_follower(r, r.term, Nil)
  <2>1. LET z == become_follower(r, r.term, Nil) IN Outcome(N, B, E, G, H, i, z, z.msgs)
    <3> DEFINE q == r
    <3>1. q = N[i] OBVIOUS
    <3>2. r.raft_log.committed <= r.raft_log.committed BY <1>1, RaftFields, LogFields
    <3> HIDE DEF r
    <3> QED BY <1>1, <3>1, <3>2, DownOutcome DEF r
  <2> QED BY <1>3, <2>1
<1>4. CASE s = bcast_heartbeat(a)
  <2> DEFINE K == {}
  <2>1. Real(G, H, K, r.term) BY DEF Real
  <2>2. Quiet(r, a) BY <1>1, QuietTransfer
  <2>3. a.prs = r.prs /\ a.lead = r.lead /\ a.raft_log = r.raft_log /\ a.msgs = r.msgs
        /\ a \in RaftType
    <3> HIDE DEF r
    <3> QED BY <1>1 DEF RaftType
  <2>4. Work(r, a)
    <3> HIDE DEF a, r
    <3> QED BY <1>1, <2>2, <2>3, SayWork
  <2> HIDE DEF K, a, s
  <2>5. Viewed(a) BY <2>4, WorkViewed
  <2>6. Work(a, s) /\ Quiet(a, s) BY <1>4, <2>3, <2>5, BcastHeartbeatWork, BcastHeartbeatQuiet
  <2>7. Work(r, s) /\ Quiet(r, s) BY <2>2, <2>4, <2>6, WorkTrans, QuietTrans
  <2>8. Onward(r, K, s) BY <1>1, <2>7, WorkLeads
  <2>9. Outcome(N, B, E, G, H, i, s, s.msgs) BY <1>1, <2>1, <2>7, <2>8, HeadOutcome
  <2> QED BY <2>9 DEF s
<1> QED BY <1>2, <1>3, <1>4

\* A new process over a WAL that has the entries of the log and no others
LEMMA ReloadOutcome ==
    ASSUME NEW N, NEW W, NEW B, NEW E, NEW G, NEW H, NEW i \in Node, Ready(N, W, B, E, G, H, i),
           N[i].raft_log.wal = N[i].raft_log.ents, NEW c \in SavedCommits(N[i].raft_log)
    PROVE  LET s == Reload(N[i], c) IN Outcome(N, B, E, G, H, i, s, s.msgs)
<1> DEFINE r == N[i]
           l == r.raft_log
           l2 == replay_WAL(l, c)
           q == [r EXCEPT !.raft_log = l2]
<1>1. /\ Up(N, i) /\ r \in RaftType /\ r.id = i /\ r.msgs = {} /\ ~l.fatal /\ l \in LogType
  BY ReadyFacts DEF Up
<1>2. /\ l2 \in LogType /\ l2.fatal = l.fatal /\ l2.ents = l.wal
      /\ l2.committed = c /\ c <= l.committed
  BY <1>1, ReplayType
<1>3. l2.ents = l.ents /\ l2.committed <= l.committed BY <1>2
<1> HIDE DEF l2
<1>4. /\ q \in RaftType /\ q.id = i /\ q.term = r.term /\ q.vote = r.vote /\ q.msgs = {}
      /\ q.raft_log = l2
  <2> HIDE DEF r, l
  <2> QED BY <1>1, <1>2 DEF RaftType
<1>5. Reload(r, c) = become_follower(q, q.term, Nil) BY <1>4 DEF Reload, l2
<1> HIDE DEF q
<1>6. LET z == become_follower(q, q.term, Nil) IN Outcome(N, B, E, G, H, i, z, z.msgs)
  BY <1>1, <1>2, <1>3, <1>4, DownOutcome
<1> QED BY <1>5, <1>6

\* tick_election past the timeout, without pre-votes
LEMMA HupOutcome ==
    ASSUME PreVote = FALSE, NEW N, NEW W, NEW B, NEW E, NEW G, NEW H, NEW i \in Node,
           Ready(N, W, B, E, G, H, i)
    PROVE  LET s == step_hup([N[i] EXCEPT !.past = FALSE])
           IN  Outcome(N, B, E, G, H, i, s, s.msgs)
<1> DEFINE p == [N[i] EXCEPT !.past = FALSE]
           no == FALSE
           s == step_hup(p)
<1>1. Up(N, i) /\ N[i] \in RaftType /\ N[i].msgs = {} BY ReadyFacts DEF Up
<1>2. s = campaign(p, no) BY DEF step_hup
<1>3. p \in RaftType /\ p.msgs = {} /\ Alike(N[i], p) BY <1>1 DEF RaftType, Alike
<1>4. no \in BOOLEAN OBVIOUS
<1> HIDE DEF p, no, s
<1>5. Outcome(N, B, E, G, H, i, campaign(p, no), campaign(p, no).msgs)
  BY <1>1, <1>3, <1>4, CampaignOutcome
<1>6. Outcome(N, B, E, G, H, i, s, s.msgs) BY <1>2, <1>5
<1> QED BY <1>6 DEF s, p
-----------------------------------------------------------------------------
(* Every step. *)

\* No node loses what it has known to be committed.
AllKeep == \A i \in Node : Keeps(node[i], node'[i], peak[i])

\* Between two events every node is as ElectionInv says.
LEMMA InvReady ==
    ASSUME ElectionInv, NEW G, NEW H, Safe(node, net, ballots, elected, G, H), NEW i \in Node
    PROVE  Ready(node, net, ballots, elected, G, H, i)
<1>1. Ground(node, net, ballots, elected) BY InvGround
<1>2. \A e, f \in elected : e[1] = f[1] => e = f BY InvIsSafe DEF ElectionSafety
<1>3. node[i].msgs = {} /\ node[i].state # "PreCandidate"
      /\ (node[i].state = "Candidate" =>
            \A v \in node[i].granted : <<v, node[i].term, i>> \in ballots)
  BY DEF ElectionInv, Settled, NoPreVotes, VotesAreReal
<1> QED BY <1>1, <1>2, <1>3 DEF Ready

\* A node whose log does not change keeps what it has.
LEMMA KeepsRefl ==
    ASSUME NEW N, NEW P, NEW G, NEW H, Peaks(N, P, G, H), NEW j \in Node, NEW s,
           s.raft_log = N[j].raft_log
    PROVE  Keeps(N[j], s, P[j])
<1>1. P[j] <= Len(N[j].raft_log.ents) BY DEF Peaks
<1> QED BY <1>1 DEF Keeps

\* An event of one of the three kinds
LEMMA EventStep ==
    ASSUME ElectionInv, ElectionInv', NEW i \in Node, NEW s \in RaftType,
           NEW rest, PartOf(rest), Event(i, s, rest), NEW N,
           \A j \in Node : j # i => N[j] = node[j], N[i].raft_log = node[i].raft_log,
           NEW W, NEW B, NEW E, W = net, B = ballots, E = elected,
           Ground(N, W, B, E), NEW G, NEW H, Safe(N, W, B, E, G, H), Peaks(N, peak, G, H),
           Outcome(N, B, E, G, H, i, s, s.msgs)
    PROVE  SafetyInv' /\ AllKeep
<1>1. TypeOK BY DEF ElectionInv
<1>2. SafetyInv' /\ Keeps(N[i], node'[i], peak[i]) BY <1>1, EventSafe
<1>3. Keeps(node[i], node'[i], peak[i]) BY <1>2 DEF Keeps
<1>4. \A j \in Node : j # i => node'[j] = node[j] BY <1>1 DEF Event, TypeOK
<1>5. ASSUME NEW j \in Node PROVE Keeps(node[j], node'[j], peak[j])
  <2>1. CASE j = i BY <1>3, <2>1
  <2>2. CASE j # i
    <3>1. N[j] = node[j] /\ node'[j].raft_log = N[j].raft_log BY <1>4, <2>2
    <3>2. Keeps(N[j], node'[j], peak[j]) BY <3>1, KeepsRefl
    <3> QED BY <3>1, <3>2
  <2> QED BY <2>1, <2>2
<1> QED BY <1>2, <1>5 DEF AllKeep

\* Raft::step of a message without a term of its own, or of the node's term
LEMMA RoleStep ==
    ASSUME ElectionInv, ElectionInv', NEW i \in Node, NEW rest, PartOf(rest),
           NEW G, NEW H, Safe(node, net, ballots, elected, G, H),
           Peaks(node, peak, G, H),
           NEW m, Due(node, ballots, elected, G, H, i, m), m.term = 0 \/ m.term = node[i].term,
           m.type \in LeaderMsg => m.term > 0, Event(i, step(node[i], m), rest)
    PROVE  SafetyInv' /\ AllKeep
<1> DEFINE s == step_role(node[i], m)
           W == net
           B == ballots
           E == elected
<1>1. step(node[i], m) = s
  <2>1. m.term \in Nat /\ node[i] \in RaftType BY DEF Due, MessageType, ElectionInv, TypeOK
  <2>2. node[i].term \in Nat BY <2>1, RaftFields
  <2>3. m.term = 0 => ~(m.term > node[i].term) BY <2>1, <2>2
  <2>4. m.term = node[i].term => ~(m.term > node[i].term) BY <2>1, <2>2
  <2> QED BY <2>3, <2>4 DEF step
<1>2. Ready(node, W, B, E, G, H, i) BY InvReady
<1>3. Ground(node, W, B, E) /\ node[i] \in RaftType BY <1>2 DEF Ready, Ground
<1>4. s \in RaftType
  <2>1. Sane(node[i], step(node[i], m)) BY <1>3, StepSane DEF Due
  <2> HIDE DEF s
  <2> QED BY <1>1, <2>1 DEF Sane
<1>5. Outcome(node, B, E, G, H, i, s, s.msgs) BY <1>2, RoleOutcome
<1>6. Event(i, s, rest) BY <1>1
<1> HIDE DEF s
<1> QED BY <1>3, <1>4, <1>5, <1>6, EventStep

\* A message of a later term: the node catches up, and then handles it.
LEMMA CatchUpStep ==
    ASSUME ElectionInv, ElectionInv', NEW G, NEW H, Safe(node, net, ballots, elected, G, H),
           Peaks(node, peak, G, H),
           NEW m \in net, NEW i, i = m.to, m.term > node[i].term, ~Ignored(node[i], m),
           Event(i, step(node[i], m), Without(m))
    PROVE  SafetyInv' /\ AllKeep
<1> DEFINE W == net
           B == ballots
           E == elected
           c == CatchUpTerm(node[i], m)
           N == [node EXCEPT ![i] = c]
           s == step_role(c, m)
<1>1. /\ m \in MessageType /\ i \in Node /\ m.term \in Nat /\ node \in [Node -> RaftType]
      /\ node[i] \in RaftType /\ node[i].term \in Nat /\ m.from \in Node
  <2>1. m \in MessageType /\ node \in [Node -> RaftType] BY DEF ElectionInv, TypeOK
  <2>2. i \in Node /\ m.term \in Nat /\ m.from \in Node BY <2>1 DEF MessageType
  <2> QED BY <2>1, <2>2, RaftFields
<1>2. /\ m.type \notin {"MsgPreVote", "MsgPreVoteResp"} /\ node[i].msgs = {}
      /\ (Grant(m) => <<m.from, m.term, m.to>> \in B)
      /\ (m.type \in LeaderMsg => m.term > 0)
  BY <1>1 DEF ElectionInv, NoPreVotes, Settled, VotesAreReal
<1>3. step(node[i], m) = s
  <2>1. ~(m.term = 0 \/ m.term = node[i].term) BY <1>1
  <2> QED BY <2>1 DEF step
<1>4. /\ c \in RaftType /\ c.id = node[i].id /\ c.msgs = node[i].msgs
      /\ c.term = m.term /\ c.state = "Follower"
  BY <1>1, <1>2, CatchUpTermFacts
<1>5. c.raft_log = node[i].raft_log
  <2> DEFINE d == IF m.type \in LeaderMsg THEN m.from ELSE Nil
  <2>1. c = become_follower(node[i], m.term, d) BY <1>2 DEF CatchUpTerm
  <2>2. d \in Node \cup {Nil} BY <1>1
  <2> HIDE DEF c, d
  <2> DEFINE r == node[i]
             t == m.term
  <2>3. r \in RaftType /\ t \in Nat BY <1>1
  <2>4. c = become_follower(r, t, d) BY <2>1
  <2> HIDE DEF r, t
  <2>5. LET z == become_follower(r, t, d)
        IN  /\ z \in RaftType /\ z.id = r.id /\ z.term = t /\ z.lead = d
            /\ z.vote = (IF r.term # t THEN Nil ELSE r.vote) /\ z.state = "Follower"
            /\ z.raft_log = r.raft_log /\ z.msgs = r.msgs /\ z.granted = {}
    BY <2>2, <2>3, FollowerFields
  <2>6. c.raft_log = r.raft_log BY <2>4, <2>5
  <2> QED BY <2>6 DEF r
<1> HIDE DEF c
<1>6. N \in [Node -> RaftType] /\ N[i] = c /\ \A j \in Node : j # i => N[j] = node[j]
  BY <1>1, <1>4
<1> HIDE DEF N
<1>7. Ground(node, W, B, E) /\ \A e, f \in E : e[1] = f[1] => e = f
  BY InvGround, InvIsSafe DEF ElectionSafety
<1>8. Ground(N, W, B, E) /\ Sound(N, W, B, E, peak)
  <2>1. N[m.to] = CatchUpTerm(node[m.to], m) /\ \A j \in Node : j # m.to => N[j] = node[j]
    BY <1>6 DEF c
  <2>2. m.term > node[m.to].term OBVIOUS
  <2>3. m \in W /\ Safe(node, W, B, E, G, H) OBVIOUS
  <2> HIDE DEF W, B, E
  <2> QED BY <1>2, <1>6, <1>7, <2>1, <2>2, <2>3, CatchUpSafe
<1>9. PICK G1, H1 : Safe(N, W, B, E, G1, H1) /\ Peaks(N, peak, G1, H1) BY <1>8 DEF Sound
<1>10. Ready(N, W, B, E, G1, H1, i) BY <1>2, <1>4, <1>6, <1>7, <1>8, <1>9 DEF Ready
<1>11. MsgOK(N, E, G1, H1, m) BY <1>9 DEF Safe
<1>12. Due(N, B, E, G1, H1, i, m) BY <1>1, <1>2, <1>4, <1>6, <1>11 DEF Due
<1>13. LET z == step_role(N[i], m) IN Outcome(N, B, E, G1, H1, i, z, z.msgs)
  BY <1>1, <1>10, <1>12, RoleOutcome
<1>14. Outcome(N, B, E, G1, H1, i, s, s.msgs) BY <1>6, <1>13
<1>15. s \in RaftType
  <2>1. Sane(node[i], step(node[i], m)) BY <1>1, <1>2, StepSane
  <2> HIDE DEF s
  <2> QED BY <1>3, <2>1 DEF Sane
<1>16. Event(i, s, Without(m)) BY <1>3
<1>17. PartOf(Without(m)) BY PartsOfWire DEF ElectionInv
<1>18. N[i].raft_log = node[i].raft_log BY <1>5, <1>6
<1>19. W = net /\ B = ballots /\ E = elected OBVIOUS
<1> HIDE DEF s, W, B, E
<1> QED BY <1>1, <1>6, <1>8, <1>9, <1>14, <1>15, <1>16, <1>17, <1>18, <1>19, EventStep

\* RaftNode::process
LEMMA DeliverStep ==
    ASSUME ElectionInv, ElectionInv', NEW G, NEW H, Safe(node, net, ballots, elected, G, H),
           Peaks(node, peak, G, H),
           NEW m \in net, Deliver(m)
    PROVE  SafetyInv' /\ AllKeep
<1> DEFINE i == m.to
           W == net
           B == ballots
           E == elected
           s == step(node[i], m)
<1>1. /\ m \in MessageType /\ i \in Node /\ m.term \in Nat
      /\ node[i] \in RaftType /\ node[i].term \in Nat
  <2>1. m \in MessageType /\ node \in [Node -> RaftType] BY DEF ElectionInv, TypeOK
  <2>2. i \in Node /\ m.term \in Nat BY <2>1 DEF MessageType
  <2> QED BY <2>1, <2>2, RaftFields
<1>2. /\ m.type \notin {"MsgPreVote", "MsgPreVoteResp"}
      /\ (Grant(m) => <<m.from, m.term, m.to>> \in B)
      /\ (m.type \in LeaderMsg => m.term > 0)
  BY DEF ElectionInv, NoPreVotes, Settled, VotesAreReal
<1>3. MsgOK(node, E, G, H, m) BY DEF Safe
<1>4. m.from # i /\ (m.term = 0 => m.type = "MsgProp") BY <1>1, <1>3 DEF MsgOK
<1>5. Event(i, s, Without(m)) BY DEF Deliver, Without
<1>6. Ready(node, W, B, E, G, H, i) /\ Ground(node, W, B, E) BY <1>1, InvReady DEF Ready
<1>7. PartOf(Without(m)) BY PartsOfWire DEF ElectionInv
<1>8. s \in RaftType
  <2>1. Sane(node[i], s) BY <1>1, <1>2, StepSane
  <2> HIDE DEF s
  <2> QED BY <2>1 DEF Sane
<1>9. CASE m.term = 0 \/ m.term = node[i].term
  <2>1. Due(node, B, E, G, H, i, m) BY <1>1, <1>2, <1>3, <1>4, <1>9 DEF Due
  <2> HIDE DEF i
  <2> QED BY <1>1, <1>2, <1>5, <1>7, <1>9, <2>1, RoleStep
<1>10. CASE m.term > node[i].term /\ m.term # 0 /\ ~Ignored(node[i], m)
  BY <1>5, <1>10, CatchUpStep
<1>11. CASE m.term > node[i].term /\ m.term # 0 /\ Ignored(node[i], m)
  <2>1. s = node[i]
    <3>1. ~(m.term = 0 \/ m.term = node[i].term) BY <1>1, <1>11
    <3> QED BY <1>11, <3>1 DEF step
  <2>2. Outcome(node, B, E, G, H, i, node[i], node[i].msgs) BY <1>1, <1>6, StayOutcome
  <2>3. Outcome(node, B, E, G, H, i, s, s.msgs) BY <2>1, <2>2
  <2> HIDE DEF i, s
  <2> QED BY <1>1, <1>5, <1>6, <1>7, <1>8, <2>3, EventStep
<1>12. CASE m.term < node[i].term /\ m.term # 0
  <2>1. s = step_lower_term(node[i], m)
    <3>1. ~(m.term = 0 \/ m.term = node[i].term) /\ ~(m.term > node[i].term)
      BY <1>1, <1>12
    <3> QED BY <3>1 DEF step
  <2>2. LET z == step_lower_term(node[i], m) IN Outcome(node, B, E, G, H, i, z, z.msgs)
    <3>1. m.type # "MsgPreVote" BY <1>2
    <3> HIDE DEF i
    <3> QED BY <1>1, <1>4, <1>6, <3>1, LowerTermOutcome
  <2>3. Outcome(node, B, E, G, H, i, s, s.msgs) BY <2>1, <2>2
  <2> HIDE DEF i, s
  <2> QED BY <1>1, <1>5, <1>6, <1>7, <1>8, <2>3, EventStep
<1> QED BY <1>1, <1>9, <1>10, <1>11, <1>12
\* An event that reads nothing from the network
LEMMA OwnStep ==
    ASSUME ElectionInv, ElectionInv', NEW G, NEW H, Safe(node, net, ballots, elected, G, H),
           Peaks(node, peak, G, H),
           NEW i \in Node, NEW s \in RaftType, Event(i, s, wire),
           NEW W, NEW B, NEW E, W = net, B = ballots, E = elected,
           Outcome(node, B, E, G, H, i, s, s.msgs)
    PROVE  SafetyInv' /\ AllKeep
<1>1. Ground(node, W, B, E) BY InvGround
<1>2. Safe(node, W, B, E, G, H) OBVIOUS
<1>3. PartOf(wire) BY PartsOfWire DEF ElectionInv
<1> QED BY <1>1, <1>2, <1>3, EventStep

\* The events at node i that no message brings
LEMMA TickStep ==
    ASSUME PreVote = FALSE, ElectionInv, ElectionInv', NEW G, NEW H,
           Safe(node, net, ballots, elected, G, H),
           Peaks(node, peak, G, H), NEW i \in Node,
           \/ TickElection(i) \/ TickHeartbeat(i) \/ TickQuorum(i)
           \/ Restart(i) /\ node[i].raft_log.wal = node[i].raft_log.ents
    PROVE  SafetyInv' /\ AllKeep
<1> DEFINE W == net
           B == ballots
           E == elected
           r == node[i]
           h == step_hup([r EXCEPT !.past = FALSE])
           b == bcast_heartbeat(r)
           t == tick_quorum(r)
<1>1. Ready(node, W, B, E, G, H, i) /\ r \in RaftType /\ W = net /\ B = ballots /\ E = elected
  BY InvReady DEF ElectionInv, TypeOK
<1>2. CASE TickElection(i)
  <2>1. Event(i, h, wire) BY <1>2 DEF TickElection
  <2>2. h \in RaftType
    <3> DEFINE q == [r EXCEPT !.past = FALSE]
    <3>1. q \in RaftType BY <1>1 DEF RaftType
    <3> HIDE DEF q
    <3>2. Sane(q, step_hup(q)) BY <3>1, StepHupSane
    <3>3. step_hup(q) \in RaftType BY <3>2 DEF Sane
    <3> QED BY <3>3 DEF q
  <2>3. LET z == h IN Outcome(node, B, E, G, H, i, z, z.msgs) BY <1>1, HupOutcome
  <2>4. Outcome(node, B, E, G, H, i, h, h.msgs) BY <2>3
  <2> HIDE DEF h, W, B, E
  <2> QED BY <1>1, <2>1, <2>2, <2>4, OwnStep
<1>3. CASE TickHeartbeat(i)
  <2>1. Event(i, b, wire) /\ r.state = "Leader" BY <1>3 DEF TickHeartbeat
  <2>2. b \in RaftType
    <3>1. Quiet(r, b) BY <1>1, BcastHeartbeatQuiet
    <3> HIDE DEF b
    <3> QED BY <3>1 DEF Quiet
  <2>3. LET z == b IN Outcome(node, B, E, G, H, i, z, z.msgs)
    BY <1>1, <2>1, TickHeartbeatOutcome
  <2>4. Outcome(node, B, E, G, H, i, b, b.msgs) BY <2>3
  <2> HIDE DEF b, W, B, E
  <2> QED BY <1>1, <2>1, <2>2, <2>4, OwnStep
<1>4. CASE TickQuorum(i)
  <2>1. Event(i, t, wire) /\ r.state = "Leader" BY <1>4 DEF TickQuorum
  <2>2. t \in RaftType
    <3>1. r.term \in Nat /\ r.term <= r.term /\ Nil \in Node \cup {Nil} BY <1>1, RaftFields
    <3>2. Sane(r, become_follower(r, r.term, Nil)) BY <1>1, <3>1, FollowerSane
    <3>3. Sane(r, t)
      <4>1. Quiet(r, t) \/ t = become_follower(r, r.term, Nil) BY <1>1, TickQuorumCases
      <4> HIDE DEF t
      <4> QED BY <1>1, <3>2, <4>1, QuietSane
    <3> HIDE DEF t
    <3> QED BY <3>3 DEF Sane
  <2>3. LET z == t IN Outcome(node, B, E, G, H, i, z, z.msgs)
    BY <1>1, <2>1, TickQuorumOutcome
  <2>4. Outcome(node, B, E, G, H, i, t, t.msgs) BY <2>3
  <2> HIDE DEF t, W, B, E
  <2> QED BY <1>1, <2>1, <2>2, <2>4, OwnStep
<1>5. CASE Restart(i) /\ node[i].raft_log.wal = node[i].raft_log.ents
  <2>0. PICK c \in SavedCommits(r.raft_log) : Event(i, Reload(r, c), wire) BY <1>5 DEF Restart
  <2> DEFINE l == Reload(r, c)
  <2>1. Event(i, l, wire) BY <2>0
  <2>2. l \in RaftType
    <3>1. Sane(r, l) BY <1>1, ReloadFacts
    <3> HIDE DEF l
    <3> QED BY <3>1 DEF Sane
  <2>3. LET z == l IN Outcome(node, B, E, G, H, i, z, z.msgs)
    BY <1>1, <1>5, ReloadOutcome
  <2>4. Outcome(node, B, E, G, H, i, l, l.msgs) BY <2>3
  <2> HIDE DEF l, W, B, E
  <2> QED BY <1>1, <2>1, <2>2, <2>4, OwnStep
<1> QED BY <1>2, <1>3, <1>4, <1>5

\* The calls of the node's own server
LEMMA CallStep ==
    ASSUME ElectionInv, ElectionInv', NEW G, NEW H, Safe(node, net, ballots, elected, G, H),
           Peaks(node, peak, G, H),
           NEW i \in Node,
           \/ \E v \in Value : Propose(i, v)
           \/ \E transferee \in Node : TransferLeadership(i, transferee)
    PROVE  SafetyInv' /\ AllKeep
<1>1. PartOf(wire) BY PartsOfWire DEF ElectionInv
<1>2. ASSUME NEW v \in Value, Propose(i, v) PROVE SafetyInv' /\ AllKeep
  <2> DEFINE e == <<[term |-> 0, data |-> v]>>
             w == NewMessage("MsgProp", i)
             m == [w EXCEPT !.entries = e]
  <2>1. e \in Seq(Entry) /\ e # <<>> BY DEF Entry
  <2>2. w \in MessageType /\ w.type = "MsgProp" /\ w.term = 0
    <3>1. w \in MessageType BY NewMessageType DEF MsgType
    <3> QED BY <3>1 DEF NewMessage
  <2>3. Event(i, step(node[i], m), wire) BY <1>2 DEF Propose
  <2> HIDE DEF e, w
  <2>4. m \in MessageType /\ m.type = "MsgProp" /\ m.term = 0 /\ m.entries # <<>>
    BY <2>1, <2>2 DEF MessageType
  <2> HIDE DEF m
  <2>5. Due(node, ballots, elected, G, H, i, m) BY <2>4 DEF Due
  <2>6. m.type \notin LeaderMsg BY <2>4 DEF LeaderMsg
  <2> QED BY <1>1, <2>3, <2>4, <2>5, <2>6, RoleStep
<1>3. ASSUME NEW transferee \in Node, TransferLeadership(i, transferee)
      PROVE  SafetyInv' /\ AllKeep
  <2> DEFINE w == NewMessage("MsgTransferLeader", i)
             m == [w EXCEPT !.from = transferee]
  <2>1. w \in MessageType /\ w.type = "MsgTransferLeader" /\ w.term = 0
    <3>1. w \in MessageType BY NewMessageType DEF MsgType
    <3> QED BY <3>1 DEF NewMessage
  <2>2. Event(i, step(node[i], m), wire) BY <1>3 DEF TransferLeadership
  <2> HIDE DEF w
  <2>3. m \in MessageType /\ m.type = "MsgTransferLeader" /\ m.term = 0
    BY <2>1 DEF MessageType
  <2> HIDE DEF m
  <2>4. Due(node, ballots, elected, G, H, i, m) BY <2>3 DEF Due
  <2>5. m.type \notin LeaderMsg BY <2>3 DEF LeaderMsg
  <2> QED BY <1>1, <2>2, <2>3, <2>4, <2>5, RoleStep
<1> QED BY <1>2, <1>3

\* The end of a lease
LEMMA LeaseStep ==
    ASSUME ElectionInv, ElectionInv', NEW G, NEW H, Safe(node, net, ballots, elected, G, H),
           Peaks(node, peak, G, H),
           NEW i \in Node, LeaseExpires(i)
    PROVE  SafetyInv' /\ AllKeep
<1> DEFINE W == net
           B == ballots
           E == elected
           M == {}
           p == [node[i] EXCEPT !.past = TRUE]
           N == [node EXCEPT ![i] = p]
<1>1. /\ Ready(node, W, B, E, G, H, i) /\ node \in [Node -> RaftType] /\ node[i] \in RaftType
      /\ Safe(node, W, B, E, G, H)
  BY InvReady DEF ElectionInv, TypeOK
<1>2. /\ node' = N /\ UNCHANGED <<net, ballots, elected, peak>> /\ node[i].state # "Leader"
  BY <1>1 DEF LeaseExpires, net
<1>3. /\ p \in RaftType /\ Alike(node[i], p) /\ p.raft_log = node[i].raft_log
      /\ p.vote = node[i].vote /\ p.term = node[i].term /\ p.state = node[i].state
  BY <1>1 DEF RaftType, Alike
<1> HIDE DEF p
<1>4. N \in [Node -> RaftType] /\ N[i] = p /\ \A j \in Node : j # i => N[j] = node[j]
  BY <1>1, <1>3
<1> HIDE DEF N
<1>5. Outcome(node, B, E, G, H, i, N[i], M)
  <2>1. Outcome(node, B, E, G, H, i, node[i], node[i].msgs) BY <1>1, StayOutcome
  <2>2. node[i].msgs = M BY <1>1 DEF Ready
  <2>3. Outcome(node, B, E, G, H, i, node[i], M) BY <2>1, <2>2
  <2> HIDE DEF M
  <2> QED BY <1>3, <1>4, <2>3, OutcomeAlike
<1>6. Records(N, B, B, E, E, i)
  <2>1. \A e, f \in E : e[1] = f[1] => e = f BY <1>1 DEF Ready
  <2>2. N[i].state # "Leader" BY <1>2, <1>3, <1>4
  <2>3. N[i].vote # Nil => <<i, N[i].term, N[i].vote>> \in B
    BY <1>1, <1>3, <1>4 DEF Safe, Votes
  <2> QED BY <2>1, <2>2, <2>3 DEF Records
<1>a. Raises(peak, peak, i, N[i])
  <2> DEFINE c == node[i].raft_log.committed
  <2>1. N[i].raft_log.committed = c BY <1>3, <1>4
  <2>2. c \in Nat
    <3>1. node[i].raft_log \in LogType BY <1>1, RaftFields
    <3> QED BY <3>1, LogFields
  <2>3. peak[i] \in Nat /\ c <= peak[i] BY DEF Peaks
  <2> HIDE DEF c
  <2>4. Higher(peak[i], c) = peak[i] BY <2>2, <2>3 DEF Higher
  <2> QED BY <2>1, <2>4 DEF Raises
<1>7. Sound(N, W, B, E, peak)
  <2>1. M \in SUBSET MessageType /\ W \subseteq W \cup M OBVIOUS
  <2>2. Ground(node, W, B, E) BY <1>1 DEF Ready
  <2> HIDE DEF W, B, E, M
  <2> QED BY <1>1, <1>4, <1>5, <1>6, <1>a, <2>1, <2>2, OutcomeSafe
<1>8. SafetyInv' BY <1>2, <1>7 DEF SafetyInv
<1>9. ASSUME NEW j \in Node PROVE Keeps(node[j], node'[j], peak[j])
  <2>1. node'[j].raft_log = node[j].raft_log
    <3>1. CASE j = i BY <1>2, <1>3, <1>4, <3>1
    <3>2. CASE j # i BY <1>2, <1>4, <3>2
    <3> QED BY <3>1, <3>2
  <2> QED BY <2>1, KeepsRefl
<1> QED BY <1>8, <1>9 DEF AllKeep

\* A restart finds in the WAL what the log had.
CleanRestart == \A i \in Node : Restart(i) => node[i].raft_log.wal = node[i].raft_log.ents

\* Every step preserves the invariant, and every node keeps what it has committed.
LEMMA NextStep ==
    ASSUME PreVote = FALSE
    PROVE  ElectionInv /\ SafetyInv /\ [Next]_vars /\ [CleanRestart]_vars => SafetyInv' /\ AllKeep
<1> SUFFICES ASSUME ElectionInv, SafetyInv, [Next]_vars, [CleanRestart]_vars
             PROVE  SafetyInv' /\ AllKeep
  OBVIOUS
<1>1. ElectionInv' BY StepElection
<1> DEFINE W == net
           B == ballots
           E == elected
<1>2. PICK G, H : Safe(node, W, B, E, G, H) /\ Peaks(node, peak, G, H) BY DEF SafetyInv, Sound
<1>3. CASE UNCHANGED vars
  <2>1. UNCHANGED <<node, net, ballots, elected, peak>> BY <1>3 DEF vars, net
  <2>2. SafetyInv' BY <2>1 DEF SafetyInv
  <2>3. AllKeep BY <1>2, <2>1, KeepsRefl DEF AllKeep
  <2> QED BY <2>2, <2>3
<1>4. CASE ~(UNCHANGED vars)
  <2>1. Next /\ CleanRestart BY <1>4
  <2>4. Safe(node, net, ballots, elected, G, H) /\ Peaks(node, peak, G, H) BY <1>2
  <2>5. CASE \E i \in Node : TickElection(i) \/ TickHeartbeat(i) \/ TickQuorum(i) \/ Restart(i)
    <3>1. PICK i \in Node : TickElection(i) \/ TickHeartbeat(i) \/ TickQuorum(i) \/ Restart(i)
      BY <2>5
    <3>2. Restart(i) => node[i].raft_log.wal = node[i].raft_log.ents BY <2>1 DEF CleanRestart
    <3> QED BY <1>1, <2>4, <3>1, <3>2, TickStep
  <2>6. CASE \E i \in Node : LeaseExpires(i) BY <1>1, <2>4, <2>6, LeaseStep
  <2>7. CASE \E i \in Node : \/ \E v \in Value : Propose(i, v)
                             \/ \E transferee \in Node : TransferLeadership(i, transferee)
    BY <1>1, <2>4, <2>7, CallStep
  <2>8. CASE \E m \in net : Deliver(m) BY <1>1, <2>4, <2>8, DeliverStep
  <2> QED BY <2>1, <2>5, <2>6, <2>7, <2>8 DEF Next
<1> QED BY <1>3, <1>4
-----------------------------------------------------------------------------
(* The beginning. *)

\* The log of a new cluster
LEMMA BootFacts ==
    /\ Boot \in Seq(Entry) /\ Len(Boot) = Cardinality(Node) /\ Cardinality(Node) \in Nat
    /\ \A k \in 1..Len(Boot) : Boot[k].term = 1
    /\ \A n \in 0..Len(Boot) : LastTerm(First(Boot, n)) \in Nat /\ LastTerm(First(Boot, n)) <= 1
    /\ \A n \in 1..Len(Boot) : LastTerm(First(Boot, n)) = 1
<1> DEFINE n == Cardinality(Node)
           e == [term |-> 1, data |-> Conf]
<1>1. n \in Nat BY QuorumNat
<1>2. e \in Entry /\ e.term = 1 BY DEF Entry
<1> HIDE DEF e, n
<1>3. Boot = [k \in 1..n |-> e] BY DEF Boot, n, e
<1>4. Boot \in [1..n -> Entry] BY <1>2, <1>3
<1>5. Boot \in Seq(Entry) BY <1>1, <1>4, FunctionIsSeq
<1>6. Len(Boot) = n BY <1>1, <1>3, <1>5
<1>7. \A k \in 1..Len(Boot) : Boot[k].term = 1 BY <1>2, <1>3, <1>6
<1>8. \A k \in 1..Len(Boot) : LastTerm(First(Boot, k)) = 1 BY <1>5, <1>7, LastTermFacts
<1>9. LastTerm(First(Boot, 0)) = 0 BY <1>5, LastTermFacts
<1>10. \A k \in 0..Len(Boot) : LastTerm(First(Boot, k)) \in Nat /\ LastTerm(First(Boot, k)) <= 1
  <2> TAKE k \in 0..Len(Boot)
  <2>1. k = 0 \/ k \in 1..Len(Boot) BY <1>1, <1>6
  <2> QED BY <1>8, <1>9, <2>1
<1> QED BY <1>1, <1>5, <1>6, <1>7, <1>8, <1>10 DEF n

\* The logs of a new cluster are the beginnings of its first entries.
Beginnings == {First(Boot, n) : n \in 0..Len(Boot)}

\* They are logs there may have been.
LEMMA BeginningsLogs ==
    ASSUME NEW E
    PROVE  /\ Logs(E, Beginnings) /\ \A A \in Beginnings : Within(A, Boot)
           /\ \A A, B \in Beginnings : LastTerm(A) < LastTerm(B) => Within(A, B)
<1> DEFINE G == Beginnings
<1>1. Boot \in Seq(Entry) /\ Len(Boot) \in Nat BY BootFacts
<1>2. \A A \in G : /\ A \in Seq(Entry) /\ Within(A, Boot) /\ Len(A) \in Nat
                   /\ Len(A) <= Len(Boot) /\ A = First(Boot, Len(A))
  <2> SUFFICES ASSUME NEW n \in 0..Len(Boot)
               PROVE  LET A == First(Boot, n)
                      IN  /\ A \in Seq(Entry) /\ Within(A, Boot) /\ Len(A) \in Nat
                          /\ Len(A) <= Len(Boot) /\ A = First(Boot, Len(A))
    BY DEF Beginnings
  <2>1. n \in Nat /\ n <= Len(Boot) BY <1>1
  <2> QED BY <1>1, <2>1, FirstFacts
<1>3. G \subseteq Seq(Entry) BY <1>2
<1>4. Boot \in G
  <2>1. First(Boot, Len(Boot)) = Boot /\ Len(Boot) \in 0..Len(Boot) BY <1>1, FirstFacts
  <2> QED BY <2>1 DEF Beginnings
<1>5. \A A \in G : \A n \in 0..Len(A) : First(A, n) \in G
  <2> TAKE A \in G
  <2> TAKE n \in 0..Len(A)
  <2>1. n \in Nat /\ n <= Len(A) /\ n \in 0..Len(Boot) BY <1>1, <1>2
  <2>2. A \in Seq(Entry) /\ Within(A, Boot) BY <1>2
  <2>3. First(A, n) = First(Boot, n) BY <1>1, <2>1, <2>2, FirstSame
  <2> QED BY <2>1, <2>3 DEF Beginnings
<1>6. \A A \in G : \A k \in 1..Len(A) : 0 < A[k].term /\ A[k].term <= LastTerm(A)
  <2> TAKE A \in G
  <2> TAKE k \in 1..Len(A)
  <2>1. A \in Seq(Entry) /\ Len(A) \in Nat /\ Len(A) <= Len(Boot) /\ Within(A, Boot)
        /\ A = First(Boot, Len(A))
    BY <1>2
  <2>2. A[k] = Boot[k] /\ k \in 1..Len(Boot) BY <1>1, <2>1 DEF Within
  <2>3. A[k].term = 1 BY <2>2, BootFacts
  <2>4. Len(A) \in 1..Len(Boot) BY <1>1, <2>1
  <2>5. LastTerm(A) = 1 BY <2>1, <2>4, BootFacts
  <2> QED BY <2>3, <2>5
<1>7. \A A \in G : LastTerm(A) \in Nat /\ LastTerm(A) <= 1
  <2> TAKE A \in G
  <2>1. Len(A) \in 0..Len(Boot) /\ A = First(Boot, Len(A)) BY <1>1, <1>2
  <2>2. LastTerm(First(Boot, Len(A))) \in Nat /\ LastTerm(First(Boot, Len(A))) <= 1
    BY <2>1, BootFacts
  <2> QED BY <2>1, <2>2
<1>8. \A A, C \in G : Len(A) <= Len(C) => Within(A, C)
  <2> TAKE A, C \in G
  <2> HAVE Len(A) <= Len(C)
  <2>1. /\ A \in Seq(Entry) /\ C \in Seq(Entry) /\ Within(A, Boot) /\ Within(C, Boot)
    BY <1>2
  <2> QED BY <1>1, <2>1, WithinSame
<1>9. \A A, C \in G : LastTerm(A) < LastTerm(C) => Within(A, C)
  <2> TAKE A, C \in G
  <2> HAVE LastTerm(A) < LastTerm(C)
  <2>1. LastTerm(A) = 0 BY <1>7
  <2>2. Len(A) \in Nat /\ Len(C) \in Nat /\ Len(A) <= Len(Boot) /\ A = First(Boot, Len(A)) BY <1>2
  <2>3. Len(A) = 0
    <3>1. SUFFICES ASSUME Len(A) # 0 PROVE FALSE OBVIOUS
    <3>2. Len(A) \in 1..Len(Boot) BY <1>1, <2>2, <3>1
    <3>3. LastTerm(First(Boot, Len(A))) = 1 BY <3>2, BootFacts
    <3> QED BY <2>1, <2>2, <3>3
  <2>4. Len(A) <= Len(C) BY <2>2, <2>3
  <2> QED BY <1>8, <2>4
<1> HIDE DEF G
<1>10. Logs(E, G) BY <1>2, <1>3, <1>4, <1>5, <1>6, <1>7, <1>8 DEF Logs
<1>11. \A A \in G : Within(A, Boot) BY <1>2
<1> QED BY <1>9, <1>10, <1>11 DEF G

\* A new cluster is safe.
LEMMA InitSafety == Init => SafetyInv
<1> SUFFICES ASSUME Init PROVE SafetyInv OBVIOUS
<1> DEFINE G == Beginnings
           H == {}
           N == node
           W == net
           B == ballots
           E == elected
<1>1. W = {} /\ B = {} /\ E = {} BY EmptyWire DEF Init
<1>2. Boot \in Seq(Entry) /\ Len(Boot) = Cardinality(Node) /\ Len(Boot) \in Nat
      /\ LastTerm(Boot) <= 1 /\ First(Boot, Len(Boot)) = Boot
  <2>1. Boot \in Seq(Entry) /\ Len(Boot) = Cardinality(Node) /\ Len(Boot) \in Nat BY BootFacts
  <2>2. First(Boot, Len(Boot)) = Boot BY <2>1, FirstFacts
  <2>3. Len(Boot) \in 0..Len(Boot) BY <2>1
  <2>4. LastTerm(First(Boot, Len(Boot))) <= 1 BY <2>3, BootFacts
  <2> QED BY <2>1, <2>2, <2>4
<1>3. Logs(E, G) /\ (\A A \in G : Within(A, Boot))
      /\ \A A, C \in G : LastTerm(A) < LastTerm(C) => Within(A, C)
  BY BeginningsLogs
<1>4. ASSUME NEW i \in Node
      PROVE  /\ N[i].raft_log.ents = Boot /\ N[i].raft_log.committed = Len(Boot)
             /\ ~N[i].raft_log.fatal /\ N[i].term = 1 /\ N[i].vote = Nil /\ N[i].lead = Nil
             /\ N[i].state = "Follower"
  <2> DEFINE b == Bootstrap(i)
  <2>1. b \in RaftType /\ b.id = i /\ b.term = 1 /\ b.vote = Nil /\ b.state = "Follower"
    BY BootstrapFacts
  <2>2. b.raft_log.ents = Boot /\ b.raft_log.committed = Cardinality(Node)
        /\ ~b.raft_log.fatal /\ b.lead = Nil
    BY DEF Bootstrap, Boot
  <2> HIDE DEF b
  <2>3. Alike(b, pull_ready_events(b)) BY <2>1, PullAlike
  <2>4. N[i] = pull_ready_events(b) BY DEF Init, b
  <2> QED BY <1>2, <2>1, <2>2, <2>3, <2>4 DEF Alike
<1> HIDE DEF N, W, B, E, G, H
<1>5. Complete(N, G, H) BY <1>3 DEF Complete
<1>6. Acks(N, G, H) BY DEF Acks, H
<1>7. Votes(N, B, G, H) BY <1>1, <1>4 DEF Votes, H
<1>8. ASSUME NEW i \in Node PROVE NodeOK(E, G, H, i, N[i])
  <2>1. Boot \in G BY <1>3 DEF Logs
  <2>2. Within(Boot, Boot) BY <1>2, WithinRefl
  <2>3. Sure(G, H, First(Boot, Len(Boot)), 1) BY <1>2, <2>2 DEF Sure
  <2>4. N[i].lead # i BY <1>4, NodeAssumption
  <2> QED BY <1>2, <1>4, <2>1, <2>2, <2>3, <2>4 DEF NodeOK
<1>9. Elections(N, E) BY <1>1 DEF Elections
<1>10. Safe(N, W, B, E, G, H) BY <1>1, <1>3, <1>5, <1>6, <1>7, <1>8, <1>9 DEF Safe
<1>11. G \in SUBSET Seq(Entry) /\ H \in SUBSET (Node \X Nat \X G) BY <1>3 DEF Logs, H
<1>a. Peaks(N, peak, G, H)
  <2> SUFFICES ASSUME NEW i \in Node
               PROVE  /\ peak[i] \in Nat /\ N[i].raft_log.committed <= peak[i]
                      /\ peak[i] <= Len(N[i].raft_log.ents)
                      /\ Sure(G, H, First(N[i].raft_log.ents, peak[i]), N[i].term)
    BY DEF Peaks
  <2>1. peak[i] = N[i].raft_log.committed BY DEF Init, N
  <2>2. peak[i] = Len(Boot) /\ N[i].raft_log.ents = Boot /\ N[i].term = 1 BY <1>4, <2>1
  <2>3. Sure(G, H, First(Boot, Len(Boot)), 1)
    <3>1. Within(Boot, Boot) BY <1>2, WithinRefl
    <3> QED BY <1>2, <3>1 DEF Sure
  <2> QED BY <1>2, <2>1, <2>2, <2>3
<1>12. Sound(N, W, B, E, peak) BY <1>10, <1>11, <1>a DEF Sound
<1> QED BY <1>12 DEF SafetyInv, N, W, B, E
-----------------------------------------------------------------------------
(* What the invariant says of the cluster. *)

\* Of two committed beginnings one begins the other.
LEMMA SureEither ==
    ASSUME NEW N, NEW E, NEW G, NEW H, Logs(E, G), Complete(N, G, H),
           NEW C \in Seq(Entry), NEW D \in Seq(Entry), NEW t, NEW u,
           Sure(G, H, C, t), Sure(G, H, D, u)
    PROVE  Within(C, D) \/ Within(D, C)
<1>1. G \subseteq Seq(Entry) /\ Boot \in Seq(Entry) /\ Boot \in G BY DEF Logs
<1>2. \A A \in G : Within(A, Boot) \/ Within(Boot, A) BY DEF Logs
<1>3. ASSUME NEW F \in Seq(Entry), Within(C, F), Within(D, F)
      PROVE  Within(C, D) \/ Within(D, C)
  BY <1>3, WithinEither
<1>4. CASE Within(C, Boot) /\ Within(D, Boot) BY <1>1, <1>3, <1>4
<1>5. ASSUME NEW X \in Seq(Entry), NEW Y \in Seq(Entry), Within(X, Boot),
             NEW A \in G, Within(Y, A)
      PROVE  \E F \in Seq(Entry) : Within(X, F) /\ Within(Y, F)
  <2>1. A \in Seq(Entry) BY <1>1
  <2>2. CASE Within(A, Boot) BY <1>1, <1>5, <2>1, <2>2, WithinTrans
  <2>3. CASE Within(Boot, A) BY <1>1, <1>5, <2>1, <2>3, WithinTrans
  <2> QED BY <1>2, <2>2, <2>3
<1>6. CASE Within(C, Boot) /\ \E A \in G : Within(D, A) BY <1>3, <1>5, <1>6
<1>7. CASE Within(D, Boot) /\ \E A \in G : Within(C, A) BY <1>3, <1>5, <1>7
<1>8. CASE /\ \E A \in G : Within(C, A) /\ Chosen(H, A)
           /\ \E A \in G : Within(D, A) /\ Chosen(H, A)
  <2>1. PICK A1 \in G : Within(C, A1) /\ Chosen(H, A1) BY <1>8
  <2>2. PICK A2 \in G : Within(D, A2) /\ Chosen(H, A2) BY <1>8
  <2>3. ~Doomed(N, H, A1) /\ ~Doomed(N, H, A2) BY <2>1, <2>2, ChosenNotDoomed
  <2>4. A1 \in Seq(Entry) /\ A2 \in Seq(Entry) BY <1>1
  <2>5. LastTerm(A1) \in Nat /\ LastTerm(A2) \in Nat /\ Len(A1) \in Nat /\ Len(A2) \in Nat
    BY <2>4, LastTermFacts
  <2>6. Within(A1, A2) \/ Within(A2, A1)
    <3>1. CASE LastTerm(A1) = LastTerm(A2)
      <4>1. Len(A1) <= Len(A2) => Within(A1, A2) BY <3>1 DEF Logs
      <4>2. Len(A2) <= Len(A1) => Within(A2, A1) BY <3>1 DEF Logs
      <4> QED BY <2>5, <4>1, <4>2
    <3>2. CASE LastTerm(A1) < LastTerm(A2) BY <2>3, <3>2 DEF Complete
    <3>3. CASE LastTerm(A2) < LastTerm(A1) BY <2>3, <3>3 DEF Complete
    <3> QED BY <2>5, <3>1, <3>2, <3>3
  <2>7. CASE Within(A1, A2)
    <3>1. Within(C, A2) BY <2>1, <2>4, <2>7, WithinTrans
    <3> QED BY <1>3, <2>2, <2>4, <3>1
  <2>8. CASE Within(A2, A1)
    <3>1. Within(D, A1) BY <2>2, <2>4, <2>8, WithinTrans
    <3> QED BY <1>3, <2>1, <2>4, <3>1
  <2> QED BY <2>6, <2>7, <2>8
<1> QED BY <1>4, <1>6, <1>7, <1>8 DEF Sure

\* The logs and the commit indexes of a safe cluster
LEMMA SafeNodes ==
    ASSUME ElectionInv, NEW W, NEW B, NEW E, NEW G, NEW H, Safe(node, W, B, E, G, H),
           Peaks(node, peak, G, H), NEW i \in Node
    PROVE  /\ node[i] \in RaftType /\ node[i].term \in Nat
           /\ node[i].raft_log.ents \in G /\ node[i].raft_log.ents \in Seq(Entry)
           /\ Len(node[i].raft_log.ents) \in Nat
           /\ peak[i] \in Nat /\ peak[i] <= Len(node[i].raft_log.ents)
           /\ Sure(G, H, Prefix(i, peak[i]), node[i].term)
           /\ Prefix(i, peak[i]) \in Seq(Entry)
           /\ \A n \in Nat : Prefix(i, n) = First(node[i].raft_log.ents, n)
           /\ NodeOK(E, G, H, i, node[i])
<1>1. node[i] \in RaftType BY DEF ElectionInv, TypeOK
<1>2. NodeOK(E, G, H, i, node[i]) BY DEF Safe
<1>3. node[i].term \in Nat /\ node[i].raft_log \in LogType BY <1>1, RaftFields
<1>4. /\ node[i].raft_log.ents \in Seq(Entry) /\ Len(node[i].raft_log.ents) \in Nat
      /\ peak[i] \in Nat /\ peak[i] <= Len(node[i].raft_log.ents)
      /\ Sure(G, H, First(node[i].raft_log.ents, peak[i]), node[i].term)
  BY <1>3, LogFields DEF Peaks
<1>5. \A n \in Nat : Prefix(i, n) = First(node[i].raft_log.ents, n) BY DEF Prefix, First
<1>6. Prefix(i, peak[i]) \in Seq(Entry) BY <1>4, <1>5, FirstFacts
<1>7. node[i].raft_log.ents \in G /\ Sure(G, H, Prefix(i, peak[i]), node[i].term)
  BY <1>2, <1>4, <1>5 DEF NodeOK
<1> QED BY <1>1, <1>2, <1>3, <1>4, <1>5, <1>6, <1>7

\* Logs with an entry of one index and one term agree up to there.
LEMMA InvLogMatching == ElectionInv /\ SafetyInv => LogMatching
<1> SUFFICES ASSUME ElectionInv, SafetyInv PROVE LogMatching OBVIOUS
<1> DEFINE W == net
           B == ballots
           E == elected
<1>1. PICK G, H : Safe(node, W, B, E, G, H) /\ Peaks(node, peak, G, H)
  BY DEF SafetyInv, Sound
<1> HIDE DEF W, B, E
<1>2. ASSUME NEW i \in Node, NEW j \in Node,
             NEW k \in 1..Least(last_index(node[i].raft_log), last_index(node[j].raft_log)),
             node[i].raft_log.ents[k].term = node[j].raft_log.ents[k].term
      PROVE  Prefix(i, k) = Prefix(j, k)
  <2> DEFINE X == node[i].raft_log.ents
             Y == node[j].raft_log.ents
  <2>1. X \in G /\ Y \in G /\ X \in Seq(Entry) /\ Y \in Seq(Entry)
        /\ Len(X) \in Nat /\ Len(Y) \in Nat
    BY <1>1, SafeNodes
  <2>2. Prefix(i, k) = First(X, k) /\ Prefix(j, k) = First(Y, k) BY DEF Prefix, First
  <2>3. k \in Nat /\ k \in 1..Len(X) /\ k \in 1..Len(Y) BY <2>1 DEF Least, last_index
  <2>4. X[k].term = Y[k].term BY <1>2
  <2> HIDE DEF X, Y
  <2>5. LastTerm(First(X, k)) = X[k].term /\ LastTerm(First(Y, k)) = Y[k].term
    BY <2>1, <2>3, LastTermFacts
  <2>6. k <= Len(X) /\ k <= Len(Y) BY <2>1, <2>3
  <2>7. Logs(E, G) BY <1>1 DEF Safe
  <2>8. First(X, k) = First(Y, k) BY <2>1, <2>3, <2>4, <2>5, <2>6, <2>7, LogsMatch
  <2> QED BY <2>2, <2>8
<1> QED BY <1>2 DEF LogMatching

\* What two nodes have committed agrees.
LEMMA InvStateMachineSafety == ElectionInv /\ SafetyInv => StateMachineSafety
<1> SUFFICES ASSUME ElectionInv, SafetyInv PROVE StateMachineSafety OBVIOUS
<1> DEFINE W == net
           B == ballots
           E == elected
<1>1. PICK G, H : Safe(node, W, B, E, G, H) /\ Peaks(node, peak, G, H)
  BY DEF SafetyInv, Sound
<1> HIDE DEF W, B, E
<1>2. ASSUME NEW i \in Node, NEW j \in Node, NEW n \in Nat, n <= peak[i], n <= peak[j]
      PROVE  Prefix(i, n) = Prefix(j, n)
  <2> DEFINE X == node[i].raft_log.ents
             Y == node[j].raft_log.ents
             a == peak[i]
             b == peak[j]
             C == First(X, a)
             D == First(Y, b)
  <2>1. /\ X \in Seq(Entry) /\ a \in Nat /\ a <= Len(X) /\ C \in Seq(Entry)
        /\ Sure(G, H, C, node[i].term) /\ Prefix(i, n) = First(X, n)
    BY <1>1, SafeNodes
  <2>2. /\ Y \in Seq(Entry) /\ b \in Nat /\ b <= Len(Y) /\ D \in Seq(Entry)
        /\ Sure(G, H, D, node[j].term) /\ Prefix(j, n) = First(Y, n)
    BY <1>1, SafeNodes
  <2>3. Logs(E, G) /\ Complete(node, G, H) BY <1>1 DEF Safe
  <2>4. Within(C, D) \/ Within(D, C)
    <3> HIDE DEF C, D
    <3> QED BY <2>1, <2>2, <2>3, SureEither
  <2>5. n <= a /\ n <= b BY <1>2
  <2> HIDE DEF X, Y, a, b
  <2>6. First(X, n) = First(C, n) /\ First(Y, n) = First(D, n)
    BY <2>1, <2>2, <2>5, FirstFirst
  <2>7. n <= Len(C) /\ n <= Len(D) BY <2>1, <2>2, <2>5, FirstFacts
  <2> HIDE DEF C, D
  <2>8. First(C, n) = First(D, n) BY <2>1, <2>2, <2>4, <2>7, FirstSame
  <2> QED BY <2>1, <2>2, <2>6, <2>8
<1>3. ASSUME NEW i \in Node, NEW j \in Node
      PROVE  LET n == Least(peak[i], peak[j]) IN Prefix(i, n) = Prefix(j, n)
  <2> DEFINE n == Least(peak[i], peak[j])
  <2>1. peak[i] \in Nat /\ peak[j] \in Nat BY <1>1, SafeNodes
  <2>2. n \in Nat /\ n <= peak[i] /\ n <= peak[j] BY <2>1 DEF Least
  <2> HIDE DEF n
  <2>3. Prefix(i, n) = Prefix(j, n) BY <1>2, <2>2
  <2> QED BY <2>3 DEF n
<1> QED BY <1>3 DEF StateMachineSafety

\* A leader has what is committed.
LEMMA InvLeaderCompleteness == ElectionInv /\ SafetyInv => LeaderCompleteness
<1> SUFFICES ASSUME ElectionInv, SafetyInv PROVE LeaderCompleteness OBVIOUS
<1> DEFINE W == net
           B == ballots
           E == elected
<1>1. PICK G, H : Safe(node, W, B, E, G, H) /\ Peaks(node, peak, G, H)
  BY DEF SafetyInv, Sound
<1> HIDE DEF W, B, E
<1>2. ASSUME NEW i \in Node, NEW j \in Node,
             node[j].state = "Leader", node[j].term >= node[i].term
      PROVE  /\ last_index(node[j].raft_log) >= peak[i]
             /\ Prefix(j, peak[i]) = Prefix(i, peak[i])
  <2> DEFINE Y == node[j].raft_log.ents
             c == peak[i]
             C == Prefix(i, c)
             t == node[i].term
             T == node[j].term
  <2>1. /\ c \in Nat /\ C \in Seq(Entry) /\ Sure(G, H, C, t) /\ t \in Nat /\ Len(C) = c
    <3>1. /\ c <= Len(node[i].raft_log.ents) /\ node[i].raft_log.ents \in Seq(Entry)
          /\ c \in Nat /\ C = First(node[i].raft_log.ents, c)
      BY <1>1, SafeNodes
    <3>2. Len(C) = c BY <3>1, FirstFacts
    <3> QED BY <1>1, <3>2, SafeNodes
  <2>2. /\ Y \in G /\ Y \in Seq(Entry) /\ T \in Nat /\ Len(Y) \in Nat
        /\ Prefix(j, c) = First(Y, c) /\ NodeOK(E, G, H, j, node[j])
    <3>1. c \in Nat BY <2>1
    <3> QED BY <1>1, <3>1, SafeNodes
  <2>3. LastTerm(Y) = T /\ 1 < T /\ \A A \in G : LastTerm(A) = T => Within(A, Y)
    BY <1>2, <2>2 DEF NodeOK
  <2>4. Logs(E, G) /\ Complete(node, G, H) BY <1>1 DEF Safe
  <2>5. t <= T BY <1>2, <2>1, <2>2
  <2> HIDE DEF C, t, T
  <2>6. Led(G, C, T) BY <2>1, <2>2, <2>3, <2>4, <2>5, SureLed
  <2>7. PICK A \in G : LastTerm(A) = T /\ Within(C, A) BY <2>6 DEF Led
  <2>8. A \in Seq(Entry) /\ Within(A, Y) BY <2>3, <2>4, <2>7 DEF Logs
  <2>9. Within(C, Y) BY <2>1, <2>2, <2>7, <2>8, WithinTrans
  <2>10. c <= Len(Y) BY <2>1, <2>9 DEF Within
  <2>11. First(Y, c) = C BY <2>1, <2>2, <2>9, WithinFirst
  <2>12. last_index(node[j].raft_log) >= c BY <2>1, <2>2, <2>10 DEF last_index
  <2> QED BY <2>2, <2>11, <2>12 DEF C
<1> QED BY <1>2 DEF LeaderCompleteness

\* What a leader believes its followers to have, they have.
LEMMA InvMatchIsReal == ElectionInv /\ SafetyInv => MatchIsReal
<1> SUFFICES ASSUME ElectionInv, SafetyInv PROVE MatchIsReal OBVIOUS
<1> DEFINE W == net
           B == ballots
           E == elected
<1>1. PICK G, H : Safe(node, W, B, E, G, H) /\ Peaks(node, peak, G, H)
  BY DEF SafetyInv, Sound
<1> HIDE DEF W, B, E
<1>2. ASSUME NEW i \in Node, NEW j \in Node,
             node[i].state = "Leader", node[j].term = node[i].term
      PROVE  LET n == node[i].prs[j].match
             IN  last_index(node[j].raft_log) >= n /\ Prefix(i, n) = Prefix(j, n)
  <2> DEFINE X == node[i].raft_log.ents
             Y == node[j].raft_log.ents
             T == node[i].term
             n == node[i].prs[j].match
             A == First(X, n)
  <2>1. /\ X \in G /\ X \in Seq(Entry) /\ Len(X) \in Nat /\ T \in Nat
        /\ NodeOK(E, G, H, i, node[i]) /\ node[i] \in RaftType
    BY <1>1, SafeNodes
  <2>2. Y \in Seq(Entry) /\ Len(Y) \in Nat BY <1>1, SafeNodes
  <2>3. View(H, node[i]) BY <1>2, <2>1 DEF NodeOK
  <2>4. n \in Nat BY <2>1, RaftFields DEF ProgressType
  <2>5. n <= Len(X) /\ (n = 0 \/ <<j, T, A>> \in H) BY <2>3 DEF View, Fits
  <2>6. Prefix(i, n) = A /\ Prefix(j, n) = First(Y, n) BY DEF Prefix, First
  <2>7. Logs(E, G) /\ Acks(node, G, H) BY <1>1 DEF Safe
  <2>8. T = node[j].term BY <1>2
  <2> HIDE DEF X, T, n
  <2>9. A \in G BY <2>1, <2>4, <2>5, <2>7, LogsFirst
  <2>10. A \in Seq(Entry) /\ Len(A) = n BY <2>1, <2>4, <2>5, FirstFacts
  <2> HIDE DEF A
  <2>11. Within(A, Y)
    <3>1. CASE n = 0 BY <2>2, <2>10, <3>1 DEF Within
    <3>2. CASE <<j, T, A>> \in H
      <4>1. Ack(node, G, H, j, T, A) BY <2>1, <2>7, <2>9, <3>2 DEF Acks
      <4> QED BY <2>8, <4>1 DEF Ack
    <3> QED BY <2>5, <3>1, <3>2
  <2>12. n <= Len(Y) BY <2>10, <2>11 DEF Within
  <2>13. First(Y, n) = A BY <2>2, <2>10, <2>11, WithinFirst
  <2>14. last_index(node[j].raft_log) >= n BY <2>2, <2>4, <2>12 DEF last_index
  <2>15. Prefix(i, n) = Prefix(j, n) BY <2>6, <2>13
  <2> QED BY <2>14, <2>15 DEF n
<1> QED BY <1>2 DEF MatchIsReal

\* Nobody is dead, and no leader is ahead of itself.
LEMMA InvNoFatal == ElectionInv /\ SafetyInv => NoFatal /\ NextInLog
<1> SUFFICES ASSUME ElectionInv, SafetyInv PROVE NoFatal /\ NextInLog OBVIOUS
<1>1. PICK G, H : Safe(node, net, ballots, elected, G, H) BY DEF SafetyInv, Sound
<1>2. \A i \in Node : NodeOK(elected, G, H, i, node[i]) BY <1>1 DEF Safe
<1>3. NoFatal BY <1>2 DEF NodeOK, NoFatal, Alive
<1>4. \A i \in Node : node[i].state = "Leader" => View(H, node[i]) BY <1>2 DEF NodeOK
<1>5. NextInLog BY <1>4 DEF NextInLog, View, Fits, last_index
<1> QED BY <1>3, <1>5
-----------------------------------------------------------------------------
(* The theorems. *)

\* No node restarts while its WAL holds entries that its log has not: a restart reads
\* them back (replay_WAL), though the snapshot that restored the log has replaced them.
CleanRestarts == [][CleanRestart]_vars

\* Without pre-votes, and as long as restarts find clean WALs, there always are logs and
\* acknowledgements that say why logs are safe: whoever wins an election has every entry
\* that a quorum may have acknowledged, and every node has what it has acknowledged
\* (step_vote, maybe_append, restore, maybe_commit, bcast_heartbeat).
THEOREM SafetyInvariant ==
    ASSUME PreVote = FALSE
    PROVE  Spec /\ CleanRestarts => [](ElectionInv /\ SafetyInv)
<1> DEFINE I == ElectionInv /\ SafetyInv
<1>1. Init => I BY InitElection, InitSafety
<1>2. I /\ [Next]_vars /\ [CleanRestart]_vars => I'
  <2>1. I /\ [Next]_vars => ElectionInv' BY StepElection
  <2>2. I /\ [Next]_vars /\ [CleanRestart]_vars => SafetyInv' BY NextStep
  <2> QED BY <2>1, <2>2
<1>3. I => ElectionInv /\ SafetyInv OBVIOUS
<1> HIDE DEF I
<1>4. Spec /\ CleanRestarts => []I BY <1>1, <1>2, PTL DEF Spec, CleanRestarts
<1> QED BY <1>3, <1>4, PTL

\* Two logs with an entry of one index and one term are the same up to there, at any two
\* nodes, leaders of any terms or not (maybe_append's match_term, find_conflict, append).
THEOREM LogsMatchUp ==
    ASSUME PreVote = FALSE
    PROVE  Spec /\ CleanRestarts => []LogMatching
<1>1. ElectionInv /\ SafetyInv => LogMatching BY InvLogMatching
<1> QED BY <1>1, SafetyInvariant, PTL

\* No two nodes ever commit different entries at an index, whatever the number of nodes,
\* the losses, the elections and the leaders that step down (maybe_commit's term check,
\* is_up_to_date, handle_heartbeat, handle_snapshot).
THEOREM CommitsAgree ==
    ASSUME PreVote = FALSE
    PROVE  Spec /\ CleanRestarts => []StateMachineSafety
<1>1. ElectionInv /\ SafetyInv => StateMachineSafety BY InvStateMachineSafety
<1> QED BY <1>1, SafetyInvariant, PTL

\* A leader has every entry that any node of its term or an earlier one has committed
\* (step_vote's is_up_to_date, become_leader, maybe_commit).
THEOREM LeadersAreComplete ==
    ASSUME PreVote = FALSE
    PROVE  Spec /\ CleanRestarts => []LeaderCompleteness
<1>1. ElectionInv /\ SafetyInv => LeaderCompleteness BY InvLeaderCompleteness
<1> QED BY <1>1, SafetyInvariant, PTL

\* What a leader counts as matched at a follower of its term, the follower has, however
\* late, repeated or reordered the answers are (maybe_update, handle_append_entries).
THEOREM MatchesAreReal ==
    ASSUME PreVote = FALSE
    PROVE  Spec /\ CleanRestarts => []MatchIsReal
<1>1. ElectionInv /\ SafetyInv => MatchIsReal BY InvMatchIsReal
<1> QED BY <1>1, SafetyInvariant, PTL

\* No LOG_FATAL is ever reached: no commit index beyond the log (commit_to), no conflict
\* with a committed entry (maybe_append), no message with a term to forward (send), no
\* snapshot missing when it is due (maybe_send_append).
THEOREM NobodyDies ==
    ASSUME PreVote = FALSE
    PROVE  Spec /\ CleanRestarts => []NoFatal
<1>1. ElectionInv /\ SafetyInv => NoFatal BY InvNoFatal
<1> QED BY <1>1, SafetyInvariant, PTL

\* A leader never takes a follower for ahead of its own log, so every MsgApp has a true
\* predecessor (maybe_update, maybe_decreases_to, become_snapshot).
THEOREM NextStaysInLog ==
    ASSUME PreVote = FALSE
    PROVE  Spec /\ CleanRestarts => []NextInLog
<1>1. ElectionInv /\ SafetyInv => NextInLog BY InvNoFatal
<1> QED BY <1>1, SafetyInvariant, PTL

\* No node ever loses an entry that it has known to be committed: not to an append, not
\* to a snapshot, and not to a restart that takes the commit index back below it, over a
\* clean WAL (maybe_append, restore, replay_WAL).
THEOREM CommitsAreStable ==
    ASSUME PreVote = FALSE
    PROVE  Spec /\ CleanRestarts => CommittedIsStable
<1> DEFINE I == ElectionInv /\ SafetyInv
           Stable == \A i \in Node :
                       /\ peak[i] <= last_index(node'[i].raft_log)
                       /\ Prefix(i, peak[i]) = SubSeq(node'[i].raft_log.ents, 1, peak[i])
<1>1. I /\ [Next]_vars /\ [CleanRestart]_vars => Stable
  <2> SUFFICES ASSUME I, [Next]_vars, [CleanRestart]_vars PROVE Stable OBVIOUS
  <2>1. AllKeep BY NextStep
  <2> QED BY <2>1 DEF AllKeep, Keeps, Prefix, First, last_index
<1>2. Spec /\ CleanRestarts => []I
  <2>1. I <=> ElectionInv /\ SafetyInv OBVIOUS
  <2> HIDE DEF I
  <2> QED BY <2>1, SafetyInvariant, PTL
<1> HIDE DEF I, Stable
<1>3. Spec /\ CleanRestarts => [][Stable]_vars BY <1>1, <1>2, PTL DEF Spec, CleanRestarts
<1>4. [][Stable]_vars => CommittedIsStable BY DEF CommittedIsStable, Stable
<1> QED BY <1>3, <1>4
=============================================================================
