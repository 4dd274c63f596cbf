----------------------------- MODULE RaftProofs -----------------------------
(*****************************************************************************)
(* The theorems about the cluster, for every set of nodes, every value of the *)
(* other constants and every schedule, loss of messages and restarts included. *)
(*                                                                           *)
(* TypeOK is inductive together with Settled.  ElectionSafety is not: two    *)
(* leaders of a term are excluded because each has a quorum of recorded votes *)
(* (ElectedByQuorum), a node records one vote per term (OneVote), and a vote *)
(* is recorded before it travels or is counted (VotesAreReal).  ElectionInv, *)
(* the conjunction, is inductive when PreVote is off.                        *)
(*****************************************************************************)
EXTENDS Raft, FiniteSetTheorems, SequenceTheorems, TLAPS

-----------------------------------------------------------------------------
(* What the methods of class Raft outside elections preserve: the types of a *)
(* log, a Progress, a message and a node, and with them everything an        *)
(* election turns on (Quiet).  One lemma per operator of RaftLog, Progress   *)
(* and Raft; each is used wherever the operator is called.                   *)

\* The empty sequence is a sequence over any set.
LEMMA EmptyIsSeq == \A S : <<>> \in Seq(S)
OBVIOUS

\* A set of indexes in 1..n is finite and has at most n members.
LEMMA IntervalSubset ==
    ASSUME NEW n \in Nat, NEW T \in SUBSET (1..n)
    PROVE  IsFiniteSet(T) /\ Cardinality(T) \in Nat /\ Cardinality(T) <= n
<1>1. IsFiniteSet(1..n) /\ Cardinality(1..n) = n BY FS_Interval
<1>2. IsFiniteSet(T) /\ Cardinality(T) <= n BY <1>1, FS_Subset
<1> QED BY <1>2, FS_CardinalityType

\* An acknowledgement covers at most the messages in flight (InFlights::free_to).
LEMMA CoveredType ==
    ASSUME NEW fl \in Seq(Nat), NEW to \in Nat
    PROVE  Covered(fl, to) \in Nat /\ Covered(fl, to) <= Len(fl)
<1>1. Len(fl) \in Nat OBVIOUS
<1> QED BY <1>1, IntervalSubset DEF Covered

\* A suffix of a sequence is a sequence.
LEMMA SuffixType ==
    ASSUME NEW S, NEW s \in Seq(S), NEW k \in Nat
    PROVE  SubSeq(s, k + 1, Len(s)) \in Seq(S)
OBVIOUS

\* A prefix of a sequence is a sequence.
LEMMA PrefixType ==
    ASSUME NEW S, NEW s \in Seq(S), NEW k \in Nat, k <= Len(s)
    PROVE  SubSeq(s, 1, k) \in Seq(S)
OBVIOUS

\* Two sequences in a row are a sequence.
LEMMA ConcatType ==
    ASSUME NEW S, NEW s \in Seq(S), NEW t \in Seq(S)
    PROVE  s \o t \in Seq(S)
OBVIOUS

\* The length of two sequences in a row.
LEMMA ConcatLength ==
    ASSUME NEW S, NEW s \in Seq(S), NEW t \in Seq(S)
    PROVE  Len(s \o t) = Len(s) + Len(t)
OBVIOUS

\* InFlights::free_to leaves a window.
LEMMA FreeToType ==
    ASSUME NEW fl \in Seq(Nat), NEW to \in Nat
    PROVE  free_to(fl, to) \in Seq(Nat)
BY CoveredType, SuffixType DEF free_to

\* The fields of a log and how its indexes are ordered.
LEMMA LogFields ==
    ASSUME NEW l \in LogType
    PROVE  /\ l \in LogRecord
           /\ l.ents \in Seq(Entry) /\ l.wal \in Seq(Entry)
           /\ Len(l.ents) \in Nat /\ Len(l.wal) \in Nat
           /\ l.offset \in Nat /\ l.snap \in Nat /\ l.committed \in Nat /\ l.applied \in Nat
           /\ l.offset <= l.snap /\ l.snap <= l.committed
           /\ l.applied <= l.committed /\ l.committed <= Len(l.ents)
           /\ Len(l.ents) <= Len(l.wal)
BY DEF LogType, LogRecord

\* RaftLog::term is total: outside the log it is 0.
LEMMA TermType ==
    ASSUME NEW l \in LogType, NEW i \in Nat
    PROVE  term(l, i) \in Nat
<1>1. l.ents \in Seq(Entry) /\ l.offset \in Nat BY LogFields
<1>2. CASE i # 0 /\ ~(i < l.offset) /\ ~(i > Len(l.ents))
  <2>1. i \in 1..Len(l.ents) BY <1>1, <1>2
  <2>2. l.ents[i] \in Entry BY <2>1, <1>1
  <2>3. l.ents[i].term \in Nat BY <2>2 DEF Entry
  <2> QED BY <1>2, <2>3 DEF term, last_index
<1>3. CASE ~(i # 0 /\ ~(i < l.offset) /\ ~(i > Len(l.ents)))
  BY <1>3 DEF term, last_index
<1> QED BY <1>2, <1>3

\* A LOG_FATAL leaves the log as it is.
LEMMA FatalType ==
    ASSUME NEW l \in LogType
    PROVE  Fatal(l) \in LogType
BY DEF LogType, LogRecord, Fatal

\* RaftLog::commit_to keeps the commit index within the log.
LEMMA CommitToType ==
    ASSUME NEW l \in LogType, NEW n \in Nat
    PROVE  commit_to(l, n) \in LogType
<1>1. CASE l.committed >= n \/ last_index(l) < n
  BY <1>1, FatalType DEF commit_to
<1>2. CASE ~(l.committed >= n) /\ ~(last_index(l) < n)
  <2>1. l.committed < n /\ n <= Len(l.ents) BY <1>2, LogFields DEF last_index
  <2>2. [l EXCEPT !.committed = n] \in LogType
    BY <2>1, LogFields DEF LogType, LogRecord
  <2> QED BY <1>2, <2>2 DEF commit_to
<1> QED BY <1>1, <1>2

\* RaftLog::append drops no committed entry.
LEMMA AppendType ==
    ASSUME NEW l \in LogType, NEW after \in Nat, NEW es \in Seq(Entry)
    PROVE  append(l, after, es) \in LogType
<1>1. l.ents \in Seq(Entry) /\ Len(l.ents) \in Nat /\ l.committed \in Nat BY LogFields
<1>2. CASE l.committed <= after /\ after <= Len(l.ents)
  <2> DEFINE new == SubSeq(l.ents, 1, after) \o es
  <2>1. SubSeq(l.ents, 1, after) \in Seq(Entry) /\ Len(SubSeq(l.ents, 1, after)) = after
    BY <1>1, <1>2, PrefixType
  <2>2. new \in Seq(Entry) /\ Len(new) = after + Len(es) BY <2>1, ConcatType
  <2>3. [l EXCEPT !.ents = new, !.wal = new] \in LogType
    <3> DEFINE u == [l EXCEPT !.ents = new, !.wal = new]
    <3>1. l \in LogRecord BY LogFields
    <3> HIDE DEF new
    <3>2. /\ u \in LogRecord /\ u.ents = new /\ u.wal = new /\ u.offset = l.offset
          /\ u.snap = l.snap /\ u.committed = l.committed /\ u.applied = l.applied
      BY <2>2, <3>1 DEF LogRecord
    <3> HIDE DEF u
    <3>3. u \in LogType BY <3>2, <1>2, <2>2, LogFields DEF LogType
    <3> QED BY <3>3 DEF u
  <2> QED BY <2>3, FatalType DEF append
<1>3. CASE ~(l.committed <= after /\ after <= Len(l.ents))
  <2>1. after < l.committed \/ after > last_index(l) BY <1>1, <1>3 DEF last_index
  <2> QED BY <2>1, FatalType DEF append
<1> QED BY <1>2, <1>3

\* RaftLog::maybe_append keeps the commit index within the log it leaves.
LEMMA MaybeAppendType ==
    ASSUME NEW l \in LogType, NEW index \in Nat, NEW c \in Nat, NEW es \in Seq(Entry)
    PROVE  maybe_append(l, index, c, es) \in LogType
<1> DEFINE n == Matching(l, index, es)
<1>1. n \in Nat /\ n <= Len(es)
  BY IntervalSubset DEF Matching
<1>2. ASSUME n # Len(es)
      PROVE  append(l, index + n, SubSeq(es, n + 1, Len(es))) \in LogType
  <2>1. SubSeq(es, n + 1, Len(es)) \in Seq(Entry) BY <1>1, SuffixType
  <2>2. index + n \in Nat BY <1>1
  <2> QED BY <2>1, <2>2, AppendType
<1>3. find_conflict(l, index, es) = IF n = Len(es) THEN 0 ELSE index + n + 1
  BY DEF find_conflict
<1> DEFINE ci == find_conflict(l, index, es)
           l1 == IF ci = 0 THEN l
                 ELSE IF ci <= l.committed THEN Fatal(l)
                 ELSE append(l, ci - 1, SubSeq(es, ci - index, Len(es)))
<1>4. l1 \in LogType
  <2>1. CASE n = Len(es) BY <2>1, <1>3
  <2>2. CASE n # Len(es)
    <3>1. ci = index + n + 1 /\ ci - 1 = index + n /\ ci - index = n + 1 /\ ci # 0
      BY <2>2, <1>3, <1>1
    <3> QED BY <2>2, <3>1, <1>2, FatalType
  <2> QED BY <2>1, <2>2
<1>5. Least(c, index + Len(es)) \in Nat BY DEF Least
<1>6. maybe_append(l, index, c, es) = commit_to(l1, Least(c, index + Len(es)))
  BY DEF maybe_append
<1> QED BY <1>4, <1>5, <1>6, CommitToType

\* RaftLog::restore from a snapshot above the commit index leaves a log.
LEMMA LogRestoreType ==
    ASSUME NEW l \in LogType, NEW s \in Seq(Entry), l.committed <= Len(s)
    PROVE  log_restore(l, s) \in LogType
<1>1. l.wal \in Seq(Entry) /\ Len(s) \in Nat BY LogFields
<1> DEFINE w == s \o SubSeq(l.wal, Len(s) + 1, Len(l.wal))
           n == Len(s)
<1>2. SubSeq(l.wal, Len(s) + 1, Len(l.wal)) \in Seq(Entry)
  BY <1>1, SuffixType
<1>3. w \in Seq(Entry) /\ n <= Len(w) BY <1>2, ConcatType
<1>4. [l EXCEPT !.ents = s, !.wal = w, !.offset = n, !.snap = n, !.committed = n] \in LogType
  <2>1. n \in Nat /\ n = Len(s) /\ l.committed <= n BY <1>1
  <2> DEFINE u == [l EXCEPT !.ents = s, !.wal = w, !.offset = n, !.snap = n, !.committed = n]
  <2>2. l \in LogRecord BY LogFields
  <2> HIDE DEF w, n
  <2>3. /\ u \in LogRecord /\ u.ents = s /\ u.wal = w /\ u.offset = n
        /\ u.snap = n /\ u.committed = n /\ u.applied = l.applied
    BY <1>3, <2>1, <2>2 DEF LogRecord
  <2> HIDE DEF u
  <2>4. u \in LogType BY <1>3, <2>1, <2>3, LogFields DEF LogType
  <2> QED BY <2>4 DEF u
<1> QED BY <1>4 DEF log_restore

\* publish_entries applies up to the commit index.
LEMMA ApplyType ==
    ASSUME NEW l \in LogType
    PROVE  apply_committed(l) \in LogType /\ apply_committed(l).applied = l.committed
BY LogFields DEF apply_committed, LogType, LogRecord

\* maybe_trigger_snapshot compacts nothing above its snapshot (CatchUp <= SnapCount).
LEMMA TriggerType ==
    ASSUME NEW l \in LogType
    PROVE  maybe_trigger_snapshot(l) \in LogType
<1> DEFINE ci == IF l.applied > CatchUp THEN l.applied - CatchUp ELSE 1
<1>1. CASE l.applied - l.snap <= SnapCount
  BY <1>1 DEF maybe_trigger_snapshot
<1>2. CASE ~(l.applied - l.snap <= SnapCount)
  <2>1. ci \in Nat /\ ci <= l.applied
    BY <1>2, LogFields, SnapshotAssumption
  <2>2. [l EXCEPT !.snap = l.applied, !.offset = ci] \in LogType
    <3> HIDE DEF ci
    <3> QED BY <2>1, LogFields DEF LogType, LogRecord
  <2> QED BY <1>2, <2>2, FatalType DEF maybe_trigger_snapshot
<1> QED BY <1>1, <1>2

\* The saved commit index lies in the replayed log: load_state never dies.
LEMMA ReplayType ==
    ASSUME NEW l \in LogType, NEW c \in SavedCommits(l)
    PROVE  LET q == replay_WAL(l, c)
           IN  /\ q \in LogType /\ q.fatal = l.fatal
               /\ q.ents = l.wal /\ q.committed = c /\ c <= l.committed
<1> DEFINE s == [l EXCEPT !.ents = l.wal, !.offset = l.snap, !.applied = l.snap]
           q == [s EXCEPT !.committed = c]
<1>0. c \in Nat /\ l.snap <= c /\ c <= l.committed BY LogFields DEF SavedCommits
<1>1. /\ s \in LogRecord /\ s.ents = l.wal /\ s.wal = l.wal /\ s.offset = l.snap
      /\ s.snap = l.snap /\ s.committed = l.committed /\ s.applied = l.snap
      /\ s.fatal = l.fatal
  BY LogFields DEF LogRecord
<1>2. ~(c < l.snap \/ c > Len(l.wal)) BY <1>0, LogFields
<1>3. replay_WAL(l, c) = q BY <1>2 DEF replay_WAL
<1> HIDE DEF s
<1>4. /\ q \in LogRecord /\ q.ents = l.wal /\ q.wal = l.wal /\ q.offset = l.snap
      /\ q.snap = l.snap /\ q.committed = c /\ q.applied = l.snap /\ q.fatal = l.fatal
  BY <1>0, <1>1 DEF LogRecord
<1> HIDE DEF q
<1>5. q \in LogType BY <1>0, <1>4, LogFields DEF LogType
<1> QED BY <1>0, <1>3, <1>4, <1>5

-----------------------------------------------------------------------------

\* The constructor of Progress.
LEMMA NewProgressType ==
    ASSUME NEW m \in Nat, NEW n \in Nat \ {0}
    PROVE  NewProgress(m, n) \in ProgressType
BY DEF NewProgress, ProgressType, ProgressState

\* Progress::reset_state.
LEMMA ResetStateType ==
    ASSUME NEW pr \in ProgressType, NEW st \in ProgressState
    PROVE  reset_state(pr, st) \in ProgressType
<1>1. ASSUME NEW e \in Seq(Nat)
      PROVE  [pr EXCEPT !.paused = FALSE, !.pending_snapshot = 0, !.state = st, !.inflights = e] \in ProgressType
  BY DEF ProgressType
<1>2. <<>> \in Seq(Nat) BY EmptyIsSeq
<1> QED BY <1>1, <1>2 DEF reset_state

\* Updates of the fields of a Progress.
LEMMA ProgressFieldType ==
    ASSUME NEW pr \in ProgressType, NEW n \in Nat \ {0}, NEW m \in Nat, NEW e \in Seq(Nat), NEW b \in BOOLEAN
    PROVE  /\ [pr EXCEPT !.next = n] \in ProgressType
           /\ [pr EXCEPT !.paused = b] \in ProgressType
           /\ [pr EXCEPT !.inflights = e] \in ProgressType
           /\ [pr EXCEPT !.next = n, !.inflights = e] \in ProgressType
           /\ [pr EXCEPT !.next = n, !.paused = b] \in ProgressType
           /\ [pr EXCEPT !.pending_snapshot = m] \in ProgressType
           /\ [pr EXCEPT !.recent_active = b] \in ProgressType
           /\ [pr EXCEPT !.recent_active = TRUE, !.paused = b, !.inflights = e] \in ProgressType
BY DEF ProgressType

\* Progress::become_replicate.
LEMMA BecomeReplicateType ==
    ASSUME NEW pr \in ProgressType
    PROVE  become_replicate(pr) \in ProgressType
<1>1. reset_state(pr, "Replicate") \in ProgressType
  BY ResetStateType DEF ProgressState
<1>2. pr.match + 1 \in Nat \ {0} BY DEF ProgressType
<1> QED BY <1>1, <1>2 DEF become_replicate, ProgressType

\* Progress::become_probe.
LEMMA BecomeProbeType ==
    ASSUME NEW pr \in ProgressType
    PROVE  become_probe(pr) \in ProgressType
<1>1. reset_state(pr, "Probe") \in ProgressType
  BY ResetStateType DEF ProgressState
<1> DEFINE n == IF pr.state = "Snapshot" /\ pr.pending_snapshot > pr.match
                THEN pr.pending_snapshot + 1 ELSE pr.match + 1
<1>2. n \in Nat \ {0} BY DEF ProgressType
<1>3. [reset_state(pr, "Probe") EXCEPT !.next = n] \in ProgressType
  BY <1>1, <1>2 DEF ProgressType
<1> QED BY <1>3 DEF become_probe

\* Progress::become_snapshot.
LEMMA BecomeSnapshotType ==
    ASSUME NEW pr \in ProgressType, NEW n \in Nat
    PROVE  become_snapshot(pr, n) \in ProgressType
<1>1. reset_state(pr, "Snapshot") \in ProgressType
  BY ResetStateType DEF ProgressState
<1> QED BY <1>1 DEF become_snapshot, ProgressType

\* Progress::maybe_update.
LEMMA MaybeUpdateType ==
    ASSUME NEW pr \in ProgressType, NEW n \in Nat
    PROVE  maybe_update(pr, n) \in ProgressType
<1> DEFINE ma == IF pr.match < n THEN n ELSE pr.match
           pa == IF pr.match < n THEN FALSE ELSE pr.paused
           ne == IF pr.next < n + 1 THEN n + 1 ELSE pr.next
<1>1. ma \in Nat /\ ne \in Nat \ {0} BY DEF ProgressType
<1>2. pa \in BOOLEAN BY DEF ProgressType
<1>3. [pr EXCEPT !.match = ma, !.paused = pa, !.next = ne] \in ProgressType
  <2> HIDE DEF ma, pa, ne
  <2> QED BY <1>1, <1>2 DEF ProgressType
<1> QED BY <1>3 DEF maybe_update

\* Progress::maybe_decreases_to: next never falls below 1.
LEMMA MaybeDecreasesType ==
    ASSUME NEW pr \in ProgressType, NEW n \in Nat, NEW h \in Nat
    PROVE  maybe_decreases_to(pr, n, h) \in ProgressType
<1> DEFINE k == IF n < h + 1 THEN n ELSE h + 1
           k1 == IF k < 1 THEN 1 ELSE k
<1>1. k1 \in Nat \ {0} OBVIOUS
<1>2. [pr EXCEPT !.next = k1, !.paused = FALSE] \in ProgressType
  BY <1>1 DEF ProgressType
<1>3. [pr EXCEPT !.next = pr.match + 1] \in ProgressType
  <2>1. pr.match + 1 \in Nat \ {0} BY DEF ProgressType
  <2>2. ASSUME NEW x \in Nat \ {0} PROVE [pr EXCEPT !.next = x] \in ProgressType
    BY DEF ProgressType
  <2> QED BY <2>1, <2>2
<1> QED BY <1>2, <1>3 DEF maybe_decreases_to

\* A message with default fields.
LEMMA NewMessageType ==
    ASSUME NEW t \in MsgType, NEW p \in Node
    PROVE  NewMessage(t, p) \in MessageType
<1>1. ASSUME NEW e \in Seq(Entry)
      PROVE  [type |-> t, from |-> p, to |-> p, term |-> 0, index |-> 0, log_term |-> 0,
              entries |-> e, commit |-> 0, snapshot |-> e,
              reject |-> FALSE, reject_hint |-> 0, transfer |-> FALSE] \in MessageType
  BY DEF MessageType
<1>2. <<>> \in Seq(Entry) BY EmptyIsSeq
<1> QED BY <1>1, <1>2 DEF NewMessage

\* A message that no election turns on; a leader's is stamped with its term.
Plain(r, m) == m.type \notin CampaignType /\ (m.type \in LeaderMsg => m.term = r.term)

\* Raft::send sets the sender and, outside campaigns and proposals, the term.
LEMMA StampedType ==
    ASSUME NEW r \in RaftType, NEW m \in MessageType
    PROVE  /\ Stamped(r, m) \in MessageType
           /\ Stamped(r, m).type = m.type
           /\ Stamped(r, m).from = r.id
           /\ Stamped(r, m).to = m.to
           /\ Stamped(r, m).reject = m.reject
           /\ m.type \in CampaignType => Stamped(r, m).term = m.term
           /\ m.type \notin CampaignType => Plain(r, Stamped(r, m))
<1>1. r.id \in Node /\ r.term \in Nat BY DEF RaftType
<1> QED BY <1>1 DEF Stamped, MessageType, Plain, LeaderMsg

\* s is r after work that has nothing to do with elections.
Quiet(r, s) ==
    /\ s \in RaftType
    /\ s.id = r.id /\ s.term = r.term /\ s.vote = r.vote
    /\ s.state = r.state /\ s.granted = r.granted
    /\ \A m \in s.msgs : m \in r.msgs \/ Plain(r, m)

\* Doing nothing is quiet.
LEMMA QuietRefl == ASSUME NEW r \in RaftType PROVE Quiet(r, r)
BY DEF Quiet

\* Quiet work may be done in a row.
LEMMA QuietTrans == ASSUME NEW r, NEW s, NEW t, Quiet(r, s), Quiet(s, t) PROVE Quiet(r, t)
BY DEF Quiet, Plain

\* Work on the log is quiet.
LEMMA QuietLog ==
    ASSUME NEW r \in RaftType, NEW l \in LogType
    PROVE  Quiet(r, [r EXCEPT !.raft_log = l])
BY DEF Quiet, RaftType

\* Work on prs_ is quiet.
LEMMA QuietPrs ==
    ASSUME NEW r \in RaftType, NEW prs \in [Node -> ProgressType]
    PROVE  Quiet(r, [r EXCEPT !.prs = prs])
BY DEF Quiet, RaftType

\* Sending plain messages is quiet.
LEMMA QuietMsgs ==
    ASSUME NEW r \in RaftType, NEW ms \in SUBSET MessageType,
           \A m \in ms : Plain(r, m)
    PROVE  Quiet(r, [r EXCEPT !.msgs = @ \cup ms])
BY DEF Quiet, RaftType

\* So is both.
LEMMA QuietSends ==
    ASSUME NEW r \in RaftType, NEW prs \in [Node -> ProgressType],
           NEW ms \in SUBSET MessageType, \A m \in ms : Plain(r, m)
    PROVE  Quiet(r, [r EXCEPT !.prs = prs, !.msgs = @ \cup ms])
BY DEF Quiet, RaftType

\* And so is all three.
LEMMA QuietSendsLog ==
    ASSUME NEW r \in RaftType, NEW prs \in [Node -> ProgressType], NEW l \in LogType,
           NEW ms \in SUBSET MessageType, \A m \in ms : Plain(r, m)
    PROVE  Quiet(r, [r EXCEPT !.prs = prs, !.msgs = @ \cup ms, !.raft_log = l])
BY DEF Quiet, RaftType

\* Appending an entry is quiet.
LEMMA QuietEntry ==
    ASSUME NEW r \in RaftType, NEW prs \in [Node -> ProgressType], NEW l \in LogType,
           NEW u \in Nat
    PROVE  Quiet(r, [r EXCEPT !.raft_log = l, !.prs = prs, !.uncommitted_size = u])
BY DEF Quiet, RaftType

\* Setting the transferee or the leader is quiet.
LEMMA QuietTransfer ==
    ASSUME NEW r \in RaftType, NEW n \in Node \cup {Nil}
    PROVE  /\ Quiet(r, [r EXCEPT !.lead_transferee = n])
           /\ Quiet(r, [r EXCEPT !.lead_transferee = n, !.past = FALSE])
           /\ Quiet(r, [r EXCEPT !.past = FALSE, !.lead = n])
BY DEF Quiet, RaftType

\* The election timer is quiet.
LEMMA QuietPast ==
    ASSUME NEW r \in RaftType, NEW b \in BOOLEAN
    PROVE  Quiet(r, [r EXCEPT !.past = b])
BY DEF Quiet, RaftType

-----------------------------------------------------------------------------

\* The fields of a node.
LEMMA RaftFields ==
    ASSUME NEW r \in RaftType
    PROVE  /\ r.id \in Node /\ r.term \in Nat /\ r.vote \in Node \cup {Nil}
           /\ r.state \in StateType /\ r.granted \in SUBSET Node /\ r.refused \in SUBSET Node
           /\ r.lead \in Node \cup {Nil} /\ r.lead_transferee \in Node \cup {Nil}
           /\ r.raft_log \in LogType /\ r.prs \in [Node -> ProgressType]
           /\ r.uncommitted_size \in Nat /\ r.msgs \in SUBSET MessageType
BY DEF RaftType

\* A MsgApp ends within the log.
LEMMA LastSentType ==
    ASSUME NEW r \in RaftType, NEW next \in Nat \ {0}
    PROVE  /\ LastSent(r, next) \in Nat
           /\ LastSent(r, next) <= last_index(r.raft_log)
           /\ last_index(r.raft_log) \in Nat
<1>1. last_index(r.raft_log) \in Nat BY RaftFields, LogFields DEF last_index
<1> QED BY <1>1, LimitAssumption DEF LastSent, Least

\* RaftLog::slice within the log.
LEMMA SliceType ==
    ASSUME NEW s \in Seq(Entry), NEW a \in Nat \ {0}, NEW b \in Nat, b <= Len(s)
    PROVE  SubSeq(s, a, b) \in Seq(Entry)
OBVIOUS

\* The MsgApp of maybe_send_append.
LEMMA AppendMessageType ==
    ASSUME NEW r \in RaftType, NEW to \in Node, NEW next \in Nat \ {0}
    PROVE  /\ AppendMessage(r, to, next, LastSent(r, next)) \in MessageType
           /\ Plain(r, AppendMessage(r, to, next, LastSent(r, next)))
<1> DEFINE last == LastSent(r, next)
           l == r.raft_log
           es == slice(l, next, last + 1)
           t == term(l, next - 1)
           c == l.committed
           m == [NewMessage("MsgApp", to) EXCEPT !.index = next - 1, !.log_term = t, !.entries = es, !.commit = c]
<1>1. l \in LogType /\ l.ents \in Seq(Entry) /\ c \in Nat BY RaftFields, LogFields
<1>2. last \in Nat /\ last <= Len(l.ents) /\ last + 1 - 1 = last BY LastSentType DEF last_index
<1>3. es \in Seq(Entry)
  <2>1. SubSeq(l.ents, next, last) \in Seq(Entry) BY <1>1, <1>2, SliceType
  <2> QED BY <2>1, <1>2 DEF slice
<1>4. next - 1 \in Nat /\ t \in Nat
  <2>1. next - 1 \in Nat OBVIOUS
  <2> HIDE DEF l
  <2> QED BY <1>1, <2>1, TermType
<1>5. NewMessage("MsgApp", to) \in MessageType BY NewMessageType DEF MsgType
<1>6. m \in MessageType /\ m.type = "MsgApp"
  <2> HIDE DEF last, l, es, t, c
  <2>1. m \in MessageType BY <1>1, <1>3, <1>4, <1>5 DEF MessageType
  <2>2. m.type = "MsgApp" BY DEF NewMessage
  <2> QED BY <2>1, <2>2
<1>7. AppendMessage(r, to, next, last) = Stamped(r, m) BY DEF AppendMessage
<1> HIDE DEF m
<1> QED BY <1>6, <1>7, StampedType DEF CampaignType

\* The MsgSnap of maybe_send_append: the log has the entries of its snapshot.
LEMMA SnapMessageType ==
    ASSUME NEW r \in RaftType, NEW to \in Node
    PROVE  /\ SnapMessage(r, to) \in MessageType
           /\ Plain(r, SnapMessage(r, to))
<1> DEFINE s == SubSeq(r.raft_log.ents, 1, r.raft_log.snap)
           m == [NewMessage("MsgSnap", to) EXCEPT !.snapshot = s]
<1>1. r.raft_log \in LogType BY RaftFields
<1>2. /\ r.raft_log.ents \in Seq(Entry) /\ r.raft_log.snap \in Nat
      /\ r.raft_log.snap <= Len(r.raft_log.ents)
  BY <1>1, LogFields
<1>3. s \in Seq(Entry) BY <1>2, PrefixType
<1>4. NewMessage("MsgSnap", to) \in MessageType BY NewMessageType DEF MsgType
<1>5. m \in MessageType /\ m.type = "MsgSnap"
  <2> HIDE DEF s
  <2>1. m \in MessageType BY <1>3, <1>4 DEF MessageType
  <2>2. m.type = "MsgSnap" BY DEF NewMessage
  <2> QED BY <2>1, <2>2
<1>6. SnapMessage(r, to) = Stamped(r, m) BY DEF SnapMessage
<1> HIDE DEF m
<1> QED BY <1>5, <1>6, StampedType DEF CampaignType

\* maybe_send_append sends plain messages.
LEMMA AppendMsgsType ==
    ASSUME NEW r \in RaftType, NEW to \in Node, NEW b \in BOOLEAN
    PROVE  /\ AppendMsgs(r, to, b) \in SUBSET MessageType
           /\ \A m \in AppendMsgs(r, to, b) : Plain(r, m)
<1>1. r.prs[to] \in ProgressType BY RaftFields
<1>2. r.prs[to].next \in Nat \ {0} BY <1>1 DEF ProgressType
<1> DEFINE a == AppendMessage(r, to, r.prs[to].next, LastSent(r, r.prs[to].next))
           s == SnapMessage(r, to)
<1>3. a \in MessageType /\ Plain(r, a) BY <1>2, AppendMessageType
<1>4. s \in MessageType /\ Plain(r, s) BY SnapMessageType
<1>5. AppendMsgs(r, to, b) \in {{}, {a}, {s}} BY DEF AppendMsgs
<1> HIDE DEF a, s
<1> QED BY <1>3, <1>4, <1>5

\* maybe_send_append leaves a Progress.
LEMMA AppendProgressType ==
    ASSUME NEW r \in RaftType, NEW to \in Node, NEW b \in BOOLEAN
    PROVE  AppendProgress(r, to, b) \in ProgressType
<1> DEFINE pr == r.prs[to]
           last == LastSent(r, pr.next)
           p1 == [pr EXCEPT !.next = last + 1, !.inflights = Append(@, last)]
           p2 == [pr EXCEPT !.paused = TRUE]
           p3 == become_snapshot(pr, r.raft_log.snap)
<1>1. pr \in ProgressType BY RaftFields
<1>2. pr.next \in Nat \ {0} /\ pr.inflights \in Seq(Nat) BY <1>1 DEF ProgressType
<1>3. last \in Nat BY <1>2, LastSentType
<1>4. p1 \in ProgressType
  <2>1. Append(pr.inflights, last) \in Seq(Nat) BY <1>2, <1>3
  <2>2. last + 1 \in Nat \ {0} BY <1>3
  <2> HIDE DEF pr, last
  <2> QED BY <1>1, <2>1, <2>2, ProgressFieldType
<1>5. p2 \in ProgressType
  <2> HIDE DEF pr
  <2> QED BY <1>1 DEF ProgressType
<1>6. p3 \in ProgressType
  <2>1. r.raft_log.snap \in Nat BY RaftFields, LogFields
  <2> QED BY <1>1, <2>1, BecomeSnapshotType
<1>7. AppendProgress(r, to, b) \in {pr, p1, p2, p3} BY DEF AppendProgress
<1> HIDE DEF pr, p1, p2, p3
<1> QED BY <1>1, <1>4, <1>5, <1>6, <1>7

\* Raft::send_append to a set of nodes is quiet.
LEMMA SendAppendsQuiet ==
    ASSUME NEW r \in RaftType, NEW dest \in SUBSET Node
    PROVE  Quiet(r, SendAppends(r, dest))
<1> DEFINE prs == [p \in Node |-> IF p \in dest THEN AppendProgress(r, p, TRUE) ELSE r.prs[p]]
           ms  == UNION {AppendMsgs(r, p, TRUE) : p \in dest}
           f   == r.raft_log.fatal \/ \E p \in dest : AppendFatal(r, p)
           l   == [r.raft_log EXCEPT !.fatal = f]
<1>1. prs \in [Node -> ProgressType] BY AppendProgressType, RaftFields
<1>2. ms \in SUBSET MessageType /\ \A m \in ms : Plain(r, m)
  BY AppendMsgsType
<1>3. l \in LogType
  <2>1. r.raft_log \in LogType BY RaftFields
  <2>2. f \in BOOLEAN OBVIOUS
  <2> HIDE DEF f
  <2> QED BY <2>1, <2>2 DEF LogType, LogRecord
<1>4. SendAppends(r, dest) = [r EXCEPT !.prs = prs, !.msgs = @ \cup ms, !.raft_log = l]
  BY DEF SendAppends
<1> HIDE DEF prs, ms, f, l
<1>5. Quiet(r, [r EXCEPT !.prs = prs, !.msgs = @ \cup ms, !.raft_log = l])
  BY <1>1, <1>2, <1>3, QuietSendsLog
<1> QED BY <1>4, <1>5

-----------------------------------------------------------------------------

\* A function on 1..n is a sequence.
LEMMA FunctionIsSeq ==
    ASSUME NEW S, NEW n \in Nat, NEW f \in [1..n -> S]
    PROVE  f \in Seq(S)
OBVIOUS

\* Work on one Progress is quiet.
LEMMA OnePrs ==
    ASSUME NEW r \in RaftType, NEW p \in Node, NEW pr \in ProgressType
    PROVE  /\ Quiet(r, [r EXCEPT !.prs[p] = pr])
           /\ [r EXCEPT !.prs[p] = pr].prs[p] = pr
<1>1. [r.prs EXCEPT ![p] = pr] \in [Node -> ProgressType] BY RaftFields
<1>2. Quiet(r, [r EXCEPT !.prs = [r.prs EXCEPT ![p] = pr]]) BY <1>1, QuietPrs
<1>3. [r EXCEPT !.prs[p] = pr].prs[p] = pr BY DEF RaftType
<1> QED BY <1>2, <1>3

\* The peers of a node are nodes.
LEMMA PeersType == ASSUME NEW r PROVE Peers(r) \in SUBSET Node
BY DEF Peers

\* Raft::bcast_append is quiet.
LEMMA BcastAppendQuiet ==
    ASSUME NEW r \in RaftType
    PROVE  Quiet(r, bcast_append(r))
BY PeersType, SendAppendsQuiet DEF bcast_append

\* Raft::send_append is quiet.
LEMMA SendAppendQuiet ==
    ASSUME NEW r \in RaftType, NEW to \in Node
    PROVE  Quiet(r, send_append(r, to))
<1>1. {to} \in SUBSET Node OBVIOUS
<1> QED BY <1>1, SendAppendsQuiet DEF send_append

\* Raft::send of a message outside campaigns is quiet.
LEMMA SendQuiet ==
    ASSUME NEW r \in RaftType, NEW m \in MessageType, m.type \notin CampaignType
    PROVE  Quiet(r, send(r, m))
<1> DEFINE ms == {Stamped(r, m)}
<1>1. Stamped(r, m) \in MessageType /\ Plain(r, Stamped(r, m)) BY StampedType
<1>2. ms \in SUBSET MessageType /\ \A x \in ms : Plain(r, x) BY <1>1
<1> HIDE DEF ms
<1>3. Quiet(r, [r EXCEPT !.msgs = @ \cup ms]) BY <1>2, QuietMsgs
<1> QED BY <1>3 DEF send, ms

\* Raft::bcast_heartbeat is quiet.
LEMMA BcastHeartbeatQuiet ==
    ASSUME NEW r \in RaftType
    PROVE  Quiet(r, bcast_heartbeat(r))
<1> DEFINE c(p) == Least(r.prs[p].match, r.raft_log.committed)
           m(p) == [NewMessage("MsgHeartbeat", p) EXCEPT !.commit = c(p)]
           ms   == {Stamped(r, m(p)) : p \in Peers(r)}
<1>1. ASSUME NEW p \in Node
      PROVE  /\ Stamped(r, m(p)) \in MessageType
             /\ Plain(r, Stamped(r, m(p)))
  <2>1. r.prs[p] \in ProgressType /\ r.raft_log \in LogType BY RaftFields
  <2>2. r.prs[p].match \in Nat /\ r.raft_log.committed \in Nat
    BY <2>1, LogFields DEF ProgressType
  <2>3. c(p) \in Nat BY <2>2 DEF Least
  <2>4. NewMessage("MsgHeartbeat", p) \in MessageType BY NewMessageType DEF MsgType
  <2> HIDE DEF c
  <2>5. m(p) \in MessageType BY <2>3, <2>4 DEF MessageType
  <2>6. m(p).type = "MsgHeartbeat" BY DEF NewMessage
  <2> HIDE DEF m
  <2> QED BY <2>5, <2>6, StampedType DEF CampaignType
<1>2. ms \in SUBSET MessageType /\ \A x \in ms : Plain(r, x)
  BY <1>1, PeersType
<1>3. bcast_heartbeat(r) = [r EXCEPT !.msgs = @ \cup ms] BY DEF bcast_heartbeat
<1> HIDE DEF ms
<1>4. Quiet(r, [r EXCEPT !.msgs = @ \cup ms]) BY <1>2, QuietMsgs
<1> QED BY <1>3, <1>4

\* The loop of maybe_send_append after an acknowledgement is quiet.
LEMMA DrainAppendsQuiet ==
    ASSUME NEW r \in RaftType, NEW to \in Node
    PROVE  Quiet(r, DrainAppends(r, to))
<1> DEFINE pr   == r.prs[to]
           todo == last_index(r.raft_log) + 1 - pr.next
           need == (todo + MaxEntsPerMsg - 1) \div MaxEntsPerMsg
           n    == Least(need, MaxInflight - Len(pr.inflights))
           from(k) == pr.next + (k - 1) * MaxEntsPerMsg
           a1 == AppendProgress(r, to, FALSE)
           ms1 == AppendMsgs(r, to, FALSE)
           fl == pr.inflights \o [k \in 1..n |-> LastSent(r, from(k))]
           ms2 == {AppendMessage(r, to, from(k), LastSent(r, from(k))) : k \in 1..n}
           a2 == [pr EXCEPT !.next = LastSent(r, from(n)) + 1, !.inflights = fl]
<1>1. pr \in ProgressType BY RaftFields
<1>2. pr.next \in Nat \ {0} /\ pr.inflights \in Seq(Nat) BY <1>1 DEF ProgressType
<1>3. CASE pr.state # "Replicate"
  <2>1. a1 \in ProgressType BY AppendProgressType
  <2>2. ms1 \in SUBSET MessageType /\ \A x \in ms1 : Plain(r, x)
    BY AppendMsgsType
  <2>3. DrainAppends(r, to) = [r EXCEPT !.prs = [r.prs EXCEPT ![to] = a1], !.msgs = @ \cup ms1]
    BY <1>3 DEF DrainAppends
  <2> HIDE DEF a1, ms1
  <2>4. [r.prs EXCEPT ![to] = a1] \in [Node -> ProgressType] BY <2>1, RaftFields
  <2>5. Quiet(r, [r EXCEPT !.prs = [r.prs EXCEPT ![to] = a1], !.msgs = @ \cup ms1])
    BY <2>2, <2>4, QuietSends
  <2> QED BY <2>3, <2>5
<1>4. CASE pr.state = "Replicate" /\ (todo <= 0 \/ n <= 0 \/ Compacted(r, to))
  BY <1>4, QuietRefl DEF DrainAppends
<1>5. CASE pr.state = "Replicate" /\ ~(todo <= 0 \/ n <= 0 \/ Compacted(r, to))
  <2>1. last_index(r.raft_log) \in Nat BY <1>2, LastSentType
  <2>2. todo \in Nat BY <1>2, <1>5, <2>1
  <2>3. need \in Int BY <2>2, LimitAssumption
  <2>4. MaxInflight - Len(pr.inflights) \in Int
    <3>1. Len(pr.inflights) \in Nat BY <1>2
    <3> HIDE DEF pr
    <3> QED BY <3>1, MaxInflightAssumption
  <2>5. n \in Nat /\ n >= 1 BY <1>5, <2>3, <2>4 DEF Least
  <2>6. ASSUME NEW k \in 1..n PROVE from(k) \in Nat \ {0}
    <3>1. k - 1 \in Nat BY <2>5
    <3>2. (k - 1) * MaxEntsPerMsg \in Nat BY <3>1, LimitAssumption
    <3> HIDE DEF pr, n
    <3> DEFINE z == (k - 1) * MaxEntsPerMsg
    <3>3. z \in Nat BY <3>2
    <3> HIDE DEF z
    <3>4. pr.next + z \in Nat \ {0} BY <3>3, <1>2
    <3> QED BY <3>4 DEF z
  <2>7. ASSUME NEW k \in 1..n
        PROVE  /\ LastSent(r, from(k)) \in Nat
               /\ AppendMessage(r, to, from(k), LastSent(r, from(k))) \in MessageType
               /\ Plain(r, AppendMessage(r, to, from(k), LastSent(r, from(k))))
    <3>1. from(k) \in Nat \ {0} BY <2>6
    <3> HIDE DEF from
    <3> QED BY <3>1, LastSentType, AppendMessageType
  <2>8. ms2 \in SUBSET MessageType /\ \A x \in ms2 : Plain(r, x)
    <3> HIDE DEF n, from
    <3> QED BY <2>7
  <2>9. fl \in Seq(Nat)
    <3> DEFINE g == [k \in 1..n |-> LastSent(r, from(k))]
    <3>1. g \in [1..n -> Nat]
      <4> HIDE DEF n, from
      <4> QED BY <2>7
    <3>2. n \in Nat BY <2>5
    <3> HIDE DEF g, n
    <3>3. g \in Seq(Nat) BY <3>1, <3>2, FunctionIsSeq
    <3>4. pr.inflights \o g \in Seq(Nat) BY <1>2, <3>3, ConcatType
    <3> QED BY <3>4 DEF g
  <2>10. LastSent(r, from(n)) + 1 \in Nat \ {0}
    <3>1. n \in 1..n BY <2>5
    <3>2. LastSent(r, from(n)) \in Nat
      <4> HIDE DEF n, from
      <4> QED BY <3>1, <2>7
    <3> HIDE DEF n, from
    <3> QED BY <3>2
  <2>11. a2 \in ProgressType
    <3> HIDE DEF fl, n, from, pr
    <3> QED BY <1>1, <2>9, <2>10 DEF ProgressType
  <2>12. DrainAppends(r, to) = [r EXCEPT !.prs = [r.prs EXCEPT ![to] = a2], !.msgs = @ \cup ms2]
    BY <1>5 DEF DrainAppends
  <2> HIDE DEF a2, ms2
  <2>13. [r.prs EXCEPT ![to] = a2] \in [Node -> ProgressType] BY <2>11, RaftFields
  <2>14. Quiet(r, [r EXCEPT !.prs = [r.prs EXCEPT ![to] = a2], !.msgs = @ \cup ms2])
    BY <2>8, <2>13, QuietSends
  <2> QED BY <2>12, <2>14
<1> QED BY <1>3, <1>4, <1>5

-----------------------------------------------------------------------------

\* Raft::maybe_commit is quiet.
LEMMA MaybeCommitQuiet ==
    ASSUME NEW r \in RaftType
    PROVE  Quiet(r, maybe_commit(r))
<1>1. CASE QuorumMatch(r) = {} BY <1>1, QuietRefl DEF maybe_commit
<1>2. CASE QuorumMatch(r) # {}
  <2> DEFINE m == CHOOSE m \in QuorumMatch(r) : TRUE
             l == log_maybe_commit(r.raft_log, m, r.term)
  <2>1. m \in QuorumMatch(r) BY <1>2
  <2>2. \A p \in Node : r.prs[p].match \in Nat BY RaftFields DEF ProgressType
  <2>3. m \in Nat BY <2>1, <2>2 DEF QuorumMatch
  <2> HIDE DEF m
  <2>4. r.raft_log \in LogType BY RaftFields
  <2>5. l \in LogType BY <2>3, <2>4, CommitToType DEF log_maybe_commit
  <2> HIDE DEF l
  <2>6. Quiet(r, [r EXCEPT !.raft_log = l]) BY <2>5, QuietLog
  <2> QED BY <1>2, <2>6 DEF maybe_commit, l, m
<1> QED BY <1>1, <1>2

\* Raft::append_entry is quiet.
LEMMA AppendEntryQuiet ==
    ASSUME NEW r \in RaftType, NEW data \in Value \cup {Conf, Empty}
    PROVE  Quiet(r, append_entry(r, data))
<1> DEFINE e  == [term |-> r.term, data |-> data]
           li == last_index(r.raft_log) + 1
           l  == append(r.raft_log, li - 1, <<e>>)
           pr == maybe_update(r.prs[r.id], li)
           prs == [r.prs EXCEPT ![r.id] = pr]
           u  == r.uncommitted_size + PayloadSize(e)
           s  == [r EXCEPT !.raft_log = l, !.prs = prs, !.uncommitted_size = u]
<1>1. /\ r.term \in Nat /\ r.raft_log \in LogType /\ r.id \in Node /\ r.uncommitted_size \in Nat
      /\ r.prs \in [Node -> ProgressType]
  BY RaftFields
<1>2. e \in Entry BY <1>1 DEF Entry
<1>3. li \in Nat /\ li - 1 \in Nat BY <1>1, LogFields DEF last_index
<1>4. l \in LogType
  <2>1. <<e>> \in Seq(Entry)
    <3> HIDE DEF e
    <3> QED BY <1>2
  <2> HIDE DEF li, e
  <2> QED BY <1>1, <1>3, <2>1, AppendType
<1>5. pr \in ProgressType
  <2> HIDE DEF li
  <2> QED BY <1>1, <1>3, MaybeUpdateType
<1>6. prs \in [Node -> ProgressType]
  <2> HIDE DEF pr
  <2> QED BY <1>1, <1>5
<1>7. u \in Nat BY <1>1 DEF PayloadSize
<1>8. append_entry(r, data) = maybe_commit(s) BY DEF append_entry
<1>9. Quiet(r, s)
  <2> HIDE DEF l, prs, u
  <2> QED BY <1>4, <1>6, <1>7, QuietEntry
<1> HIDE DEF s
<1>10. Quiet(s, maybe_commit(s)) BY <1>9, MaybeCommitQuiet DEF Quiet
<1> QED BY <1>8, <1>9, <1>10, QuietTrans

\* A leader's handling of MsgProp is quiet.
LEMMA StepPropQuiet ==
    ASSUME NEW r \in RaftType, NEW m \in MessageType
    PROVE  Quiet(r, step_prop(r, m))
<1>1. CASE m.entries = <<>>
  <2>1. Fatal(r.raft_log) \in LogType BY RaftFields, FatalType
  <2>2. Quiet(r, [r EXCEPT !.raft_log = Fatal(r.raft_log)]) BY <2>1, QuietLog
  <2> QED BY <1>1, <2>2 DEF step_prop
<1>2. CASE m.entries # <<>> /\ (r.lead_transferee # Nil \/ Dropped(r, m.entries[1].data))
  BY <1>2, QuietRefl DEF step_prop
<1>3. CASE m.entries # <<>> /\ ~(r.lead_transferee # Nil \/ Dropped(r, m.entries[1].data))
  <2> DEFINE d == m.entries[1].data
             a == append_entry(r, d)
  <2>1. m.entries \in Seq(Entry) BY DEF MessageType
  <2>2. m.entries[1] \in Entry BY <1>3, <2>1
  <2>3. d \in Value \cup {Conf, Empty} BY <2>2 DEF Entry
  <2> HIDE DEF d
  <2>4. Quiet(r, a) BY <2>3, AppendEntryQuiet
  <2> HIDE DEF a
  <2>5. Quiet(a, bcast_append(a)) BY <2>4, BcastAppendQuiet DEF Quiet
  <2>6. Quiet(r, bcast_append(a)) BY <2>4, <2>5, QuietTrans
  <2> QED BY <1>3, <2>6 DEF step_prop, a, d
<1> QED BY <1>1, <1>2, <1>3

\* Raft::send_timeout_now is quiet.
LEMMA TimeoutNowQuiet ==
    ASSUME NEW r \in RaftType, NEW to \in Node
    PROVE  Quiet(r, TimeoutNow(r, to))
<1> DEFINE m == NewMessage("MsgTimeoutNow", to)
<1>1. m \in MessageType BY NewMessageType DEF MsgType
<1>2. m.type \notin CampaignType BY DEF NewMessage, CampaignType
<1> HIDE DEF m
<1>3. Quiet(r, send(r, m)) BY <1>1, <1>2, SendQuiet
<1> QED BY <1>3, QuietRefl DEF TimeoutNow, m

\* A leader's handling of an acknowledgement is quiet.
LEMMA AcceptAppRespQuiet ==
    ASSUME NEW r \in RaftType, NEW m \in MessageType
    PROVE  Quiet(r, AcceptAppResp(r, m))
<1> DEFINE old == r.prs[m.from]
           up  == maybe_update(old, m.index)
           fr  == [up EXCEPT !.inflights = free_to(@, m.index)]
           pr  == CASE up.state = "Probe" -> become_replicate(up)
                    [] up.state = "Snapshot" ->
                         IF need_snapshot_abort(up) THEN become_probe(up) ELSE up
                    [] OTHER -> fr
           r1  == [r EXCEPT !.prs[m.from] = pr]
           r2  == maybe_commit(r1)
           r3  == IF r2.raft_log.committed # r.raft_log.committed THEN bcast_append(r2)
                  ELSE IF is_paused(old) THEN send_append(r2, m.from) ELSE r2
           r4  == DrainAppends(r3, m.from)
<1>1. m.from \in Node /\ m.index \in Nat BY DEF MessageType
<1>2. old \in ProgressType BY <1>1, RaftFields
<1>3. up \in ProgressType
  <2> HIDE DEF old
  <2> QED BY <1>1, <1>2, MaybeUpdateType
<1>4. fr \in ProgressType
  <2> DEFINE e == free_to(up.inflights, m.index)
  <2> HIDE DEF up
  <2>1. up.inflights \in Seq(Nat) BY <1>3 DEF ProgressType
  <2>2. e \in Seq(Nat) BY <1>1, <2>1, FreeToType
  <2> HIDE DEF e
  <2>3. [up EXCEPT !.inflights = e] \in ProgressType BY <1>3, <2>2 DEF ProgressType
  <2> QED BY <2>3 DEF e
<1>5. pr \in ProgressType
  <2> HIDE DEF up, fr
  <2>1. become_replicate(up) \in ProgressType /\ become_probe(up) \in ProgressType
    BY <1>3, BecomeReplicateType, BecomeProbeType
  <2> QED BY <1>3, <1>4, <2>1
<1>6. Quiet(r, r1)
  <2> HIDE DEF pr
  <2> QED BY <1>1, <1>5, OnePrs
<1>7. Quiet(r1, r2)
  <2> HIDE DEF r1
  <2> QED BY <1>6, MaybeCommitQuiet DEF Quiet
<1>8. Quiet(r2, r3)
  <2> HIDE DEF r2
  <2>1. r2 \in RaftType BY <1>7 DEF Quiet
  <2> QED BY <1>1, <2>1, BcastAppendQuiet, SendAppendQuiet, QuietRefl
<1>9. Quiet(r3, r4)
  <2> HIDE DEF r3
  <2> QED BY <1>1, <1>8, DrainAppendsQuiet DEF Quiet
<1>10. Quiet(r4, TimeoutNow(r4, m.from))
  <2> HIDE DEF r4
  <2> QED BY <1>1, <1>9, TimeoutNowQuiet DEF Quiet
<1>11. AcceptAppResp(r, m) = TimeoutNow(r4, m.from) BY DEF AcceptAppResp
<1> HIDE DEF r1, r2, r3, r4
<1>12. Quiet(r, r2) BY <1>6, <1>7, QuietTrans
<1>13. Quiet(r, r3) BY <1>12, <1>8, QuietTrans
<1>14. Quiet(r, r4) BY <1>13, <1>9, QuietTrans
<1>15. Quiet(r, TimeoutNow(r4, m.from)) BY <1>14, <1>10, QuietTrans
<1> QED BY <1>11, <1>15

-----------------------------------------------------------------------------

\* A leader's handling of a rejection is quiet.
LEMMA RejectAppRespQuiet ==
    ASSUME NEW r \in RaftType, NEW m \in MessageType
    PROVE  Quiet(r, RejectAppResp(r, m))
<1> DEFINE pr == maybe_decreases_to(r.prs[m.from], m.index, m.reject_hint)
           p2 == IF pr.state = "Replicate" THEN become_probe(pr) ELSE pr
           r1 == [r EXCEPT !.prs[m.from] = p2]
<1>1. m.from \in Node /\ m.index \in Nat /\ m.reject_hint \in Nat BY DEF MessageType
<1>2. r.prs[m.from] \in ProgressType BY <1>1, RaftFields
<1>3. pr \in ProgressType BY <1>1, <1>2, MaybeDecreasesType
<1>4. p2 \in ProgressType
  <2> HIDE DEF pr
  <2> QED BY <1>3, BecomeProbeType
<1>5. Quiet(r, r1)
  <2> HIDE DEF p2
  <2> QED BY <1>1, <1>4, OnePrs
<1>6. RejectAppResp(r, m) = send_append(r1, m.from) BY DEF RejectAppResp
<1> HIDE DEF r1
<1>7. Quiet(r1, send_append(r1, m.from)) BY <1>1, <1>5, SendAppendQuiet DEF Quiet
<1> QED BY <1>5, <1>6, <1>7, QuietTrans

\* A leader's handling of MsgAppResp is quiet.
LEMMA StepAppRespQuiet ==
    ASSUME NEW r \in RaftType, NEW m \in MessageType
    PROVE  Quiet(r, step_app_resp(r, m))
<1> DEFINE pa == [r.prs[m.from] EXCEPT !.recent_active = TRUE]
           a  == [r EXCEPT !.prs[m.from] = pa]
           b  == [a EXCEPT !.prs[m.from] = maybe_update(a.prs[m.from], m.index)]
<1>1. m.from \in Node /\ m.index \in Nat BY DEF MessageType
<1>2. r.prs[m.from] \in ProgressType BY <1>1, RaftFields
<1>3. pa \in ProgressType BY <1>2 DEF ProgressType
<1>4. a = [r EXCEPT !.prs[m.from].recent_active = TRUE] OBVIOUS
<1>5. Quiet(r, a)
  <2> HIDE DEF pa
  <2> QED BY <1>1, <1>3, OnePrs
<1>6. step_app_resp(r, m) \in {RejectAppResp(a, m), AcceptAppResp(a, m), b, a}
  <2> HIDE DEF a
  <2> QED BY <1>4 DEF step_app_resp
<1> HIDE DEF a
<1>7. a \in RaftType BY <1>5 DEF Quiet
<1>8. Quiet(a, b)
  <2>1. a.prs[m.from] \in ProgressType BY <1>1, <1>7, RaftFields
  <2>2. maybe_update(a.prs[m.from], m.index) \in ProgressType BY <1>1, <2>1, MaybeUpdateType
  <2> QED BY <1>1, <1>7, <2>2, OnePrs
<1> HIDE DEF b
<1>9. Quiet(a, step_app_resp(r, m))
  BY <1>6, <1>7, <1>8, QuietRefl, RejectAppRespQuiet, AcceptAppRespQuiet
<1> QED BY <1>5, <1>9, QuietTrans

\* A leader's handling of MsgHeartbeatResp is quiet.
LEMMA StepHeartbeatRespQuiet ==
    ASSUME NEW r \in RaftType, NEW m \in MessageType
    PROVE  Quiet(r, step_heartbeat_resp(r, m))
<1> DEFINE pr == r.prs[m.from]
           fl == IF pr.state = "Replicate" /\ is_full(pr.inflights)
                 THEN free_first_one(pr.inflights) ELSE pr.inflights
           p2 == [pr EXCEPT !.recent_active = TRUE, !.paused = FALSE, !.inflights = fl]
           a  == [r EXCEPT !.prs[m.from] = p2]
<1>1. m.from \in Node BY DEF MessageType
<1>2. pr \in ProgressType BY <1>1, RaftFields
<1>3. pr.inflights \in Seq(Nat) BY <1>2 DEF ProgressType
<1>4. fl \in Seq(Nat)
  <2>1. CASE is_full(pr.inflights)
    <3> DEFINE q == pr.inflights
    <3> HIDE DEF pr
    <3>1. q \in Seq(Nat) /\ Len(q) = MaxInflight BY <1>3, <2>1 DEF is_full
    <3> HIDE DEF q
    <3>2. 1 \in 1..Len(q) BY <3>1, MaxInflightAssumption
    <3>3. q[1] \in Nat BY <3>1, <3>2
    <3>4. free_first_one(q) \in Seq(Nat) BY <3>1, <3>3, FreeToType DEF free_first_one
    <3> QED BY <1>3, <3>4 DEF q
  <2>2. CASE ~is_full(pr.inflights) BY <1>3, <2>2
  <2> QED BY <2>1, <2>2
<1>5. p2 \in ProgressType
  <2> HIDE DEF pr, fl
  <2> QED BY <1>2, <1>4 DEF ProgressType
<1>6. Quiet(r, a)
  <2> HIDE DEF p2
  <2> QED BY <1>1, <1>5, OnePrs
<1>7. step_heartbeat_resp(r, m) \in {send_append(a, m.from), a} BY DEF step_heartbeat_resp
<1> HIDE DEF a
<1>8. Quiet(a, send_append(a, m.from)) BY <1>1, <1>6, SendAppendQuiet DEF Quiet
<1>9. Quiet(r, send_append(a, m.from)) BY <1>6, <1>8, QuietTrans
<1> QED BY <1>6, <1>7, <1>9

\* A leader's handling of MsgTransferLeader is quiet.
LEMMA StepTransferLeaderQuiet ==
    ASSUME NEW r \in RaftType, NEW m \in MessageType
    PROVE  Quiet(r, step_transfer_leader(r, m))
<1> DEFINE t == [r EXCEPT !.lead_transferee = m.from, !.past = FALSE]
           n == [r EXCEPT !.lead_transferee = Nil]
<1>1. m.from \in Node BY DEF MessageType
<1>2. Quiet(r, t) /\ Quiet(r, n) BY <1>1, QuietTransfer
<1>3. step_transfer_leader(r, m) \in {r, n, TimeoutNow(t, m.from), send_append(t, m.from)}
  BY DEF step_transfer_leader
<1> HIDE DEF t, n
<1>4. t \in RaftType BY <1>2 DEF Quiet
<1>5. Quiet(t, TimeoutNow(t, m.from)) /\ Quiet(t, send_append(t, m.from))
  BY <1>1, <1>4, TimeoutNowQuiet, SendAppendQuiet
<1>6. Quiet(r, TimeoutNow(t, m.from)) /\ Quiet(r, send_append(t, m.from))
  BY <1>2, <1>5, QuietTrans
<1> QED BY <1>2, <1>3, <1>6, QuietRefl

\* Raft::step_leader is quiet: no message of its own term ends a leadership.
LEMMA StepLeaderQuiet ==
    ASSUME NEW r \in RaftType, NEW m \in MessageType
    PROVE  Quiet(r, step_leader(r, m))
<1>1. step_leader(r, m) \in {step_prop(r, m), step_app_resp(r, m), step_heartbeat_resp(r, m),
                             step_transfer_leader(r, m), r}
  BY DEF step_leader
<1> QED BY <1>1, StepPropQuiet, StepAppRespQuiet, StepHeartbeatRespQuiet,
           StepTransferLeaderQuiet, QuietRefl

\* The answers to a leader's messages.
LEMMA ReplyType ==
    ASSUME NEW p \in Node, NEW i \in Nat, NEW h \in Nat
    PROVE  LET m == NewMessage("MsgAppResp", p)
               h0 == NewMessage("MsgHeartbeatResp", p)
               m1 == [m EXCEPT !.index = i]
               m2 == [m EXCEPT !.index = i, !.reject = TRUE, !.reject_hint = h]
           IN  /\ {m, h0, m1, m2} \subseteq MessageType
               /\ \A x \in {m, h0, m1, m2} : x.type \notin CampaignType
<1> DEFINE m == NewMessage("MsgAppResp", p)
           h0 == NewMessage("MsgHeartbeatResp", p)
           m1 == [m EXCEPT !.index = i]
           m2 == [m EXCEPT !.index = i, !.reject = TRUE, !.reject_hint = h]
<1>1. m \in MessageType /\ h0 \in MessageType BY NewMessageType DEF MsgType
<1>2. m.type = "MsgAppResp" /\ h0.type = "MsgHeartbeatResp" BY DEF NewMessage
<1> HIDE DEF m, h0
<1>3. m1 \in MessageType /\ m2 \in MessageType BY <1>1 DEF MessageType
<1>4. m1.type = m.type /\ m2.type = m.type BY <1>1 DEF MessageType
<1> HIDE DEF m1, m2
<1>5. /\ {m, h0, m1, m2} \subseteq MessageType
      /\ \A x \in {m, h0, m1, m2} : x.type \notin CampaignType
  BY <1>1, <1>2, <1>3, <1>4 DEF CampaignType
<1> QED BY <1>5 DEF m, h0, m1, m2

\* Work on the log followed by an answer is quiet.
LEMMA LogThenSend ==
    ASSUME NEW r \in RaftType, NEW l \in LogType, NEW m \in MessageType,
           m.type \notin CampaignType
    PROVE  Quiet(r, send([r EXCEPT !.raft_log = l], m))
<1> DEFINE s == [r EXCEPT !.raft_log = l]
<1>1. Quiet(r, s) BY QuietLog
<1> HIDE DEF s
<1>2. Quiet(s, send(s, m)) BY <1>1, SendQuiet DEF Quiet
<1>3. Quiet(r, send(s, m)) BY <1>1, <1>2, QuietTrans
<1> QED BY <1>3 DEF s

\* Raft::handle_append_entries is quiet.
LEMMA HandleAppendEntriesQuiet ==
    ASSUME NEW r \in RaftType, NEW m \in MessageType
    PROVE  Quiet(r, handle_append_entries(r, m))
<1> DEFINE l == r.raft_log
           resp == NewMessage("MsgAppResp", m.from)
           l2 == maybe_append(l, m.index, m.commit, m.entries)
           a1 == [resp EXCEPT !.index = l.committed]
           a2 == [resp EXCEPT !.index = m.index + Len(m.entries)]
           a3 == [resp EXCEPT !.index = m.index, !.reject = TRUE, !.reject_hint = last_index(l)]
<1>1. m.from \in Node /\ m.index \in Nat /\ m.commit \in Nat /\ m.entries \in Seq(Entry)
  BY DEF MessageType
<1>2. l \in LogType BY RaftFields
<1>3. l.committed \in Nat /\ last_index(l) \in Nat /\ m.index + Len(m.entries) \in Nat
  BY <1>1, <1>2, LogFields DEF last_index
<1>4. a1 \in MessageType /\ a1.type \notin CampaignType
  <2> HIDE DEF l
  <2> QED BY <1>1, <1>3, ReplyType
<1>5. a2 \in MessageType /\ a2.type \notin CampaignType
  BY <1>1, <1>3, ReplyType
<1>6. a3 \in MessageType /\ a3.type \notin CampaignType
  <2> HIDE DEF l
  <2> QED BY <1>1, <1>3, ReplyType
<1>7. l2 \in LogType
  <2> HIDE DEF l
  <2> QED BY <1>1, <1>2, MaybeAppendType
<1>8. handle_append_entries(r, m) \in
        {send(r, a1), send([r EXCEPT !.raft_log = l2], a2), send(r, a3)}
  BY DEF handle_append_entries
<1> HIDE DEF l2, a1, a2, a3
<1> QED BY <1>4, <1>5, <1>6, <1>7, <1>8, SendQuiet, LogThenSend

\* Raft::handle_heartbeat is quiet.
LEMMA HandleHeartbeatQuiet ==
    ASSUME NEW r \in RaftType, NEW m \in MessageType
    PROVE  Quiet(r, handle_heartbeat(r, m))
<1> DEFINE l == commit_to(r.raft_log, m.commit)
           a == NewMessage("MsgHeartbeatResp", m.from)
<1>1. m.from \in Node /\ m.commit \in Nat BY DEF MessageType
<1>2. l \in LogType BY <1>1, RaftFields, CommitToType
<1>3. a \in MessageType BY <1>1, NewMessageType DEF MsgType
<1>4. a.type \notin CampaignType BY DEF NewMessage, CampaignType
<1> HIDE DEF l, a
<1>5. Quiet(r, send([r EXCEPT !.raft_log = l], a)) BY <1>2, <1>3, <1>4, LogThenSend
<1> QED BY <1>5 DEF handle_heartbeat, l, a

\* Raft::handle_snapshot is quiet.
LEMMA HandleSnapshotQuiet ==
    ASSUME NEW r \in RaftType, NEW m \in MessageType
    PROVE  Quiet(r, handle_snapshot(r, m))
<1> DEFINE s == m.snapshot
           l == r.raft_log
           a == NewMessage("MsgAppResp", m.from)
           l1 == commit_to(l, Len(s))
           l2 == log_restore(l, s)
<1>1. m.from \in Node /\ s \in Seq(Entry) /\ Len(s) \in Nat BY DEF MessageType
<1>2. l \in LogType /\ l.committed \in Nat BY RaftFields, LogFields
<1>3. a \in MessageType BY <1>1, NewMessageType DEF MsgType
<1>4. a.type \notin CampaignType BY DEF NewMessage, CampaignType
<1>5. l1 \in LogType
  <2> HIDE DEF l, s
  <2> QED BY <1>1, <1>2, CommitToType
<1>6. CASE Len(s) <= l.committed
  <2> HIDE DEF a
  <2>1. Quiet(r, send(r, a)) BY <1>3, <1>4, SendQuiet
  <2> QED BY <1>6, <2>1 DEF handle_snapshot, a
<1>7. CASE ~(Len(s) <= l.committed)
  <2>1. l2 \in LogType
    <3> HIDE DEF l, s
    <3>1. l.committed <= Len(s) BY <1>1, <1>2, <1>7
    <3> QED BY <1>1, <1>2, <3>1, LogRestoreType
  <2>2. handle_snapshot(r, m) \in {send([r EXCEPT !.raft_log = l1], a),
                                   send([r EXCEPT !.raft_log = l2], a)}
    BY <1>7 DEF handle_snapshot
  <2> HIDE DEF l1, l2, a
  <2> QED BY <1>3, <1>4, <1>5, <2>1, <2>2, LogThenSend
<1> QED BY <1>6, <1>7

\* Whatever the leader sends, handling it is quiet.
LEMMA HandleLeaderMessageQuiet ==
    ASSUME NEW r \in RaftType, NEW m \in MessageType
    PROVE  Quiet(r, handle_leader_message(r, m))
<1>1. handle_leader_message(r, m) \in
        {handle_append_entries(r, m), handle_heartbeat(r, m), handle_snapshot(r, m)}
  BY DEF handle_leader_message
<1> QED BY <1>1, HandleAppendEntriesQuiet, HandleHeartbeatQuiet, HandleSnapshotQuiet

\* Forwarding a proposal or a transfer to the leader is quiet.
LEMMA ForwardQuiet ==
    ASSUME NEW r \in RaftType, NEW m \in MessageType, m.type \notin CampaignType
    PROVE  Quiet(r, forward(r, m))
<1> DEFINE n == [m EXCEPT !.to = r.lead]
           l == Fatal(r.raft_log)
<1>1. l \in LogType BY RaftFields, FatalType
<1>2. Quiet(r, [r EXCEPT !.raft_log = l])
  <2> HIDE DEF l
  <2> QED BY <1>1, QuietLog
<1>3. ASSUME r.lead # Nil PROVE Quiet(r, send(r, n))
  <2>1. r.lead \in Node BY <1>3, RaftFields
  <2>2. n \in MessageType /\ n.type = m.type BY <2>1 DEF MessageType
  <2> HIDE DEF n
  <2> QED BY <2>2, SendQuiet
<1> QED BY <1>2, <1>3, QuietRefl DEF forward

-----------------------------------------------------------------------------
(* What a step can do to a node's term, vote and role.  Sane holds of every  *)
(* step, whatever the configuration: the term never falls, a vote is never   *)
(* changed within a term.  Elects holds without pre-votes: a node campaigns  *)
(* and leads only with votes that it has been given in its term.             *)

\* prs_ outside leadership.
LEMMA NoProgressType == NoProgress \in [Node -> ProgressType]
BY NewProgressType DEF NoProgress

\* Raft::reset clears the vote exactly when the term changes.
LEMMA ResetFacts ==
    ASSUME NEW r \in RaftType, NEW t \in Nat
    PROVE  /\ reset(r, t) \in RaftType
           /\ reset(r, t).id = r.id /\ reset(r, t).term = t
           /\ reset(r, t).vote = IF r.term # t THEN Nil ELSE r.vote
           /\ reset(r, t).granted = {} /\ reset(r, t).msgs = r.msgs
           /\ reset(r, t).raft_log = r.raft_log
<1> DEFINE v == IF r.term # t THEN Nil ELSE r.vote
<1>1. v \in Node \cup {Nil} BY RaftFields
<1>2. NoProgress \in [Node -> ProgressType] BY NoProgressType
<1>3. reset(r, t) = [r EXCEPT !.term = t, !.vote = v,
              !.lead = Nil, !.past = FALSE, !.lead_transferee = Nil,
              !.granted = {}, !.refused = {}, !.prs = NoProgress, !.uncommitted_size = 0]
  BY DEF reset
<1>4. reset(r, t) \in RaftType
  <2> HIDE DEF v
  <2>1. ASSUME NEW n \in Node \cup {Nil}, NEW g \in SUBSET Node,
               NEW prs \in [Node -> ProgressType], NEW u \in Nat
        PROVE  [r EXCEPT !.term = t, !.vote = v, !.lead = n, !.past = FALSE,
                         !.lead_transferee = n, !.granted = g, !.refused = g,
                         !.prs = prs, !.uncommitted_size = u] \in RaftType
    BY <1>1 DEF RaftType
  <2> DEFINE nil == Nil  none == {}  zero == 0
  <2>2. nil \in Node \cup {Nil} /\ none \in SUBSET Node /\ zero \in Nat OBVIOUS
  <2> HIDE DEF nil, none, zero
  <2>3. [r EXCEPT !.term = t, !.vote = v, !.lead = nil, !.past = FALSE,
                  !.lead_transferee = nil, !.granted = none, !.refused = none,
                  !.prs = NoProgress, !.uncommitted_size = zero] \in RaftType
    BY <1>2, <2>1, <2>2
  <2> QED BY <1>3, <2>3 DEF nil, none, zero
<1>5. /\ reset(r, t).id = r.id /\ reset(r, t).term = t
      /\ reset(r, t).vote = v
      /\ reset(r, t).granted = {} /\ reset(r, t).msgs = r.msgs
      /\ reset(r, t).raft_log = r.raft_log
  <2> HIDE DEF v
  <2> QED BY <1>3 DEF RaftType
<1> QED BY <1>4, <1>5

\* Raft::become_follower.
LEMMA BecomeFollowerFacts ==
    ASSUME NEW r \in RaftType, NEW t \in Nat, NEW lead \in Node \cup {Nil}
    PROVE  LET s == become_follower(r, t, lead)
           IN  /\ s \in RaftType /\ s.id = r.id /\ s.term = t
               /\ s.vote = IF r.term # t THEN Nil ELSE r.vote
               /\ s.state = "Follower" /\ s.granted = {} /\ s.msgs = r.msgs
               /\ s.raft_log = r.raft_log
<1> DEFINE q == reset(r, t)
           s == [q EXCEPT !.lead = lead, !.state = "Follower"]
<1>1. /\ q \in RaftType /\ q.id = r.id /\ q.term = t
      /\ q.vote = IF r.term # t THEN Nil ELSE r.vote
      /\ q.granted = {} /\ q.msgs = r.msgs /\ q.raft_log = r.raft_log
  BY ResetFacts
<1> HIDE DEF q
<1>2. s \in RaftType BY <1>1 DEF RaftType, StateType
<1>3. /\ s.id = q.id /\ s.term = q.term /\ s.vote = q.vote
      /\ s.state = "Follower" /\ s.granted = q.granted /\ s.msgs = q.msgs
      /\ s.raft_log = q.raft_log
  BY <1>1 DEF RaftType
<1>4. become_follower(r, t, lead) = s BY DEF become_follower, q
<1> HIDE DEF s
<1> QED BY <1>1, <1>2, <1>3, <1>4

\* Raft::become_candidate: the next term, with a vote for itself.
LEMMA BecomeCandidateFacts ==
    ASSUME NEW r \in RaftType
    PROVE  LET s == become_candidate(r)
           IN  /\ s \in RaftType /\ s.id = r.id /\ s.term = r.term + 1 /\ s.vote = r.id
               /\ s.state = "Candidate" /\ s.granted = {} /\ s.msgs = r.msgs
<1> DEFINE t == r.term + 1
           q == reset(r, t)
           s == [q EXCEPT !.vote = r.id, !.state = "Candidate"]
<1>1. t \in Nat /\ r.id \in Node BY RaftFields
<1>2. q \in RaftType /\ q.id = r.id /\ q.term = t /\ q.granted = {} /\ q.msgs = r.msgs
  <2> HIDE DEF t
  <2> QED BY <1>1, ResetFacts
<1> HIDE DEF q
<1>3. s \in RaftType BY <1>1, <1>2 DEF RaftType, StateType
<1>4. /\ s.id = q.id /\ s.term = q.term /\ s.vote = r.id
      /\ s.state = "Candidate" /\ s.granted = q.granted /\ s.msgs = q.msgs
  BY <1>2 DEF RaftType
<1>5. become_candidate(r) = s BY DEF become_candidate, q
<1> HIDE DEF s
<1> QED BY <1>2, <1>3, <1>4, <1>5

\* Raft::become_pre_candidate keeps the term and the vote.
LEMMA BecomePreCandidateFacts ==
    ASSUME NEW r \in RaftType
    PROVE  LET s == become_pre_candidate(r)
           IN  /\ s \in RaftType /\ s.id = r.id /\ s.term = r.term /\ s.vote = r.vote
               /\ s.state = "PreCandidate" /\ s.granted = {} /\ s.msgs = r.msgs
BY DEF become_pre_candidate, RaftType, StateType

\* Raft::poll counts no vote but the one it is given.
LEMMA PollFacts ==
    ASSUME NEW r \in RaftType, NEW id \in Node, NEW v \in BOOLEAN
    PROVE  LET s == poll(r, id, v)
           IN  /\ s \in RaftType /\ s.id = r.id /\ s.term = r.term /\ s.vote = r.vote
               /\ s.state = r.state /\ s.msgs = r.msgs
               /\ \A x \in s.granted : x \in r.granted \/ (v /\ x = id)
<1> DEFINE g == [r EXCEPT !.granted = @ \cup {id}]
           n == [r EXCEPT !.refused = @ \cup {id}]
<1>1. g \in RaftType /\ n \in RaftType BY DEF RaftType
<1>2. /\ g.id = r.id /\ g.term = r.term /\ g.vote = r.vote /\ g.state = r.state
      /\ g.msgs = r.msgs /\ g.granted = r.granted \cup {id}
      /\ n.id = r.id /\ n.term = r.term /\ n.vote = r.vote /\ n.state = r.state
      /\ n.msgs = r.msgs /\ n.granted = r.granted
  BY DEF RaftType
<1>3. poll(r, id, v) = r \/ (v /\ poll(r, id, v) = g) \/ poll(r, id, v) = n BY DEF poll
<1> HIDE DEF g, n
<1> QED BY <1>1, <1>2, <1>3

\* Raft::become_leader keeps the term and the vote.
LEMMA BecomeLeaderFacts ==
    ASSUME NEW r \in RaftType
    PROVE  LET s == become_leader(r)
           IN  /\ s \in RaftType /\ s.id = r.id /\ s.term = r.term /\ s.vote = r.vote
               /\ s.state = "Leader"
               /\ \A m \in s.msgs : m \in r.msgs \/ Plain(r, m)
<1> DEFINE li == last_index(r.raft_log)
           q == reset(r, r.term)
           prs == [p \in Node |-> IF p = r.id THEN become_replicate(NewProgress(li, li + 1))
                                              ELSE NewProgress(0, li + 1)]
           t == [q EXCEPT !.lead = r.id, !.state = "Leader", !.prs = prs]
<1>1. r.id \in Node /\ r.term \in Nat /\ r.raft_log \in LogType BY RaftFields
<1>2. li \in Nat /\ li + 1 \in Nat \ {0} BY <1>1, LogFields DEF last_index
<1>3. prs \in [Node -> ProgressType]
  <2> HIDE DEF li
  <2>1. NewProgress(li, li + 1) \in ProgressType /\ NewProgress(0, li + 1) \in ProgressType
    BY <1>2, NewProgressType
  <2>2. become_replicate(NewProgress(li, li + 1)) \in ProgressType
    BY <2>1, BecomeReplicateType
  <2> QED BY <2>1, <2>2
<1>4. q \in RaftType /\ q.id = r.id /\ q.term = r.term /\ q.vote = r.vote /\ q.msgs = r.msgs
  BY <1>1, ResetFacts
<1>5. become_leader(r) = append_entry(t, Empty) BY DEF become_leader
<1> HIDE DEF q, prs
<1>6. t \in RaftType BY <1>1, <1>3, <1>4 DEF RaftType, StateType
<1>7. /\ t.id = r.id /\ t.term = r.term /\ t.vote = r.vote /\ t.msgs = r.msgs
      /\ t.state = "Leader"
  BY <1>4 DEF RaftType
<1> HIDE DEF t
<1>8. Quiet(t, append_entry(t, Empty)) BY <1>6, AppendEntryQuiet
<1>9. \A m : Plain(t, m) => Plain(r, m) BY <1>7 DEF Plain
<1> QED BY <1>5, <1>7, <1>8, <1>9 DEF Quiet

\* The vote requests of Raft::campaign.
LEMMA VoteRequestsType ==
    ASSUME NEW r \in RaftType, NEW type \in {"MsgVote", "MsgPreVote"}, NEW t \in Nat,
           NEW tr \in BOOLEAN
    PROVE  /\ VoteRequests(r, type, t, tr) \in SUBSET MessageType
           /\ \A m \in VoteRequests(r, type, t, tr) : m.type = type /\ m.term = t
<1> DEFINE li == last_index(r.raft_log)
           lt == last_term(r.raft_log)
           m(p) == [NewMessage(type, p) EXCEPT !.term = t, !.index = li, !.log_term = lt,
                                               !.transfer = tr]
<1>1. li \in Nat BY RaftFields, LogFields DEF last_index
<1>2. lt \in Nat
  <2>1. r.raft_log \in LogType BY RaftFields
  <2> QED BY <1>1, <2>1, TermType DEF last_term
<1> HIDE DEF li, lt
<1>3. ASSUME NEW p \in Node
      PROVE  /\ Stamped(r, m(p)) \in MessageType
             /\ Stamped(r, m(p)).type = type /\ Stamped(r, m(p)).term = t
  <2>1. NewMessage(type, p) \in MessageType BY NewMessageType DEF MsgType
  <2>2. m(p) \in MessageType BY <1>1, <1>2, <2>1 DEF MessageType
  <2>3. m(p).type = type /\ m(p).term = t BY DEF NewMessage
  <2> HIDE DEF m
  <2>4. type \in CampaignType BY DEF CampaignType
  <2> QED BY <2>2, <2>3, <2>4, StampedType
<1>4. VoteRequests(r, type, t, tr) = {Stamped(r, m(p)) : p \in Peers(r)}
  BY DEF VoteRequests, li, lt
<1> HIDE DEF m
<1> QED BY <1>3, <1>4, PeersType

\* Sending changes msgs_ only.
LEMMA AddMsgs ==
    ASSUME NEW r \in RaftType, NEW ms \in SUBSET MessageType
    PROVE  LET s == [r EXCEPT !.msgs = @ \cup ms]
           IN  /\ s \in RaftType /\ s.id = r.id /\ s.term = r.term /\ s.vote = r.vote
               /\ s.state = r.state /\ s.granted = r.granted /\ s.msgs = r.msgs \cup ms
BY DEF RaftType

\* Raft::campaign: the next term, a vote for itself, a win only as a quorum of one.
LEMMA CampaignFacts ==
    ASSUME NEW r \in RaftType, NEW tr \in BOOLEAN
    PROVE  LET s == campaign(r, tr)
           IN  /\ s \in RaftType /\ s.id = r.id /\ s.term = r.term + 1 /\ s.vote = r.id
               /\ \/ s.state = "Candidate" /\ s.granted \subseteq {r.id}
                  \/ /\ s.state = "Leader"
                     /\ \E Q \in SUBSET Node : Cardinality(Q) = quorum /\ Q \subseteq {r.id}
               /\ \A m \in s.msgs : \/ m \in r.msgs
                                    \/ m.type \notin CampaignType /\ (m.type \in LeaderMsg => m.term = s.term)
                                    \/ m.type = "MsgVote" /\ m.term = s.term
<1> DEFINE b == become_candidate(r)
           c == poll(b, r.id, TRUE)
           v == VoteRequests(c, "MsgVote", c.term, tr)
           d == [c EXCEPT !.msgs = @ \cup v]
           s == campaign(r, tr)
<1>1. /\ b \in RaftType /\ b.id = r.id /\ b.term = r.term + 1 /\ b.vote = r.id
      /\ b.state = "Candidate" /\ b.granted = {} /\ b.msgs = r.msgs
  BY BecomeCandidateFacts
<1> HIDE DEF b
<1>2. /\ c \in RaftType /\ c.id = r.id /\ c.term = r.term + 1 /\ c.vote = r.id
      /\ c.state = "Candidate" /\ c.msgs = r.msgs /\ c.granted \subseteq {r.id}
  <2>1. r.id \in Node BY RaftFields
  <2> DEFINE yes == TRUE
  <2>y. yes \in BOOLEAN OBVIOUS
  <2> HIDE DEF yes
  <2>z. LET q == poll(b, r.id, yes) IN
        /\ q \in RaftType /\ q.id = b.id /\ q.term = b.term /\ q.vote = b.vote
        /\ q.state = b.state /\ q.msgs = b.msgs
        /\ \A x \in q.granted : x \in b.granted \/ (yes /\ x = r.id)
    BY <1>1, <2>1, <2>y, PollFacts
  <2>2. /\ c \in RaftType /\ c.id = b.id /\ c.term = b.term /\ c.vote = b.vote
        /\ c.state = b.state /\ c.msgs = b.msgs
        /\ \A x \in c.granted : x \in b.granted \/ x = r.id
    BY <2>z DEF yes
  <2> HIDE DEF c
  <2> QED BY <1>1, <2>2
<1>3. IF Cardinality(c.granted) = quorum THEN s = become_leader(c) ELSE s = d
  BY DEF campaign, b
<1> HIDE DEF c, s
<1>4. c.granted \in SUBSET Node BY <1>2, RaftFields
<1>5. CASE Cardinality(c.granted) = quorum
  <2>1. /\ s \in RaftType /\ s.id = c.id /\ s.term = c.term /\ s.vote = c.vote
        /\ s.state = "Leader"
        /\ \A m \in s.msgs : m \in c.msgs \/ Plain(c, m)
    BY <1>2, <1>3, <1>5, BecomeLeaderFacts
  <2> QED BY <1>2, <1>4, <1>5, <2>1 DEF Plain, s
<1>6. CASE Cardinality(c.granted) # quorum
  <2>1. c.term \in Nat BY <1>2, RaftFields
  <2>2. v \in SUBSET MessageType /\ \A m \in v : m.type = "MsgVote" /\ m.term = c.term
    BY <1>2, <2>1, VoteRequestsType
  <2> HIDE DEF v
  <2>3. /\ d \in RaftType /\ d.id = c.id /\ d.term = c.term /\ d.vote = c.vote
        /\ d.state = c.state /\ d.granted = c.granted /\ d.msgs = c.msgs \cup v
    BY <1>2, <2>2, AddMsgs
  <2> HIDE DEF d
  <2>4. s = d BY <1>3, <1>6
  <2> QED BY <1>2, <2>2, <2>3, <2>4 DEF s
<1> QED BY <1>5, <1>6

-----------------------------------------------------------------------------
\* The leader's messages carry the term of the sender.
Stamps(r, s) == \A m \in s.msgs : m \in r.msgs \/ (m.type \in LeaderMsg => m.term = s.term)

\* s is a node that r can lawfully become: no lower term, no second vote in a term.
Sane(r, s) ==
    /\ s \in RaftType /\ s.id = r.id /\ r.term <= s.term
    /\ s.term = r.term /\ r.vote # Nil => s.vote = r.vote
    /\ Stamps(r, s)

\* Doing nothing is lawful.
LEMMA SaneRefl == ASSUME NEW r \in RaftType PROVE Sane(r, r)
BY RaftFields DEF Sane, Stamps

\* Quiet work after lawful work is lawful.
LEMMA SaneQuiet == ASSUME NEW r, NEW s, NEW t, Sane(r, s), Quiet(s, t) PROVE Sane(r, t)
BY DEF Sane, Stamps, Quiet, Plain

\* Quiet work is lawful.
LEMMA QuietSane == ASSUME NEW r \in RaftType, NEW t, Quiet(r, t) PROVE Sane(r, t)
BY SaneRefl, SaneQuiet

\* become_follower in no lower term is lawful.
LEMMA FollowerSane ==
    ASSUME NEW r \in RaftType, NEW t \in Nat, r.term <= t, NEW lead \in Node \cup {Nil}
    PROVE  Sane(r, become_follower(r, t, lead))
BY BecomeFollowerFacts DEF Sane, Stamps

\* Raft::campaign is lawful.
LEMMA CampaignSane ==
    ASSUME NEW r \in RaftType, NEW tr \in BOOLEAN
    PROVE  Sane(r, campaign(r, tr))
<1> DEFINE s == campaign(r, tr)
<1>1. /\ s \in RaftType /\ s.id = r.id /\ s.term = r.term + 1
      /\ \A m \in s.msgs : \/ m \in r.msgs
                           \/ m.type \notin CampaignType /\ (m.type \in LeaderMsg => m.term = s.term)
                           \/ m.type = "MsgVote" /\ m.term = s.term
  BY CampaignFacts
<1> HIDE DEF s
<1>2. r.term \in Nat BY RaftFields
<1>3. Sane(r, s) BY <1>1, <1>2 DEF Sane, Stamps, LeaderMsg
<1> QED BY <1>3 DEF s

\* Lawful work may be done in a row, when only the second part sends.
LEMMA SaneTrans ==
    ASSUME NEW r \in RaftType, NEW s, NEW t, Sane(r, s), s.msgs = r.msgs, Sane(s, t)
    PROVE  Sane(r, t)
<1>1. s \in RaftType /\ t \in RaftType BY DEF Sane
<1>2. r.term \in Nat /\ s.term \in Nat /\ t.term \in Nat BY <1>1, RaftFields
<1>3. Stamps(r, t) BY DEF Sane, Stamps
<1>4. t.term = r.term /\ r.vote # Nil => t.vote = r.vote BY <1>2 DEF Sane
<1> QED BY <1>1, <1>2, <1>3, <1>4 DEF Sane

\* campaign(kCampaignPreElection) is lawful.
LEMMA PreCampaignSane ==
    ASSUME NEW r \in RaftType
    PROVE  Sane(r, pre_campaign(r))
<1> DEFINE b == become_pre_candidate(r)
           yes == TRUE
           no == FALSE
           c == poll(b, r.id, yes)
           v == VoteRequests(c, "MsgPreVote", c.term + 1, no)
           d == [c EXCEPT !.msgs = @ \cup v]
<1>1. /\ b \in RaftType /\ b.id = r.id /\ b.term = r.term /\ b.vote = r.vote
      /\ b.msgs = r.msgs
  BY BecomePreCandidateFacts
<1>2. r.id \in Node /\ r.term \in Nat BY RaftFields
<1>3. yes \in BOOLEAN /\ no \in BOOLEAN OBVIOUS
<1>4. pre_campaign(r) = IF Cardinality(c.granted) = quorum THEN campaign(c, no) ELSE d
  BY DEF pre_campaign
<1> HIDE DEF b, yes, no
<1>5. /\ c \in RaftType /\ c.id = r.id /\ c.term = r.term /\ c.vote = r.vote
      /\ c.msgs = r.msgs
  BY <1>1, <1>2, <1>3, PollFacts
<1> HIDE DEF c
<1>6. Sane(r, c) BY <1>2, <1>5 DEF Sane, Stamps
<1>7. Sane(r, campaign(c, no)) BY <1>3, <1>5, <1>6, CampaignSane, SaneTrans
<1>8. Sane(r, d)
  <2>1. c.term + 1 \in Nat BY <1>2, <1>5
  <2>2. v \in SUBSET MessageType /\ \A m \in v : m.type = "MsgPreVote"
    BY <1>3, <1>5, <2>1, VoteRequestsType
  <2> HIDE DEF v
  <2>3. /\ d \in RaftType /\ d.id = c.id /\ d.term = c.term /\ d.vote = c.vote
        /\ d.msgs = c.msgs \cup v
    BY <1>5, <2>2, AddMsgs
  <2> HIDE DEF d
  <2> QED BY <1>2, <1>5, <2>2, <2>3 DEF Sane, Stamps, LeaderMsg
<1> QED BY <1>4, <1>7, <1>8

\* Raft::step of MsgHup is lawful.
LEMMA StepHupSane ==
    ASSUME NEW r \in RaftType
    PROVE  Sane(r, step_hup(r))
<1> DEFINE no == FALSE
<1>1. no \in BOOLEAN OBVIOUS
<1>2. step_hup(r) = IF PreVote THEN pre_campaign(r) ELSE campaign(r, no) BY DEF step_hup
<1> HIDE DEF no
<1> QED BY <1>1, <1>2, PreCampaignSane, CampaignSane

\* Raft::send changes msgs_ only.
LEMMA SendFacts ==
    ASSUME NEW r \in RaftType, NEW m \in MessageType
    PROVE  LET s == send(r, m)
           IN  /\ s \in RaftType /\ s.id = r.id /\ s.term = r.term /\ s.vote = r.vote
               /\ s.state = r.state /\ s.granted = r.granted
               /\ s.msgs = r.msgs \cup {Stamped(r, m)}
<1> DEFINE ms == {Stamped(r, m)}
<1>1. ms \in SUBSET MessageType BY StampedType
<1> HIDE DEF ms
<1>2. LET s == [r EXCEPT !.msgs = @ \cup ms]
      IN  /\ s \in RaftType /\ s.id = r.id /\ s.term = r.term /\ s.vote = r.vote
          /\ s.state = r.state /\ s.granted = r.granted /\ s.msgs = r.msgs \cup ms
  BY <1>1, AddMsgs
<1> QED BY <1>2 DEF ms, send

\* What step_vote does: it grants, and then the vote is cast for the requester
\* and free to be cast; or it rejects.
LEMMA StepVoteFacts ==
    ASSUME NEW r \in RaftType, NEW m \in MessageType
    PROVE  LET s == step_vote(r, m)
           IN  /\ s \in RaftType /\ s.id = r.id /\ s.term = r.term /\ s.state = r.state
               /\ s.granted = r.granted
               /\ \/ s.vote = r.vote
                  \/ m.type = "MsgVote" /\ s.vote = m.from /\ r.vote = Nil
               /\ \A x \in s.msgs :
                     \/ x \in r.msgs
                     \/ /\ x.type = IF m.type = "MsgVote" THEN "MsgVoteResp" ELSE "MsgPreVoteResp"
                        /\ x.from = r.id /\ x.to = m.from
                        /\ \/ x.reject
                           \/ x.term = m.term /\ (m.type = "MsgVote" => s.vote = m.from)
<1> DEFINE ty == IF m.type = "MsgVote" THEN "MsgVoteResp" ELSE "MsgPreVoteResp"
           g  == [NewMessage(ty, m.from) EXCEPT !.term = m.term]
           j  == [g EXCEPT !.term = r.term, !.reject = TRUE]
           can_vote == \/ r.vote = m.from
                       \/ r.vote = Nil /\ r.lead = Nil
                       \/ m.type = "MsgPreVote" /\ m.term > r.term
           ok == can_vote /\ is_up_to_date(r.raft_log, m.index, m.log_term)
           sg == send(r, g)
           sv == [sg EXCEPT !.past = FALSE, !.vote = m.from]
           sj == send(r, j)
           s  == step_vote(r, m)
<1>1. m.from \in Node /\ m.term \in Nat BY DEF MessageType
<1>2. r.term \in Nat /\ r.id \in Node BY RaftFields
<1>3. ty \in MsgType /\ ty \in CampaignType BY DEF MsgType, CampaignType
<1>4. s = IF ok THEN (IF m.type = "MsgVote" THEN sv ELSE sg) ELSE sj BY DEF step_vote
<1> HIDE DEF ty
<1>5. g \in MessageType /\ g.type = ty /\ g.term = m.term /\ g.to = m.from
  <2>1. NewMessage(ty, m.from) \in MessageType BY <1>1, <1>3, NewMessageType
  <2>2. NewMessage(ty, m.from).type = ty /\ NewMessage(ty, m.from).to = m.from BY DEF NewMessage
  <2> QED BY <1>1, <2>1, <2>2 DEF MessageType
<1> HIDE DEF g
<1>6. j \in MessageType /\ j.type = ty /\ j.to = m.from /\ j.reject = TRUE
  BY <1>2, <1>5 DEF MessageType
<1> HIDE DEF j
<1>7. /\ sg \in RaftType /\ sg.id = r.id /\ sg.term = r.term /\ sg.vote = r.vote
      /\ sg.state = r.state /\ sg.granted = r.granted
      /\ sg.msgs = r.msgs \cup {Stamped(r, g)}
  BY <1>5, SendFacts
<1>8. /\ sj \in RaftType /\ sj.id = r.id /\ sj.term = r.term /\ sj.vote = r.vote
      /\ sj.state = r.state /\ sj.granted = r.granted
      /\ sj.msgs = r.msgs \cup {Stamped(r, j)}
  BY <1>6, SendFacts
<1>9. /\ Stamped(r, g).type = ty /\ Stamped(r, g).from = r.id /\ Stamped(r, g).to = m.from
      /\ Stamped(r, g).term = m.term
  BY <1>3, <1>5, StampedType
<1>10. /\ Stamped(r, j).type = ty /\ Stamped(r, j).from = r.id /\ Stamped(r, j).to = m.from
       /\ Stamped(r, j).reject
  BY <1>6, StampedType
<1> HIDE DEF sg, sj
<1>11. /\ sv \in RaftType /\ sv.id = r.id /\ sv.term = r.term /\ sv.vote = m.from
       /\ sv.state = r.state /\ sv.granted = r.granted /\ sv.msgs = sg.msgs
  BY <1>1, <1>7 DEF RaftType
<1> HIDE DEF sv, s
<1>12. CASE ~ok BY <1>4, <1>8, <1>10, <1>12 DEF s, ty
<1>13. CASE ok /\ m.type # "MsgVote" BY <1>4, <1>7, <1>9, <1>13 DEF s, ty
<1>14. CASE ok /\ m.type = "MsgVote"
  <2>1. r.vote = m.from \/ r.vote = Nil BY <1>14
  <2>2. s = sv BY <1>4, <1>14
  <2> QED BY <1>7, <1>9, <1>11, <1>14, <2>1, <2>2 DEF s, ty
<1> QED BY <1>12, <1>13, <1>14

-----------------------------------------------------------------------------

\* Winning an election is lawful.
LEMMA LeaderSane ==
    ASSUME NEW r \in RaftType
    PROVE  /\ Sane(r, become_leader(r))
           /\ Sane(r, bcast_append(become_leader(r)))
           /\ bcast_append(become_leader(r)).state = "Leader"
           /\ bcast_append(become_leader(r)).term = r.term
           /\ bcast_append(become_leader(r)).vote = r.vote
           /\ \A m \in bcast_append(become_leader(r)).msgs : m \in r.msgs \/ Plain(r, m)
<1> DEFINE s == become_leader(r)
           t == bcast_append(s)
<1>1. /\ s \in RaftType /\ s.id = r.id /\ s.term = r.term /\ s.vote = r.vote
      /\ s.state = "Leader" /\ \A m \in s.msgs : m \in r.msgs \/ Plain(r, m)
  BY BecomeLeaderFacts
<1> HIDE DEF s
<1>2. Quiet(s, t) BY <1>1, BcastAppendQuiet
<1> HIDE DEF t
<1>3. r.term \in Nat BY RaftFields
<1>4. Sane(r, s) BY <1>1, <1>3 DEF Sane, Stamps, Plain
<1>5. Sane(r, t) BY <1>2, <1>4, SaneQuiet
<1>6. t.state = "Leader" /\ t.term = r.term /\ t.vote = r.vote
  BY <1>1, <1>2 DEF Quiet
<1>7. \A m : Plain(s, m) => Plain(r, m) BY <1>1 DEF Plain
<1>8. \A m \in t.msgs : m \in r.msgs \/ Plain(r, m) BY <1>1, <1>2, <1>7 DEF Quiet
<1> QED BY <1>4, <1>5, <1>6, <1>8 DEF t, s

\* The four outcomes of a vote response
LEMMA StepVoteRespCases ==
    ASSUME NEW r \in RaftType, NEW m \in MessageType
    PROVE  LET p == poll(r, m.from, ~m.reject)
               s == step_vote_resp(r, m)
           IN  /\ p \in RaftType /\ p.id = r.id /\ p.term = r.term /\ p.vote = r.vote
               /\ p.state = r.state /\ p.msgs = r.msgs
               /\ \A x \in p.granted : x \in r.granted \/ (~m.reject /\ x = m.from)
               /\ Sane(r, p)
               /\ \/ p.state = "PreCandidate" /\ s = campaign(p, FALSE)
                  \/ Cardinality(p.granted) = quorum /\ s = bcast_append(become_leader(p))
                  \/ s = become_follower(p, p.term, Nil)
                  \/ s = p
<1> DEFINE v == ~m.reject
           p == poll(r, m.from, v)
           s == step_vote_resp(r, m)
<1>1. m.from \in Node /\ v \in BOOLEAN BY DEF MessageType
<1>2. \/ p.state = "PreCandidate" /\ s = campaign(p, FALSE)
      \/ Cardinality(p.granted) = quorum /\ s = bcast_append(become_leader(p))
      \/ s = become_follower(p, p.term, Nil)
      \/ s = p
  BY DEF step_vote_resp
<1> HIDE DEF v
<1>3. /\ p \in RaftType /\ p.id = r.id /\ p.term = r.term /\ p.vote = r.vote
      /\ p.state = r.state /\ p.msgs = r.msgs
      /\ \A x \in p.granted : x \in r.granted \/ (v /\ x = m.from)
  BY <1>1, PollFacts
<1>4. r.term \in Nat BY RaftFields
<1> HIDE DEF p, s
<1>5. Sane(r, p) BY <1>3, <1>4 DEF Sane, Stamps
<1> QED BY <1>2, <1>3, <1>5 DEF p, v, s

\* Counting a vote response is lawful.
LEMMA StepVoteRespSane ==
    ASSUME NEW r \in RaftType, NEW m \in MessageType
    PROVE  Sane(r, step_vote_resp(r, m))
<1> DEFINE p == poll(r, m.from, ~m.reject)
           no == FALSE
           s == step_vote_resp(r, m)
<1>1. /\ p \in RaftType /\ p.msgs = r.msgs /\ Sane(r, p)
      /\ \/ p.state = "PreCandidate" /\ s = campaign(p, no)
         \/ Cardinality(p.granted) = quorum /\ s = bcast_append(become_leader(p))
         \/ s = become_follower(p, p.term, Nil)
         \/ s = p
  BY StepVoteRespCases
<1>2. no \in BOOLEAN OBVIOUS
<1> HIDE DEF p, no, s
<1>3. p.term \in Nat /\ p.term <= p.term BY <1>1, RaftFields
<1>4. Sane(p, campaign(p, no)) BY <1>1, <1>2, CampaignSane
<1>5. Sane(p, bcast_append(become_leader(p))) BY <1>1, LeaderSane
<1>6. Sane(p, become_follower(p, p.term, Nil)) BY <1>1, <1>3, FollowerSane
<1>7. Sane(p, s) BY <1>1, <1>4, <1>5, <1>6, SaneRefl
<1>8. Sane(r, s) BY <1>1, <1>7, SaneTrans
<1> QED BY <1>8 DEF s

\* Answering a vote request is lawful.
LEMMA StepVoteSane ==
    ASSUME NEW r \in RaftType, NEW m \in MessageType
    PROVE  Sane(r, step_vote(r, m))
<1> DEFINE s == step_vote(r, m)
<1>1. /\ s \in RaftType /\ s.id = r.id /\ s.term = r.term
      /\ s.vote = r.vote \/ r.vote = Nil
      /\ \A x \in s.msgs : x \in r.msgs \/ x.type = "MsgVoteResp" \/ x.type = "MsgPreVoteResp"
  BY StepVoteFacts
<1> HIDE DEF s
<1>2. r.term \in Nat BY RaftFields
<1>3. Sane(r, s) BY <1>1, <1>2 DEF Sane, Stamps, LeaderMsg
<1> QED BY <1>3 DEF s

\* Raft::step_candidate is lawful.
LEMMA StepCandidateSane ==
    ASSUME NEW r \in RaftType, NEW m \in MessageType, m.type \in LeaderMsg => m.term = r.term
    PROVE  Sane(r, step_candidate(r, m))
<1>1. CASE m.type \in LeaderMsg
  <2> DEFINE f == become_follower(r, m.term, m.from)
  <2>1. m.term \in Nat /\ m.from \in Node /\ r.term <= m.term BY <1>1 DEF MessageType
  <2>2. f \in RaftType /\ Sane(r, f) BY <2>1, FollowerSane, BecomeFollowerFacts
  <2> HIDE DEF f
  <2>3. Sane(r, handle_leader_message(f, m))
    BY <2>2, HandleLeaderMessageQuiet, SaneQuiet
  <2>4. step_candidate(r, m) = handle_leader_message(f, m)
    BY <1>1 DEF step_candidate, LeaderMsg, f
  <2> QED BY <2>3, <2>4
<1>2. CASE m.type \notin LeaderMsg
  <2>1. step_candidate(r, m) \in {step_vote_resp(r, m), r} BY <1>2 DEF step_candidate
  <2> QED BY <2>1, StepVoteRespSane, SaneRefl
<1> QED BY <1>1, <1>2

\* Raft::step_follower is quiet unless told to campaign (MsgTimeoutNow).
LEMMA StepFollowerCases ==
    ASSUME NEW r \in RaftType, NEW m \in MessageType
    PROVE  \/ Quiet(r, step_follower(r, m))
           \/ step_follower(r, m) = campaign(r, TRUE)
<1>1. CASE m.type \in LeaderMsg
  <2> DEFINE f == [r EXCEPT !.past = FALSE, !.lead = m.from]
  <2>1. m.from \in Node \cup {Nil} BY DEF MessageType
  <2>2. Quiet(r, f) BY <2>1, QuietTransfer
  <2> HIDE DEF f
  <2>3. Quiet(f, handle_leader_message(f, m)) BY <2>2, HandleLeaderMessageQuiet DEF Quiet
  <2>4. Quiet(r, handle_leader_message(f, m)) BY <2>2, <2>3, QuietTrans
  <2>5. step_follower(r, m) = handle_leader_message(f, m)
    BY <1>1 DEF step_follower, LeaderMsg, f
  <2> QED BY <2>4, <2>5
<1>2. CASE m.type \in {"MsgProp", "MsgTransferLeader"}
  <2>1. m.type \notin CampaignType /\ m.type \notin LeaderMsg
    BY <1>2 DEF CampaignType, LeaderMsg
  <2>2. Quiet(r, forward(r, m)) BY <2>1, ForwardQuiet
  <2> QED BY <1>2, <2>1, <2>2 DEF step_follower
<1>3. CASE m.type \notin LeaderMsg \cup {"MsgProp", "MsgTransferLeader"}
  BY <1>3, QuietRefl DEF step_follower
<1> QED BY <1>1, <1>2, <1>3

\* Raft::step_follower is lawful.
LEMMA StepFollowerSane ==
    ASSUME NEW r \in RaftType, NEW m \in MessageType
    PROVE  Sane(r, step_follower(r, m))
<1> DEFINE yes == TRUE
<1>1. yes \in BOOLEAN OBVIOUS
<1>2. Quiet(r, step_follower(r, m)) \/ step_follower(r, m) = campaign(r, yes)
  BY StepFollowerCases
<1> HIDE DEF yes
<1> QED BY <1>1, <1>2, CampaignSane, QuietSane

\* A message of the node's own term is handled lawfully, whatever the role.
LEMMA StepRoleSane ==
    ASSUME NEW r \in RaftType, NEW m \in MessageType, m.type \in LeaderMsg => m.term = r.term
    PROVE  Sane(r, step_role(r, m))
<1>1. step_role(r, m) \in {step_vote(r, m), step_leader(r, m), step_follower(r, m), step_candidate(r, m)}
  BY DEF step_role
<1>2. Sane(r, step_leader(r, m)) BY StepLeaderQuiet, QuietSane
<1> QED BY <1>1, <1>2, StepVoteSane, StepFollowerSane, StepCandidateSane

\* A message of a higher term makes the node a follower without a vote.
LEMMA CatchUpTermFacts ==
    ASSUME NEW r \in RaftType, NEW m \in MessageType, m.term > r.term
    PROVE  LET c == CatchUpTerm(r, m)
           IN  /\ c \in RaftType /\ c.id = r.id /\ c.msgs = r.msgs /\ Sane(r, c)
               /\ m.type \notin {"MsgPreVote", "MsgPreVoteResp"} =>
                    c.term = m.term /\ c.state = "Follower" /\ c.granted = {} /\ c.vote = Nil
<1> DEFINE lead == IF m.type \in LeaderMsg THEN m.from ELSE Nil
           f == become_follower(r, m.term, lead)
<1>1. m.term \in Nat /\ r.term \in Nat /\ lead \in Node \cup {Nil} BY RaftFields DEF MessageType
<1>2. r.term <= m.term BY <1>1
<1>3. CatchUpTerm(r, m) = IF m.type = "MsgPreVote" \/ (m.type = "MsgPreVoteResp" /\ ~m.reject)
                          THEN r ELSE f
  BY DEF CatchUpTerm
<1> HIDE DEF lead
<1>4. /\ f \in RaftType /\ f.id = r.id /\ f.term = m.term /\ f.vote = Nil
      /\ f.state = "Follower" /\ f.granted = {} /\ f.msgs = r.msgs
  BY <1>1, BecomeFollowerFacts
<1>5. Sane(r, f) BY <1>1, <1>2, FollowerSane
<1> HIDE DEF f
<1> QED BY <1>3, <1>4, <1>5, SaneRefl

\* A message of a lower term is answered at most
LEMMA StepLowerTermFacts ==
    ASSUME NEW r \in RaftType, NEW m \in MessageType
    PROVE  /\ Sane(r, step_lower_term(r, m))
           /\ m.type # "MsgPreVote" => Quiet(r, step_lower_term(r, m))
<1> DEFINE a == NewMessage("MsgAppResp", m.from)
           n == NewMessage("MsgPreVoteResp", m.from)
           v == [n EXCEPT !.term = r.term, !.reject = TRUE]
<1>1. m.from \in Node /\ r.term \in Nat BY RaftFields DEF MessageType
<1>2. a \in MessageType /\ n \in MessageType BY <1>1, NewMessageType DEF MsgType
<1>3. a.type = "MsgAppResp" /\ n.type = "MsgPreVoteResp" BY DEF NewMessage
<1>4. IF m.type # "MsgPreVote" THEN step_lower_term(r, m) \in {send(r, a), r}
      ELSE step_lower_term(r, m) = send(r, v)
  BY DEF step_lower_term
<1> HIDE DEF a, n
<1>5. v \in MessageType /\ v.type = "MsgPreVoteResp" BY <1>1, <1>2, <1>3 DEF MessageType
<1> HIDE DEF v
<1>6. Quiet(r, send(r, a)) BY <1>2, <1>3, SendQuiet DEF CampaignType
<1>7. Sane(r, send(r, v))
  <2>1. Stamped(r, v).type = "MsgPreVoteResp" BY <1>5, StampedType
  <2> QED BY <1>1, <1>5, <2>1, SendFacts DEF Sane, Stamps, LeaderMsg
<1> QED BY <1>4, <1>6, <1>7, QuietRefl, QuietSane

\* Raft::step is lawful.
LEMMA StepSane ==
    ASSUME NEW r \in RaftType, NEW m \in MessageType, m.type \in LeaderMsg => m.term > 0
    PROVE  Sane(r, step(r, m))
<1> DEFINE c == CatchUpTerm(r, m)
<1>1. m.term \in Nat /\ r.term \in Nat BY RaftFields DEF MessageType
<1>2. CASE m.term = 0 \/ m.term = r.term
  <2>1. m.type \in LeaderMsg => m.term = r.term BY <1>1, <1>2
  <2>2. step(r, m) = step_role(r, m) BY <1>1, <1>2 DEF step
  <2> QED BY <2>1, <2>2, StepRoleSane
<1>3. CASE m.term > r.term /\ m.term # 0
  <2>1. /\ c \in RaftType /\ c.msgs = r.msgs /\ Sane(r, c)
        /\ m.type \notin {"MsgPreVote", "MsgPreVoteResp"} => c.term = m.term
    BY <1>3, CatchUpTermFacts
  <2>2. step(r, m) \in {r, step_role(c, m)} BY <1>1, <1>3 DEF step
  <2> HIDE DEF c
  <2>3. m.type \in LeaderMsg => m.term = c.term BY <2>1 DEF LeaderMsg
  <2>4. Sane(c, step_role(c, m)) BY <2>1, <2>3, StepRoleSane
  <2> QED BY <2>1, <2>2, <2>4, SaneTrans, SaneRefl
<1>4. CASE m.term # 0 /\ m.term < r.term
  <2>1. step(r, m) = step_lower_term(r, m) BY <1>1, <1>4 DEF step
  <2> QED BY <2>1, StepLowerTermFacts
<1> QED BY <1>1, <1>2, <1>3, <1>4

-----------------------------------------------------------------------------
\* The voter whose grant, in r's own term, message m brings
Granter(r, m) == IF Grant(m) /\ m.term = r.term THEN {m.from} ELSE {}

\* v stands behind the candidacy of s, which r has become on hearing from X.
Backs(r, X, s, v) ==
    \/ v = s.id /\ s.vote = s.id
    \/ s.term = r.term /\ r.state = "Candidate" /\ v \in r.granted
    \/ s.term = r.term /\ v \in X

\* What s says in a campaign message is so.
Honest(s, m) ==
    /\ m.type \notin {"MsgPreVote", "MsgPreVoteResp"}
    /\ m.type = "MsgVote" => m.term = s.term
    /\ Grant(m) => m.from = s.id /\ m.to = s.vote /\ m.term = s.term

\* Without pre-votes: r becomes s, and campaigns or leads only with the votes it has.
Elects(r, X, s) ==
    /\ Sane(r, s)
    /\ s.state = "Candidate" => \A v \in s.granted : Backs(r, X, s, v)
    /\ s.state = "Leader" =>
         \/ r.state = "Leader" /\ r.term = s.term
         \/ \E Q \in SUBSET Node : Cardinality(Q) = quorum /\ \A v \in Q : Backs(r, X, s, v)
    /\ s.state # "PreCandidate"
    /\ \A m \in s.msgs : m \in r.msgs \/ Honest(s, m)

\* A plain message claims no vote.
LEMMA PlainHonest == ASSUME NEW r, NEW s, NEW m, Plain(r, m) PROVE Honest(s, m)
BY DEF Plain, Honest, Grant, CampaignType

\* Doing nothing elects nobody.
LEMMA ElectsRefl ==
    ASSUME NEW r \in RaftType, r.state # "PreCandidate", NEW X
    PROVE  Elects(r, X, r)
BY SaneRefl DEF Elects, Backs

\* Quiet work adds nothing to an election.
LEMMA ElectsQuiet ==
    ASSUME NEW r, NEW s, NEW t, NEW X, Elects(r, X, s), Quiet(s, t)
    PROVE  Elects(r, X, t)
<1>1. Sane(r, t) BY SaneQuiet DEF Elects
<1>2. t.id = s.id /\ t.term = s.term /\ t.vote = s.vote /\ t.state = s.state /\ t.granted = s.granted
  BY DEF Quiet
<1>3. \A v : Backs(r, X, s, v) <=> Backs(r, X, t, v) BY <1>2 DEF Backs
<1>4. \A m : Honest(s, m) => Honest(t, m) BY <1>2 DEF Honest
<1>5. \A m \in t.msgs : m \in r.msgs \/ Honest(t, m)
  BY <1>4, PlainHonest DEF Elects, Quiet
<1> QED BY <1>1, <1>2, <1>3, <1>5 DEF Elects

\* Quiet work elects nobody.
LEMMA QuietElects ==
    ASSUME NEW r \in RaftType, r.state # "PreCandidate", NEW X, NEW t, Quiet(r, t)
    PROVE  Elects(r, X, t)
BY ElectsRefl, ElectsQuiet

\* Raft::campaign counts the node's own vote only.
LEMMA CampaignElects ==
    ASSUME NEW r \in RaftType, NEW tr \in BOOLEAN, NEW X
    PROVE  Elects(r, X, campaign(r, tr))
<1> DEFINE s == campaign(r, tr)
<1>1. /\ s.id = r.id /\ s.term = r.term + 1 /\ s.vote = r.id
      /\ \/ s.state = "Candidate" /\ s.granted \subseteq {r.id}
         \/ /\ s.state = "Leader"
            /\ \E Q \in SUBSET Node : Cardinality(Q) = quorum /\ Q \subseteq {r.id}
      /\ \A m \in s.msgs : \/ m \in r.msgs
                           \/ m.type \notin CampaignType
                           \/ m.type = "MsgVote" /\ m.term = s.term
  BY CampaignFacts
<1>2. Sane(r, s) BY CampaignSane
<1> HIDE DEF s
<1>3. \A v : v \in {r.id} => Backs(r, X, s, v) BY <1>1 DEF Backs
<1>4. \A m \in s.msgs : m \in r.msgs \/ Honest(s, m)
  BY <1>1 DEF Honest, Grant, CampaignType
<1>5. Elects(r, X, s) BY <1>1, <1>2, <1>3, <1>4 DEF Elects
<1> QED BY <1>5 DEF s

\* become_follower elects nobody.
LEMMA FollowerElects ==
    ASSUME NEW r \in RaftType, NEW t \in Nat, r.term <= t, NEW lead \in Node \cup {Nil}, NEW X
    PROVE  Elects(r, X, become_follower(r, t, lead))
<1> DEFINE s == become_follower(r, t, lead)
<1>1. s.state = "Follower" /\ s.msgs = r.msgs BY BecomeFollowerFacts
<1>2. Sane(r, s) BY FollowerSane
<1> HIDE DEF s
<1>3. Elects(r, X, s) BY <1>1, <1>2 DEF Elects
<1> QED BY <1>3 DEF s

\* A granted vote is recorded before the response is sent.
LEMMA StepVoteElects ==
    ASSUME NEW r \in RaftType, NEW m \in MessageType, NEW X,
           r.state # "PreCandidate", m.type = "MsgVote", m.term = r.term
    PROVE  Elects(r, X, step_vote(r, m))
<1> DEFINE s == step_vote(r, m)
<1>1. /\ s \in RaftType /\ s.id = r.id /\ s.term = r.term /\ s.state = r.state
      /\ s.granted = r.granted
      /\ \A x \in s.msgs :
            \/ x \in r.msgs
            \/ /\ x.type = "MsgVoteResp" /\ x.from = r.id /\ x.to = m.from
               /\ \/ x.reject
                  \/ x.term = m.term /\ s.vote = m.from
  BY StepVoteFacts
<1>2. Sane(r, s) BY StepVoteSane
<1> HIDE DEF s
<1>3. \A x \in s.msgs : x \in r.msgs \/ Honest(s, x) BY <1>1 DEF Honest, Grant
<1>4. \A v \in r.granted : r.state = "Candidate" => Backs(r, X, s, v) BY <1>1 DEF Backs
<1>5. Elects(r, X, s) BY <1>1, <1>2, <1>3, <1>4 DEF Elects
<1> QED BY <1>5 DEF s

\* step_candidate leads with the grants it has, this one included.
LEMMA StepVoteRespElects ==
    ASSUME NEW r \in RaftType, NEW m \in MessageType, r.state = "Candidate", NEW X,
           ~m.reject => m.from \in X
    PROVE  Elects(r, X, step_vote_resp(r, m))
<1> DEFINE p == poll(r, m.from, ~m.reject)
           l == bcast_append(become_leader(p))
           f == become_follower(p, p.term, Nil)
           s == step_vote_resp(r, m)
<1>1. /\ p \in RaftType /\ p.id = r.id /\ p.term = r.term /\ p.vote = r.vote
      /\ p.state = r.state /\ p.msgs = r.msgs
      /\ \A x \in p.granted : x \in r.granted \/ (~m.reject /\ x = m.from)
      /\ Sane(r, p)
      /\ \/ p.state = "PreCandidate" /\ s = campaign(p, FALSE)
         \/ Cardinality(p.granted) = quorum /\ s = bcast_append(become_leader(p))
         \/ s = become_follower(p, p.term, Nil)
         \/ s = p
  BY StepVoteRespCases
<1>2. Sane(r, s) BY StepVoteRespSane
<1> HIDE DEF p, s
<1>3. \A t : t.term = r.term => \A v \in p.granted : Backs(r, X, t, v)
  BY <1>1 DEF Backs
<1>4. CASE s = p
  BY <1>1, <1>2, <1>3, <1>4 DEF Elects, s
<1>5. CASE s = f
  <2>1. p.term \in Nat BY <1>1, RaftFields
  <2>2. s.state = "Follower" /\ s.msgs = r.msgs BY <1>1, <1>5, <2>1, BecomeFollowerFacts
  <2> QED BY <1>2, <2>2 DEF Elects, s
<1>6. CASE Cardinality(p.granted) = quorum /\ s = l
  <2>1. /\ s.state = "Leader" /\ s.term = p.term
        /\ \A x \in s.msgs : x \in p.msgs \/ Plain(p, x)
    BY <1>1, <1>6, LeaderSane
  <2>2. \A x \in s.msgs : x \in r.msgs \/ Honest(s, x) BY <1>1, <2>1, PlainHonest
  <2>3. p.granted \in SUBSET Node BY <1>1, RaftFields
  <2>4. \A v \in p.granted : Backs(r, X, s, v) BY <1>1, <1>3, <2>1
  <2>5. Elects(r, X, s) BY <1>2, <1>6, <2>1, <2>2, <2>3, <2>4 DEF Elects
  <2> QED BY <2>5 DEF s
<1> QED BY <1>1, <1>4, <1>5, <1>6

\* A node in the term of the message, or one the message has no term for
LEMMA StepRoleElects ==
    ASSUME NEW r \in RaftType, NEW m \in MessageType, NEW X,
           r.state # "PreCandidate", m.type \notin {"MsgPreVote", "MsgPreVoteResp"},
           m.type \in LeaderMsg \cup {"MsgVote"} => m.term = r.term,
           Grant(m) => m.from \in X
    PROVE  Elects(r, X, step_role(r, m))
<1>1. CASE m.type = "MsgVote"
  <2>1. step_role(r, m) = step_vote(r, m) BY <1>1 DEF step_role
  <2> QED BY <1>1, <2>1, StepVoteElects
<1>2. CASE m.type # "MsgVote" /\ r.state = "Leader"
  <2>1. step_role(r, m) = step_leader(r, m) BY <1>2 DEF step_role
  <2> QED BY <2>1, StepLeaderQuiet, QuietElects
<1>3. CASE m.type # "MsgVote" /\ r.state = "Follower"
  <2> DEFINE yes == TRUE
  <2>1. step_role(r, m) = step_follower(r, m) BY <1>3 DEF step_role
  <2>2. yes \in BOOLEAN OBVIOUS
  <2>3. Quiet(r, step_follower(r, m)) \/ step_follower(r, m) = campaign(r, yes)
    BY StepFollowerCases
  <2> HIDE DEF yes
  <2> QED BY <2>1, <2>2, <2>3, CampaignElects, QuietElects
<1>4. CASE m.type # "MsgVote" /\ r.state = "Candidate"
  <2>1. step_role(r, m) = step_candidate(r, m) BY <1>4 DEF step_role
  <2>2. CASE m.type \in LeaderMsg
    <3> DEFINE f == become_follower(r, m.term, m.from)
    <3>1. m.term \in Nat /\ m.from \in Node /\ r.term <= m.term BY <2>2 DEF MessageType
    <3>2. f \in RaftType /\ Elects(r, X, f) BY <3>1, FollowerElects, BecomeFollowerFacts
    <3> HIDE DEF f
    <3>3. Elects(r, X, handle_leader_message(f, m))
      BY <3>2, HandleLeaderMessageQuiet, ElectsQuiet
    <3>4. step_candidate(r, m) = handle_leader_message(f, m)
      BY <2>2 DEF step_candidate, LeaderMsg, f
    <3> QED BY <2>1, <3>3, <3>4
  <2>3. CASE m.type = "MsgVoteResp"
    <3>1. step_candidate(r, m) = step_vote_resp(r, m) BY <2>3 DEF step_candidate, LeaderMsg
    <3>2. ~m.reject => m.from \in X BY <2>3 DEF Grant
    <3> QED BY <1>4, <2>1, <3>1, <3>2, StepVoteRespElects
  <2>4. CASE m.type \notin LeaderMsg /\ m.type # "MsgVoteResp"
    <3>1. step_candidate(r, m) = r BY <2>4 DEF step_candidate
    <3> QED BY <2>1, <3>1, ElectsRefl
  <2> QED BY <2>2, <2>3, <2>4
<1> QED BY <1>1, <1>2, <1>3, <1>4, RaftFields DEF StateType

\* Raft::step elects only with votes granted in the node's own term.
LEMMA StepElects ==
    ASSUME NEW r \in RaftType, NEW m \in MessageType,
           r.state # "PreCandidate", m.type \notin {"MsgPreVote", "MsgPreVoteResp"},
           m.type \in LeaderMsg \cup {"MsgVote"} => m.term > 0,
           Grant(m) => m.term > 0
    PROVE  Elects(r, Granter(r, m), step(r, m))
<1> DEFINE c == CatchUpTerm(r, m)
           X == Granter(r, m)
<1>1. m.term \in Nat /\ r.term \in Nat BY RaftFields DEF MessageType
<1>2. CASE m.term = 0 \/ m.term = r.term
  <2>1. m.type \in LeaderMsg \cup {"MsgVote"} => m.term = r.term BY <1>1, <1>2
  <2>2. Grant(m) => m.from \in X BY <1>1, <1>2 DEF Granter
  <2>3. step(r, m) = step_role(r, m) BY <1>1, <1>2 DEF step
  <2> HIDE DEF X
  <2>4. Elects(r, X, step_role(r, m)) BY <2>1, <2>2, StepRoleElects
  <2> QED BY <2>3, <2>4 DEF X
<1>3. CASE m.term > r.term /\ m.term # 0
  <2>1. /\ c \in RaftType /\ c.id = r.id /\ c.msgs = r.msgs /\ Sane(r, c)
        /\ c.term = m.term /\ c.state = "Follower" /\ c.granted = {}
    BY <1>3, CatchUpTermFacts
  <2>2. step(r, m) \in {r, step_role(c, m)} BY <1>1, <1>3 DEF step
  <2> DEFINE Y == {m.from}
  <2>3. Grant(m) => m.from \in Y OBVIOUS
  <2> DEFINE s == step_role(c, m)
  <2> HIDE DEF c, Y, s
  <2>4. m.type \in LeaderMsg \cup {"MsgVote"} => m.term = c.term BY <2>1
  <2>5. CASE m.type = "MsgVoteResp"
    <3>1. s = c BY <2>1, <2>5 DEF s, step_role, step_follower, LeaderMsg
    <3>2. Elects(r, X, c) BY <2>1 DEF Elects
    <3>3. Elects(r, X, r) BY ElectsRefl
    <3> QED BY <2>2, <3>1, <3>2, <3>3 DEF s
  <2>6. CASE m.type # "MsgVoteResp"
    <3> DEFINE Z == {}
    <3>1. Grant(m) => m.from \in Z BY <2>6 DEF Grant
    <3>2. Z = X BY <2>6 DEF Granter, Grant
    <3> HIDE DEF Z
    <3>3. Elects(c, Z, s) BY <2>1, <2>4, <3>1, StepRoleElects DEF s
    <3>4. Sane(r, s) BY <2>1, <3>3, SaneTrans DEF Elects
    <3>5. \A v : Backs(c, Z, s, v) => Backs(r, Z, s, v) BY <2>1, <3>2 DEF Backs, Z, X
    <3>6. Elects(r, Z, s) BY <2>1, <3>3, <3>4, <3>5 DEF Elects
    <3>7. Elects(r, Z, r) BY ElectsRefl
    <3> QED BY <2>2, <3>2, <3>6, <3>7 DEF s
  <2> QED BY <2>5, <2>6
<1>4. CASE m.term # 0 /\ m.term < r.term
  <2>1. step(r, m) = step_lower_term(r, m) BY <1>1, <1>4 DEF step
  <2>2. Quiet(r, step_lower_term(r, m)) BY StepLowerTermFacts
  <2> QED BY <2>1, <2>2, QuietElects
<1> QED BY <1>1, <1>2, <1>3, <1>4

-----------------------------------------------------------------------------
(* The cluster. *)

\* Two quorums outnumber the nodes.
LEMMA QuorumNat == quorum \in Nat /\ Cardinality(Node) \in Nat /\ 2 * quorum > Cardinality(Node)
<1>1. Cardinality(Node) \in Nat BY NodeAssumption, FS_CardinalityType
<1> QED BY <1>1 DEF quorum

\* The payload of a finite range of entries is a number.
LEMMA TotalPayloadType ==
    ASSUME NEW l, NEW lo \in Nat, NEW hi \in Nat
    PROVE  TotalPayload(l, lo, hi) \in Nat
<1>1. IsFiniteSet(lo..hi) BY FS_Interval
<1>2. IsFiniteSet({k \in lo..hi : PayloadSize(l.ents[k]) = 1}) BY <1>1, FS_Subset
<1> QED BY <1>2, FS_CardinalityType DEF TotalPayload

\* pull_ready_events sends everything and changes no term, vote or role.
LEMMA PullFacts ==
    ASSUME NEW r \in RaftType
    PROVE  LET s == pull_ready_events(r)
           IN  /\ s \in RaftType /\ s.id = r.id /\ s.term = r.term /\ s.vote = r.vote
               /\ s.state = r.state /\ s.granted = r.granted /\ s.msgs = {}
<1> DEFINE l    == r.raft_log
           off  == IF l.applied < l.offset THEN l.offset ELSE l.applied
           size == TotalPayload(l, off + 1, l.committed)
           u    == IF size > r.uncommitted_size THEN 0 ELSE r.uncommitted_size - size
           l2   == maybe_trigger_snapshot(apply_committed(l))
           none == {}
           s    == [r EXCEPT !.uncommitted_size = u, !.raft_log = l2, !.msgs = none]
<1>1. pull_ready_events(r) = s BY DEF pull_ready_events
<1>2. l \in LogType /\ r.uncommitted_size \in Nat BY RaftFields
<1>3. l2 \in LogType
  <2> HIDE DEF l
  <2> QED BY <1>2, ApplyType, TriggerType
<1>4. u \in Nat
  <2>1. off + 1 \in Nat /\ l.committed \in Nat
    <3> HIDE DEF l
    <3> QED BY <1>2, LogFields
  <2>2. size \in Nat
    <3> HIDE DEF l, off
    <3> QED BY <2>1, TotalPayloadType
  <2> HIDE DEF size
  <2> QED BY <1>2, <2>2
<1>5. none \in SUBSET MessageType /\ none = {} OBVIOUS
<1> HIDE DEF u, l2, none
<1>6. s \in RaftType BY <1>3, <1>4, <1>5 DEF RaftType
<1>7. /\ s.id = r.id /\ s.term = r.term /\ s.vote = r.vote
      /\ s.state = r.state /\ s.granted = r.granted /\ s.msgs = none
  BY DEF RaftType
<1> HIDE DEF s
<1> QED BY <1>1, <1>5, <1>6, <1>7

\* RawNode's constructor for a new cluster.
LEMMA BootstrapFacts ==
    ASSUME NEW i \in Node
    PROVE  LET s == Bootstrap(i)
           IN  s \in RaftType /\ s.id = i /\ s.term = 1 /\ s.vote = Nil /\ s.state = "Follower"
<1> DEFINE n    == Cardinality(Node)
           ents == [k \in 1..n |-> [term |-> 1, data |-> Conf]]
           log  == [ents |-> ents, wal |-> ents, offset |-> 0, snap |-> 0,
                    committed |-> n, applied |-> 0, fatal |-> FALSE]
           none == {}
           s    == [id |-> i, term |-> 1, vote |-> Nil, state |-> "Follower", lead |-> Nil,
                    past |-> FALSE, granted |-> none, refused |-> none, lead_transferee |-> Nil,
                    raft_log |-> log, prs |-> NoProgress, uncommitted_size |-> 0, msgs |-> none]
<1>1. n \in Nat BY QuorumNat
<1>2. Bootstrap(i) = s BY DEF Bootstrap
<1> HIDE DEF n
<1>3. ents \in [1..n -> Entry] BY DEF Entry
<1>4. ents \in Seq(Entry) /\ Len(ents) = n
  <2> DEFINE e == [term |-> 1, data |-> Conf]
  <2>1. Len(ents) = n BY <1>1
  <2> HIDE DEF ents
  <2> QED BY <1>1, <1>3, <2>1, FunctionIsSeq
<1> HIDE DEF ents
<1>5. log \in LogType BY <1>1, <1>4 DEF LogType, LogRecord
<1> HIDE DEF log
<1>6. none \in SUBSET Node /\ none \in SUBSET MessageType OBVIOUS
<1> HIDE DEF none
<1>7. s \in RaftType BY <1>5, <1>6, NoProgressType DEF RaftType, StateType
<1>8. s.id = i /\ s.term = 1 /\ s.vote = Nil /\ s.state = "Follower" OBVIOUS
<1> HIDE DEF s
<1> QED BY <1>2, <1>7, <1>8

\* A restart brings back the term and the vote, and a follower.
LEMMA ReloadFacts ==
    ASSUME NEW r \in RaftType, NEW c \in SavedCommits(r.raft_log)
    PROVE  /\ Sane(r, Reload(r, c)) /\ Reload(r, c).state = "Follower"
           /\ Reload(r, c).msgs = r.msgs
<1> DEFINE l == replay_WAL(r.raft_log, c)
           q == [r EXCEPT !.raft_log = l]
           f == become_follower(q, r.term, Nil)
<1>1. l \in LogType BY RaftFields, ReplayType
<1>2. Reload(r, c) = f BY DEF Reload
<1> HIDE DEF l
<1>3. Quiet(r, q) /\ q.msgs = r.msgs /\ q.term = r.term BY <1>1, QuietLog DEF RaftType
<1> HIDE DEF q
<1>4. q \in RaftType /\ r.term \in Nat /\ q.term <= r.term BY <1>3, RaftFields DEF Quiet
<1>5. Sane(q, f) /\ f.state = "Follower" /\ f.msgs = q.msgs
  BY <1>4, FollowerSane, BecomeFollowerFacts
<1> HIDE DEF f
<1>6. Sane(r, f) BY <1>3, <1>5, QuietSane, SaneTrans
<1> QED BY <1>2, <1>3, <1>5, <1>6

\* tick_heartbeat at the election timeout: a heartbeat, or stepping down.
LEMMA TickQuorumCases ==
    ASSUME NEW r \in RaftType
    PROVE  Quiet(r, tick_quorum(r)) \/ tick_quorum(r) = become_follower(r, r.term, Nil)
<1> DEFINE q == [r EXCEPT !.lead_transferee = Nil]
<1>1. Quiet(r, q) BY QuietTransfer
<1>2. tick_quorum(r) \in {become_follower(r, r.term, Nil), bcast_heartbeat(q)}
  BY DEF tick_quorum
<1> HIDE DEF q
<1>3. Quiet(q, bcast_heartbeat(q)) BY <1>1, BcastHeartbeatQuiet DEF Quiet
<1>4. Quiet(r, bcast_heartbeat(q)) BY <1>1, <1>3, QuietTrans
<1> QED BY <1>2, <1>4

-----------------------------------------------------------------------------
(* The messages in flight. *)

\* Some of what is in flight
PartOf(rest) == IsABag(rest) /\ BagToSet(rest) \subseteq net

\* What is in flight, but for one copy of m
Without(m) == wire (-) SetToBag({m})

\* What a delivery takes away leaves a part of the rest.
LEMMA PartsOfWire ==
    ASSUME TypeOK
    PROVE  PartOf(wire) /\ \A m : PartOf(Without(m))
<1>1. IsABag(wire) BY DEF TypeOK
<1>2. PartOf(wire) BY <1>1 DEF PartOf, net
<1>3. ASSUME NEW m PROVE PartOf(Without(m))
  <2> DEFINE one == SetToBag({m})
             n(e) == IF e \in DOMAIN one THEN wire[e] - one[e] ELSE wire[e]
             left == [e \in DOMAIN wire |-> n(e)]
             more == {e \in DOMAIN left : left[e] > 0}
             out == [e \in more |-> left[e]]
  <2>1. Without(m) = out BY DEF Without, (-)
  <2>2. \A e \in DOMAIN wire : wire[e] \in Nat BY <1>1 DEF IsABag
  <2>3. \A e \in DOMAIN one : one[e] = 1 BY DEF SetToBag
  <2> HIDE DEF one
  <2>4. \A e \in DOMAIN wire : n(e) \in Int BY <2>2, <2>3
  <2>5. DOMAIN left = DOMAIN wire /\ \A e \in DOMAIN wire : left[e] \in Int BY <2>4
  <2> HIDE DEF left, n
  <2>6. DOMAIN out = more /\ more \subseteq DOMAIN wire BY <2>5
  <2>7. out \in [more -> {k \in Nat : k > 0}] BY <2>5
  <2> HIDE DEF out, more
  <2> QED BY <2>1, <2>6, <2>7 DEF PartOf, IsABag, BagToSet, net
<1> QED BY <1>2, <1>3

\* Nothing is in flight in a new cluster.
LEMMA EmptyWire ==
    ASSUME wire = EmptyBag
    PROVE  net = {} /\ IsABag(wire)
BY DEF net, EmptyBag, SetToBag, BagToSet, IsABag

\* An event adds nothing to what is in flight but what the node sends.
LEMMA EventNet ==
    ASSUME NEW i, NEW r, NEW rest, PartOf(rest), Event(i, r, rest)
    PROVE  net' \subseteq net \cup r.msgs /\ IsABag(wire')
<1>1. PICK sent \in SUBSET r.msgs : wire' = rest (+) SetToBag(sent) BY DEF Event
<1> DEFINE new == SetToBag(sent)
           n(e) == (IF e \in DOMAIN rest THEN rest[e] ELSE 0)
                 + (IF e \in DOMAIN new THEN new[e] ELSE 0)
           all == DOMAIN rest \cup DOMAIN new
           out == [e \in all |-> n(e)]
<1>2. wire' = out BY <1>1 DEF (+)
<1>3. DOMAIN new = sent /\ \A e \in DOMAIN new : new[e] = 1 BY DEF SetToBag
<1> HIDE DEF new
<1>4. \A e \in DOMAIN rest : rest[e] \in Nat /\ rest[e] > 0 BY DEF PartOf, IsABag
<1>5. \A e \in all : n(e) \in {k \in Nat : k > 0} BY <1>3, <1>4
<1>6. out \in [all -> {k \in Nat : k > 0}] /\ DOMAIN out = all BY <1>5
<1>7. all = DOMAIN rest \cup sent BY <1>3
<1> HIDE DEF out, all
<1> QED BY <1>2, <1>6, <1>7 DEF net, PartOf, BagToSet, IsABag

\* Every step but LeaseExpires is an event at one node, which it leaves lawful.
LEMMA NextSane ==
    ASSUME TypeOK, Settled, Next
    PROVE  \/ \E i \in Node : LeaseExpires(i)
           \/ \E i \in Node, r \in RaftType : \E rest :
                 /\ PartOf(rest) /\ Event(i, r, rest) /\ used' \in UsedType
                 /\ Sane(node[i], r)
<1>0. used \in UsedType /\ \A i \in Node : node[i] \in RaftType BY DEF TypeOK
<1>a. \A r, rest : \A i \in Node :
        Sane(node[i], r) /\ PartOf(rest) /\ Event(i, r, rest) /\ used' \in UsedType =>
        \E j \in Node, s \in RaftType : \E rst :
                 /\ PartOf(rst) /\ Event(j, s, rst) /\ used' \in UsedType /\ Sane(node[j], s)
  BY DEF Sane
<1>1. ASSUME NEW i \in Node, TickElection(i)
      PROVE  Event(i, step_hup([node[i] EXCEPT !.past = FALSE]), wire) /\ used' \in UsedType
             /\ Sane(node[i], step_hup([node[i] EXCEPT !.past = FALSE]))
  <2> DEFINE q == [node[i] EXCEPT !.past = FALSE]
  <2>1. node[i] \in RaftType BY <1>0
  <2>2. Quiet(node[i], q) /\ q.msgs = node[i].msgs BY <2>1, QuietPast DEF RaftType
  <2>3. Event(i, step_hup(q), wire) /\ used' = used BY <1>1 DEF TickElection
  <2> HIDE DEF q
  <2>4. Sane(q, step_hup(q)) BY <2>2, StepHupSane DEF Quiet
  <2>5. Sane(node[i], step_hup(q)) BY <2>1, <2>2, <2>4, QuietSane, SaneTrans
  <2> QED BY <1>0, <2>3, <2>5 DEF q
<1>2. ASSUME NEW i \in Node, TickHeartbeat(i)
      PROVE  Event(i, bcast_heartbeat(node[i]), wire) /\ used' \in UsedType
             /\ Sane(node[i], bcast_heartbeat(node[i]))
  <2>1. Sane(node[i], bcast_heartbeat(node[i])) BY <1>0, BcastHeartbeatQuiet, QuietSane
  <2>2. used' \in UsedType BY <1>0, <1>2 DEF TickHeartbeat, UsedType
  <2> QED BY <1>2, <2>1, <2>2 DEF TickHeartbeat
<1>3. ASSUME NEW i \in Node, TickQuorum(i)
      PROVE  Event(i, tick_quorum(node[i]), wire) /\ used' \in UsedType
             /\ Sane(node[i], tick_quorum(node[i]))
  <2>1. node[i].term \in Nat /\ node[i].term <= node[i].term BY <1>0, RaftFields
  <2>2. Sane(node[i], become_follower(node[i], node[i].term, Nil)) BY <1>0, <2>1, FollowerSane
  <2>3. Sane(node[i], tick_quorum(node[i])) BY <1>0, <2>2, TickQuorumCases, QuietSane
  <2>4. used' \in UsedType BY <1>0, <1>3 DEF TickQuorum, UsedType
  <2> QED BY <1>3, <2>3, <2>4 DEF TickQuorum
<1>4. ASSUME NEW i \in Node, NEW v \in Value, Propose(i, v)
      PROVE  \E r : Event(i, r, wire) /\ used' \in UsedType /\ Sane(node[i], r)
  <2> DEFINE e == <<[term |-> 0, data |-> v]>>
             m == [NewMessage("MsgProp", i) EXCEPT !.entries = e]
  <2>1. e \in Seq(Entry) BY DEF Entry
  <2>2. NewMessage("MsgProp", i) \in MessageType BY NewMessageType DEF MsgType
  <2>3. Event(i, step(node[i], m), wire) BY <1>4 DEF Propose
  <2> HIDE DEF e
  <2>4. m \in MessageType BY <2>1, <2>2 DEF MessageType
  <2>5. m.type \notin LeaderMsg BY DEF NewMessage, LeaderMsg
  <2> HIDE DEF m
  <2>6. Sane(node[i], step(node[i], m)) BY <1>0, <2>4, <2>5, StepSane
  <2>7. used' \in UsedType BY <1>0, <1>4 DEF Propose, UsedType
  <2> QED BY <2>3, <2>6, <2>7
<1>5. ASSUME NEW i \in Node, NEW transferee \in Node, TransferLeadership(i, transferee)
      PROVE  \E r : Event(i, r, wire) /\ used' \in UsedType /\ Sane(node[i], r)
  <2> DEFINE m == [NewMessage("MsgTransferLeader", i) EXCEPT !.from = transferee]
  <2>2. NewMessage("MsgTransferLeader", i) \in MessageType BY NewMessageType DEF MsgType
  <2>3. Event(i, step(node[i], m), wire) BY <1>5 DEF TransferLeadership
  <2>4. m \in MessageType BY <2>2 DEF MessageType
  <2>5. m.type \notin LeaderMsg BY DEF NewMessage, LeaderMsg
  <2> HIDE DEF m
  <2>6. Sane(node[i], step(node[i], m)) BY <1>0, <2>4, <2>5, StepSane
  <2>7. used' \in UsedType BY <1>0, <1>5 DEF TransferLeadership, UsedType
  <2> QED BY <2>3, <2>6, <2>7
<1>6. ASSUME NEW i \in Node, Restart(i)
      PROVE  \E r : Event(i, r, wire) /\ used' \in UsedType /\ Sane(node[i], r)
  <2>1. PICK c \in SavedCommits(node[i].raft_log) : Event(i, Reload(node[i], c), wire)
    BY <1>6 DEF Restart
  <2>2. Sane(node[i], Reload(node[i], c)) BY <1>0, ReloadFacts
  <2>3. used' \in UsedType BY <1>0, <1>6 DEF Restart, UsedType
  <2> QED BY <2>1, <2>2, <2>3
<1>7. ASSUME NEW m \in net, Deliver(m)
      PROVE  /\ m.to \in Node /\ Event(m.to, step(node[m.to], m), Without(m))
             /\ used' \in UsedType /\ Sane(node[m.to], step(node[m.to], m))
  <2>1. m \in MessageType /\ m.to \in Node BY DEF TypeOK, MessageType
  <2>2. m.type \in LeaderMsg => m.term > 0 BY DEF Settled
  <2>3. Sane(node[m.to], step(node[m.to], m)) BY <1>0, <2>1, <2>2, StepSane
  <2> QED BY <1>0, <1>7, <2>1, <2>3 DEF Deliver, Without
<1>8. PartOf(wire) /\ \A m : PartOf(Without(m)) BY PartsOfWire
<1>9. CASE \E i \in Node : TickElection(i) BY <1>1, <1>8, <1>9, <1>a
<1>10. CASE \E i \in Node : LeaseExpires(i) BY <1>10
<1>11. CASE \E i \in Node : TickHeartbeat(i) BY <1>2, <1>8, <1>11, <1>a
<1>12. CASE \E i \in Node : TickQuorum(i) BY <1>3, <1>8, <1>12, <1>a
<1>13. CASE \E i \in Node, v \in Value : Propose(i, v) BY <1>4, <1>8, <1>13, <1>a
<1>14. CASE \E i, transferee \in Node : TransferLeadership(i, transferee)
  BY <1>5, <1>8, <1>14, <1>a
<1>15. CASE \E i \in Node : Restart(i) BY <1>6, <1>8, <1>15, <1>a
<1>16. CASE \E m \in net : Deliver(m) BY <1>7, <1>8, <1>16, <1>a
<1> QED BY <1>9, <1>10, <1>11, <1>12, <1>13, <1>14, <1>15, <1>16 DEF Next

-----------------------------------------------------------------------------

\* The invariant holds initially.
LEMMA InitSettled == Init => TypeOK /\ Settled
<1> SUFFICES ASSUME Init PROVE TypeOK /\ Settled OBVIOUS
<1>1. \A i \in Node : /\ node[i] \in RaftType /\ node[i].id = i /\ node[i].msgs = {}
                      /\ node[i].term = 1
  <2> TAKE i \in Node
  <2>1. Bootstrap(i) \in RaftType /\ Bootstrap(i).id = i /\ Bootstrap(i).term = 1
    BY BootstrapFacts
  <2>2. node[i] = pull_ready_events(Bootstrap(i)) BY DEF Init
  <2> QED BY <2>1, <2>2, PullFacts
<1>2. node \in [Node -> RaftType] BY <1>1 DEF Init
<1>3. /\ net = {} /\ IsABag(wire) /\ ballots = {} /\ elected = {}
      /\ used \in UsedType
  BY EmptyWire DEF Init, UsedType
<1>a. peak \in [Node -> Nat]
  <2>1. \A i \in Node : node[i].raft_log.committed \in Nat BY <1>1, RaftFields, LogFields
  <2> QED BY <2>1 DEF Init
<1>4. TypeOK BY <1>2, <1>3, <1>a DEF TypeOK
<1>5. Settled BY <1>1, <1>3 DEF Settled
<1> QED BY <1>4, <1>5

\* What an event that leaves node i lawful does to the whole system
LEMMA EventSettled ==
    ASSUME TypeOK, Settled,
           NEW i \in Node, NEW r \in RaftType, NEW rest, PartOf(rest),
           Event(i, r, rest), used' \in UsedType, Sane(node[i], r)
    PROVE  /\ TypeOK' /\ Settled'
           /\ \A j \in Node : j # i => node'[j] = node[j]
           /\ node'[i].id = i /\ node'[i].term = r.term /\ node'[i].vote = r.vote
           /\ node'[i].state = r.state /\ node'[i].granted = r.granted
<1> DEFINE s == pull_ready_events(r)
<1>1. /\ s \in RaftType /\ s.id = r.id /\ s.term = r.term /\ s.vote = r.vote
      /\ s.state = r.state /\ s.granted = r.granted /\ s.msgs = {}
  BY PullFacts
<1>2. node' = [node EXCEPT ![i] = s] BY DEF Event
<1> HIDE DEF s
<1>3. node \in [Node -> RaftType] BY DEF TypeOK
<1>4. node' \in [Node -> RaftType] /\ node'[i] = s /\ \A j \in Node : j # i => node'[j] = node[j]
  BY <1>1, <1>2, <1>3
<1>5. r.id = i /\ r.term > 0 /\ r.term \in Nat
  <2>1. node[i].id = i /\ node[i].term > 0 /\ node[i].term \in Nat
    BY <1>3, RaftFields DEF Settled
  <2> QED BY <2>1, RaftFields DEF Sane
<1>6. net' \subseteq net \cup r.msgs /\ IsABag(wire') BY EventNet
<1>7. r.msgs \in SUBSET MessageType /\ net \subseteq MessageType BY RaftFields DEF TypeOK
<1>8. \A m \in r.msgs : m.type \in LeaderMsg => m.term > 0
  BY <1>3, <1>5 DEF Sane, Stamps, Settled
<1>9. ballots' \subseteq Node \X Nat \X Node
  <2>1. r.vote # Nil => r.vote \in Node BY RaftFields
  <2> QED BY <1>5, <2>1 DEF Event, TypeOK
<1>10. elected' \subseteq Nat \X Node BY <1>5 DEF Event, TypeOK
<1>a. peak' \in [Node -> Nat]
  <2>1. r.raft_log.committed \in Nat BY RaftFields, LogFields
  <2>2. peak \in [Node -> Nat] BY DEF TypeOK
  <2> QED BY <2>1, <2>2 DEF Event
<1>11. TypeOK' BY <1>4, <1>6, <1>7, <1>9, <1>10, <1>a DEF TypeOK
<1>12. Settled'
  <2>1. \A j \in Node : node'[j].id = j /\ node'[j].msgs = {} /\ node'[j].term > 0
    BY <1>1, <1>4, <1>5 DEF Settled
  <2>2. \A m \in net' : m.type \in LeaderMsg => m.term > 0 BY <1>6, <1>8 DEF Settled
  <2> QED BY <2>1, <2>2 DEF Settled
<1> QED BY <1>1, <1>4, <1>5, <1>11, <1>12

\* The lease's end changes no field but `past'.
LEMMA LeaseSettled ==
    ASSUME TypeOK, Settled, NEW i \in Node, LeaseExpires(i)
    PROVE  /\ TypeOK' /\ Settled'
           /\ \A j \in Node : /\ node'[j].term = node[j].term /\ node'[j].vote = node[j].vote
                              /\ node'[j].state = node[j].state
                              /\ node'[j].granted = node[j].granted
           /\ UNCHANGED <<net, ballots, elected, peak>>
<1> DEFINE yes == TRUE
           q == [node[i] EXCEPT !.past = yes]
<1>1. /\ node' = [node EXCEPT ![i] = q]
      /\ net' = net /\ used' = used /\ ballots' = ballots /\ elected' = elected
      /\ wire' = wire /\ peak' = peak
  BY DEF LeaseExpires, net
<1>2. node \in [Node -> RaftType] BY DEF TypeOK
<1>3. node[i] \in RaftType /\ yes \in BOOLEAN BY <1>2
<1> HIDE DEF yes
<1>4. Quiet(node[i], q) BY <1>3, QuietPast
<1>5. q.msgs = node[i].msgs BY <1>3 DEF RaftType
<1> HIDE DEF q
<1>6. /\ q \in RaftType /\ q.id = node[i].id /\ q.term = node[i].term /\ q.vote = node[i].vote
      /\ q.state = node[i].state /\ q.granted = node[i].granted
  BY <1>4 DEF Quiet
<1>7. \A j \in Node : node'[j] = IF j = i THEN q ELSE node[j] BY <1>1, <1>2
<1>8. node' \in [Node -> RaftType] BY <1>1, <1>2, <1>6
<1>9. TypeOK' BY <1>1, <1>8 DEF TypeOK
<1>10. Settled' BY <1>1, <1>5, <1>6, <1>7 DEF Settled
<1>11. \A j \in Node : /\ node'[j].term = node[j].term /\ node'[j].vote = node[j].vote
                       /\ node'[j].state = node[j].state
                       /\ node'[j].granted = node[j].granted
  BY <1>6, <1>7
<1> QED BY <1>1, <1>9, <1>10, <1>11

\* A stuttering step preserves the invariant.
LEMMA StutterSettled ==
    ASSUME TypeOK, Settled, UNCHANGED vars
    PROVE  TypeOK' /\ Settled'
BY DEF TypeOK, Settled, vars, net

\* Every step preserves the invariant and keeps every vote.
LEMMA StepSettled == TypeOK /\ Settled /\ [Next]_vars => TypeOK' /\ Settled' /\ VoteKept
<1> SUFFICES ASSUME TypeOK, Settled, [Next]_vars PROVE TypeOK' /\ Settled' /\ VoteKept
  OBVIOUS
<1>0. \A i \in Node : node[i].term \in Nat BY RaftFields DEF TypeOK
<1>1. CASE UNCHANGED vars
  <2>1. TypeOK' /\ Settled' BY <1>1, StutterSettled
  <2>2. VoteKept BY <1>0, <1>1 DEF VoteKept, vars
  <2> QED BY <2>1, <2>2
<1>2. CASE Next
  <2>1. CASE \E i \in Node : LeaseExpires(i)
    <3>1. PICK i \in Node : LeaseExpires(i) BY <2>1
    <3> QED BY <1>0, <3>1, LeaseSettled DEF VoteKept
  <2>2. ASSUME NEW i \in Node, NEW r \in RaftType, NEW rest, PartOf(rest),
               Event(i, r, rest), used' \in UsedType, Sane(node[i], r)
        PROVE  TypeOK' /\ Settled' /\ VoteKept
    <3>1. /\ TypeOK' /\ Settled'
          /\ \A j \in Node : j # i => node'[j] = node[j]
          /\ node'[i].term = r.term /\ node'[i].vote = r.vote
      BY <2>2, EventSettled
    <3>2. VoteKept BY <1>0, <2>2, <3>1, RaftFields DEF VoteKept, Sane
    <3> QED BY <3>1, <3>2
  <2> QED BY <1>2, <2>1, <2>2, NextSane
<1> QED BY <1>1, <1>2

\* Every reachable state is well typed: in every log offset <= snapshot <= committed
\* <= last index, so RaftLog never reads or commits beyond its entries, in any
\* configuration, and replaying a WAL always finds the saved commit index (load_state).
THEOREM TypeCorrect == Spec => []TypeOK
<1>1. TypeOK /\ Settled /\ [Next]_vars => TypeOK' /\ Settled' BY StepSettled
<1> QED BY <1>1, InitSettled, PTL DEF Spec

\* No term falls and no vote changes within a term, at any node, in any
\* configuration, restarts included (Raft::reset, Raft::step, load_state).
THEOREM VotesAreStable == Spec => VoteIsStable
<1>1. TypeOK /\ Settled /\ [Next]_vars => TypeOK' /\ Settled' /\ VoteKept BY StepSettled
<1> QED BY <1>1, InitSettled, PTL DEF Spec, VoteIsStable

\* An event that leaves node i lawful records at most one vote of a node per term.
LEMMA EventOneVote ==
    ASSUME TypeOK, Settled, OneVote,
           NEW i \in Node, NEW r \in RaftType, NEW rest, PartOf(rest),
           Event(i, r, rest), used' \in UsedType, Sane(node[i], r)
    PROVE  OneVote'
<1>1. /\ \A j \in Node : j # i => node'[j] = node[j]
      /\ node'[i].term = r.term /\ node'[i].vote = r.vote
  BY EventSettled
<1>2. Sane(node[i], r) /\ node[i] \in RaftType /\ r.id = i
  BY DEF Sane, TypeOK, Settled
<1>3. r.term \in Nat /\ node[i].term \in Nat /\ node[i].term <= r.term
  BY <1>2, RaftFields DEF Sane
<1>4. ballots' = ballots \cup (IF r.vote = Nil THEN {} ELSE {<<i, r.term, r.vote>>})
  BY DEF Event
<1>5. \A b \in ballots : b[1] = i => /\ b[2] <= r.term
                                     /\ b[2] = r.term => r.vote = b[3]
  <2> SUFFICES ASSUME NEW b \in ballots, b[1] = i
               PROVE  b[2] <= r.term /\ (b[2] = r.term => r.vote = b[3])
    OBVIOUS
  <2>1. b[2] \in Nat /\ b[3] \in Node BY DEF TypeOK
  <2>2. b[2] <= node[i].term /\ (b[2] = node[i].term => node[i].vote = b[3]) BY DEF OneVote
  <2>3. ASSUME b[2] = r.term PROVE r.vote = b[3]
    <3>1. r.term = node[i].term BY <1>3, <2>1, <2>2, <2>3
    <3>2. node[i].vote = b[3] /\ node[i].vote # Nil BY <2>1, <2>2, <2>3, <3>1, NodeAssumption
    <3> QED BY <1>2, <3>1, <3>2 DEF Sane
  <2> QED BY <1>3, <2>1, <2>2, <2>3
<1>6. OneVote'
  <2> DEFINE n == <<i, r.term, r.vote>>
  <2>1. ballots' \subseteq ballots \cup {n} BY <1>4
  <2>2. n[1] = i /\ n[2] = r.term /\ n[3] = r.vote OBVIOUS
  <2> HIDE DEF n
  <2>3. \A b \in ballots' : /\ b[2] <= node'[b[1]].term
                            /\ b[2] = node'[b[1]].term => node'[b[1]].vote = b[3]
    <3> SUFFICES ASSUME NEW b \in ballots'
                 PROVE  b[2] <= node'[b[1]].term /\ (b[2] = node'[b[1]].term => node'[b[1]].vote = b[3])
      OBVIOUS
    <3>1. CASE b = n BY <1>1, <1>3, <2>2, <3>1
    <3>2. CASE b \in ballots /\ b[1] = i BY <1>1, <1>5, <3>2
    <3>3. CASE b \in ballots /\ b[1] # i
      <4>1. b[1] \in Node BY <3>3 DEF TypeOK
      <4> QED BY <1>1, <3>3, <4>1 DEF OneVote
    <3> QED BY <2>1, <3>1, <3>2, <3>3
  <2>4. \A b, c \in ballots' : b[1] = c[1] /\ b[2] = c[2] => b[3] = c[3]
    BY <1>5, <2>1, <2>2 DEF OneVote
  <2> QED BY <2>3, <2>4 DEF OneVote
<1> QED BY <1>6

\* Every step keeps to one vote per term.
LEMMA StepOneVote == TypeOK /\ Settled /\ OneVote /\ [Next]_vars => OneVote'
<1> SUFFICES ASSUME TypeOK, Settled, OneVote, [Next]_vars PROVE OneVote' OBVIOUS
<1>1. CASE UNCHANGED vars BY <1>1 DEF vars, OneVote
<1>2. CASE \E i \in Node : LeaseExpires(i)
  <2>1. PICK i \in Node : LeaseExpires(i) BY <1>2
  <2>2. /\ \A j \in Node : node'[j].term = node[j].term /\ node'[j].vote = node[j].vote
        /\ ballots' = ballots
    BY <2>1, LeaseSettled
  <2>3. \A b \in ballots : b[1] \in Node BY DEF TypeOK
  <2> QED BY <2>2, <2>3 DEF OneVote
<1>3. CASE Next /\ ~ \E i \in Node : LeaseExpires(i) BY <1>3, NextSane, EventOneVote
<1> QED BY <1>1, <1>2, <1>3

\* A node records one vote per term, and never forgets one of its present term,
\* in any configuration, restarts included (can_vote in step, reset, load_state).
THEOREM VotesOnce == Spec => []OneVote
<1>1. Init => OneVote BY DEF Init, OneVote
<1>2. TypeOK /\ Settled /\ [Next]_vars => TypeOK' /\ Settled' BY StepSettled
<1> QED BY <1>1, <1>2, InitSettled, StepOneVote, PTL DEF Spec

-----------------------------------------------------------------------------
\* The votes in X, for node i in its present term, are on record.
OnRecord(i, X) == \A v \in X : <<v, node[i].term, i>> \in ballots

\* Without pre-votes, every event is one that Elects describes, from recorded votes.
LEMMA NextElects ==
    ASSUME ElectionInv, PreVote = FALSE, Next
    PROVE  \/ \E i \in Node : LeaseExpires(i)
           \/ \E i \in Node, r \in RaftType, X \in SUBSET Node : \E rest :
                 /\ PartOf(rest) /\ Event(i, r, rest) /\ used' \in UsedType
                 /\ Elects(node[i], X, r) /\ OnRecord(i, X)
<1>0. /\ used \in UsedType
      /\ \A i \in Node : node[i] \in RaftType /\ node[i].state # "PreCandidate"
  BY DEF ElectionInv, TypeOK, NoPreVotes
<1> DEFINE none == {}
<1>n. none \in SUBSET Node /\ \A i \in Node : OnRecord(i, none) BY DEF OnRecord
<1> HIDE DEF none
<1>a. \A r, rest, X : \A i \in Node :
        /\ Elects(node[i], X, r) /\ OnRecord(i, X) /\ X \in SUBSET Node
        /\ PartOf(rest) /\ Event(i, r, rest) /\ used' \in UsedType
        => \E j \in Node, s \in RaftType, Y \in SUBSET Node : \E rst :
                 /\ PartOf(rst) /\ Event(j, s, rst) /\ used' \in UsedType
                 /\ Elects(node[j], Y, s) /\ OnRecord(j, Y)
  BY DEF Elects, Sane
<1>1. ASSUME NEW i \in Node, TickElection(i)
      PROVE  \E r : Event(i, r, wire) /\ used' \in UsedType /\ Elects(node[i], none, r)
  <2> DEFINE q == [node[i] EXCEPT !.past = FALSE]
             no == FALSE
  <2>1. node[i] \in RaftType BY <1>0
  <2>2. Quiet(node[i], q) /\ q.msgs = node[i].msgs BY <2>1, QuietPast DEF RaftType
  <2>3. Event(i, step_hup(q), wire) /\ used' = used BY <1>1 DEF TickElection
  <2>4. step_hup(q) = campaign(q, no) /\ no \in BOOLEAN BY DEF step_hup
  <2> HIDE DEF q, no
  <2>5. q \in RaftType /\ q.id = node[i].id /\ q.term = node[i].term /\ q.vote = node[i].vote
        /\ q.state = node[i].state /\ q.granted = node[i].granted
    BY <2>2 DEF Quiet
  <2>6. Elects(q, none, step_hup(q)) BY <2>4, <2>5, CampaignElects
  <2>7. Sane(node[i], step_hup(q)) BY <2>1, <2>2, <2>6, QuietSane, SaneTrans DEF Elects
  <2>8. \A s, v : Backs(q, none, s, v) => Backs(node[i], none, s, v) BY <2>5 DEF Backs
  <2>9. Elects(node[i], none, step_hup(q)) BY <2>2, <2>5, <2>6, <2>7, <2>8 DEF Elects
  <2> QED BY <1>0, <2>3, <2>9
<1>2. ASSUME NEW i \in Node, TickHeartbeat(i)
      PROVE  \E r : Event(i, r, wire) /\ used' \in UsedType /\ Elects(node[i], none, r)
  <2>1. Elects(node[i], none, bcast_heartbeat(node[i])) BY <1>0, BcastHeartbeatQuiet, QuietElects
  <2>2. used' \in UsedType BY <1>0, <1>2 DEF TickHeartbeat, UsedType
  <2> QED BY <1>2, <2>1, <2>2 DEF TickHeartbeat
<1>3. ASSUME NEW i \in Node, TickQuorum(i)
      PROVE  \E r : Event(i, r, wire) /\ used' \in UsedType /\ Elects(node[i], none, r)
  <2>1. node[i].term \in Nat /\ node[i].term <= node[i].term BY <1>0, RaftFields
  <2>2. Elects(node[i], none, become_follower(node[i], node[i].term, Nil))
    BY <1>0, <2>1, FollowerElects
  <2>3. Elects(node[i], none, tick_quorum(node[i])) BY <1>0, <2>2, TickQuorumCases, QuietElects
  <2>4. used' \in UsedType BY <1>0, <1>3 DEF TickQuorum, UsedType
  <2> QED BY <1>3, <2>3, <2>4 DEF TickQuorum
<1>4. ASSUME NEW i \in Node, NEW v \in Value, Propose(i, v)
      PROVE  \E r : Event(i, r, wire) /\ used' \in UsedType /\ Elects(node[i], none, r)
  <2> DEFINE e == <<[term |-> 0, data |-> v]>>
             m == [NewMessage("MsgProp", i) EXCEPT !.entries = e]
  <2>1. e \in Seq(Entry) BY DEF Entry
  <2>2. NewMessage("MsgProp", i) \in MessageType BY NewMessageType DEF MsgType
  <2>3. Event(i, step(node[i], m), wire) BY <1>4 DEF Propose
  <2> HIDE DEF e
  <2>4. m \in MessageType BY <2>1, <2>2 DEF MessageType
  <2>5. m.type = "MsgProp" BY DEF NewMessage
  <2> HIDE DEF m
  <2>6. Granter(node[i], m) = none BY <2>5 DEF Granter, Grant, none
  <2>7. Elects(node[i], none, step(node[i], m))
    BY <1>0, <2>4, <2>5, <2>6, StepElects DEF LeaderMsg, Grant
  <2>8. used' \in UsedType BY <1>0, <1>4 DEF Propose, UsedType
  <2> QED BY <2>3, <2>7, <2>8
<1>5. ASSUME NEW i \in Node, NEW transferee \in Node, TransferLeadership(i, transferee)
      PROVE  \E r : Event(i, r, wire) /\ used' \in UsedType /\ Elects(node[i], none, r)
  <2> DEFINE m == [NewMessage("MsgTransferLeader", i) EXCEPT !.from = transferee]
  <2>2. NewMessage("MsgTransferLeader", i) \in MessageType BY NewMessageType DEF MsgType
  <2>3. Event(i, step(node[i], m), wire) BY <1>5 DEF TransferLeadership
  <2>4. m \in MessageType BY <2>2 DEF MessageType
  <2>5. m.type = "MsgTransferLeader" BY DEF NewMessage
  <2> HIDE DEF m
  <2>6. Granter(node[i], m) = none BY <2>5 DEF Granter, Grant, none
  <2>7. Elects(node[i], none, step(node[i], m))
    BY <1>0, <2>4, <2>5, <2>6, StepElects DEF LeaderMsg, Grant
  <2>8. used' \in UsedType BY <1>0, <1>5 DEF TransferLeadership, UsedType
  <2> QED BY <2>3, <2>7, <2>8
<1>6. ASSUME NEW i \in Node, Restart(i)
      PROVE  \E r : Event(i, r, wire) /\ used' \in UsedType /\ Elects(node[i], none, r)
  <2>0. PICK c \in SavedCommits(node[i].raft_log) : Event(i, Reload(node[i], c), wire)
    BY <1>6 DEF Restart
  <2> DEFINE f == Reload(node[i], c)
  <2>1. Sane(node[i], f) /\ f.state = "Follower" /\ f.msgs = node[i].msgs BY <1>0, ReloadFacts
  <2> HIDE DEF f
  <2>2. Elects(node[i], none, f) BY <2>1 DEF Elects
  <2>3. used' \in UsedType BY <1>0, <1>6 DEF Restart, UsedType
  <2> QED BY <2>0, <2>2, <2>3 DEF f
<1>7. ASSUME NEW m \in net, Deliver(m)
      PROVE  LET X == Granter(node[m.to], m)
             IN  /\ m.to \in Node /\ Event(m.to, step(node[m.to], m), Without(m))
                 /\ used' \in UsedType /\ Elects(node[m.to], X, step(node[m.to], m))
                 /\ X \in SUBSET Node /\ OnRecord(m.to, X)
  <2>1. m \in MessageType /\ m.to \in Node /\ m.from \in Node
    BY DEF ElectionInv, TypeOK, MessageType
  <2>2. m.type \in LeaderMsg => m.term > 0 BY DEF ElectionInv, Settled
  <2>3. /\ m.type \notin {"MsgPreVote", "MsgPreVoteResp"}
        /\ m.type = "MsgVote" \/ Grant(m) => m.term > 0
    BY DEF ElectionInv, NoPreVotes
  <2>4. Elects(node[m.to], Granter(node[m.to], m), step(node[m.to], m))
    BY <1>0, <2>1, <2>2, <2>3, StepElects
  <2>5. Granter(node[m.to], m) \in SUBSET Node BY <2>1 DEF Granter
  <2>6. OnRecord(m.to, Granter(node[m.to], m))
    BY DEF OnRecord, Granter, ElectionInv, VotesAreReal
  <2> QED BY <1>0, <1>7, <2>1, <2>4, <2>5, <2>6 DEF Deliver, Without
<1>8. PartOf(wire) /\ \A m : PartOf(Without(m)) BY PartsOfWire DEF ElectionInv
<1>9. CASE \E i \in Node : TickElection(i) BY <1>1, <1>8, <1>9, <1>a, <1>n
<1>10. CASE \E i \in Node : LeaseExpires(i) BY <1>10
<1>11. CASE \E i \in Node : TickHeartbeat(i) BY <1>2, <1>8, <1>11, <1>a, <1>n
<1>12. CASE \E i \in Node : TickQuorum(i) BY <1>3, <1>8, <1>12, <1>a, <1>n
<1>13. CASE \E i \in Node, v \in Value : Propose(i, v) BY <1>4, <1>8, <1>13, <1>a, <1>n
<1>14. CASE \E i, transferee \in Node : TransferLeadership(i, transferee)
  BY <1>5, <1>8, <1>14, <1>a, <1>n
<1>15. CASE \E i \in Node : Restart(i) BY <1>6, <1>8, <1>15, <1>a, <1>n
<1>16. CASE \E m \in net : Deliver(m) BY <1>7, <1>8, <1>16, <1>a
<1> QED BY <1>9, <1>10, <1>11, <1>12, <1>13, <1>14, <1>15, <1>16 DEF Next

\* A set of voters on record that is a quorum
LEMMA QuorumOfVoters ==
    ASSUME NEW S \in SUBSET Node, NEW Q \in SUBSET S, Cardinality(Q) >= quorum
    PROVE  Cardinality(S) >= quorum
<1>1. IsFiniteSet(S) /\ IsFiniteSet(Q) BY NodeAssumption, FS_Subset
<1>2. Cardinality(Q) <= Cardinality(S) BY <1>1, FS_Subset
<1>3. Cardinality(Q) \in Nat /\ Cardinality(S) \in Nat BY <1>1, FS_CardinalityType
<1> QED BY <1>2, <1>3, QuorumNat

\* An event that Elects describes preserves the invariant.
LEMMA EventElects ==
    ASSUME ElectionInv,
           NEW i \in Node, NEW r \in RaftType, NEW rest, PartOf(rest), NEW X \in SUBSET Node,
           Event(i, r, rest), used' \in UsedType, Elects(node[i], X, r), OnRecord(i, X)
    PROVE  ElectionInv'
<1> USE DEF ElectionInv
<1>1. /\ TypeOK' /\ Settled'
      /\ \A j \in Node : j # i => node'[j] = node[j]
      /\ node'[i].id = i /\ node'[i].term = r.term /\ node'[i].vote = r.vote
      /\ node'[i].state = r.state /\ node'[i].granted = r.granted
  BY EventSettled DEF Elects
<1>2. Sane(node[i], r) /\ node[i] \in RaftType /\ node[i].id = i /\ r.id = i
  BY DEF Elects, Sane, TypeOK, Settled
<1>3. r.term \in Nat /\ node[i].term \in Nat /\ node[i].term <= r.term
  BY <1>2, RaftFields DEF Sane
<1>4. r.msgs = {} \/ \A m \in r.msgs : Honest(r, m)
  BY DEF Elects, Settled
<1>5. net' \subseteq net \cup r.msgs BY EventNet
<1>6. ballots' = ballots \cup (IF r.vote = Nil THEN {} ELSE {<<i, r.term, r.vote>>})
  BY DEF Event
<1>7. elected' = elected \cup (IF r.state = "Leader" THEN {<<r.term, i>>} ELSE {})
  BY DEF Event
<1>8. r.term > 0 BY <1>3 DEF Settled
<1>9. \A v : Backs(node[i], X, r, v) => <<v, r.term, i>> \in ballots'
  <2> SUFFICES ASSUME NEW v, Backs(node[i], X, r, v) PROVE <<v, r.term, i>> \in ballots'
    OBVIOUS
  <2>1. CASE v = r.id /\ r.vote = r.id
    <3>1. r.vote # Nil BY <1>2, <2>1, NodeAssumption
    <3> QED BY <1>2, <1>6, <2>1, <3>1
  <2>2. CASE r.term = node[i].term /\ node[i].state = "Candidate" /\ v \in node[i].granted
    BY <1>6, <2>2 DEF VotesAreReal
  <2>3. CASE r.term = node[i].term /\ v \in X BY <1>6, <2>3 DEF OnRecord
  <2> QED BY <2>1, <2>2, <2>3 DEF Backs
<1>10. NoPreVotes'
  <2>1. \A j \in Node : /\ node'[j].state # "PreCandidate"
                        /\ node'[j].state = "Leader" => <<node'[j].term, j>> \in elected'
    BY <1>1, <1>7 DEF NoPreVotes, Elects
  <2>2. \A m \in net' : /\ m.type \notin {"MsgPreVote", "MsgPreVoteResp"}
                        /\ m.type = "MsgVote" \/ Grant(m) => m.term > 0
    BY <1>4, <1>5, <1>8 DEF NoPreVotes, Honest
  <2> QED BY <2>1, <2>2 DEF NoPreVotes
<1>12. OneVote' BY <1>2, EventOneVote
<1>13. VotesAreReal'
  <2>1. ASSUME NEW j \in Node, node'[j].state = "Candidate", NEW v \in node'[j].granted
        PROVE  <<v, node'[j].term, j>> \in ballots'
    <3>1. CASE j = i BY <1>1, <1>9, <2>1, <3>1 DEF Elects
    <3>2. CASE j # i BY <1>1, <1>6, <2>1, <3>2 DEF VotesAreReal
    <3> QED BY <3>1, <3>2
  <2>2. ASSUME NEW m \in net', Grant(m) PROVE <<m.from, m.term, m.to>> \in ballots'
    <3>1. CASE m \in net BY <1>6, <2>2, <3>1 DEF VotesAreReal
    <3>2. CASE m \in r.msgs
      <4>1. m.from = i /\ m.to = r.vote /\ m.term = r.term
        BY <1>2, <1>4, <2>2, <3>2 DEF Honest
      <4>2. m.to \in Node BY <3>2, RaftFields DEF MessageType
      <4> QED BY <1>6, <4>1, <4>2, NodeAssumption
    <3> QED BY <1>5, <3>1, <3>2
  <2> QED BY <2>1, <2>2 DEF VotesAreReal
<1>14. ElectedByQuorum'
  <2> DEFINE V(t, j) == {v \in Node : <<v, t, j>> \in ballots'}
  <2> SUFFICES ASSUME NEW e \in elected'
               PROVE  Cardinality(V(e[1], e[2])) >= quorum
    BY DEF ElectedByQuorum, Voters
  <2>1. CASE e \in elected
    <3>1. Cardinality(Voters(e[1], e[2])) >= quorum BY <2>1 DEF ElectedByQuorum
    <3>2. Voters(e[1], e[2]) \in SUBSET V(e[1], e[2]) BY <1>6 DEF Voters
    <3>3. V(e[1], e[2]) \in SUBSET Node OBVIOUS
    <3> HIDE DEF V
    <3> QED BY <3>1, <3>2, <3>3, QuorumOfVoters
  <2>2. CASE e \notin elected
    <3>1. e = <<r.term, i>> /\ r.state = "Leader" BY <1>7, <2>2
    <3>2. ~(node[i].state = "Leader" /\ node[i].term = r.term)
      BY <2>2, <3>1 DEF NoPreVotes
    <3>3. PICK Q \in SUBSET Node :
             Cardinality(Q) = quorum /\ \A v \in Q : Backs(node[i], X, r, v)
      BY <3>1, <3>2 DEF Elects
    <3>4. Q \in SUBSET V(r.term, i) /\ V(r.term, i) \in SUBSET Node BY <1>9, <3>3
    <3>5. e[1] = r.term /\ e[2] = i BY <3>1
    <3>6. Cardinality(Q) >= quorum BY <3>3, QuorumNat
    <3> HIDE DEF V
    <3> QED BY <3>4, <3>5, <3>6, QuorumOfVoters
  <2> QED BY <2>1, <2>2
<1> QED BY <1>1, <1>10, <1>12, <1>13, <1>14

\* The election invariant holds initially.
LEMMA InitElection == Init => ElectionInv
<1> SUFFICES ASSUME Init PROVE ElectionInv OBVIOUS
<1>1. TypeOK /\ Settled BY InitSettled
<1>2. net = {} /\ ballots = {} /\ elected = {} BY EmptyWire DEF Init
<1>3. \A i \in Node : node[i].state = "Follower"
  <2> TAKE i \in Node
  <2>1. Bootstrap(i) \in RaftType /\ Bootstrap(i).state = "Follower" BY BootstrapFacts
  <2>2. node[i] = pull_ready_events(Bootstrap(i)) BY DEF Init
  <2> QED BY <2>1, <2>2, PullFacts
<1> QED BY <1>1, <1>2, <1>3 DEF ElectionInv, NoPreVotes, OneVote, VotesAreReal, ElectedByQuorum

\* Without pre-votes every step preserves the election invariant.
LEMMA StepElection ==
    ASSUME PreVote = FALSE
    PROVE  ElectionInv /\ [Next]_vars => ElectionInv'
<1> SUFFICES ASSUME ElectionInv, [Next]_vars PROVE ElectionInv' OBVIOUS
<1>1. CASE UNCHANGED vars
  BY <1>1 DEF vars, net, ElectionInv, TypeOK, Settled, NoPreVotes, OneVote, VotesAreReal,
              ElectedByQuorum, Voters
<1>2. CASE \E i \in Node : LeaseExpires(i)
  <2>1. PICK i \in Node : LeaseExpires(i) BY <1>2
  <2>2. /\ TypeOK' /\ Settled'
        /\ \A j \in Node : /\ node'[j].term = node[j].term /\ node'[j].vote = node[j].vote
                           /\ node'[j].state = node[j].state
                           /\ node'[j].granted = node[j].granted
        /\ net' = net /\ ballots' = ballots /\ elected' = elected
    BY <2>1, LeaseSettled DEF ElectionInv
  <2>3. NoPreVotes' /\ VotesAreReal' BY <2>2 DEF ElectionInv, NoPreVotes, VotesAreReal
  <2>4. OneVote'
    <3>1. \A b \in ballots : b[1] \in Node BY DEF ElectionInv, TypeOK
    <3> QED BY <2>2, <3>1 DEF ElectionInv, OneVote
  <2>5. ElectedByQuorum' BY <2>2 DEF ElectionInv, ElectedByQuorum, Voters
  <2> QED BY <2>2, <2>3, <2>4, <2>5 DEF ElectionInv
<1>3. CASE Next /\ ~ \E i \in Node : LeaseExpires(i)
  BY <1>3, NextElects, EventElects
<1> QED BY <1>1, <1>2, <1>3

\* Two leaders of a term would share a voter, who has voted once.
LEMMA InvIsSafe == ElectionInv => ElectionSafety
<1> SUFFICES ASSUME ElectionInv, NEW e \in elected, NEW f \in elected, e[1] = f[1]
             PROVE  e = f
  BY DEF ElectionSafety
<1> DEFINE A == Voters(e[1], e[2])
           B == Voters(f[1], f[2])
<1>1. e = <<e[1], e[2]>> /\ f = <<f[1], f[2]>> BY DEF ElectionInv, TypeOK
<1>2. A \in SUBSET Node /\ B \in SUBSET Node BY DEF Voters
<1>3. Cardinality(A) >= quorum /\ Cardinality(B) >= quorum BY DEF ElectionInv, ElectedByQuorum
<1>4. IsFiniteSet(A) /\ IsFiniteSet(B) BY <1>2, NodeAssumption, FS_Subset
<1>5. Cardinality(A) \in Nat /\ Cardinality(B) \in Nat BY <1>4, FS_CardinalityType
<1>6. Cardinality(A) + Cardinality(B) > Cardinality(Node)
  <2> HIDE DEF A, B
  <2> QED BY <1>3, <1>5, QuorumNat
<1>7. A \cap B # {}
  <2> HIDE DEF A, B
  <2> QED BY <1>2, <1>6, NodeAssumption, FS_MajoritiesIntersect
<1>8. PICK v : v \in A /\ v \in B BY <1>7
<1>9. <<v, e[1], e[2]>> \in ballots /\ <<v, f[1], f[2]>> \in ballots BY <1>8 DEF Voters
<1>10. e[2] = f[2] BY <1>9 DEF ElectionInv, OneVote
<1> QED BY <1>1, <1>10

\* Without pre-votes every vote that is counted or on its way was recorded by its
\* voter, and every leader has the recorded votes of a quorum of its term, in every
\* reachable state (poll, step_vote, step_candidate, become_leader).
THEOREM ElectionInvariant ==
    ASSUME PreVote = FALSE
    PROVE  Spec => []ElectionInv
<1>1. Init => ElectionInv BY InitElection
<1>2. ElectionInv /\ [Next]_vars => ElectionInv' BY StepElection
<1> QED BY <1>1, <1>2, PTL DEF Spec

\* Without pre-votes (Config.pre_vote off) no term ever has two leaders, whatever
\* the number of nodes, the losses and the restarts (poll, step_candidate, become_leader).
THEOREM ElectionIsSafe ==
    ASSUME PreVote = FALSE
    PROVE  Spec => []ElectionSafety
<1> QED BY ElectionInvariant, InvIsSafe, PTL
-----------------------------------------------------------------------------
(* Flow control at a leader, for every configuration, schedule and loss of   *)
(* messages: the window of unacknowledged MsgApp messages of a follower      *)
(* (WindowOK) and the quota of uncommitted payload (QuotaNeverOverestimates). *)
(*                                                                           *)
(* Both are local to a node: whatever messages arrive, in whatever order,    *)
(* they hold.  Neither is inductive as it stands.  The window needs that its *)
(* indexes are ordered pairwise, and that a leader's view of itself is never *)
(* behind its own log, since it raises that match without freeing a window.  *)
(* The quota is spent in the middle of an event and given back at its end,   *)
(* by pull_ready_events, so in between it is bounded by the payload above    *)
(* what is applied.  Flow says so for a node in the middle of an event; at   *)
(* rest everything committed is applied.                                     *)

\* The index above which pull_ready_events looks for entries to apply
Start(l) == IF l.applied < l.offset THEN l.offset ELSE l.applied

\* The payload that the quota may still stand for
Pending(l) == TotalPayload(l, Start(l) + 1, Len(l.ents))

\* A leader's view of a follower, or, with own, of itself, whose log ends at last
Steady(pr, own, last) ==
    /\ pr.state = "Replicate" => pr.match < pr.next
    /\ pr.state # "Replicate" => pr.inflights = <<>>
    /\ Len(pr.inflights) <= MaxInflight
    /\ \A k \in 1..Len(pr.inflights) :
          pr.match < pr.inflights[k] /\ pr.inflights[k] < pr.next
    /\ \A j, k \in 1..Len(pr.inflights) : j < k => pr.inflights[j] < pr.inflights[k]
    /\ own => last <= pr.match /\ pr.inflights = <<>>

\* Flow control of a node, in the middle of an event too
Flow(r) ==
    /\ r.state # "Leader" => r.uncommitted_size = 0
    /\ r.state = "Leader" =>
          /\ r.uncommitted_size <= Pending(r.raft_log)
          /\ \A p \in Node : Steady(r.prs[p], p = r.id, Len(r.raft_log.ents))

\* Between two events everything committed is applied.
FlowInv ==
    \A i \in Node : Flow(node[i]) /\ node[i].raft_log.applied = node[i].raft_log.committed

-----------------------------------------------------------------------------
(* Payload. *)

\* The payload of a range is that of its two parts.
LEMMA PayloadSplit ==
    ASSUME NEW l, NEW a \in Nat, NEW b \in Nat, NEW c \in Nat, a <= b, b <= c
    PROVE  TotalPayload(l, a + 1, c) = TotalPayload(l, a + 1, b) + TotalPayload(l, b + 1, c)
<1> DEFINE P(k) == PayloadSize(l.ents[k]) = 1
           S == {k \in a + 1 .. b : P(k)}
           T == {k \in b + 1 .. c : P(k)}
           U == {k \in a + 1 .. c : P(k)}
<1> HIDE DEF P
<1>1. IsFiniteSet(a + 1 .. b) /\ IsFiniteSet(b + 1 .. c) BY FS_Interval
<1>2. IsFiniteSet(S) /\ IsFiniteSet(T) BY <1>1, FS_Subset
<1>3. U = S \cup T OBVIOUS
<1>4. S \cap T = {} OBVIOUS
<1>5. Cardinality(S) \in Nat /\ Cardinality(T) \in Nat BY <1>2, FS_CardinalityType
<1> HIDE DEF S, T, U
<1>6. Cardinality(U) = Cardinality(S) + Cardinality(T)
  <2>1. Cardinality(S \cup T) = Cardinality(S) + Cardinality(T) - Cardinality(S \cap T)
    BY <1>2, FS_Union
  <2>2. Cardinality(S \cap T) = 0 BY <1>4, FS_EmptySet
  <2> QED BY <1>3, <1>5, <2>1, <2>2
<1> QED BY <1>6 DEF TotalPayload, S, T, U, P

\* The payload of one entry
LEMMA PayloadOne ==
    ASSUME NEW l, NEW n \in Nat
    PROVE  TotalPayload(l, n + 1, n + 1) = PayloadSize(l.ents[n + 1])
<1> DEFINE x == PayloadSize(l.ents[n + 1])
           S == {k \in n + 1 .. n + 1 : PayloadSize(l.ents[k]) = 1}
<1>1. x \in {0, 1} BY DEF PayloadSize
<1>2. CASE x = 1
  <2>1. S = {n + 1} BY <1>2
  <2>2. Cardinality({n + 1}) = 1 BY FS_Singleton
  <2> QED BY <1>2, <2>1, <2>2 DEF TotalPayload
<1>3. CASE x = 0
  <2>1. S = {} BY <1>3
  <2> QED BY <1>3, <2>1, FS_EmptySet DEF TotalPayload
<1> QED BY <1>1, <1>2, <1>3

\* Logs that agree on a range have the same payload in it.
LEMMA PayloadSame ==
    ASSUME NEW l, NEW q, NEW lo \in Nat, NEW hi \in Nat,
           \A k \in lo..hi : l.ents[k] = q.ents[k]
    PROVE  TotalPayload(l, lo, hi) = TotalPayload(q, lo, hi)
<1>1. {k \in lo..hi : PayloadSize(l.ents[k]) = 1} = {k \in lo..hi : PayloadSize(q.ents[k]) = 1}
  OBVIOUS
<1> QED BY <1>1 DEF TotalPayload

\* Where pull_ready_events starts is within the log.
LEMMA StartFacts ==
    ASSUME NEW l \in LogType
    PROVE  /\ Start(l) \in Nat /\ Len(l.ents) \in Nat /\ Start(l) <= l.committed
           /\ l.committed \in Nat /\ l.committed <= Len(l.ents) /\ Pending(l) \in Nat
<1>1. /\ l.applied \in Nat /\ l.offset \in Nat /\ l.committed \in Nat /\ Len(l.ents) \in Nat
      /\ l.offset <= l.committed /\ l.applied <= l.committed /\ l.committed <= Len(l.ents)
  <2>1. l.snap \in Nat BY LogFields
  <2> QED BY <2>1, LogFields
<1>2. Start(l) \in Nat /\ Start(l) <= l.committed BY <1>1 DEF Start
<1>3. Pending(l) \in Nat BY <1>1, <1>2, TotalPayloadType DEF Pending
<1> QED BY <1>1, <1>2, <1>3

\* Committing and dying leave the pending payload alone.
LEMMA PendingSame ==
    ASSUME NEW l, NEW q, q.ents = l.ents, q.offset = l.offset, q.applied = l.applied
    PROVE  Pending(q) = Pending(l)
BY DEF Pending, Start, TotalPayload

\* RaftLog::append of one entry adds its payload.
LEMMA PendingAppend ==
    ASSUME NEW l \in LogType, NEW e \in Entry
    PROVE  LET q == append(l, Len(l.ents), <<e>>)
           IN  /\ Pending(q) = Pending(l) + PayloadSize(e)
               /\ Len(q.ents) = Len(l.ents) + 1
<1> DEFINE n == Len(l.ents)
           new == SubSeq(l.ents, 1, n) \o <<e>>
           q == append(l, n, <<e>>)
<1>1. /\ l.ents \in Seq(Entry) /\ Start(l) \in Nat /\ n \in Nat /\ Start(l) <= n
      /\ l.committed <= n /\ l.committed \in Nat /\ Pending(l) \in Nat
  BY StartFacts, LogFields
<1>2. /\ new \in Seq(Entry) /\ Len(new) = n + 1 /\ new[n + 1] = e
      /\ \A k \in 1..n : new[k] = l.ents[k]
  <2> DEFINE h == SubSeq(l.ents, 1, n)
             t == <<e>>
  <2>1. h \in Seq(Entry) /\ Len(h) = n /\ \A k \in 1..n : h[k] = l.ents[k] BY <1>1
  <2>2. t \in Seq(Entry) /\ Len(t) = 1 /\ t[1] = e OBVIOUS
  <2> HIDE DEF h, t, n
  <2> DEFINE g == h \o t
  <2>3. /\ g \in Seq(Entry) /\ Len(g) = Len(h) + Len(t)
        /\ \A k \in 1 .. Len(h) + Len(t) : g[k] = IF k <= Len(h) THEN h[k] ELSE t[k - Len(h)]
    BY <2>1, <2>2, ConcatProperties, Zenon
  <2> HIDE DEF g
  <2>4. Len(g) = n + 1 BY <2>1, <2>2, <2>3
  <2>5. g[n + 1] = e
    <3>1. n + 1 \in 1 .. n + 1 /\ ~(n + 1 <= n) /\ n + 1 - n = 1 BY <1>1
    <3>2. g[n + 1] = t[n + 1 - n] BY <3>1, <2>1, <2>2, <2>3
    <3> QED BY <3>1, <3>2, <2>2
  <2>6. \A k \in 1..n : g[k] = l.ents[k] BY <1>1, <2>1, <2>2, <2>3
  <2> QED BY <2>3, <2>4, <2>5, <2>6 DEF g, h, t
<1>3. q = [l EXCEPT !.ents = new, !.wal = new]
  <2>1. <<e>> # <<>> OBVIOUS
  <2>2. ~(n < l.committed \/ n > last_index(l)) BY <1>1 DEF last_index
  <2> QED BY <2>1, <2>2 DEF append
<1> HIDE DEF new
<1>4. q.ents = new /\ q.offset = l.offset /\ q.applied = l.applied
  BY <1>3, LogFields DEF LogRecord
<1> HIDE DEF q
<1>5. Start(q) = Start(l) BY <1>4 DEF Start
<1> DEFINE a == Start(l)
<1> HIDE DEF a
<1>6. TotalPayload(q, a + 1, n + 1) = TotalPayload(q, a + 1, n) + TotalPayload(q, n + 1, n + 1)
  BY <1>1, PayloadSplit DEF a
<1>7. TotalPayload(q, a + 1, n) = TotalPayload(l, a + 1, n)
  <2>1. \A k \in a + 1 .. n : q.ents[k] = l.ents[k] BY <1>1, <1>2, <1>4 DEF a
  <2> DEFINE b == a + 1
  <2>2. b \in Nat BY <1>1 DEF a
  <2> HIDE DEF b, n
  <2>3. \A k \in b..n : q.ents[k] = l.ents[k] BY <2>1 DEF b
  <2>4. TotalPayload(q, b, n) = TotalPayload(l, b, n) BY <1>1, <2>2, <2>3, PayloadSame
  <2> QED BY <2>4 DEF b
<1>8. TotalPayload(q, n + 1, n + 1) = PayloadSize(e) BY <1>1, <1>2, <1>4, PayloadOne
<1>9. Pending(q) = Pending(l) + PayloadSize(e)
  BY <1>2, <1>4, <1>5, <1>6, <1>7, <1>8 DEF Pending, a
<1> QED BY <1>2, <1>4, <1>9 DEF q
-----------------------------------------------------------------------------
(* One Progress. *)

\* Flow control reads four fields of a Progress.
LEMMA SteadySame ==
    ASSUME NEW pr, NEW q, NEW own, NEW last, Steady(pr, own, last),
           q.match = pr.match, q.next = pr.next, q.state = pr.state, q.inflights = pr.inflights
    PROVE  Steady(q, own, last)
BY DEF Steady

\* An empty window is in order.
LEMMA SteadyEmpty ==
    ASSUME NEW pr, NEW own, NEW last,
           pr.inflights = <<>>, pr.state = "Replicate" => pr.match < pr.next,
           own => last <= pr.match
    PROVE  Steady(pr, own, last)
<1>1. Len(pr.inflights) = 0 /\ 0 <= MaxInflight BY MaxInflightAssumption
<1> QED BY <1>1 DEF Steady

\* InFlights::free_to frees every message that the index covers, and no other.
LEMMA FreeToFacts ==
    ASSUME NEW fl \in Seq(Nat), NEW to \in Nat,
           \A j, k \in 1..Len(fl) : j < k => fl[j] < fl[k]
    PROVE  /\ free_to(fl, to) \in Seq(Nat)
           /\ Len(free_to(fl, to)) <= Len(fl)
           /\ \E c \in Nat : \A k \in 1..Len(free_to(fl, to)) :
                 /\ c + k \in 1..Len(fl) /\ free_to(fl, to)[k] = fl[c + k]
                 /\ to < fl[c + k]
<1> DEFINE P == {k \in 1..Len(fl) : \A j \in 1..k : fl[j] <= to}
           c == Cardinality(P)
           g == SubSeq(fl, c + 1, Len(fl))
<1>1. Len(fl) \in Nat /\ P \in SUBSET (1..Len(fl)) OBVIOUS
<1>2. IsFiniteSet(P) /\ c \in Nat /\ c <= Len(fl)
  <2> HIDE DEF P
  <2> QED BY <1>1, IntervalSubset
<1>3. ASSUME NEW k \in 1..Len(fl), c < k PROVE to < fl[k]
  <2>1. fl[k] \in Nat OBVIOUS
  <2>2. SUFFICES ASSUME fl[k] <= to PROVE FALSE BY <2>1
  <2>3. \A j \in 1..k : fl[j] \in Nat /\ fl[j] <= fl[k]
    <3> TAKE j \in 1..k
    <3>1. j \in 1..Len(fl) /\ j <= k BY <1>1
    <3>2. fl[j] \in Nat BY <3>1
    <3>3. CASE j = k BY <2>1, <3>3
    <3>4. CASE j < k BY <2>1, <3>1, <3>2, <3>4
    <3> QED BY <3>1, <3>3, <3>4
  <2>4. \A i \in 1..k : i \in P
    <3> TAKE i \in 1..k
    <3>1. i \in 1..Len(fl) BY <1>1
    <3>2. \A j \in 1..i : fl[j] <= to
      <4> TAKE j \in 1..i
      <4>1. j \in 1..k OBVIOUS
      <4> QED BY <2>1, <2>2, <2>3, <4>1
    <3> QED BY <3>1, <3>2
  <2>5. k \in Nat /\ IsFiniteSet(1..k) /\ Cardinality(1..k) = k
    <3>1. k \in Nat BY <1>1
    <3> QED BY <3>1, FS_Interval
  <2> HIDE DEF P
  <2>6. (1..k) \subseteq P BY <2>4
  <2>7. Cardinality(1..k) <= Cardinality(P) BY <1>2, <2>6, FS_Subset
  <2> QED BY <1>2, <1>3, <2>5, <2>7
<1>4. free_to(fl, to) = g BY DEF free_to, Covered
<1> HIDE DEF c
<1>5. /\ g \in Seq(Nat) /\ Len(g) = Len(fl) - c
      /\ \A k \in 1..Len(g) : c + k \in 1..Len(fl) /\ g[k] = fl[c + k]
  <2>1. g \in Seq(Nat) BY <1>1, <1>2
  <2>2. Len(g) = Len(fl) - c BY <1>1, <1>2
  <2>3. ASSUME NEW k \in 1..Len(g) PROVE c + k \in 1..Len(fl) /\ g[k] = fl[c + k]
    <3>1. k \in 1..(Len(fl) - c) BY <2>2
    <3>2. c + k \in 1..Len(fl) BY <1>1, <1>2, <3>1
    <3>3. g[k] = fl[c + 1 + k - 1] BY <1>1, <1>2, <3>1
    <3>4. c + 1 + k - 1 = c + k BY <1>1, <1>2, <3>1
    <3> QED BY <3>2, <3>3, <3>4
  <2> QED BY <2>1, <2>2, <2>3
<1> HIDE DEF g
<1>6. \A k \in 1..Len(g) : c + k \in 1..Len(fl) /\ g[k] = fl[c + k] /\ to < fl[c + k]
  <2> TAKE k \in 1..Len(g)
  <2>1. c + k \in 1..Len(fl) /\ g[k] = fl[c + k] BY <1>5
  <2>2. c < c + k
    <3>1. k \in Nat /\ k >= 1 BY <1>5
    <3> QED BY <1>2, <3>1
  <2> QED BY <1>3, <2>1, <2>2
<1>7. Len(g) <= Len(fl) BY <1>1, <1>2, <1>5
<1> QED BY <1>2, <1>4, <1>5, <1>6, <1>7

\* Freeing acknowledged messages keeps the window in order, also when match has
\* moved up to the acknowledged index.
LEMMA SteadyFree ==
    ASSUME NEW pr \in ProgressType, NEW q, NEW own, NEW last \in Nat, NEW n \in Nat,
           Steady(pr, own, last), pr.state = "Replicate", q.state = "Replicate",
           q.inflights = free_to(pr.inflights, n),
           q.match = pr.match \/ q.match = n, pr.match <= q.match,
           q.next \in Nat, pr.next <= q.next, q.match < q.next
    PROVE  Steady(q, own, last)
<1> DEFINE fl == pr.inflights
           g == free_to(fl, n)
<1>1. fl \in Seq(Nat) /\ pr.match \in Nat /\ pr.next \in Nat BY DEF ProgressType
<1>2. /\ Len(fl) <= MaxInflight
      /\ \A k \in 1..Len(fl) : pr.match < fl[k] /\ fl[k] < pr.next
      /\ \A j, k \in 1..Len(fl) : j < k => fl[j] < fl[k]
      /\ own => last <= pr.match /\ fl = <<>>
  BY DEF Steady
<1> HIDE DEF fl
<1>3. /\ g \in Seq(Nat) /\ Len(g) <= Len(fl)
      /\ \E c \in Nat : \A k \in 1..Len(g) :
            c + k \in 1..Len(fl) /\ g[k] = fl[c + k] /\ n < fl[c + k]
  BY <1>1, <1>2, FreeToFacts
<1>4. PICK c \in Nat : \A k \in 1..Len(g) :
            c + k \in 1..Len(fl) /\ g[k] = fl[c + k] /\ n < fl[c + k]
  BY <1>3
<1>5. q.inflights = g BY DEF fl
<1> HIDE DEF g
<1>6. Len(g) \in Nat /\ Len(fl) \in Nat BY <1>1, <1>3
<1>7. Len(g) <= MaxInflight BY <1>2, <1>3, <1>6, MaxInflightAssumption
<1>8. \A k \in 1..Len(g) : q.match < g[k] /\ g[k] < q.next
  <2> TAKE k \in 1..Len(g)
  <2>1. c + k \in 1..Len(fl) /\ g[k] = fl[c + k] /\ n < fl[c + k] BY <1>4
  <2>2. fl[c + k] \in Nat /\ pr.match < fl[c + k] /\ fl[c + k] < pr.next BY <1>1, <1>2, <2>1, SMTT(30)
  <2> QED BY <1>1, <2>1, <2>2, SMTT(30)
<1>9. \A j, k \in 1..Len(g) : j < k => g[j] < g[k]
  <2> TAKE j, k \in 1..Len(g)
  <2> HAVE j < k
  <2>1. /\ c + k \in 1..Len(fl) /\ g[k] = fl[c + k]
        /\ c + j \in 1..Len(fl) /\ g[j] = fl[c + j]
    BY <1>4
  <2>2. c + j < c + k BY <1>6
  <2> QED BY <1>2, <2>1, <2>2
<1>10. own => last <= q.match /\ g = <<>>
  <2>1. HAVE own
  <2>2. last <= pr.match /\ Len(fl) = 0 BY <1>2, <2>1
  <2>3. Len(g) = 0 BY <1>3, <1>6, <2>2
  <2>4. g = <<>> BY <1>3, <2>3, EmptySeq
  <2>5. last <= q.match BY <1>1, <2>2
  <2> QED BY <2>4, <2>5
<1> QED BY <1>5, <1>7, <1>8, <1>9, <1>10 DEF Steady
\* One more message at the end of the window
LEMMA SteadyAppend ==
    ASSUME NEW pr \in ProgressType, NEW q, NEW last \in Nat, NEW own, NEW li,
           Steady(pr, own, li), ~own,
           pr.state = "Replicate", q.state = "Replicate", q.match = pr.match,
           Len(pr.inflights) # MaxInflight, pr.next <= last,
           q.next = last + 1, q.inflights = Append(pr.inflights, last)
    PROVE  Steady(q, own, li)
<1> DEFINE fl == pr.inflights
           g == Append(fl, last)
<1>1. fl \in Seq(Nat) /\ pr.match \in Nat /\ pr.next \in Nat BY DEF ProgressType
<1>2. /\ Len(fl) <= MaxInflight /\ Len(fl) # MaxInflight /\ pr.match < pr.next
      /\ \A k \in 1..Len(fl) : pr.match < fl[k] /\ fl[k] < pr.next
      /\ \A j, k \in 1..Len(fl) : j < k => fl[j] < fl[k]
  BY DEF Steady
<1>3. q.inflights = g OBVIOUS
<1> HIDE DEF fl
<1>4. /\ Len(g) = Len(fl) + 1 /\ g[Len(fl) + 1] = last
      /\ \A k \in 1..Len(fl) : g[k] = fl[k] /\ fl[k] \in Nat
  BY <1>1
<1>5. Len(fl) \in Nat BY <1>1
<1> HIDE DEF g
<1>6. Len(g) <= MaxInflight BY <1>2, <1>4, <1>5, MaxInflightAssumption
<1>7. \A k \in 1..Len(g) : pr.match < g[k] /\ g[k] < last + 1
  <2> TAKE k \in 1..Len(g)
  <2>1. CASE k \in 1..Len(fl) BY <1>1, <1>2, <1>4, <2>1, SMTT(30)
  <2>2. CASE k = Len(fl) + 1 BY <1>1, <1>2, <1>4, <2>2
  <2> QED BY <1>4, <1>5, <2>1, <2>2
<1>8. \A j, k \in 1..Len(g) : j < k => g[j] < g[k]
  <2> TAKE j, k \in 1..Len(g)
  <2> HAVE j < k
  <2>1. j \in 1..Len(fl) BY <1>4, <1>5
  <2>2. CASE k \in 1..Len(fl) BY <1>2, <1>4, <2>1, <2>2
  <2>3. CASE k = Len(fl) + 1
    <3>1. g[j] = fl[j] /\ fl[j] \in Nat /\ fl[j] < pr.next BY <1>2, <1>4, <2>1
    <3>2. g[k] = last BY <1>4, <2>3
    <3> QED BY <1>1, <3>1, <3>2
  <2>4. k \in 1..Len(fl) \/ k = Len(fl) + 1
    <3>1. k \in 1 .. Len(fl) + 1 BY <1>4
    <3> QED BY <1>5, <3>1
  <2> QED BY <2>2, <2>3, <2>4
<1> QED BY <1>2, <1>3, <1>6, <1>7, <1>8, <1>1 DEF Steady

\* What maybe_send_append does to a Progress keeps its window in order.
LEMMA AppendProgressSteady ==
    ASSUME NEW r \in RaftType, NEW to \in Node, NEW b \in BOOLEAN, NEW own \in BOOLEAN,
           Steady(r.prs[to], own, Len(r.raft_log.ents))
    PROVE  Steady(AppendProgress(r, to, b), own, Len(r.raft_log.ents))
<1> DEFINE pr == r.prs[to]
           li == Len(r.raft_log.ents)
           last == LastSent(r, pr.next)
           p1 == [pr EXCEPT !.next = last + 1, !.inflights = Append(@, last)]
           p2 == [pr EXCEPT !.paused = TRUE]
           p3 == become_snapshot(pr, r.raft_log.snap)
<1>1. pr \in ProgressType BY RaftFields
<1>2. pr.next \in Nat \ {0} /\ pr.inflights \in Seq(Nat) /\ pr.match \in Nat BY <1>1 DEF ProgressType
<1>3. last \in Nat /\ last <= li /\ li \in Nat BY <1>2, LastSentType DEF last_index
<1>4. \/ AppendProgress(r, to, b) \in {pr, p3}
      \/ /\ AppendProgress(r, to, b) = p1
         /\ pr.state = "Replicate" /\ pr.next <= last /\ ~is_paused(pr)
      \/ AppendProgress(r, to, b) = p2 /\ pr.state # "Replicate"
  <2>1. CASE is_paused(pr)
    <3>1. AppendMsgs(r, to, b) = {} BY <2>1 DEF AppendMsgs
    <3> QED BY <3>1 DEF AppendProgress
  <2>2. CASE ~is_paused(pr)
    <3>1. ~(pr.next > last) => pr.next <= last BY <1>2, <1>3
    <3> HIDE DEF p1, p2, p3
    <3> QED BY <2>2, <3>1 DEF AppendProgress, p1, p2, p3
  <2> QED BY <2>1, <2>2
<1> HIDE DEF pr
<1>5. Steady(pr, own, li) BY DEF pr
<1>6. own => li <= pr.match /\ pr.inflights = <<>> BY <1>5 DEF Steady
<1>7. Steady(p3, own, li)
  <2>1. p3.inflights = <<>> /\ p3.state = "Snapshot" /\ p3.match = pr.match
    BY <1>1 DEF become_snapshot, reset_state, ProgressType
  <2> HIDE DEF p3, li
  <2> QED BY <1>6, <2>1, SteadyEmpty
<1>8. Steady(p2, own, li)
  <2>1. p2.inflights = pr.inflights /\ p2.state = pr.state /\ p2.match = pr.match /\ p2.next = pr.next
    BY <1>1 DEF ProgressType
  <2> HIDE DEF p2, li
  <2> QED BY <1>5, <2>1, SteadySame
<1>9. ASSUME pr.state = "Replicate", pr.next <= last, ~is_paused(pr)
      PROVE  Steady(p1, own, li)
  <2>1. pr.match < pr.next BY <1>5, <1>9 DEF Steady
  <2> HIDE DEF li, last
  <2>2. ~own BY <1>2, <1>3, <1>6, <1>9, <2>1
  <2>3. Len(pr.inflights) # MaxInflight BY <1>9 DEF is_paused, is_full
  <2>4. /\ p1.state = "Replicate" /\ p1.match = pr.match /\ p1.next = last + 1
        /\ p1.inflights = Append(pr.inflights, last)
    BY <1>1, <1>9 DEF ProgressType
  <2> HIDE DEF p1
  <2> QED BY <1>1, <1>3, <1>5, <1>9, <2>2, <2>3, <2>4, SteadyAppend
<1> HIDE DEF p1, p2, p3
<1> QED BY <1>4, <1>5, <1>7, <1>8, <1>9 DEF pr
-----------------------------------------------------------------------------
(* The loop of maybe_send_append. *)

\* Multiplication by a number of entries is monotonic.
LEMMA TimesMono ==
    ASSUME NEW a \in Nat, NEW b \in Nat, NEW e \in Nat, a < b
    PROVE  a * e \in Nat /\ b * e \in Nat /\ a * e + e <= b * e
OBVIOUS

\* The messages that carry the entries next..last, e in each, end at increasing
\* indexes; all but the last one end before last.
LEMMA Batches ==
    ASSUME NEW e \in Nat \ {0}, NEW next \in Nat, NEW last \in Nat, next <= last,
           NEW n \in Nat, n <= (last + 1 - next + e - 1) \div e
    PROVE  LET g(k) == Least(last, next + (k - 1) * e + e - 1)
           IN  /\ \A k \in 1..n : g(k) \in Nat /\ next <= g(k) /\ g(k) <= last
               /\ \A j, k \in 1..n : j < k => g(j) < g(k)
<1> DEFINE g(k) == Least(last, next + (k - 1) * e + e - 1)
           need == (last + 1 - next + e - 1) \div e
           todo == last + 1 - next
<1>1. todo \in Nat /\ todo >= 1 /\ e \in Nat /\ e >= 1 OBVIOUS
<1>2. need \in Nat /\ need * e <= todo + e - 1
  <2> DEFINE x == todo + e - 1
  <2>1. x \in Nat /\ need = x \div e BY <1>1
  <2> HIDE DEF x
  <2>2. x \div e \in Nat /\ e * (x \div e) + (x % e) = x /\ x % e \in Nat BY <1>1, <2>1
  <2> DEFINE d == x \div e
             m == x % e
  <2>3. d * e = e * d BY <2>2, <1>1
  <2>4. d * e \in Nat BY <2>2, <1>1
  <2> DEFINE y == d * e
  <2>5. y + m = x BY <2>2, <2>3
  <2>6. y \in Nat /\ m \in Nat BY <2>2, <2>4
  <2> HIDE DEF y, m
  <2>7. y <= x BY <2>1, <2>5, <2>6
  <2> QED BY <2>1, <2>2, <2>7 DEF x, y, d
<1> HIDE DEF need
<1>3. ASSUME NEW k \in 1..n
      PROVE  /\ (k - 1) * e \in Nat /\ g(k) \in Nat /\ next <= g(k) /\ g(k) <= last
             /\ k < n => (k - 1) * e + e <= todo - 1
  <2>1. k \in Nat /\ k - 1 \in Nat /\ k <= n BY <1>1
  <2>2. (k - 1) * e \in Nat BY <2>1, <1>1
  <2> DEFINE z == (k - 1) * e
  <2>3. z \in Nat BY <2>2
  <2>4. k < n => z + e <= todo - 1
    <3>1. HAVE k < n
    <3>2. n <= need BY DEF need
    <3>3. k - 1 < k /\ k < need BY <1>2, <2>1, <3>1, <3>2
    <3>4. z + e <= k * e /\ k * e \in Nat BY <1>1, <2>1, <3>3, TimesMono
    <3>5. k * e + e <= need * e /\ need * e \in Nat BY <1>1, <1>2, <2>1, <3>3, TimesMono
    <3> DEFINE u == k * e
               w == need * e
    <3>6. z + e <= u /\ u + e <= w /\ w <= todo + e - 1 /\ u \in Nat /\ w \in Nat
      BY <1>2, <3>4, <3>5
    <3> HIDE DEF u, w, z, todo
    <3> QED BY <1>1, <2>3, <3>6
  <2> HIDE DEF z
  <2>5. Least(last, next + z + e - 1) \in Nat /\ next <= Least(last, next + z + e - 1)
        /\ Least(last, next + z + e - 1) <= last
    BY <1>1, <2>3 DEF Least
  <2> QED BY <2>3, <2>4, <2>5 DEF z
<1>4. ASSUME NEW j \in 1..n, NEW k \in 1..n, j < k PROVE g(j) < g(k)
  <2> DEFINE x == (j - 1) * e
             z == (k - 1) * e
  <2>1. j - 1 \in Nat /\ k - 1 \in Nat /\ j - 1 < k - 1 /\ j < n BY <1>4
  <2>2. x \in Nat /\ z \in Nat /\ x + e <= z BY <1>1, <2>1, TimesMono
  <2>3. x + e <= todo - 1 BY <1>3, <2>1
  <2> HIDE DEF x, z
  <2>4. Least(last, next + x + e - 1) < Least(last, next + z + e - 1)
    BY <1>1, <2>2, <2>3 DEF Least
  <2> QED BY <2>4 DEF x, z
<1> QED BY <1>3, <1>4
\* s is r but for what flow control does not read of it, prs_ apart.
Frame(r, s) ==
    /\ s.id = r.id /\ s.state = r.state /\ s.uncommitted_size = r.uncommitted_size
    /\ s.raft_log.ents = r.raft_log.ents /\ s.raft_log.offset = r.raft_log.offset
    /\ s.raft_log.applied = r.raft_log.applied

\* Flow control is kept by work that keeps every window in order.
LEMMA FlowPrs ==
    ASSUME NEW r, NEW s, Flow(r), Frame(r, s),
           \A p \in Node : Steady(r.prs[p], p = r.id, Len(r.raft_log.ents)) =>
                           Steady(s.prs[p], p = r.id, Len(r.raft_log.ents))
    PROVE  Flow(s)
<1>1. Pending(s.raft_log) = Pending(r.raft_log) BY PendingSame DEF Frame
<1> QED BY <1>1 DEF Flow, Frame

\* And by work that leaves prs_ alone.
LEMMA FlowFrame ==
    ASSUME NEW r, NEW s, Flow(r), Frame(r, s), s.prs = r.prs
    PROVE  Flow(s)
BY FlowPrs

\* And by work on one Progress.
LEMMA FlowOne ==
    ASSUME NEW r \in RaftType, NEW to \in Node, NEW pr, Flow(r),
           r.state = "Leader" => Steady(pr, to = r.id, Len(r.raft_log.ents))
    PROVE  Flow([r EXCEPT !.prs[to] = pr])
<1> DEFINE s == [r EXCEPT !.prs[to] = pr]
<1>1. Frame(r, s) BY DEF Frame, RaftType
<1>2. r.prs \in [Node -> ProgressType] BY RaftFields
<1>3. s.prs = [r.prs EXCEPT ![to] = pr] BY DEF RaftType
<1>4. \A p \in Node : s.prs[p] = IF p = to THEN pr ELSE r.prs[p] BY <1>2, <1>3
<1> HIDE DEF s
<1>5. CASE r.state = "Leader"
  <2>1. ASSUME NEW p \in Node, Steady(r.prs[p], p = r.id, Len(r.raft_log.ents))
        PROVE  Steady(s.prs[p], p = r.id, Len(r.raft_log.ents))
    <3>1. CASE p = to BY <1>4, <1>5, <3>1
    <3>2. CASE p # to BY <1>4, <2>1, <3>2
    <3> QED BY <3>1, <3>2
  <2>2. Flow(s) BY <1>1, <2>1, FlowPrs
  <2> QED BY <2>2 DEF s
<1>6. CASE r.state # "Leader"
  <2>1. Flow(s) BY <1>1, <1>6 DEF Flow, Frame
  <2> QED BY <2>1 DEF s
<1> QED BY <1>5, <1>6

\* What Flow says of a leader's Progress
LEMMA FlowSteady ==
    ASSUME NEW r, Flow(r), r.state = "Leader", NEW p \in Node
    PROVE  Steady(r.prs[p], p = r.id, Len(r.raft_log.ents))
BY DEF Flow

\* Raft::send_append and Raft::bcast_append
LEMMA SendAppendsFlow ==
    ASSUME NEW r \in RaftType, NEW dest \in SUBSET Node, Flow(r)
    PROVE  Flow(SendAppends(r, dest))
<1> DEFINE yes == TRUE
           prs == [p \in Node |-> IF p \in dest THEN AppendProgress(r, p, yes) ELSE r.prs[p]]
           ms  == UNION {AppendMsgs(r, p, yes) : p \in dest}
           f   == r.raft_log.fatal \/ \E p \in dest : AppendFatal(r, p)
           l   == [r.raft_log EXCEPT !.fatal = f]
           s   == [r EXCEPT !.prs = prs, !.msgs = @ \cup ms, !.raft_log = l]
<1>1. SendAppends(r, dest) = s BY DEF SendAppends
<1>2. yes \in BOOLEAN OBVIOUS
<1>3. l.ents = r.raft_log.ents /\ l.offset = r.raft_log.offset /\ l.applied = r.raft_log.applied
  <2>1. r.raft_log \in LogRecord BY RaftFields, LogFields
  <2> HIDE DEF f
  <2> QED BY <2>1 DEF LogRecord
<1> HIDE DEF yes, ms, f, l
<1>4. ASSUME NEW p \in Node, Steady(r.prs[p], p = r.id, Len(r.raft_log.ents))
      PROVE  Steady(prs[p], p = r.id, Len(r.raft_log.ents))
  <2> DEFINE own == p = r.id
  <2>1. own \in BOOLEAN OBVIOUS
  <2> HIDE DEF own
  <2>2. Steady(r.prs[p], own, Len(r.raft_log.ents)) BY <1>4 DEF own
  <2>3. Steady(AppendProgress(r, p, yes), own, Len(r.raft_log.ents))
    BY <1>2, <2>1, <2>2, AppendProgressSteady
  <2> QED BY <2>2, <2>3 DEF own
<1> HIDE DEF prs
<1>5. Frame(r, s) /\ s.prs = prs BY <1>3 DEF Frame, RaftType
<1> HIDE DEF s
<1>6. Flow(s) BY <1>4, <1>5, FlowPrs
<1> QED BY <1>1, <1>6

\* Raft::bcast_append
LEMMA BcastAppendFlow ==
    ASSUME NEW r \in RaftType, Flow(r)
    PROVE  Flow(bcast_append(r))
BY PeersType, SendAppendsFlow DEF bcast_append

\* Raft::send_append
LEMMA SendAppendFlow ==
    ASSUME NEW r \in RaftType, NEW to \in Node, Flow(r)
    PROVE  Flow(send_append(r, to))
<1>1. {to} \in SUBSET Node OBVIOUS
<1> QED BY <1>1, SendAppendsFlow DEF send_append

\* Raft::send
LEMMA SendFlow ==
    ASSUME NEW r \in RaftType, NEW m, Flow(r)
    PROVE  Flow(send(r, m))
<1> DEFINE ms == {Stamped(r, m)}
           s == [r EXCEPT !.msgs = @ \cup ms]
<1> HIDE DEF ms
<1>1. Frame(r, s) /\ s.prs = r.prs BY DEF Frame, RaftType
<1>2. send(r, m) = s BY DEF send, ms
<1> HIDE DEF s
<1> QED BY <1>1, <1>2, FlowFrame

\* Raft::bcast_heartbeat
LEMMA BcastHeartbeatFlow ==
    ASSUME NEW r \in RaftType, Flow(r)
    PROVE  Flow(bcast_heartbeat(r))
<1> DEFINE ms == {Stamped(r, [NewMessage("MsgHeartbeat", p) EXCEPT
                        !.commit = Least(r.prs[p].match, r.raft_log.committed)]) : p \in Peers(r)}
           s == [r EXCEPT !.msgs = @ \cup ms]
<1>1. bcast_heartbeat(r) = s BY DEF bcast_heartbeat
<1> HIDE DEF ms
<1>2. Frame(r, s) /\ s.prs = r.prs BY DEF Frame, RaftType
<1> HIDE DEF s
<1> QED BY <1>1, <1>2, FlowFrame

\* Raft::send_timeout_now
LEMMA TimeoutNowFlow ==
    ASSUME NEW r \in RaftType, NEW to, Flow(r)
    PROVE  Flow(TimeoutNow(r, to))
BY SendFlow DEF TimeoutNow
\* A run of messages at the end of the window
LEMMA SteadyConcat ==
    ASSUME NEW pr \in ProgressType, NEW q, NEW own, NEW li, NEW n \in Nat, NEW last \in Nat,
           NEW g \in [1..n -> Nat],
           Steady(pr, own, li), ~own,
           pr.state = "Replicate", q.state = "Replicate", q.match = pr.match,
           Len(pr.inflights) + n <= MaxInflight, pr.next <= last,
           \A k \in 1..n : pr.next <= g[k] /\ g[k] <= last,
           \A j, k \in 1..n : j < k => g[j] < g[k],
           q.next = last + 1, q.inflights = pr.inflights \o g
    PROVE  Steady(q, own, li)
<1> DEFINE fl == pr.inflights
           h == fl \o g
<1>1. fl \in Seq(Nat) /\ pr.match \in Nat /\ pr.next \in Nat BY DEF ProgressType
<1>2. /\ pr.match < pr.next
      /\ \A k \in 1..Len(fl) : pr.match < fl[k] /\ fl[k] < pr.next
      /\ \A j, k \in 1..Len(fl) : j < k => fl[j] < fl[k]
  BY DEF Steady
<1>3. q.inflights = h /\ Len(fl) + n <= MaxInflight OBVIOUS
<1> HIDE DEF fl
<1>4. g \in Seq(Nat) /\ Len(g) = n BY FunctionIsSeq
<1>5. /\ Len(h) = Len(fl) + Len(g)
      /\ \A k \in 1 .. Len(fl) + Len(g) : h[k] = IF k <= Len(fl) THEN fl[k] ELSE g[k - Len(fl)]
  BY <1>1, <1>4, ConcatProperties, Zenon
<1> HIDE DEF h
<1> DEFINE m == Len(fl)
<1>6. m \in Nat /\ Len(h) = m + n BY <1>1, <1>4, <1>5
<1>7. \A k \in 1..Len(h) :
        \/ k \in 1..m /\ h[k] = fl[k] /\ fl[k] \in Nat
        \/ k - m \in 1..n /\ h[k] = g[k - m] /\ g[k - m] \in Nat
  <2> TAKE k \in 1..Len(h)
  <2>1. CASE k <= m
    <3>1. k \in 1..m BY <1>6, <2>1
    <3> QED BY <1>1, <1>4, <1>5, <2>1, <3>1, SMTT(30)
  <2>2. CASE ~(k <= m)
    <3>1. k - m \in 1..n BY <1>6, <2>2
    <3>2. h[k] = g[k - m] BY <1>4, <1>5, <2>2
    <3> QED BY <3>1, <3>2
  <2> QED BY <2>1, <2>2
<1> HIDE DEF m
<1>8. Len(h) <= MaxInflight BY <1>3, <1>6 DEF m
<1>9. \A k \in 1..Len(h) : pr.match < h[k] /\ h[k] < last + 1
  <2> TAKE k \in 1..Len(h)
  <2>1. CASE k \in 1..m /\ h[k] = fl[k] /\ fl[k] \in Nat BY <1>1, <1>2, <2>1 DEF m
  <2>2. CASE k - m \in 1..n /\ h[k] = g[k - m] /\ g[k - m] \in Nat
    <3> DEFINE x == g[k - m]
    <3>1. pr.next <= x /\ x <= last /\ x \in Nat /\ h[k] = x BY <2>2
    <3> HIDE DEF x
    <3> QED BY <1>1, <1>2, <3>1
  <2> QED BY <1>7, <2>1, <2>2
<1>10. \A j, k \in 1..Len(h) : j < k => h[j] < h[k]
  <2> TAKE j, k \in 1..Len(h)
  <2> HAVE j < k
  <2>0. j \in Nat /\ k \in Nat BY <1>6
  <2>1. CASE k \in 1..m /\ h[k] = fl[k] /\ fl[k] \in Nat
    <3>1. j \in 1..m /\ ~(j - m \in 1..n) BY <1>6, <2>0, <2>1
    <3>2. h[j] = fl[j] BY <1>7, <3>1
    <3> QED BY <1>2, <2>1, <3>1, <3>2 DEF m
  <2>2. CASE k - m \in 1..n /\ h[k] = g[k - m] /\ g[k - m] \in Nat
    <3>1. pr.next <= g[k - m] BY <2>2
    <3>2. CASE j \in 1..m /\ h[j] = fl[j] /\ fl[j] \in Nat
      <4>1. fl[j] < pr.next BY <1>2, <3>2 DEF m
      <4> QED BY <1>1, <2>2, <3>1, <3>2, <4>1, SMTT(30)
    <3>3. CASE j - m \in 1..n /\ h[j] = g[j - m]
      <4>1. j - m < k - m BY <1>6, <2>0
      <4> QED BY <2>2, <3>3, <4>1
    <3> QED BY <1>7, <3>2, <3>3
  <2> QED BY <1>7, <2>1, <2>2
<1> QED BY <1>1, <1>2, <1>3, <1>8, <1>9, <1>10 DEF Steady
\* The loop of maybe_send_append after an acknowledgement stops at a full window.
LEMMA DrainAppendsFlow ==
    ASSUME NEW r \in RaftType, NEW to \in Node, Flow(r), r.state = "Leader"
    PROVE  Flow(DrainAppends(r, to))
<1> DEFINE pr   == r.prs[to]
           li   == Len(r.raft_log.ents)
           todo == last_index(r.raft_log) + 1 - pr.next
           need == (todo + MaxEntsPerMsg - 1) \div MaxEntsPerMsg
           n    == Least(need, MaxInflight - Len(pr.inflights))
           from(k) == pr.next + (k - 1) * MaxEntsPerMsg
           no == FALSE
           a1 == AppendProgress(r, to, no)
           ms1 == AppendMsgs(r, to, no)
           g == [k \in 1..n |-> LastSent(r, from(k))]
           ms2 == {AppendMessage(r, to, from(k), LastSent(r, from(k))) : k \in 1..n}
           a2 == [pr EXCEPT !.next = LastSent(r, from(n)) + 1, !.inflights = @ \o g]
           own == to = r.id
<1>1. pr \in ProgressType /\ r.prs \in [Node -> ProgressType] BY RaftFields
<1>2. /\ pr.next \in Nat \ {0} /\ pr.inflights \in Seq(Nat) /\ pr.match \in Nat
      /\ Len(pr.inflights) \in Nat
  BY <1>1 DEF ProgressType
<1>3. li \in Nat /\ last_index(r.raft_log) = li
  BY <1>2, LastSentType DEF last_index
<1>4. Steady(pr, own, li) /\ own \in BOOLEAN /\ no \in BOOLEAN BY FlowSteady
<1>5. ASSUME NEW s, NEW a, Frame(r, s), s.prs = [r.prs EXCEPT ![to] = a], Steady(a, own, li)
      PROVE  Flow(s)
  <2> DEFINE t == [r EXCEPT !.prs[to] = a]
  <2>1. Flow(t) BY <1>5, FlowOne
  <2>2. Frame(t, s) /\ s.prs = t.prs BY <1>5 DEF Frame, RaftType
  <2> HIDE DEF t
  <2> QED BY <2>1, <2>2, FlowFrame
<1>6. CASE pr.state # "Replicate"
  <2>1. Steady(a1, own, li)
    <3> HIDE DEF no, own
    <3> QED BY <1>4, AppendProgressSteady
  <2>2. DrainAppends(r, to) = [r EXCEPT !.prs = [r.prs EXCEPT ![to] = a1], !.msgs = @ \cup ms1]
    BY <1>6 DEF DrainAppends
  <2> HIDE DEF a1, ms1, own, li, pr
  <2> DEFINE s == DrainAppends(r, to)
  <2>3. Frame(r, s) /\ s.prs = [r.prs EXCEPT ![to] = a1] BY <2>2 DEF Frame, RaftType
  <2> HIDE DEF s
  <2>4. Flow(s) BY <1>5, <2>1, <2>3
  <2> QED BY <2>4 DEF s
<1>7. CASE pr.state = "Replicate" /\ (todo <= 0 \/ n <= 0 \/ Compacted(r, to))
  BY <1>7 DEF DrainAppends
<1>8. CASE pr.state = "Replicate" /\ ~(todo <= 0 \/ n <= 0 \/ Compacted(r, to))
  <2>1. todo \in Nat /\ todo = li + 1 - pr.next /\ pr.next <= li
    <3>1. todo = li + 1 - pr.next /\ ~(todo <= 0) BY <1>3, <1>8
    <3> HIDE DEF todo, li, pr
    <3> QED BY <1>2, <1>3, <3>1
  <2>2. MaxEntsPerMsg \in Nat \ {0} /\ MaxInflight \in Nat BY LimitAssumption, MaxInflightAssumption
  <2>3. need \in Int BY <2>1, <2>2
  <2>4. /\ n \in Nat /\ n >= 1 /\ n <= need /\ n + Len(pr.inflights) <= MaxInflight
    <3> DEFINE w == MaxInflight - Len(pr.inflights)
    <3>1. w \in Int BY <1>2, <2>2
    <3>2. n = Least(need, w) /\ ~(n <= 0) BY <1>8
    <3> HIDE DEF n, need
    <3>3. n \in Nat /\ n >= 1 /\ n <= need /\ n <= w BY <2>3, <3>1, <3>2 DEF Least
    <3> QED BY <1>2, <2>2, <3>3
  <2>5. n <= (li + 1 - pr.next + MaxEntsPerMsg - 1) \div MaxEntsPerMsg BY <1>3, <2>4
  <2>6. \A k : LastSent(r, from(k)) =
                 Least(li, pr.next + (k - 1) * MaxEntsPerMsg + MaxEntsPerMsg - 1)
    BY <1>3 DEF LastSent
  <2>7. ~own
    <3>1. pr.match < pr.next /\ (own => li <= pr.match) BY <1>4, <1>8 DEF Steady
    <3> QED BY <1>2, <1>3, <2>1, <3>1, SMTT(30)
  <2> HIDE DEF n, need, todo
  <2> DEFINE b(k) == Least(li, pr.next + (k - 1) * MaxEntsPerMsg + MaxEntsPerMsg - 1)
  <2>8. /\ \A k \in 1..n : b(k) \in Nat /\ pr.next <= b(k) /\ b(k) <= li
        /\ \A j, k \in 1..n : j < k => b(j) < b(k)
    <3> DEFINE x == pr.next
    <3>1. x \in Nat BY <1>2
    <3> HIDE DEF x, li, pr
    <3> QED BY <1>3, <2>1, <2>2, <2>4, <2>5, <3>1, Batches DEF x
  <2>9. g = [k \in 1..n |-> b(k)] BY <2>6
  <2> HIDE DEF b
  <2>10. /\ g \in [1..n -> Nat]
         /\ \A k \in 1..n : pr.next <= g[k] /\ g[k] <= g[n]
         /\ \A j, k \in 1..n : j < k => g[j] < g[k]
    <3>1. /\ g \in [1..n -> Nat] /\ \A k \in 1..n : g[k] = b(k) BY <2>8, <2>9
    <3> HIDE DEF g
    <3>2. \A k \in 1..n : pr.next <= g[k] BY <2>8, <3>1
    <3>3. \A j, k \in 1..n : j < k => g[j] < g[k] BY <2>8, <3>1
    <3>4. \A k \in 1..n : g[k] <= g[n]
      <4> TAKE k \in 1..n
      <4>1. n \in 1..n /\ g[k] \in Nat /\ g[n] \in Nat BY <2>4, <3>1
      <4>2. CASE k = n BY <4>1, <4>2
      <4>3. CASE k < n BY <3>3, <4>1, <4>3
      <4> QED BY <2>4, <4>2, <4>3
    <3> QED BY <3>1, <3>2, <3>3, <3>4
  <2>11. g[n] = LastSent(r, from(n)) /\ n \in 1..n BY <2>4
  <2> DEFINE z == LastSent(r, from(n))
  <2>12. z \in Nat /\ pr.next <= z BY <2>10, <2>11
  <2>13. /\ a2.state = "Replicate" /\ a2.match = pr.match /\ a2.next = z + 1
         /\ a2.inflights = pr.inflights \o g
    <3> HIDE DEF z, g, pr
    <3>1. a2 = [pr EXCEPT !.next = z + 1, !.inflights = @ \o g] BY DEF z
    <3> HIDE DEF a2
    <3> QED BY <1>1, <1>8, <3>1 DEF ProgressType
  <2>14. DrainAppends(r, to) = [r EXCEPT !.prs = [r.prs EXCEPT ![to] = a2], !.msgs = @ \cup ms2]
    BY <1>8 DEF DrainAppends, n, need, todo
  <2>15. Steady(a2, own, li)
    <3>1. \A k \in 1..n : pr.next <= g[k] /\ g[k] <= z BY <2>10, <2>11
    <3>2. Len(pr.inflights) + n <= MaxInflight BY <1>2, <2>4, <2>2
    <3> HIDE DEF a2, z, g, own, li, pr
    <3> QED BY <1>1, <1>4, <1>8, <2>4, <2>7, <2>10, <2>12, <2>13, <3>1, <3>2, SteadyConcat
  <2> HIDE DEF a2, ms2, own, li, pr
  <2> DEFINE s == DrainAppends(r, to)
  <2>16. Frame(r, s) /\ s.prs = [r.prs EXCEPT ![to] = a2] BY <2>14 DEF Frame, RaftType
  <2> HIDE DEF s
  <2>17. Flow(s) BY <1>5, <2>15, <2>16
  <2> QED BY <2>17 DEF s
<1> QED BY <1>6, <1>7, <1>8
-----------------------------------------------------------------------------
(* What a leader does. *)

\* Committing and dying change nothing that flow control reads of the log.
LEMMA CommitToFrame ==
    ASSUME NEW l \in LogType, NEW n
    PROVE  /\ commit_to(l, n).ents = l.ents /\ commit_to(l, n).offset = l.offset
           /\ commit_to(l, n).applied = l.applied
           /\ Fatal(l).ents = l.ents /\ Fatal(l).offset = l.offset /\ Fatal(l).applied = l.applied
<1>1. l \in LogRecord BY LogFields
<1> DEFINE c == [l EXCEPT !.committed = n]
<1>2. commit_to(l, n) \in {l, Fatal(l), c} BY DEF commit_to
<1>3. c.ents = l.ents /\ c.offset = l.offset /\ c.applied = l.applied BY <1>1 DEF LogRecord
<1>4. Fatal(l).ents = l.ents /\ Fatal(l).offset = l.offset /\ Fatal(l).applied = l.applied
  BY <1>1 DEF LogRecord, Fatal
<1> HIDE DEF c
<1> QED BY <1>2, <1>3, <1>4

\* A log that is the same but for its commit index and its death
LEMMA FlowLog ==
    ASSUME NEW r \in RaftType, NEW l, Flow(r),
           l.ents = r.raft_log.ents, l.offset = r.raft_log.offset,
           l.applied = r.raft_log.applied
    PROVE  Flow([r EXCEPT !.raft_log = l])
<1> DEFINE s == [r EXCEPT !.raft_log = l]
<1>1. Frame(r, s) /\ s.prs = r.prs BY DEF Frame, RaftType
<1> HIDE DEF s
<1>2. Flow(s) BY <1>1, FlowFrame
<1> QED BY <1>2 DEF s

\* Raft::maybe_commit
LEMMA MaybeCommitFlow ==
    ASSUME NEW r \in RaftType, Flow(r)
    PROVE  Flow(maybe_commit(r))
<1>1. CASE QuorumMatch(r) = {} BY <1>1 DEF maybe_commit
<1>2. CASE QuorumMatch(r) # {}
  <2> DEFINE m == CHOOSE m \in QuorumMatch(r) : TRUE
             l == log_maybe_commit(r.raft_log, m, r.term)
  <2>1. maybe_commit(r) = [r EXCEPT !.raft_log = l] BY <1>2 DEF maybe_commit
  <2> HIDE DEF m
  <2>2. r.raft_log \in LogType BY RaftFields
  <2>3. l \in {r.raft_log, commit_to(r.raft_log, m)} BY DEF log_maybe_commit
  <2> HIDE DEF l
  <2>4. l.ents = r.raft_log.ents /\ l.offset = r.raft_log.offset /\ l.applied = r.raft_log.applied
    BY <2>2, <2>3, CommitToFrame
  <2>5. Flow([r EXCEPT !.raft_log = l]) BY <2>4, FlowLog
  <2> QED BY <2>1, <2>5
<1> QED BY <1>1, <1>2

\* Acknowledging an index moves a leader's own Progress on, and a probing one's.
LEMMA SteadyUpdate ==
    ASSUME NEW pr \in ProgressType, NEW n \in Nat, NEW own \in BOOLEAN, NEW last \in Nat,
           NEW li \in Nat,
           Steady(pr, own, last), pr.inflights = <<>>, own => li <= last \/ li <= n
    PROVE  Steady(maybe_update(pr, n), own, li)
<1> DEFINE q == maybe_update(pr, n)
<1>1. pr.match \in Nat /\ pr.next \in Nat BY DEF ProgressType
<1>2. pr.state = "Replicate" => pr.match < pr.next BY DEF Steady
<1>3. own => last <= pr.match BY DEF Steady
<1>4. /\ q.inflights = pr.inflights /\ q.state = pr.state
      /\ q.match = IF pr.match < n THEN n ELSE pr.match
      /\ q.next = IF pr.next < n + 1 THEN n + 1 ELSE pr.next
  BY DEF maybe_update, ProgressType
<1> HIDE DEF q
<1>5. q.inflights = <<>> BY <1>4
<1>6. q.state = "Replicate" => q.match < q.next BY <1>1, <1>2, <1>4
<1>7. own => li <= q.match BY <1>1, <1>3, <1>4
<1>8. Steady(q, own, li) BY <1>5, <1>6, <1>7, SteadyEmpty
<1> QED BY <1>8 DEF q

\* Raft::append_entry, which spends the quota
LEMMA AppendEntryFlow ==
    ASSUME NEW r \in RaftType, NEW data \in Value \cup {Conf, Empty}, Flow(r),
           r.state = "Leader"
    PROVE  Flow(append_entry(r, data))
<1> DEFINE e  == [term |-> r.term, data |-> data]
           n  == Len(r.raft_log.ents)
           l  == append(r.raft_log, n, <<e>>)
           pr == maybe_update(r.prs[r.id], n + 1)
           prs == [r.prs EXCEPT ![r.id] = pr]
           u  == r.uncommitted_size + PayloadSize(e)
           s  == [r EXCEPT !.raft_log = l, !.prs = prs, !.uncommitted_size = u]
<1>1. /\ r.term \in Nat /\ r.raft_log \in LogType /\ r.id \in Node /\ r.uncommitted_size \in Nat
      /\ r.prs \in [Node -> ProgressType]
  BY RaftFields
<1>2. e \in Entry BY <1>1 DEF Entry
<1>3. n \in Nat /\ n + 1 - 1 = n BY <1>1, LogFields
<1>4. Pending(l) = Pending(r.raft_log) + PayloadSize(e) /\ Len(l.ents) = n + 1
  <2> HIDE DEF e
  <2> QED BY <1>1, <1>2, PendingAppend
<1>5. u <= Pending(l) /\ u \in Nat
  <2>1. PayloadSize(e) \in Nat BY DEF PayloadSize
  <2>2. Pending(r.raft_log) \in Nat /\ r.uncommitted_size <= Pending(r.raft_log)
    BY <1>1, StartFacts DEF Flow
  <2> HIDE DEF e, l
  <2> QED BY <1>1, <1>4, <2>1, <2>2
<1>6. append_entry(r, data) = maybe_commit(s)
  <2> DEFINE li == last_index(r.raft_log) + 1
             l0 == append(r.raft_log, li - 1, <<e>>)
             prs0 == [r.prs EXCEPT ![r.id] = maybe_update(r.prs[r.id], li)]
             s0 == [r EXCEPT !.raft_log = l0, !.prs = prs0, !.uncommitted_size = u]
  <2>1. append_entry(r, data) = maybe_commit(s0) BY DEF append_entry
  <2>2. l0 = l BY <1>3 DEF last_index
  <2>3. prs0 = prs BY DEF last_index
  <2> HIDE DEF l0, l, prs0, prs, u
  <2>4. s0 = s BY <2>2, <2>3
  <2> QED BY <2>1, <2>4
<1>7. ASSUME NEW p \in Node PROVE Steady(prs[p], p = r.id, n + 1)
  <2> DEFINE own == p = r.id
             q == r.prs[p]
  <2>1. own \in BOOLEAN /\ q \in ProgressType BY <1>1
  <2>2. Steady(q, own, n) BY FlowSteady
  <2>3. CASE p = r.id
    <3>1. q.inflights = <<>> BY <2>2, <2>3 DEF Steady
    <3>2. n + 1 \in Nat /\ n + 1 <= n + 1 BY <1>3
    <3>3. prs[p] = maybe_update(q, n + 1) BY <1>1, <2>3
    <3> HIDE DEF own, q, n, prs
    <3>4. Steady(maybe_update(q, n + 1), own, n + 1)
      BY <1>3, <2>1, <2>2, <3>1, <3>2, SteadyUpdate
    <3> QED BY <3>3, <3>4 DEF own
  <2>4. CASE p # r.id
    <3>1. prs[p] = q BY <1>1, <2>4
    <3>2. Steady(q, own, n + 1) BY <2>2, <2>4 DEF Steady
    <3> QED BY <3>1, <3>2
  <2> QED BY <2>3, <2>4
<1>8. s \in RaftType
  <2> DEFINE x == n + 1
  <2>1. x \in Nat /\ r.prs[r.id] \in ProgressType BY <1>1, <1>3
  <2> HIDE DEF x
  <2>2. maybe_update(r.prs[r.id], x) \in ProgressType BY <2>1, MaybeUpdateType
  <2>3. prs \in [Node -> ProgressType] BY <1>1, <2>2 DEF x
  <2>4. <<e>> \in Seq(Entry)
    <3> HIDE DEF e
    <3> QED BY <1>2
  <2>5. l \in LogType
    <3> HIDE DEF e, n
    <3> QED BY <1>1, <1>3, <2>4, AppendType
  <2> HIDE DEF prs, l, u
  <2> QED BY <1>5, <2>3, <2>5 DEF RaftType
<1>9. s.state = "Leader" /\ s.id = r.id /\ s.uncommitted_size = u /\ s.raft_log = l /\ s.prs = prs
  <2> HIDE DEF prs, l, u
  <2> QED BY DEF RaftType
<1> HIDE DEF s, prs, l, u
<1>10. Flow(s) BY <1>4, <1>5, <1>7, <1>9 DEF Flow
<1>11. Flow(maybe_commit(s)) BY <1>8, <1>10, MaybeCommitFlow
<1> QED BY <1>6, <1>11

\* A leader's handling of MsgProp
LEMMA StepPropFlow ==
    ASSUME NEW r \in RaftType, NEW m \in MessageType, Flow(r), r.state = "Leader"
    PROVE  Flow(step_prop(r, m))
<1>1. CASE m.entries = <<>>
  <2> DEFINE l == Fatal(r.raft_log)
  <2>1. r.raft_log \in LogType BY RaftFields
  <2>2. l.ents = r.raft_log.ents /\ l.offset = r.raft_log.offset /\ l.applied = r.raft_log.applied
    BY <2>1, CommitToFrame
  <2>3. step_prop(r, m) = [r EXCEPT !.raft_log = l] BY <1>1 DEF step_prop
  <2> HIDE DEF l
  <2> QED BY <2>2, <2>3, FlowLog
<1>2. CASE m.entries # <<>> /\ (r.lead_transferee # Nil \/ Dropped(r, m.entries[1].data))
  BY <1>2 DEF step_prop
<1>3. CASE m.entries # <<>> /\ ~(r.lead_transferee # Nil \/ Dropped(r, m.entries[1].data))
  <2> DEFINE d == m.entries[1].data
             a == append_entry(r, d)
  <2>1. m.entries \in Seq(Entry) BY DEF MessageType
  <2>2. m.entries[1] \in Entry BY <1>3, <2>1
  <2>3. d \in Value \cup {Conf, Empty} BY <2>2 DEF Entry
  <2>4. step_prop(r, m) = bcast_append(a) BY <1>3 DEF step_prop
  <2> HIDE DEF d
  <2>5. a \in RaftType /\ Flow(a) BY <2>3, AppendEntryQuiet, AppendEntryFlow DEF Quiet
  <2> HIDE DEF a
  <2> QED BY <2>4, <2>5, BcastAppendFlow
<1> QED BY <1>1, <1>2, <1>3
\* What a positive MsgAppResp with news does to a Progress
LEMMA AcceptSteady ==
    ASSUME NEW old \in ProgressType, NEW n \in Nat, NEW own \in BOOLEAN, NEW li \in Nat,
           Steady(old, own, li), Updates(old, n), NEW pr,
           LET up == maybe_update(old, n)
           IN  pr = CASE up.state = "Probe" -> become_replicate(up)
                      [] up.state = "Snapshot" ->
                           IF need_snapshot_abort(up) THEN become_probe(up) ELSE up
                      [] OTHER -> [up EXCEPT !.inflights = free_to(@, n)]
    PROVE  Steady(pr, own, li)
<1> DEFINE up == maybe_update(old, n)
           fr == [up EXCEPT !.inflights = free_to(@, n)]
<1>1. /\ old.match \in Nat /\ old.next \in Nat /\ old.match < n /\ old.inflights \in Seq(Nat)
      /\ old.state \in ProgressState
  BY DEF ProgressType, Updates
<1>2. /\ up \in ProgressType /\ up.inflights = old.inflights /\ up.state = old.state
      /\ up.match = n /\ up.next = IF old.next < n + 1 THEN n + 1 ELSE old.next
  BY <1>1, MaybeUpdateType DEF maybe_update, ProgressType
<1>3. own => li <= old.match BY DEF Steady
<1>4. own => li <= n BY <1>1, <1>3
<1>5. CASE old.state = "Replicate"
  <2>1. pr = fr
    <3> HIDE DEF up
    <3> QED BY <1>2, <1>5 DEF up
  <2> HIDE DEF up
  <2>2. /\ fr.inflights = free_to(old.inflights, n) /\ fr.state = "Replicate" /\ fr.match = n
        /\ fr.next = up.next
    BY <1>2, <1>5 DEF ProgressType
  <2> HIDE DEF fr
  <2>3. fr.next \in Nat /\ old.next <= fr.next /\ n < fr.next /\ old.match <= fr.match
    BY <1>1, <1>2, <2>2
  <2>4. Steady(fr, own, li) BY <1>5, <2>2, <2>3, SteadyFree
  <2> QED BY <2>1, <2>4
<1>6. CASE old.state # "Replicate"
  <2>1. up.inflights = <<>> BY <1>2, <1>6 DEF Steady
  <2>2. pr \in {become_replicate(up), become_probe(up), up}
    <3>1. up.state = "Probe" \/ up.state = "Snapshot" BY <1>1, <1>2, <1>6 DEF ProgressState
    <3> HIDE DEF up
    <3> QED BY <3>1 DEF up
  <2> HIDE DEF up
  <2>3. Steady(up, own, li)
    <3>1. up.state # "Replicate" BY <1>2, <1>6
    <3>2. own => li <= up.match BY <1>2, <1>4
    <3> QED BY <2>1, <3>1, <3>2, SteadyEmpty
  <2>4. Steady(become_replicate(up), own, li)
    <3> DEFINE q == become_replicate(up)
    <3>1. q.inflights = <<>> /\ q.match = n /\ q.next = n + 1
      BY <1>2 DEF become_replicate, reset_state, ProgressType
    <3> HIDE DEF q
    <3>2. q.match < q.next BY <3>1
    <3>3. Steady(q, own, li) BY <1>4, <3>1, <3>2, SteadyEmpty
    <3> QED BY <3>3 DEF q
  <2>5. Steady(become_probe(up), own, li)
    <3> DEFINE q == become_probe(up)
    <3>1. q.inflights = <<>> /\ q.match = n /\ q.state = "Probe"
      BY <1>2 DEF become_probe, reset_state, ProgressType
    <3> HIDE DEF q
    <3>2. q.state # "Replicate" BY <3>1
    <3>3. Steady(q, own, li) BY <1>4, <3>1, <3>2, SteadyEmpty
    <3> QED BY <3>3 DEF q
  <2> QED BY <2>2, <2>3, <2>4, <2>5
<1> QED BY <1>5, <1>6

\* A leader's handling of an acknowledgement
LEMMA AcceptAppRespFlow ==
    ASSUME NEW r \in RaftType, NEW m \in MessageType, Flow(r), r.state = "Leader",
           Updates(r.prs[m.from], m.index)
    PROVE  Flow(AcceptAppResp(r, m))
<1> DEFINE old == r.prs[m.from]
           up  == maybe_update(old, m.index)
           pr  == CASE up.state = "Probe" -> become_replicate(up)
                    [] up.state = "Snapshot" ->
                         IF need_snapshot_abort(up) THEN become_probe(up) ELSE up
                    [] OTHER -> [up EXCEPT !.inflights = free_to(@, m.index)]
           r1  == [r EXCEPT !.prs[m.from] = pr]
           r2  == maybe_commit(r1)
           r3  == IF r2.raft_log.committed # r.raft_log.committed THEN bcast_append(r2)
                  ELSE IF is_paused(old) THEN send_append(r2, m.from) ELSE r2
           r4  == DrainAppends(r3, m.from)
           own == m.from = r.id
           li  == Len(r.raft_log.ents)
<1>1. m.from \in Node /\ m.index \in Nat BY DEF MessageType
<1>2. old \in ProgressType /\ own \in BOOLEAN /\ li \in Nat
  BY <1>1, RaftFields, LogFields
<1>3. Steady(old, own, li) BY <1>1, FlowSteady
<1>4. AcceptAppResp(r, m) = TimeoutNow(r4, m.from) BY DEF AcceptAppResp
<1>5. Steady(pr, own, li)
  <2> DEFINE x == m.index
  <2> HIDE DEF old, own, li
  <2>1. Updates(old, m.index) BY DEF old
  <2> QED BY <1>1, <1>2, <1>3, <2>1, AcceptSteady
<1>6. pr \in ProgressType
  <2>1. up \in ProgressType
    <3> HIDE DEF old
    <3> QED BY <1>1, <1>2, MaybeUpdateType
  <2> HIDE DEF up
  <2>2. become_replicate(up) \in ProgressType /\ become_probe(up) \in ProgressType
    BY <2>1, BecomeReplicateType, BecomeProbeType
  <2> DEFINE fl == free_to(up.inflights, m.index)
             fr == [up EXCEPT !.inflights = fl]
  <2>3. fl \in Seq(Nat) BY <1>1, <2>1, FreeToType DEF ProgressType
  <2>4. pr \in {become_replicate(up), become_probe(up), up, fr} OBVIOUS
  <2> HIDE DEF fl, pr
  <2>5. fr \in ProgressType BY <2>1, <2>3 DEF ProgressType
  <2> QED BY <2>1, <2>2, <2>4, <2>5
<1> HIDE DEF pr
<1>7. Quiet(r, r1) /\ Flow(r1) BY <1>1, <1>5, <1>6, OnePrs, FlowOne
<1> HIDE DEF r1
<1>8. r1 \in RaftType /\ r1.state = "Leader" BY <1>7 DEF Quiet
<1>9. r2 \in RaftType /\ r2.state = "Leader" /\ Flow(r2)
  BY <1>7, <1>8, MaybeCommitQuiet, MaybeCommitFlow DEF Quiet
<1> HIDE DEF r2
<1>10. r3 \in RaftType /\ r3.state = "Leader" /\ Flow(r3)
  <2>1. r3 \in {bcast_append(r2), send_append(r2, m.from), r2} OBVIOUS
  <2> HIDE DEF r3
  <2> QED BY <1>1, <1>9, <2>1, BcastAppendQuiet, SendAppendQuiet, BcastAppendFlow, SendAppendFlow
      DEF Quiet
<1> HIDE DEF r3
<1>11. r4 \in RaftType /\ Flow(r4)
  BY <1>1, <1>10, DrainAppendsQuiet, DrainAppendsFlow DEF Quiet
<1> HIDE DEF r4
<1> QED BY <1>4, <1>11, TimeoutNowFlow

\* A leader's handling of a rejection
LEMMA RejectAppRespFlow ==
    ASSUME NEW r \in RaftType, NEW m \in MessageType, Flow(r), r.state = "Leader"
    PROVE  Flow(RejectAppResp(r, m))
<1> DEFINE old == r.prs[m.from]
           pr == maybe_decreases_to(old, m.index, m.reject_hint)
           p2 == IF pr.state = "Replicate" THEN become_probe(pr) ELSE pr
           r1 == [r EXCEPT !.prs[m.from] = p2]
           own == m.from = r.id
           li  == Len(r.raft_log.ents)
<1>1. m.from \in Node /\ m.index \in Nat /\ m.reject_hint \in Nat BY DEF MessageType
<1>2. old \in ProgressType BY <1>1, RaftFields
<1>3. pr \in ProgressType BY <1>1, <1>2, MaybeDecreasesType
<1>4. Steady(old, own, li) BY <1>1, FlowSteady
<1>5. RejectAppResp(r, m) = send_append(r1, m.from) BY DEF RejectAppResp
<1>6. own => li <= old.match BY <1>4 DEF Steady
<1>7. pr.match = old.match /\ pr.state = old.state /\ pr.inflights = old.inflights
  <2> DEFINE hint == m.reject_hint
             rej == m.index
             p1 == [old EXCEPT !.next = old.match + 1]
             nx == IF rej < hint + 1 THEN rej ELSE hint + 1
             no == FALSE
             p3 == [old EXCEPT !.next = IF nx < 1 THEN 1 ELSE nx, !.paused = no]
  <2> HIDE DEF old
  <2>1. pr \in {old, p1, p3} BY DEF maybe_decreases_to
  <2> HIDE DEF pr
  <2>2. p1.match = old.match /\ p1.state = old.state /\ p1.inflights = old.inflights
    BY <1>2 DEF ProgressType
  <2>3. p3.match = old.match /\ p3.state = old.state /\ p3.inflights = old.inflights
    BY <1>2 DEF ProgressType
  <2> HIDE DEF p1, p3
  <2> QED BY <2>1, <2>2, <2>3
<1> HIDE DEF pr
<1>8. p2 \in ProgressType BY <1>3, BecomeProbeType
<1>9. p2.state # "Replicate" /\ p2.inflights = <<>> /\ p2.match = old.match
  <2>1. CASE pr.state = "Replicate"
    <3>1. /\ become_probe(pr).state = "Probe" /\ become_probe(pr).inflights = <<>>
          /\ become_probe(pr).match = pr.match
      BY <1>3 DEF become_probe, reset_state, ProgressType
    <3> QED BY <1>7, <2>1, <3>1
  <2>2. CASE pr.state # "Replicate"
    <3>1. old.inflights = <<>> BY <1>4, <1>7, <2>2 DEF Steady
    <3> QED BY <1>7, <2>2, <3>1
  <2> QED BY <2>1, <2>2
<1> HIDE DEF p2
<1>10. Steady(p2, own, li) BY <1>6, <1>9, SteadyEmpty
<1>11. r1 \in RaftType /\ Flow(r1) BY <1>1, <1>8, <1>10, OnePrs, FlowOne DEF Quiet
<1> HIDE DEF r1
<1> QED BY <1>1, <1>5, <1>11, SendAppendFlow
\* A leader's handling of MsgAppResp
LEMMA StepAppRespFlow ==
    ASSUME NEW r \in RaftType, NEW m \in MessageType, Flow(r), r.state = "Leader"
    PROVE  Flow(step_app_resp(r, m))
<1> DEFINE old == r.prs[m.from]
           yes == TRUE
           pa  == [old EXCEPT !.recent_active = yes]
           a   == [r EXCEPT !.prs[m.from] = pa]
           pb  == maybe_update(pa, m.index)
           b   == [a EXCEPT !.prs[m.from] = pb]
           own == m.from = r.id
           li  == Len(r.raft_log.ents)
<1>1. m.from \in Node /\ m.index \in Nat BY DEF MessageType
<1>2. old \in ProgressType BY <1>1, RaftFields
<1>3. old.match \in Nat /\ old.next \in Nat BY <1>2 DEF ProgressType
<1>4. Steady(old, own, li) BY <1>1, FlowSteady
<1>5. a = [r EXCEPT !.prs[m.from].recent_active = TRUE] OBVIOUS
<1>6. /\ pa \in ProgressType /\ pa.match = old.match /\ pa.next = old.next
      /\ pa.state = old.state /\ pa.inflights = old.inflights
  <2>1. yes \in BOOLEAN OBVIOUS
  <2> HIDE DEF old, yes
  <2> QED BY <1>2, <2>1 DEF ProgressType
<1>7. \/ step_app_resp(r, m) = RejectAppResp(a, m)
      \/ step_app_resp(r, m) = AcceptAppResp(a, m) /\ Updates(old, m.index)
      \/ step_app_resp(r, m) = [a EXCEPT !.prs[m.from] = maybe_update(a.prs[m.from], m.index)]
         /\ ~Updates(old, m.index)
      \/ step_app_resp(r, m) = a
  <2> HIDE DEF a
  <2> QED BY <1>5 DEF step_app_resp
<1> HIDE DEF pa
<1>8. Steady(pa, own, li) BY <1>4, <1>6, SteadySame
<1>9. Quiet(r, a) /\ Flow(a) /\ a.prs[m.from] = pa BY <1>1, <1>6, <1>8, OnePrs, FlowOne
<1>10. Frame(r, a) BY DEF Frame, RaftType
<1>11. step_app_resp(r, m) = [a EXCEPT !.prs[m.from] = maybe_update(a.prs[m.from], m.index)] =>
       step_app_resp(r, m) = b
  BY <1>9
<1> HIDE DEF a
<1>12. a \in RaftType /\ a.state = "Leader" /\ a.id = r.id /\ Len(a.raft_log.ents) = li
  BY <1>9, <1>10 DEF Quiet, Frame
<1>13. ASSUME ~Updates(old, m.index) PROVE Flow(b)
  <2>1. ~(old.match < m.index) BY <1>13 DEF Updates
  <2>2. /\ pb.inflights = old.inflights /\ pb.state = old.state /\ pb.match = old.match
        /\ pb.next = IF old.next < m.index + 1 THEN m.index + 1 ELSE old.next
    BY <1>6, <2>1 DEF maybe_update, ProgressType
  <2> HIDE DEF pb, old
  <2>3. pb.next \in Nat /\ old.next <= pb.next BY <1>1, <1>3, <2>2
  <2>4. Steady(pb, own, li)
    <3>1. pb.state = "Replicate" => pb.match < pb.next BY <1>3, <1>4, <2>2, <2>3 DEF Steady
    <3>2. \A k \in 1..Len(pb.inflights) :
            pb.match < pb.inflights[k] /\ pb.inflights[k] < pb.next
      <4> TAKE k \in 1..Len(pb.inflights)
      <4>1. old.inflights \in Seq(Nat) BY <1>2 DEF ProgressType
      <4>2. k \in 1..Len(old.inflights) BY <2>2
      <4>3. old.inflights[k] \in Nat BY <4>1, <4>2
      <4>4. old.match < old.inflights[k] /\ old.inflights[k] < old.next
        BY <1>4, <4>2 DEF Steady
      <4> QED BY <1>3, <2>2, <2>3, <4>3, <4>4
    <3> HIDE DEF own, li
    <3> QED BY <1>4, <2>2, <3>1, <3>2 DEF Steady
  <2>5. Steady(pb, m.from = a.id, Len(a.raft_log.ents)) BY <1>12, <2>4
  <2> QED BY <1>1, <1>9, <1>12, <2>5, FlowOne
<1>14. Flow(RejectAppResp(a, m)) BY <1>9, <1>12, RejectAppRespFlow
<1>15. ASSUME Updates(old, m.index) PROVE Flow(AcceptAppResp(a, m))
  <2>1. Updates(a.prs[m.from], m.index) BY <1>6, <1>9, <1>15 DEF Updates
  <2> QED BY <1>9, <1>12, <2>1, AcceptAppRespFlow
<1> HIDE DEF b
<1> QED BY <1>7, <1>9, <1>11, <1>13, <1>14, <1>15

\* A leader's handling of MsgHeartbeatResp, which frees one slot of a full window
LEMMA StepHeartbeatRespFlow ==
    ASSUME NEW r \in RaftType, NEW m \in MessageType, Flow(r), r.state = "Leader"
    PROVE  Flow(step_heartbeat_resp(r, m))
<1> DEFINE pr == r.prs[m.from]
           fl == IF pr.state = "Replicate" /\ is_full(pr.inflights)
                 THEN free_first_one(pr.inflights) ELSE pr.inflights
           yes == TRUE
           no == FALSE
           p2 == [pr EXCEPT !.recent_active = yes, !.paused = no, !.inflights = fl]
           a  == [r EXCEPT !.prs[m.from] = p2]
           own == m.from = r.id
           li  == Len(r.raft_log.ents)
<1>1. m.from \in Node BY DEF MessageType
<1>2. pr \in ProgressType BY <1>1, RaftFields
<1>3. pr.inflights \in Seq(Nat) /\ pr.match \in Nat /\ pr.next \in Nat BY <1>2 DEF ProgressType
<1>4. Steady(pr, own, li) /\ li \in Nat BY <1>1, FlowSteady, RaftFields, LogFields
<1>5. step_heartbeat_resp(r, m) \in {send_append(a, m.from), a} BY DEF step_heartbeat_resp
<1>6. yes \in BOOLEAN /\ no \in BOOLEAN OBVIOUS
<1> HIDE DEF yes, no, own, li
<1>7. p2 \in ProgressType /\ Steady(p2, own, li)
  <2>1. CASE pr.state = "Replicate" /\ is_full(pr.inflights)
    <3> DEFINE q == pr.inflights
    <3>1. q \in Seq(Nat) /\ Len(q) = MaxInflight BY <1>3, <2>1 DEF is_full
    <3>2. fl = free_to(q, q[1]) BY <2>1 DEF free_first_one
    <3> HIDE DEF q
    <3>3. 1 \in 1..Len(q) BY <3>1, MaxInflightAssumption
    <3>4. q[1] \in Nat BY <3>1, <3>3
    <3>5. fl \in Seq(Nat) BY <3>1, <3>2, <3>4, FreeToType
    <3> HIDE DEF fl, pr
    <3>6. /\ p2 \in ProgressType /\ p2.inflights = fl /\ p2.state = pr.state
          /\ p2.match = pr.match /\ p2.next = pr.next
      BY <1>2, <1>6, <3>5 DEF ProgressType
    <3> HIDE DEF p2
    <3>7. pr.match < pr.next BY <1>4, <2>1 DEF Steady
    <3>8. p2.inflights = free_to(pr.inflights, q[1]) BY <3>2, <3>6 DEF q
    <3>9. Steady(p2, own, li) BY <1>2, <1>3, <1>4, <2>1, <3>4, <3>6, <3>7, <3>8, SteadyFree
    <3> QED BY <3>6, <3>9
  <2>2. CASE ~(pr.state = "Replicate" /\ is_full(pr.inflights))
    <3>1. fl = pr.inflights BY <2>2
    <3> HIDE DEF fl, pr
    <3>2. /\ p2 \in ProgressType /\ p2.inflights = pr.inflights /\ p2.state = pr.state
          /\ p2.match = pr.match /\ p2.next = pr.next
      BY <1>2, <1>3, <1>6, <3>1 DEF ProgressType
    <3> HIDE DEF p2
    <3> QED BY <1>4, <3>2, SteadySame
  <2> QED BY <2>1, <2>2
<1> HIDE DEF p2
<1>8. a \in RaftType /\ Flow(a) BY <1>1, <1>7, OnePrs, FlowOne DEF Quiet, own, li
<1> HIDE DEF a
<1> QED BY <1>1, <1>5, <1>8, SendAppendFlow

\* A leader's handling of MsgTransferLeader
LEMMA StepTransferLeaderFlow ==
    ASSUME NEW r \in RaftType, NEW m \in MessageType, Flow(r)
    PROVE  Flow(step_transfer_leader(r, m))
<1> DEFINE no == FALSE
           t == [r EXCEPT !.lead_transferee = m.from, !.past = no]
           n == [r EXCEPT !.lead_transferee = Nil]
<1>1. m.from \in Node BY DEF MessageType
<1>2. t \in RaftType BY <1>1, QuietTransfer DEF Quiet
<1>3. step_transfer_leader(r, m) \in {r, n, TimeoutNow(t, m.from), send_append(t, m.from)}
  BY DEF step_transfer_leader
<1> HIDE DEF no
<1>4. Frame(r, t) /\ t.prs = r.prs BY DEF Frame, RaftType
<1>5. Frame(r, n) /\ n.prs = r.prs BY DEF Frame, RaftType
<1> HIDE DEF t, n
<1>6. Flow(t) /\ Flow(n) BY <1>4, <1>5, FlowFrame
<1> QED BY <1>1, <1>2, <1>3, <1>6, TimeoutNowFlow, SendAppendFlow

\* Raft::step_leader
LEMMA StepLeaderFlow ==
    ASSUME NEW r \in RaftType, NEW m \in MessageType, Flow(r), r.state = "Leader"
    PROVE  Flow(step_leader(r, m))
<1>1. step_leader(r, m) \in {step_prop(r, m), step_app_resp(r, m), step_heartbeat_resp(r, m),
                             step_transfer_leader(r, m), r}
  BY DEF step_leader
<1> QED BY <1>1, StepPropFlow, StepAppRespFlow, StepHeartbeatRespFlow, StepTransferLeaderFlow
-----------------------------------------------------------------------------
(* Changes of role, and what a node does that does not lead. *)

\* A node that does not lead and has no quota in use
Idle(r) == r.state # "Leader" /\ r.uncommitted_size = 0

\* Such a node has nothing to control.
LEMMA IdleFlow == ASSUME NEW r, Idle(r) PROVE Flow(r)
BY DEF Idle, Flow

\* And Flow makes every node that does not lead such a node.
LEMMA FlowIdle == ASSUME NEW r, Flow(r), r.state # "Leader" PROVE Idle(r)
BY DEF Idle, Flow

\* Raft::reset gives the quota back.
LEMMA ResetQuota ==
    ASSUME NEW r \in RaftType, NEW t
    PROVE  /\ reset(r, t).uncommitted_size = 0 /\ reset(r, t).id = r.id
           /\ reset(r, t).raft_log = r.raft_log
BY DEF reset, RaftType

\* Raft::become_follower
LEMMA BecomeFollowerIdle ==
    ASSUME NEW r \in RaftType, NEW t \in Nat, NEW lead \in Node \cup {Nil}
    PROVE  Idle(become_follower(r, t, lead)) /\ become_follower(r, t, lead) \in RaftType
<1> DEFINE q == reset(r, t)
           s == [q EXCEPT !.lead = lead, !.state = "Follower"]
<1>1. become_follower(r, t, lead) = s BY DEF become_follower
<1>2. q \in RaftType /\ q.uncommitted_size = 0 BY ResetFacts, ResetQuota
<1> HIDE DEF q
<1>3. s.state = "Follower" /\ s.uncommitted_size = 0 BY <1>2 DEF RaftType
<1> HIDE DEF s
<1> QED BY <1>1, <1>3, BecomeFollowerFacts DEF Idle

\* Raft::become_candidate
LEMMA BecomeCandidateIdle ==
    ASSUME NEW r \in RaftType
    PROVE  Idle(become_candidate(r)) /\ become_candidate(r) \in RaftType
<1> DEFINE q == reset(r, r.term + 1)
           s == [q EXCEPT !.vote = r.id, !.state = "Candidate"]
<1>1. become_candidate(r) = s BY DEF become_candidate
<1>2. r.term + 1 \in Nat BY RaftFields
<1>3. q \in RaftType /\ q.uncommitted_size = 0 BY <1>2, ResetFacts, ResetQuota
<1> HIDE DEF q
<1>4. s.state = "Candidate" /\ s.uncommitted_size = 0 BY <1>3 DEF RaftType
<1> HIDE DEF s
<1> QED BY <1>1, <1>4, BecomeCandidateFacts DEF Idle

\* Raft::become_pre_candidate gives nothing back, and has nothing to give.
LEMMA BecomePreCandidateIdle ==
    ASSUME NEW r \in RaftType, Idle(r)
    PROVE  Idle(become_pre_candidate(r)) /\ become_pre_candidate(r) \in RaftType
<1>1. become_pre_candidate(r).uncommitted_size = r.uncommitted_size
  BY DEF become_pre_candidate, RaftType
<1> QED BY <1>1, BecomePreCandidateFacts DEF Idle

\* Raft::poll
LEMMA PollIdle ==
    ASSUME NEW r \in RaftType, NEW id \in Node, NEW v \in BOOLEAN, Idle(r)
    PROVE  Idle(poll(r, id, v)) /\ poll(r, id, v) \in RaftType
<1> DEFINE g == [r EXCEPT !.granted = @ \cup {id}]
           f == [r EXCEPT !.refused = @ \cup {id}]
<1>1. poll(r, id, v) \in {r, g, f} BY DEF poll
<1>2. g.uncommitted_size = r.uncommitted_size /\ f.uncommitted_size = r.uncommitted_size
  BY DEF RaftType
<1> HIDE DEF g, f
<1>3. poll(r, id, v).uncommitted_size = r.uncommitted_size BY <1>1, <1>2
<1> QED BY <1>3, PollFacts DEF Idle

\* Raft::become_leader starts with empty windows and nothing of the quota in use.
LEMMA BecomeLeaderFlow ==
    ASSUME NEW r \in RaftType
    PROVE  Flow(become_leader(r)) /\ become_leader(r) \in RaftType
<1> DEFINE li == Len(r.raft_log.ents)
           own == become_replicate(NewProgress(li, li + 1))
           new == NewProgress(0, li + 1)
           prs == [p \in Node |-> IF p = r.id THEN own ELSE new]
           q == reset(r, r.term)
           s == [q EXCEPT !.lead = r.id, !.state = "Leader", !.prs = prs]
<1>1. r.id \in Node /\ r.raft_log \in LogType /\ li \in Nat /\ r.term \in Nat
  BY RaftFields, LogFields
<1>2. become_leader(r) = append_entry(s, Empty) BY DEF become_leader, last_index
<1>3. /\ own \in ProgressType /\ new \in ProgressType
  <2>1. NewProgress(li, li + 1) \in ProgressType /\ NewProgress(0, li + 1) \in ProgressType
    <3> HIDE DEF li
    <3>1. li + 1 \in Nat \ {0} BY <1>1
    <3> QED BY <1>1, <3>1, NewProgressType
  <2> QED BY <2>1, BecomeReplicateType
<1>4. own.inflights = <<>> /\ own.match = li /\ own.next = li + 1
  BY DEF become_replicate, reset_state, NewProgress
<1>5. new.inflights = <<>> /\ new.state # "Replicate" BY DEF NewProgress
<1> HIDE DEF own, new, li
<1>6. ASSUME NEW p \in Node PROVE Steady(prs[p], p = r.id, li)
  <2>1. CASE p = r.id
    <3>1. own.match < own.next /\ li <= own.match BY <1>1, <1>4
    <3>2. Steady(own, p = r.id, li) BY <1>4, <3>1, SteadyEmpty
    <3> QED BY <2>1, <3>2
  <2>2. CASE p # r.id
    <3>1. Steady(new, p = r.id, li) BY <1>5, <2>2, SteadyEmpty
    <3> QED BY <2>2, <3>1
  <2> QED BY <2>1, <2>2
<1>7. prs \in [Node -> ProgressType] BY <1>3
<1> HIDE DEF prs
<1>8. q \in RaftType /\ q.uncommitted_size = 0 /\ q.id = r.id /\ q.raft_log = r.raft_log
  BY <1>1, ResetFacts, ResetQuota
<1> HIDE DEF q
<1>9. /\ s \in RaftType /\ s.state = "Leader" /\ s.prs = prs /\ s.id = r.id
      /\ s.uncommitted_size = 0 /\ s.raft_log = r.raft_log
  BY <1>1, <1>7, <1>8 DEF RaftType, StateType
<1> HIDE DEF s
<1>10. Flow(s)
  <2>1. Pending(r.raft_log) \in Nat BY <1>1, StartFacts
  <2> QED BY <1>6, <1>9, <2>1 DEF Flow, li
<1> DEFINE d == Empty
<1>11. d \in Value \cup {Conf, Empty} OBVIOUS
<1> HIDE DEF d
<1>12. Flow(append_entry(s, d)) /\ append_entry(s, d) \in RaftType
  BY <1>9, <1>10, <1>11, AppendEntryFlow, AppendEntryQuiet DEF Quiet
<1> QED BY <1>2, <1>12 DEF d
\* Requests for votes change nothing that flow control reads.
LEMMA MsgsIdle ==
    ASSUME NEW r \in RaftType, NEW ms, Idle(r)
    PROVE  Idle([r EXCEPT !.msgs = @ \cup ms])
BY DEF Idle, RaftType

\* Raft::campaign
LEMMA CampaignFlow ==
    ASSUME NEW r \in RaftType, NEW tr \in BOOLEAN
    PROVE  Flow(campaign(r, tr))
<1> DEFINE b == become_candidate(r)
           yes == TRUE
           c == poll(b, r.id, yes)
           v == VoteRequests(c, "MsgVote", c.term, tr)
           d == [c EXCEPT !.msgs = @ \cup v]
<1>1. Idle(b) /\ b \in RaftType BY BecomeCandidateIdle
<1>2. r.id \in Node /\ yes \in BOOLEAN BY RaftFields
<1>3. campaign(r, tr) = IF Cardinality(c.granted) = quorum THEN become_leader(c) ELSE d
  BY DEF campaign
<1> HIDE DEF b, yes
<1>4. Idle(c) /\ c \in RaftType BY <1>1, <1>2, PollIdle
<1> HIDE DEF c, v
<1>5. Idle(d) BY <1>4, MsgsIdle
<1> HIDE DEF d
<1> QED BY <1>3, <1>4, <1>5, BecomeLeaderFlow, IdleFlow

\* Raft::step of MsgHup
LEMMA StepHupFlow ==
    ASSUME NEW r \in RaftType, Idle(r)
    PROVE  Flow(step_hup(r))
<1> DEFINE b == become_pre_candidate(r)
           yes == TRUE
           no == FALSE
           c == poll(b, r.id, yes)
           v == VoteRequests(c, "MsgPreVote", c.term + 1, no)
           d == [c EXCEPT !.msgs = @ \cup v]
<1>1. Idle(b) /\ b \in RaftType BY BecomePreCandidateIdle
<1>2. r.id \in Node /\ yes \in BOOLEAN /\ no \in BOOLEAN BY RaftFields
<1>3. step_hup(r) \in {campaign(c, no), d, campaign(r, no)} BY DEF step_hup, pre_campaign
<1> HIDE DEF b, yes, no
<1>4. Idle(c) /\ c \in RaftType BY <1>1, <1>2, PollIdle
<1> HIDE DEF c, v
<1>5. Idle(d) BY <1>4, MsgsIdle
<1> HIDE DEF d
<1> QED BY <1>2, <1>3, <1>4, <1>5, CampaignFlow, IdleFlow

\* Raft::step_candidate's handling of a vote response
LEMMA StepVoteRespFlow ==
    ASSUME NEW r \in RaftType, NEW m \in MessageType, Idle(r)
    PROVE  Flow(step_vote_resp(r, m))
<1> DEFINE v == ~m.reject
           no == FALSE
           p == poll(r, m.from, v)
           s == step_vote_resp(r, m)
<1>1. m.from \in Node /\ v \in BOOLEAN /\ no \in BOOLEAN BY DEF MessageType
<1>2. s \in {campaign(p, no), bcast_append(become_leader(p)), become_follower(p, p.term, Nil), p}
  BY DEF step_vote_resp
<1> HIDE DEF v, no
<1>3. Idle(p) /\ p \in RaftType BY <1>1, PollIdle
<1> HIDE DEF p, s
<1>4. p.term \in Nat BY <1>3, RaftFields
<1>5. Flow(become_follower(p, p.term, Nil)) BY <1>3, <1>4, BecomeFollowerIdle, IdleFlow
<1>6. Flow(bcast_append(become_leader(p))) BY <1>3, BecomeLeaderFlow, BcastAppendFlow
<1>7. Flow(s) BY <1>1, <1>2, <1>3, <1>5, <1>6, CampaignFlow, IdleFlow
<1> QED BY <1>7 DEF s

\* A follower works on its log and answers.
LEMMA LogSendIdle ==
    ASSUME NEW r \in RaftType, NEW l, NEW m, Idle(r)
    PROVE  /\ Idle([r EXCEPT !.raft_log = l])
           /\ Idle(send([r EXCEPT !.raft_log = l], m))
           /\ Idle(send(r, m))
<1> DEFINE s == [r EXCEPT !.raft_log = l]
           x == {Stamped(s, m)}
           y == {Stamped(r, m)}
           t == [s EXCEPT !.msgs = @ \cup x]
           u == [r EXCEPT !.msgs = @ \cup y]
<1>1. send(s, m) = t /\ send(r, m) = u BY DEF send
<1> HIDE DEF x, y
<1>2. s.state = r.state /\ s.uncommitted_size = r.uncommitted_size BY DEF RaftType
<1>3. t.state = r.state /\ t.uncommitted_size = r.uncommitted_size BY DEF RaftType
<1>4. u.state = r.state /\ u.uncommitted_size = r.uncommitted_size BY DEF RaftType
<1> HIDE DEF t, u
<1>5. Idle(s) BY <1>2 DEF Idle
<1>6. Idle(t) /\ Idle(u) BY <1>3, <1>4 DEF Idle
<1> QED BY <1>1, <1>5, <1>6

\* Raft::handle_append_entries, handle_heartbeat and handle_snapshot
LEMMA LeaderMessageIdle ==
    ASSUME NEW r \in RaftType, NEW m, Idle(r)
    PROVE  Idle(handle_leader_message(r, m))
<1>1. Idle(handle_append_entries(r, m))
  <2> DEFINE a == NewMessage("MsgAppResp", m.from)
             x == [a EXCEPT !.index = r.raft_log.committed]
             y == [a EXCEPT !.index = m.index + Len(m.entries)]
             z == [a EXCEPT !.index = m.index, !.reject = TRUE, !.reject_hint = last_index(r.raft_log)]
             l == maybe_append(r.raft_log, m.index, m.commit, m.entries)
  <2>1. handle_append_entries(r, m) \in {send(r, x), send([r EXCEPT !.raft_log = l], y), send(r, z)}
    BY DEF handle_append_entries
  <2> HIDE DEF x, y, z, l
  <2>2. Idle(send(r, x)) /\ Idle(send([r EXCEPT !.raft_log = l], y)) /\ Idle(send(r, z))
    BY LogSendIdle
  <2> QED BY <2>1, <2>2
<1>2. Idle(handle_heartbeat(r, m)) BY LogSendIdle DEF handle_heartbeat
<1>3. Idle(handle_snapshot(r, m))
  <2> DEFINE a == NewMessage("MsgAppResp", m.from)
             k == commit_to(r.raft_log, Len(m.snapshot))
             l == log_restore(r.raft_log, m.snapshot)
  <2>1. handle_snapshot(r, m) \in {send(r, a), send([r EXCEPT !.raft_log = k], a),
                                   send([r EXCEPT !.raft_log = l], a)}
    BY DEF handle_snapshot
  <2> HIDE DEF a, k, l
  <2>2. /\ Idle(send(r, a)) /\ Idle(send([r EXCEPT !.raft_log = k], a))
        /\ Idle(send([r EXCEPT !.raft_log = l], a))
    BY LogSendIdle
  <2> QED BY <2>1, <2>2
<1>4. handle_leader_message(r, m) \in
        {handle_append_entries(r, m), handle_heartbeat(r, m), handle_snapshot(r, m)}
  BY DEF handle_leader_message
<1> QED BY <1>1, <1>2, <1>3, <1>4

\* Raft::step_candidate
LEMMA StepCandidateFlow ==
    ASSUME NEW r \in RaftType, NEW m \in MessageType, Idle(r)
    PROVE  Flow(step_candidate(r, m))
<1> DEFINE f == become_follower(r, m.term, m.from)
<1>1. m.term \in Nat /\ m.from \in Node \cup {Nil} BY DEF MessageType
<1>2. Idle(f) /\ f \in RaftType BY <1>1, BecomeFollowerIdle
<1>3. step_candidate(r, m) \in {handle_leader_message(f, m), step_vote_resp(r, m), r}
  BY DEF step_candidate
<1> HIDE DEF f
<1>4. Flow(handle_leader_message(f, m)) BY <1>2, LeaderMessageIdle, IdleFlow
<1> QED BY <1>3, <1>4, StepVoteRespFlow, IdleFlow

\* Raft::step_follower
LEMMA StepFollowerFlow ==
    ASSUME NEW r \in RaftType, NEW m \in MessageType, Idle(r)
    PROVE  Flow(step_follower(r, m))
<1> DEFINE no == FALSE
           yes == TRUE
           f == [r EXCEPT !.past = no, !.lead = m.from]
           l == Fatal(r.raft_log)
           g == [r EXCEPT !.raft_log = l]
           w == [m EXCEPT !.to = r.lead]
<1>1. m.from \in Node \cup {Nil} /\ yes \in BOOLEAN BY DEF MessageType
<1>2. f \in RaftType BY <1>1, QuietTransfer DEF Quiet
<1>3. step_follower(r, m) \in {handle_leader_message(f, m), r, g, send(r, w), campaign(r, yes)}
  BY DEF step_follower, forward
<1> HIDE DEF no, yes, l, w
<1>4. Idle(f) BY DEF Idle, RaftType
<1>5. Idle(g) /\ Idle(send(r, w)) BY LogSendIdle
<1> HIDE DEF f, g
<1>6. Idle(handle_leader_message(f, m)) BY <1>2, <1>4, LeaderMessageIdle
<1>7. Flow(campaign(r, yes)) BY <1>1, CampaignFlow
<1> QED BY <1>3, <1>5, <1>6, <1>7, IdleFlow
-----------------------------------------------------------------------------
(* Raft::step. *)

\* A vote is no concern of flow control.
LEMMA StepVoteFlow ==
    ASSUME NEW r \in RaftType, NEW m \in MessageType, Flow(r)
    PROVE  Flow(step_vote(r, m))
<1> DEFINE ty == IF m.type = "MsgVote" THEN "MsgVoteResp" ELSE "MsgPreVoteResp"
           g  == [NewMessage(ty, m.from) EXCEPT !.term = m.term]
           j  == [g EXCEPT !.term = r.term, !.reject = TRUE]
           x  == {Stamped(r, g)}
           no == FALSE
           sg == send(r, g)
           sv == [sg EXCEPT !.past = no, !.vote = m.from]
           sj == send(r, j)
           s  == step_vote(r, m)
<1>1. s \in {sv, sg, sj} BY DEF step_vote
<1>2. sg = [r EXCEPT !.msgs = @ \cup x] BY DEF send
<1> HIDE DEF g, j, x, no
<1>3. Flow(sg) /\ Flow(sj) BY SendFlow
<1> HIDE DEF sg, sj
<1>4. Frame(r, sv) /\ sv.prs = r.prs BY <1>2 DEF Frame, RaftType
<1> HIDE DEF sv, s
<1>5. Flow(sv) BY <1>4, FlowFrame
<1> QED BY <1>1, <1>3, <1>5 DEF s

\* A message of the node's own term, whatever the role
LEMMA StepRoleFlow ==
    ASSUME NEW r \in RaftType, NEW m \in MessageType, Flow(r)
    PROVE  Flow(step_role(r, m))
<1>1. CASE m.type \in {"MsgVote", "MsgPreVote"}
  <2>1. step_role(r, m) = step_vote(r, m) BY <1>1 DEF step_role
  <2> QED BY <2>1, StepVoteFlow
<1>2. CASE m.type \notin {"MsgVote", "MsgPreVote"} /\ r.state = "Leader"
  <2>1. step_role(r, m) = step_leader(r, m) BY <1>2 DEF step_role
  <2> QED BY <1>2, <2>1, StepLeaderFlow
<1>3. CASE m.type \notin {"MsgVote", "MsgPreVote"} /\ r.state # "Leader"
  <2>1. Idle(r) BY <1>3, FlowIdle
  <2>2. step_role(r, m) \in {step_follower(r, m), step_candidate(r, m)} BY <1>3 DEF step_role
  <2> QED BY <2>1, <2>2, StepFollowerFlow, StepCandidateFlow
<1> QED BY <1>1, <1>2, <1>3

\* Raft::step keeps flow control in order, whatever the message.
LEMMA StepFlow ==
    ASSUME NEW r \in RaftType, NEW m \in MessageType, Flow(r)
    PROVE  Flow(step(r, m))
<1> DEFINE c == CatchUpTerm(r, m)
           lead == IF m.type \in LeaderMsg THEN m.from ELSE Nil
           f == become_follower(r, m.term, lead)
           a == NewMessage("MsgAppResp", m.from)
           v == [NewMessage("MsgPreVoteResp", m.from) EXCEPT !.term = r.term, !.reject = TRUE]
<1>1. m.term \in Nat /\ lead \in Node \cup {Nil} BY DEF MessageType
<1>2. c \in {r, f} BY DEF CatchUpTerm
<1>3. step_lower_term(r, m) \in {send(r, a), send(r, v), r} BY DEF step_lower_term
<1>4. step(r, m) \in {step_role(r, m), r, step_role(c, m), step_lower_term(r, m)} BY DEF step
<1> HIDE DEF lead, c, a, v
<1>5. Flow(f) /\ f \in RaftType BY <1>1, BecomeFollowerIdle, IdleFlow
<1> HIDE DEF f
<1>6. Flow(step_role(c, m)) BY <1>2, <1>5, StepRoleFlow
<1>7. Flow(step_lower_term(r, m)) BY <1>3, SendFlow
<1> QED BY <1>4, <1>6, <1>7, StepRoleFlow

-----------------------------------------------------------------------------
(* RaftNode. *)

\* pull_ready_events gives back what it applies, and applies everything committed.
LEMMA PullFlow ==
    ASSUME NEW r \in RaftType, Flow(r)
    PROVE  LET s == pull_ready_events(r)
           IN  Flow(s) /\ s.raft_log.applied = s.raft_log.committed
<1> DEFINE l    == r.raft_log
           off  == IF l.applied < l.offset THEN l.offset ELSE l.applied
           size == TotalPayload(l, off + 1, l.committed)
           u    == IF size > r.uncommitted_size THEN 0 ELSE r.uncommitted_size - size
           a    == apply_committed(l)
           q    == maybe_trigger_snapshot(a)
           none == {}
           s    == [r EXCEPT !.uncommitted_size = u, !.raft_log = q, !.msgs = none]
<1>1. pull_ready_events(r) = s BY DEF pull_ready_events
<1>2. l \in LogType /\ r.uncommitted_size \in Nat BY RaftFields
<1>3. /\ Start(l) \in Nat /\ Len(l.ents) \in Nat /\ Start(l) <= l.committed /\ l.committed \in Nat
      /\ l.committed <= Len(l.ents) /\ Pending(l) \in Nat
  <2> HIDE DEF l
  <2> QED BY <1>2, StartFacts
<1>4. off = Start(l) BY DEF Start
<1> HIDE DEF off, l
<1>5. /\ a \in LogType /\ a.ents = l.ents /\ a.committed = l.committed /\ a.applied = l.committed
  BY <1>2, ApplyType, LogFields DEF apply_committed, LogRecord
<1> HIDE DEF a
<1>6. /\ q \in LogType /\ q.ents = l.ents /\ q.applied = l.committed /\ q.committed = l.committed
  <2> DEFINE ci == IF a.applied > CatchUp THEN a.applied - CatchUp ELSE 1
             f == Fatal(a)
             t == [a EXCEPT !.snap = a.applied, !.offset = ci]
  <2>1. a.applied = a.committed BY <1>5
  <2>2. q \in LogType BY <1>5, <2>1, TriggerType
  <2>3. q \in {a, f, t} BY DEF maybe_trigger_snapshot
  <2> HIDE DEF ci, q
  <2>4. a \in LogRecord BY <1>5, LogFields
  <2>5. t.ents = a.ents /\ t.applied = a.applied /\ t.committed = a.committed
    BY <2>4 DEF LogRecord
  <2>6. f.ents = a.ents /\ f.applied = a.applied /\ f.committed = a.committed
    BY <2>4 DEF LogRecord, Fatal
  <2> HIDE DEF t, f
  <2> QED BY <1>5, <2>2, <2>3, <2>5, <2>6
<1> HIDE DEF q
<1>7. s.state = r.state /\ s.id = r.id /\ s.prs = r.prs /\ s.raft_log = q /\ s.uncommitted_size = u
  <2> HIDE DEF u, none
  <2> QED BY DEF RaftType
<1>8. size \in Nat
  <2>1. off + 1 \in Nat BY <1>3, <1>4
  <2> QED BY <1>3, <2>1, TotalPayloadType
<1>9. r.uncommitted_size = 0 => u = 0 BY <1>8
<1>10. r.uncommitted_size <= Pending(l) => u <= Pending(q)
  <2>1. Start(q) = l.committed
    <3>1. q.offset <= q.committed /\ q.offset \in Nat
      <4>1. q.snap \in Nat BY <1>6, LogFields
      <4> QED BY <1>6, <4>1, LogFields
    <3> QED BY <1>3, <1>6, <3>1 DEF Start
  <2> DEFINE rest == TotalPayload(l, l.committed + 1, Len(l.ents))
  <2>2. Pending(q) = rest BY <1>6, <2>1 DEF Pending, TotalPayload
  <2>3. Pending(l) = size + rest
    <3>1. TotalPayload(l, off + 1, Len(l.ents)) = size + rest BY <1>3, <1>4, PayloadSplit
    <3> QED BY <1>4, <3>1 DEF Pending
  <2>4. rest \in Nat
    <3>1. l.committed + 1 \in Nat BY <1>3
    <3> QED BY <1>3, <3>1, TotalPayloadType
  <2> HIDE DEF rest, size
  <2> QED BY <1>2, <1>8, <2>2, <2>3, <2>4
<1> HIDE DEF u, s
<1>11. Flow(s)
  <2>1. CASE r.state # "Leader" BY <1>7, <1>9, <2>1 DEF Flow
  <2>2. CASE r.state = "Leader"
    <3>1. r.uncommitted_size <= Pending(l) BY <2>2 DEF Flow, l
    <3>2. \A p \in Node : Steady(r.prs[p], p = r.id, Len(l.ents)) BY <2>2 DEF Flow, l
    <3> QED BY <1>6, <1>7, <1>10, <2>2, <3>1, <3>2 DEF Flow
  <2> QED BY <2>1, <2>2
<1>12. s.raft_log.applied = s.raft_log.committed BY <1>6, <1>7
<1> QED BY <1>1, <1>11, <1>12
\* Every step but LeaseExpires is an event at one node that leaves its flow
\* control in order.
LEMMA NextFlow ==
    ASSUME TypeOK, Settled, FlowInv, Next
    PROVE  \/ \E i \in Node : LeaseExpires(i)
           \/ \E i \in Node, r \in RaftType :
                 Flow(r) /\ node' = [node EXCEPT ![i] = pull_ready_events(r)]
<1>0. \A i \in Node : node[i] \in RaftType /\ Flow(node[i]) BY DEF TypeOK, FlowInv
<1>a. ASSUME NEW i \in Node, NEW r, NEW rest, Event(i, r, rest), Flow(r), r \in RaftType
      PROVE  \E j \in Node, s \in RaftType :
                 Flow(s) /\ node' = [node EXCEPT ![j] = pull_ready_events(s)]
  BY <1>a DEF Event
<1>1. ASSUME NEW i \in Node, TickElection(i)
      PROVE  \E r \in RaftType : Flow(r) /\ Event(i, r, wire)
  <2> DEFINE no == FALSE
             q == [node[i] EXCEPT !.past = no]
  <2>1. node[i] \in RaftType /\ Flow(node[i]) /\ node[i].state # "Leader"
    BY <1>0, <1>1 DEF TickElection
  <2>2. Event(i, step_hup(q), wire) BY <1>1 DEF TickElection
  <2>3. no \in BOOLEAN OBVIOUS
  <2> HIDE DEF no
  <2>4. q \in RaftType BY <2>1, <2>3, QuietPast DEF Quiet
  <2>5. Idle(q)
    <3>1. q.state = node[i].state /\ q.uncommitted_size = node[i].uncommitted_size
      BY <2>1 DEF RaftType
    <3> HIDE DEF q
    <3> QED BY <2>1, <3>1, FlowIdle DEF Idle
  <2> HIDE DEF q
  <2>6. step_hup(q) \in RaftType BY <2>4, StepHupSane DEF Sane
  <2> QED BY <2>2, <2>4, <2>5, <2>6, StepHupFlow
<1>2. ASSUME NEW i \in Node, TickHeartbeat(i)
      PROVE  \E r \in RaftType : Flow(r) /\ Event(i, r, wire)
  BY <1>0, <1>2, BcastHeartbeatQuiet, BcastHeartbeatFlow DEF TickHeartbeat, Quiet
<1>3. ASSUME NEW i \in Node, TickQuorum(i)
      PROVE  \E r \in RaftType : Flow(r) /\ Event(i, r, wire)
  <2> DEFINE r == node[i]
             q == [r EXCEPT !.lead_transferee = Nil]
             f == become_follower(r, r.term, Nil)
  <2>1. r \in RaftType /\ Flow(r) /\ Event(i, tick_quorum(r), wire) BY <1>0, <1>3 DEF TickQuorum
  <2>2. tick_quorum(r) \in {f, bcast_heartbeat(q)} BY DEF tick_quorum
  <2> HIDE DEF r
  <2>3. f \in RaftType /\ Flow(f) BY <2>1, RaftFields, BecomeFollowerIdle, IdleFlow
  <2>4. q \in RaftType BY <2>1, QuietTransfer DEF Quiet
  <2>5. Frame(r, q) /\ q.prs = r.prs BY <2>1 DEF Frame, RaftType
  <2> HIDE DEF q, f
  <2>6. Flow(q) BY <2>1, <2>5, FlowFrame
  <2>7. bcast_heartbeat(q) \in RaftType /\ Flow(bcast_heartbeat(q))
    BY <2>4, <2>6, BcastHeartbeatQuiet, BcastHeartbeatFlow DEF Quiet
  <2> QED BY <2>1, <2>2, <2>3, <2>7
<1>b. ASSUME NEW i \in Node, NEW m \in MessageType, m.type \in LeaderMsg => m.term > 0
      PROVE  step(node[i], m) \in RaftType /\ Flow(step(node[i], m))
  BY <1>0, <1>b, StepSane, StepFlow DEF Sane
<1>4. ASSUME NEW i \in Node, NEW v \in Value, Propose(i, v)
      PROVE  \E r \in RaftType : Flow(r) /\ Event(i, r, wire)
  <2> DEFINE e == <<[term |-> 0, data |-> v]>>
             m == [NewMessage("MsgProp", i) EXCEPT !.entries = e]
  <2>1. e \in Seq(Entry) BY DEF Entry
  <2>2. NewMessage("MsgProp", i) \in MessageType BY NewMessageType DEF MsgType
  <2>3. Event(i, step(node[i], m), wire) BY <1>4 DEF Propose
  <2> HIDE DEF e
  <2>4. m \in MessageType BY <2>1, <2>2 DEF MessageType
  <2>5. m.type \notin LeaderMsg BY DEF NewMessage, LeaderMsg
  <2> HIDE DEF m
  <2> QED BY <1>b, <2>3, <2>4, <2>5
<1>5. ASSUME NEW i \in Node, NEW transferee \in Node, TransferLeadership(i, transferee)
      PROVE  \E r \in RaftType : Flow(r) /\ Event(i, r, wire)
  <2> DEFINE m == [NewMessage("MsgTransferLeader", i) EXCEPT !.from = transferee]
  <2>2. NewMessage("MsgTransferLeader", i) \in MessageType BY NewMessageType DEF MsgType
  <2>3. Event(i, step(node[i], m), wire) BY <1>5 DEF TransferLeadership
  <2>4. m \in MessageType BY <2>2 DEF MessageType
  <2>5. m.type \notin LeaderMsg BY DEF NewMessage, LeaderMsg
  <2> HIDE DEF m
  <2> QED BY <1>b, <2>3, <2>4, <2>5
<1>6. ASSUME NEW i \in Node, Restart(i)
      PROVE  \E r \in RaftType : Flow(r) /\ Event(i, r, wire)
  <2>0. PICK c \in SavedCommits(node[i].raft_log) : Event(i, Reload(node[i], c), wire)
    BY <1>6 DEF Restart
  <2> DEFINE l == replay_WAL(node[i].raft_log, c)
             q == [node[i] EXCEPT !.raft_log = l]
             t == node[i].term
  <2>1. node[i] \in RaftType /\ t \in Nat /\ node[i].raft_log \in LogType BY <1>0, RaftFields
  <2>2. Event(i, become_follower(q, t, Nil), wire) BY <2>0 DEF Reload
  <2>3. l \in LogType BY <2>1, ReplayType
  <2> HIDE DEF l
  <2>4. q \in RaftType BY <2>1, <2>3, QuietLog DEF Quiet
  <2> HIDE DEF q, t
  <2>5. Idle(become_follower(q, t, Nil)) /\ become_follower(q, t, Nil) \in RaftType
    BY <2>1, <2>4, BecomeFollowerIdle
  <2> QED BY <2>2, <2>5, IdleFlow
<1>7. ASSUME NEW m \in net, Deliver(m)
      PROVE  \E r \in RaftType : m.to \in Node /\ Flow(r) /\ Event(m.to, r, Without(m))
  <2>1. m \in MessageType /\ m.to \in Node BY DEF TypeOK, MessageType
  <2>2. m.type \in LeaderMsg => m.term > 0 BY DEF Settled
  <2>3. Event(m.to, step(node[m.to], m), Without(m)) BY <1>7 DEF Deliver, Without
  <2> QED BY <1>b, <2>1, <2>2, <2>3
<1>9. CASE \E i \in Node : TickElection(i) BY <1>1, <1>9, <1>a
<1>10. CASE \E i \in Node : LeaseExpires(i) BY <1>10
<1>11. CASE \E i \in Node : TickHeartbeat(i) BY <1>2, <1>11, <1>a
<1>12. CASE \E i \in Node : TickQuorum(i) BY <1>3, <1>12, <1>a
<1>13. CASE \E i \in Node, v \in Value : Propose(i, v) BY <1>4, <1>13, <1>a
<1>14. CASE \E i, transferee \in Node : TransferLeadership(i, transferee) BY <1>5, <1>14, <1>a
<1>15. CASE \E i \in Node : Restart(i) BY <1>6, <1>15, <1>a
<1>16. CASE \E m \in net : Deliver(m) BY <1>7, <1>16, <1>a
<1> QED BY <1>9, <1>10, <1>11, <1>12, <1>13, <1>14, <1>15, <1>16 DEF Next

\* A new cluster: every member is a follower.
LEMMA InitFlow == Init => FlowInv
<1> SUFFICES ASSUME Init, NEW i \in Node
             PROVE  Flow(node[i]) /\ node[i].raft_log.applied = node[i].raft_log.committed
  BY DEF FlowInv
<1> DEFINE r == Bootstrap(i)
<1>1. r \in RaftType /\ r.state = "Follower" BY BootstrapFacts
<1>2. r.uncommitted_size = 0 BY DEF Bootstrap
<1>3. node[i] = pull_ready_events(r) BY DEF Init
<1> HIDE DEF r
<1>4. Flow(r) BY <1>1, <1>2, IdleFlow DEF Idle
<1> QED BY <1>1, <1>3, <1>4, PullFlow

\* Every step preserves the invariant.
LEMMA StepFlowInv == TypeOK /\ Settled /\ FlowInv /\ [Next]_vars => FlowInv'
<1> SUFFICES ASSUME TypeOK, Settled, FlowInv, [Next]_vars PROVE FlowInv'
  OBVIOUS
<1>0. node \in [Node -> RaftType] BY DEF TypeOK
<1>1. CASE UNCHANGED vars BY <1>1 DEF FlowInv, vars, Flow
<1>2. ASSUME NEW i \in Node, LeaseExpires(i) PROVE FlowInv'
  <2> DEFINE yes == TRUE
             q == [node[i] EXCEPT !.past = yes]
  <2>1. node' = [node EXCEPT ![i] = q] BY <1>2 DEF LeaseExpires
  <2> HIDE DEF yes
  <2>2. Frame(node[i], q) /\ q.prs = node[i].prs /\ q.raft_log = node[i].raft_log
    BY <1>0 DEF Frame, RaftType
  <2> HIDE DEF q
  <2>3. \A j \in Node : node'[j] = IF j = i THEN q ELSE node[j] BY <1>0, <2>1
  <2>4. Flow(q) BY <2>2, FlowFrame DEF FlowInv
  <2> QED BY <2>2, <2>3, <2>4 DEF FlowInv
<1>3. ASSUME NEW i \in Node, NEW r \in RaftType, Flow(r),
             node' = [node EXCEPT ![i] = pull_ready_events(r)]
      PROVE  FlowInv'
  <2> DEFINE q == pull_ready_events(r)
  <2>1. Flow(q) /\ q.raft_log.applied = q.raft_log.committed BY <1>3, PullFlow
  <2> HIDE DEF q
  <2>2. \A j \in Node : node'[j] = IF j = i THEN q ELSE node[j] BY <1>0, <1>3 DEF q
  <2> QED BY <2>1, <2>2 DEF FlowInv
<1>4. CASE Next BY <1>2, <1>3, <1>4, NextFlow
<1> QED BY <1>1, <1>4

\* Flow control is in order at every node between any two events.
LEMMA FlowOfSpec == Spec => [](TypeOK /\ FlowInv)
<1>1. TypeOK /\ Settled /\ [Next]_vars => TypeOK' /\ Settled' BY StepSettled
<1> QED BY <1>1, InitSettled, InitFlow, StepFlowInv, PTL DEF Spec

\* In every configuration, whatever is lost, delayed or reordered, the window of
\* every follower holds increasing indexes between match and next, never more
\* than max_inflight_msgs, and none outside Replicate (Raft::maybe_send_append,
\* Progress, InFlights).
THEOREM WindowIsInOrder == Spec => []WindowOK
<1>1. TypeOK /\ FlowInv => WindowOK
  <2> SUFFICES ASSUME TypeOK, FlowInv, NEW i \in Node, NEW p \in Node, node[i].state = "Leader"
               PROVE  LET pr == node[i].prs[p]
                          fl == pr.inflights
                      IN  /\ pr.state = "Replicate" => pr.match < pr.next
                          /\ pr.state # "Replicate" => fl = <<>>
                          /\ Len(fl) <= MaxInflight
                          /\ \A k \in 1..Len(fl) : pr.match < fl[k] /\ fl[k] < pr.next
                          /\ \A k \in 1..Len(fl) - 1 : fl[k] < fl[k + 1]
    BY DEF WindowOK
  <2> DEFINE pr == node[i].prs[p]
             fl == pr.inflights
  <2>1. node[i] \in RaftType BY DEF TypeOK
  <2>2. pr \in ProgressType BY <2>1, RaftFields
  <2>3. Len(fl) \in Nat BY <2>2 DEF ProgressType
  <2>4. Steady(pr, p = node[i].id, Len(node[i].raft_log.ents)) BY FlowSteady DEF FlowInv
  <2> HIDE DEF pr
  <2>5. \A j, k \in 1..Len(fl) : j < k => fl[j] < fl[k] BY <2>4 DEF Steady
  <2>6. \A k \in 1..Len(fl) - 1 : fl[k] < fl[k + 1]
    <3> TAKE k \in 1..Len(fl) - 1
    <3>1. k \in 1..Len(fl) /\ k + 1 \in 1..Len(fl) /\ k < k + 1 BY <2>3
    <3> QED BY <2>5, <3>1
  <2>7. /\ pr.state = "Replicate" => pr.match < pr.next
        /\ pr.state # "Replicate" => fl = <<>>
        /\ Len(fl) <= MaxInflight
        /\ \A k \in 1..Len(fl) : pr.match < fl[k] /\ fl[k] < pr.next
    BY <2>4 DEF Steady
  <2> QED BY <2>6, <2>7 DEF pr
<1> QED BY <1>1, FlowOfSpec, PTL

\* In every configuration the quota in use is never more than the payload of the
\* leader's uncommitted entries, and no node but a leader has any in use
\* (Raft::increase_uncommitted_size, reduce_uncommitted_size, reset).
THEOREM QuotaIsKept == Spec => []QuotaNeverOverestimates
<1>1. TypeOK /\ FlowInv => QuotaNeverOverestimates
  <2> SUFFICES ASSUME TypeOK, FlowInv, NEW i \in Node
               PROVE  LET l == node[i].raft_log
                      IN  node[i].uncommitted_size <=
                            TotalPayload(l, l.committed + 1, last_index(l))
    BY DEF QuotaNeverOverestimates
  <2> DEFINE l == node[i].raft_log
             u == node[i].uncommitted_size
  <2>1. node[i] \in RaftType /\ Flow(node[i]) /\ l.applied = l.committed BY DEF TypeOK, FlowInv
  <2>2. l \in LogType /\ u \in Nat BY <2>1, RaftFields
  <2>3. (node[i].state # "Leader" => u = 0) /\ (node[i].state = "Leader" => u <= Pending(l))
    BY <2>1 DEF Flow
  <2> HIDE DEF l, u
  <2>4. Pending(l) \in Nat BY <2>2, StartFacts
  <2>5. Start(l) = l.committed
    <3>1. l.snap \in Nat BY <2>2, LogFields
    <3>2. l.offset <= l.committed /\ l.offset \in Nat /\ l.committed \in Nat
      BY <2>2, <3>1, LogFields
    <3> QED BY <2>1, <3>2 DEF Start
  <2>6. Pending(l) = TotalPayload(l, l.committed + 1, last_index(l))
    BY <2>5 DEF Pending, last_index
  <2>7. u <= Pending(l) BY <2>2, <2>3, <2>4
  <2> QED BY <2>6, <2>7 DEF l, u
<1> QED BY <1>1, FlowOfSpec, PTL
=============================================================================
