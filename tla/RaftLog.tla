------------------------------- MODULE RaftLog -------------------------------
(***************************************************************************)
(* One node's replicated log: class RaftLog (raft/raft_log.{h,cpp}) over   *)
(* Unstable and MemoryStorage, and the part of the server that saves,      *)
(* compacts and reloads it.                                                *)
(*                                                                         *)
(* ents[k] is the entry of index k, from index 1 on.  MemoryStorage has    *)
(* dropped the entries up to `offset' (its dummy entry); the model keeps   *)
(* them as history, and no operator below reads an entry under `offset'.   *)
(* A snapshot up to index k is the sequence of the first k entries.        *)
(*                                                                         *)
(* `wal' is what replaying the write-ahead log yields.  An append rewrites *)
(* its tail; installing a snapshot does not, so the entries that the       *)
(* snapshot displaced stay in it.                                          *)
(***************************************************************************)
EXTENDS Integers, Sequences, FiniteSets

CONSTANTS Value,        \* payloads of client proposals
          SnapCount,    \* RaftNode::snap_count_
          CatchUp       \* snapshotCatchUpEntriesN

ASSUME SnapshotAssumption ==
    SnapCount \in Nat /\ CatchUp \in Nat /\ CatchUp <= SnapCount

Conf  == "conf"         \* a bootstrap configuration entry
Empty == "empty"        \* the empty entry of a new leader

ASSUME ValueAssumption == Conf \notin Value /\ Empty \notin Value

Entry == [term : Nat, data : Value \cup {Conf, Empty}]

LogRecord ==
    [ents : Seq(Entry), wal : Seq(Entry), offset : Nat, snap : Nat,
     committed : Nat, applied : Nat, fatal : BOOLEAN]

\* The log has what the snapshot and the commit index stand for, and so has the WAL.
LogType ==
    {l \in LogRecord : /\ l.offset <= l.snap /\ l.snap <= l.committed
                       /\ l.applied <= l.committed /\ l.committed <= Len(l.ents)
                       /\ Len(l.ents) <= Len(l.wal)}

\* LOG_FATAL: the process throws and dies.
Fatal(l) == [l EXCEPT !.fatal = TRUE]

Least(a, b) == IF a < b THEN a ELSE b

-----------------------------------------------------------------------------
last_index(l)  == Len(l.ents)
first_index(l) == l.offset + 1

\* The dummy entry is readable, and an index outside the log has term 0.
term(l, i) == IF i = 0 \/ i < l.offset \/ i > last_index(l) THEN 0 ELSE l.ents[i].term

last_term(l)        == term(l, last_index(l))
\* Mutant: an entry that is present counts as matching.
match_term_Present(l, i, t) == i <= last_index(l)

match_term(l, i, t) == term(l, i) = t

\* Mutant: the longer log wins, whatever its last term.
is_up_to_date_ByLength(l, lasti, t) == lasti >= last_index(l)

is_up_to_date(l, lasti, t) ==
    t > last_term(l) \/ (t = last_term(l) /\ lasti >= last_index(l))

\* slice [low, high)
slice(l, low, high) == SubSeq(l.ents, low, high - 1)

commit_to(l, to_commit) ==
    IF l.committed >= to_commit THEN l
    ELSE IF last_index(l) < to_commit THEN Fatal(l)
    ELSE [l EXCEPT !.committed = to_commit]

\* Mutant: the new entries are not saved.
append_Unsaved(l, after, entries) ==
    IF entries = <<>> THEN l
    ELSE IF after < l.committed \/ after > last_index(l) THEN Fatal(l)
    ELSE [l EXCEPT !.ents = SubSeq(@, 1, after) \o entries]

\* append entries after index `after', which drops what followed it
append(l, after, entries) ==
    IF entries = <<>> THEN l
    ELSE IF after < l.committed \/ after > last_index(l) THEN Fatal(l)
    ELSE LET new == SubSeq(l.ents, 1, after) \o entries
         IN  [l EXCEPT !.ents = new, !.wal = new]

\* Mutant: an entry that is present is not looked at.
Matching_ByLength(l, index, entries) ==
    Cardinality({k \in 1..Len(entries) : index + k <= last_index(l)})

\* How many of the given entries, which follow `index', the log already has.
Matching(l, index, entries) ==
    Cardinality({k \in 1..Len(entries) :
                    \A j \in 1..k : match_term(l, index + j, entries[j].term)})

find_conflict(l, index, entries) ==
    LET n == Matching(l, index, entries)
    IN  IF n = Len(entries) THEN 0 ELSE index + n + 1

\* maybe_append, given that (index, log_term) matched
maybe_append(l, index, committed, entries) ==
    LET ci  == find_conflict(l, index, entries)
        l1  == IF ci = 0 THEN l
               ELSE IF ci <= l.committed THEN Fatal(l)
               ELSE append(l, ci - 1, SubSeq(entries, ci - index, Len(entries)))
    IN  commit_to(l1, Least(committed, index + Len(entries)))

\* Mutant: entries of earlier terms are committed by counting too.
log_maybe_commit_AnyTerm(l, max_index, t) ==
    IF max_index > l.committed THEN commit_to(l, max_index) ELSE l

log_maybe_commit(l, max_index, t) ==
    IF max_index > l.committed /\ match_term(l, max_index, t)
    THEN commit_to(l, max_index) ELSE l

\* A snapshot replaces the whole log; the WAL keeps the entries above it.
log_restore(l, snapshot) ==
    LET n == Len(snapshot)
    IN  [l EXCEPT !.ents = snapshot,
                  !.wal  = snapshot \o SubSeq(@, n + 1, Len(@)),
                  !.offset = n, !.snap = n, !.committed = n]

-----------------------------------------------------------------------------
(* The server's side: RaftNode. *)

\* publish_entries and advance: everything committed is applied.
apply_committed(l) == [l EXCEPT !.applied = l.committed]

maybe_trigger_snapshot(l) ==
    LET compactIndex == IF l.applied > CatchUp THEN l.applied - CatchUp ELSE 1
    IN  IF l.applied - l.snap <= SnapCount THEN l
        ELSE IF compactIndex <= l.offset THEN Fatal(l)
        ELSE [l EXCEPT !.snap = l.applied, !.offset = compactIndex]

\* Mutant: of the WAL's entries only the committed ones are loaded.
replay_WAL_OnlyCommitted(l, c) ==
    [l EXCEPT !.ents = SubSeq(l.wal, 1, c), !.offset = l.snap, !.applied = l.snap,
              !.committed = c]

\* replay_WAL, and the Raft constructor's load_state: the newest snapshot, the
\* entries of the WAL above it, and c, the commit index of the last HardState in
\* the file.
replay_WAL(l, c) ==
    LET replayed == [l EXCEPT !.ents = l.wal, !.offset = l.snap, !.applied = l.snap]
    IN  IF c < l.snap \/ c > Len(l.wal) THEN Fatal(replayed)
        ELSE [replayed EXCEPT !.committed = c]

\* The commit indexes that a process that stops may have left in the file.  A
\* HardState that brings no new term, vote or entry only goes to the buffer that the
\* WAL's destructor drops, so the index may be an older one; save_snapshot writes the
\* buffer out, and the bootstrap entries are saved with a HardState that commits
\* them.  Which of them it is depends on what was saved together: module NodeDisk.
SavedCommits(l) ==
    {c \in l.snap..l.committed : \A k \in c + 1..l.committed : l.ents[k].data # Conf}
=============================================================================
