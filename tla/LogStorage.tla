----------------------------- MODULE LogStorage -----------------------------
(***************************************************************************)
(* One node's log as it is kept: class RaftLog (raft/raft_log.cpp) reads   *)
(* what is saved from MemoryStorage (raft/storage.cpp) and what is not yet *)
(* from Unstable (raft/unstable.cpp).  The application takes a Ready,      *)
(* saves it step by step and calls advance.  RaftNode steps nothing in     *)
(* between, the applications of tests/test_rawnode.cpp propose there: in   *)
(* the model Raft may append, truncate and commit at any point.  A         *)
(* snapshot is restored only when no Ready is being worked on, as in       *)
(* RaftNode.                                                               *)
(*                                                                         *)
(* An entry is its term: by LogMatching (module Raft) index and term       *)
(* identify an entry and all before it.                                    *)
(***************************************************************************)
EXTENDS Integers, Sequences

CONSTANTS Logs,         \* logs of the leaders that the node may hear from
          SnapCount,    \* RaftNode::snap_count_
          CatchUp,      \* snapshotCatchUpEntriesN
          MaxNext       \* max_next_ents_size_, counted in entries

ASSUME LogsAssumption ==
    \A l, m \in Logs :
        /\ l \in Seq(Nat \ {0})
        /\ \A k \in 1..Len(l) :
              k <= Len(m) /\ l[k] = m[k] => SubSeq(l, 1, k) = SubSeq(m, 1, k)
ASSUME CountAssumption ==
    SnapCount \in Nat /\ CatchUp \in Nat /\ CatchUp <= SnapCount /\ MaxNext \in Nat \ {0}

VARIABLES unstable,     \* [offset, entries, snapshot]
          storage,      \* [snapshot, dummy, entries]: dummy is entries_[0]
          committed, applied,
          rd,           \* the Ready being worked on, and how far that has got
          applied_index,    \* RaftNode::applied_index_
          fatal         \* a LOG_FATAL was reached

vars == <<unstable, storage, committed, applied, rd, applied_index, fatal>>

At(index, term) == [index |-> index, term |-> term]
None == At(0, 0)        \* no snapshot

Least(a, b) == IF a < b THEN a ELSE b
Most(a, b)  == IF a < b THEN b ELSE a

-----------------------------------------------------------------------------
(* Reading MemoryStorage and Unstable. *)

storage_last == storage.dummy.index + Len(storage.entries)

NoTerm == -1            \* storage has no entry to answer with

storage_term(i) ==
    IF i = storage.dummy.index THEN storage.dummy.term
    ELSE IF i > storage.dummy.index /\ i <= storage_last
         THEN storage.entries[i - storage.dummy.index]
         ELSE NoTerm

first_index ==
    IF unstable.snapshot # None THEN unstable.snapshot.index + 1 ELSE storage.dummy.index + 1

last_index ==
    IF unstable.entries # <<>> THEN unstable.offset + Len(unstable.entries) - 1
    ELSE IF unstable.snapshot # None THEN unstable.snapshot.index
         ELSE storage_last

\* Unstable::maybe_term answers for index i
InUnstable(i) ==
    IF i < unstable.offset THEN unstable.snapshot # None /\ unstable.snapshot.index = i
    ELSE i < unstable.offset + Len(unstable.entries)

maybe_term(i) ==
    IF i < unstable.offset THEN unstable.snapshot.term
    ELSE unstable.entries[i - unstable.offset + 1]

log_term(i) ==
    IF i < first_index - 1 \/ i > last_index THEN 0
    ELSE IF InUnstable(i) THEN maybe_term(i) ELSE storage_term(i)

must_check_out_of_bounds(low, high) == first_index <= low /\ high <= last_index + 1

\* MemoryStorage::entries serves entries that are not compacted away.
InStorage(low, high) == storage.dummy.index < low /\ high <= storage_last + 1

unstable_bound(high) == high <= unstable.offset + Len(unstable.entries)

\* slice(low, high) can be served: what is below the offset from storage, the
\* rest from Unstable.
Readable(low, high) ==
    /\ must_check_out_of_bounds(low, high)
    /\ low < high /\ low < unstable.offset => InStorage(low, Least(high, unstable.offset))
    /\ low < high /\ high > unstable.offset => unstable_bound(high)

\* What slice returns then, without the limit on its size
log_slice(low, high) ==
    [k \in 1..high - low |->
        IF low + k - 1 < unstable.offset
        THEN storage.entries[low + k - 1 - storage.dummy.index]
        ELSE unstable.entries[low + k - unstable.offset]]

-----------------------------------------------------------------------------
(* Raft changes the log. *)

\* The first entry has index `after'.
truncate_and_append(after, entries) ==
    IF after <= unstable.offset /\ after # unstable.offset + Len(unstable.entries)
    THEN [unstable EXCEPT !.offset = after, !.entries = entries]
    ELSE [unstable EXCEPT !.entries = SubSeq(@, 1, after - unstable.offset) \o entries]

\* The conflicting or new part of a MsgApp's entries, which follow `index'
Conflicts(index, entries) ==
    {k \in 1..Len(entries) : log_term(index + k) # entries[k]}

\* A MsgApp with entries index + 1 .. last of a leader's log (the leader's own
\* append is the case index = last_index)
MaybeAppend(leader, index, last, commit) ==
    LET entries == SubSeq(leader, index + 1, last)
        news    == Conflicts(index, entries)
        n       == CHOOSE k \in news : \A j \in news : k <= j
        to      == Least(commit, last)
    IN  /\ ~fatal
        /\ committed <= index /\ index <= last_index
        /\ index > 0 => log_term(index) = leader[index]
        /\ unstable' = IF news = {} THEN unstable
                       ELSE truncate_and_append(index + n, SubSeq(entries, n, Len(entries)))
        /\ committed' = Most(committed, to)
        /\ UNCHANGED <<storage, applied, rd, applied_index, fatal>>

\* maybe_commit of a leader, commit_to of a heartbeat
CommitTo(c) ==
    /\ ~fatal /\ committed < c /\ c <= last_index
    /\ committed' = c
    /\ UNCHANGED <<unstable, storage, applied, rd, applied_index, fatal>>

\* A MsgSnap for a prefix that the node does not have; a leader's log agrees
\* with what the node has committed (LeaderCompleteness).
Restore(leader, index) ==
    /\ ~fatal /\ rd.phase = "none" /\ index > committed
    /\ log_term(committed) = IF committed = 0 THEN 0 ELSE leader[committed]
    /\ log_term(index) # leader[index]
    /\ unstable' = [offset |-> index + 1, entries |-> <<>>, snapshot |-> At(index, leader[index])]
    /\ committed' = index
    /\ UNCHANGED <<storage, applied, rd, applied_index, fatal>>

-----------------------------------------------------------------------------
(* The application works on a Ready. *)

NoReady == [phase |-> "none", first |-> 0, entries |-> <<>>, snapshot |-> None,
            low |-> 0, cursor |-> 0]

\* Mutant: a restored snapshot does not count as applied.
Offset_NoSnapshot == applied + 1

\* next_entries takes entries from here ...
Offset == Most(applied + 1, first_index)

\* Mutant: entries are applied whether committed or not.
High_Uncommitted == Least(last_index + 1, Offset + MaxNext)

\* ... up to, but not including, here.
High == Least(committed + 1, Offset + MaxNext)

has_next_entries == committed + 1 > Offset

has_ready == unstable.snapshot # None \/ unstable.entries # <<>> \/ has_next_entries

\* Ready: a copy of the unstable part, and the entries low..cursor to apply
TakeReady ==
    /\ ~fatal /\ rd.phase = "none" /\ has_ready
    /\ rd' = [phase |-> "ready", first |-> unstable.offset, entries |-> unstable.entries,
              snapshot |-> unstable.snapshot,
              low |-> IF has_next_entries THEN Offset ELSE 0,
              cursor |-> IF has_next_entries THEN High - 1 ELSE 0]
    /\ fatal' = (has_next_entries /\ ~Readable(Offset, High))
    /\ UNCHANGED <<unstable, storage, committed, applied, applied_index>>

\* MemoryStorage::apply_snapshot refuses one that is not newer than its own.
apply_snapshot(s) ==
    IF storage.snapshot.index >= s.index THEN storage
    ELSE [snapshot |-> s, dummy |-> s, entries |-> <<>>]

\* apply_snapshot and publish_snapshot, if there is a snapshot
ApplySnapshot ==
    LET s == rd.snapshot
    IN  /\ ~fatal /\ rd.phase = "ready"
        /\ rd' = [rd EXCEPT !.phase = "restored"]
        /\ storage' = IF s = None THEN storage ELSE apply_snapshot(s)
        /\ applied_index' = IF s = None THEN applied_index ELSE s.index
        /\ fatal' = (s # None /\ s.index <= applied_index)
        /\ UNCHANGED <<unstable, committed, applied>>

\* Mutant: what follows the appended entries in storage is kept.
storage_append_KeepTail(first, entries) ==
    LET skip == Most(0, storage.dummy.index + 1 - first)
        keep == first + skip - 1 - storage.dummy.index
        new  == SubSeq(entries, skip + 1, Len(entries))
    IN  SubSeq(storage.entries, 1, keep) \o new
            \o SubSeq(storage.entries, keep + Len(new) + 1, Len(storage.entries))

\* The entries of storage after append: entries below the dummy are skipped,
\* what the new ones overlap and all behind is dropped.
storage_append(first, entries) ==
    LET skip == Most(0, storage.dummy.index + 1 - first)
        keep == first + skip - 1 - storage.dummy.index
    IN  IF skip >= Len(entries) THEN storage.entries
        ELSE SubSeq(storage.entries, 1, keep) \o SubSeq(entries, skip + 1, Len(entries))

AppendEntries ==
    /\ ~fatal /\ rd.phase = "restored"
    /\ rd' = [rd EXCEPT !.phase = "saved"]
    /\ fatal' = (rd.entries # <<>> /\ rd.first > storage_last + 1)
    /\ storage' = IF fatal' THEN storage
                  ELSE [storage EXCEPT !.entries = storage_append(rd.first, rd.entries)]
    /\ UNCHANGED <<unstable, committed, applied, applied_index>>

create_snapshot(index) == [storage EXCEPT !.snapshot = At(index, storage_term(index))]

\* compact drops the entries up to compact_index.
compact(s, compact_index) ==
    [s EXCEPT !.dummy = At(compact_index, storage_term(compact_index)),
              !.entries = SubSeq(@, compact_index - s.dummy.index + 1, Len(@))]

\* maybe_trigger_snapshot, when entries up to i are applied
SnapshotDue(i) == i - storage.snapshot.index > SnapCount
CompactIndex(i) == IF i > CatchUp THEN i - CatchUp ELSE 1

\* entries_to_apply, publish_entries and maybe_trigger_snapshot
Publish ==
    LET i == Most(applied_index, rd.cursor)
    IN  /\ ~fatal /\ rd.phase = "saved"
        /\ rd' = [rd EXCEPT !.phase = "applied"]
        /\ applied_index' = i
        /\ fatal' = (\/ rd.cursor > 0 /\ rd.low > applied_index + 1
                     \/ SnapshotDue(i) /\ (i > storage_last \/ CompactIndex(i) <= storage.dummy.index))
        /\ storage' = IF SnapshotDue(i) /\ ~fatal'
                      THEN compact(create_snapshot(i), CompactIndex(i)) ELSE storage
        /\ UNCHANGED <<unstable, committed, applied>>

\* Mutant: the entries of the Ready count as stable whatever has replaced them.
stable_to_AnyTerm(u, index, t) ==
    IF index >= u.offset /\ index < u.offset + Len(u.entries)
    THEN [u EXCEPT !.offset = index + 1,
                   !.entries = SubSeq(@, index - u.offset + 2, Len(@))]
    ELSE u

\* Only entries that are still the ones that were saved leave Unstable.
stable_to(u, index, t) ==
    IF /\ index >= u.offset /\ index < u.offset + Len(u.entries)
       /\ u.entries[index - u.offset + 1] = t
    THEN [u EXCEPT !.offset = index + 1,
                   !.entries = SubSeq(@, index - u.offset + 2, Len(@))]
    ELSE u

stable_snap_to(u, index) ==
    IF u.snapshot # None /\ u.snapshot.index = index THEN [u EXCEPT !.snapshot = None] ELSE u

applied_cursor == IF rd.cursor > 0 THEN rd.cursor ELSE rd.snapshot.index

\* applied_to, stable_to, stable_snap_to
Advance ==
    LET n == Len(rd.entries)
        u == IF n = 0 THEN unstable ELSE stable_to(unstable, rd.first + n - 1, rd.entries[n])
    IN  /\ ~fatal /\ rd.phase = "applied"
        /\ unstable' = IF rd.snapshot = None THEN u ELSE stable_snap_to(u, rd.snapshot.index)
        /\ applied' = IF applied_cursor > 0 THEN applied_cursor ELSE applied
        /\ rd' = NoReady
        /\ UNCHANGED <<storage, committed, applied_index, fatal>>

-----------------------------------------------------------------------------
\* An empty MemoryStorage, and RaftLog's constructor over it
Init ==
    /\ unstable = [offset |-> 1, entries |-> <<>>, snapshot |-> None]
    /\ storage = [snapshot |-> None, dummy |-> None, entries |-> <<>>]
    /\ committed = 0 /\ applied = 0 /\ applied_index = 0
    /\ rd = NoReady
    /\ fatal = FALSE

RaftStep ==
    \/ \E l \in Logs : \E last \in 1..Len(l) : \E index \in 0..last, commit \in 0..last :
          MaybeAppend(l, index, last, commit)
    \/ \E c \in 1..last_index : CommitTo(c)
    \/ \E l \in Logs : \E index \in 1..Len(l) : committed <= Len(l) /\ Restore(l, index)

Next == RaftStep \/ TakeReady \/ ApplySnapshot \/ AppendEntries \/ Publish \/ Advance

Spec == Init /\ [][Next]_vars

-----------------------------------------------------------------------------
(* Properties. *)

\* The log that Raft reads through term, first_index and last_index
Plain == INSTANCE PlainLog WITH
    app  <- <<rd, applied_index>>,
    base <- At(first_index - 1, log_term(first_index - 1)),
    ents <- [k \in 1..last_index - first_index + 1 |-> log_term(first_index + k - 1)]

\* Saving, stabilising and compacting never change what Raft reads: whatever
\* happens between a ready and its advance, Unstable and MemoryStorage together
\* are one log that only Raft's own operations change (RaftLog::term,
\* stable_to, truncate_and_append, MemoryStorage::append and compact).
ReadsAreOneLog == Plain!Spec

\* Every slice between first_index and last_index can be served, and holds the
\* entries that term tells of (RaftLog::slice over both halves).
SlicesAgree ==
    ~fatal =>
        \A low \in first_index..last_index + 1 : \A high \in low..last_index + 1 :
            /\ Readable(low, high)
            /\ log_slice(low, high) = [k \in 1..high - low |-> log_term(low + k - 1)]

\* None of the LOG_FATALs is reached: an unreadable committed entry, a gap in
\* MemoryStorage, a gap between what is applied and what comes next, a snapshot
\* of what is not saved, a compaction that cannot be done.
NeverFatal == ~fatal

\* No step takes the application back, and it never applies what is not committed.
AppliedInOrder ==
    [][applied_index' >= applied_index /\ applied' >= applied /\ applied_index' <= committed']_vars
=============================================================================
