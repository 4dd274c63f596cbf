-------------------------------- MODULE WAL --------------------------------
(***************************************************************************)
(* The write-ahead log of a node: class WAL and its one WAL_File           *)
(* (wal/wal.cpp).  A WAL is a record; a method that changes it is an       *)
(* operator from the old record to the new one.                            *)
(*                                                                         *)
(* What is written passes three places: `data_buffer' of WAL_File, `stdio' *)
(* (the buffer of the FILE, into which sync's fwrite puts it) and `file'   *)
(* (what the system has, and a killed process leaves behind).  A record is *)
(* whole, or "torn": cut off by the death of the process.  An entry is its *)
(* index and term.                                                         *)
(***************************************************************************)
EXTENDS Integers, Sequences, FiniteSets

CONSTANT SegmentSize    \* SegmentSizeBytes, counted in records

ASSUME SegmentAssumption == SegmentSize \in Nat \ {0}

HardState  == [term : Nat, vote : Nat, commit : Nat]
EmptyState == [term |-> 0, vote |-> 0, commit |-> 0]

Record == [type : {"snapshot", "entry", "state", "torn"}, index : Nat, term : Nat, hs : HardState]

SnapshotRecord(i, t) == [type |-> "snapshot", index |-> i, term |-> t, hs |-> EmptyState]
EntryRecord(i, t)    == [type |-> "entry", index |-> i, term |-> t, hs |-> EmptyState]
StateRecord(hs)      == [type |-> "state", index |-> 0, term |-> 0, hs |-> hs]
TornRecord           == [type |-> "torn", index |-> 0, term |-> 0, hs |-> EmptyState]

\* `state' is the HardState saved last, `file_size' what sync has written.
WALType ==
    [file : Seq(Record), stdio : Seq(Record), data_buffer : Seq(Record),
     state : HardState, file_size : Nat]

\* WAL::open; a stream opened with "a+" starts at position 0
OpenWAL(file) ==
    [file |-> file, stdio |-> <<>>, data_buffer |-> <<>>, state |-> EmptyState, file_size |-> 0]

\* WAL::create closes the file before it gets its name.
create == <<SnapshotRecord(0, 0)>>

-----------------------------------------------------------------------------
(* Writing. *)

\* WAL_File::append
append(w, records) == [w EXCEPT !.data_buffer = @ \o records]

\* WAL_File::sync
sync(w) ==
    [w EXCEPT !.stdio = @ \o w.data_buffer, !.data_buffer = <<>>,
              !.file_size = @ + Len(w.data_buffer)]

\* Mutant: a vote alone need not be written at once.
is_must_sync_NoVote(st, prevst, entsnum) == entsnum # 0 \/ st.term # prevst.term

is_must_sync(st, prevst, entsnum) ==
    entsnum # 0 \/ st.vote # prevst.vote \/ st.term # prevst.term

\* Mutant: the HardState goes before the entries it speaks of.
save_StateFirst(w, hs, ents) ==
    LET w1 == IF hs = EmptyState THEN w ELSE [append(w, <<StateRecord(hs)>>) EXCEPT !.state = hs]
        w2 == append(w1, ents)
    IN  IF is_must_sync(hs, w.state, Len(ents)) \/ w.file_size >= SegmentSize THEN sync(w2) ELSE w2

\* WAL::save; the entries `ents' are records.  cut only syncs.
save(w, hs, ents) ==
    LET mustSync == is_must_sync(hs, w.state, Len(ents))
        w1 == append(w, ents)
        w2 == IF hs = EmptyState THEN w1 ELSE [append(w1, <<StateRecord(hs)>>) EXCEPT !.state = hs]
    IN  IF hs = EmptyState /\ ents = <<>> THEN w
        ELSE IF mustSync \/ w.file_size >= SegmentSize THEN sync(w2)
        ELSE w2

\* Mutant: the snapshot record waits for the next sync.
save_snapshot_Unsynced(w, index, t) == append(w, <<SnapshotRecord(index, t)>>)

save_snapshot(w, index, t) == sync(append(w, <<SnapshotRecord(index, t)>>))

\* What a process leaves when it exits: fclose writes the FILE's buffer.
Closed(w) == w.file \o w.stdio

\* What it leaves when it is killed: the first k records of that buffer, and
\* possibly a part of the next one.
Killed(w, k, torn) ==
    w.file \o SubSeq(w.stdio, 1, k) \o (IF torn THEN <<TornRecord>> ELSE <<>>)

-----------------------------------------------------------------------------
(* Reading. *)

\* read_all reads up to the first record that is cut off or fails its checksum,
\* and truncates the file there.
Readable(file) ==
    SubSeq(file, 1, Cardinality({n \in 1..Len(file) : \A k \in 1..n : file[k].type # "torn"}))

\* The WAL after read_all: truncate counts what it leaves.
Reopened(file) ==
    LET good == Readable(file)
    IN  [OpenWAL(good) EXCEPT !.file_size = IF good = file THEN 0 ELSE Len(good)]

Positions(file, type) == {n \in 1..Len(file) : file[n].type = type}

\* The last of the given positions
Latest(ps) == CHOOSE p \in ps : \A q \in ps : q <= p

LastState(file) ==
    LET ps == Positions(file, "state") IN IF ps = {} THEN EmptyState ELSE file[Latest(ps)].hs

\* The terms of the entries above index `start': ents.resize(index - start - 1)
\* drops what an entry overwrites, and leaves null entries (term 0) where one
\* is missing.
Entries(file, start) ==
    LET above == {p \in Positions(file, "entry") : file[p].index > start}
        last  == IF above = {} THEN 0 ELSE file[Latest(above)].index - start
        at(k) == {p \in above : /\ file[p].index = start + k
                                /\ \A q \in above : q > p => file[q].index > start + k}
    IN  [k \in 1..last |-> IF at(k) = {} THEN 0 ELSE file[Latest(at(k))].term]

\* LOG_FATAL: no snapshot record at all (any one sets matchsnap), or one of the
\* starting index with another term
Mismatch(file, start, t) ==
    LET snaps == Positions(file, "snapshot")
    IN  snaps = {} \/ \E p \in snaps : file[p].index = start /\ file[p].term # t
=============================================================================
