------------------------------ MODULE NodeDisk ------------------------------
(***************************************************************************)
(* What one node keeps on disk: RaftNode (server/raft_node.cpp) over WAL   *)
(* and Snapshotter (snap/snapshotter.cpp), with a process that may be      *)
(* stopped between two events, or killed between any two writes, and is    *)
(* started again.                                                          *)
(*                                                                         *)
(* Raft is reduced to what a Ready shows of it: its HardState, its log and *)
(* the snapshots it receives.  log[k] is the term of entry k; under a      *)
(* snapshot it is the snapshot's term, which nothing reads.  The rest of   *)
(* the cluster is `chosen': whatever this node forgets, an entry once      *)
(* committed is committed for good.                                        *)
(***************************************************************************)
EXTENDS WAL

CONSTANTS Candidate,    \* ids a vote may name
          SnapCount,    \* snap_count_
          \* bounds of the model
          MaxTerm, MaxIndex, MaxEvents, MaxRestarts

ASSUME DiskAssumption ==
    /\ Candidate \subseteq Nat \ {0}
    /\ {SnapCount, MaxTerm, MaxIndex, MaxEvents, MaxRestarts} \subseteq Nat

VARIABLES dir,      \* wal_dir_: "none", "empty" (made, without a file) or "ready"
          wal,      \* the WAL
          snaps,    \* the files of snap_dir_
          raft,     \* Raft as Ready shows it
          prev_hs,  \* prev_hard_state_
          applied, snapshot_index,  \* applied_index_, snapshot_index_
          rd,       \* the Ready that is handled
          saving,   \* the snapshot that save_snap saves
          pc,       \* where RaftNode is
          used,     \* events and restarts so far
          chosen,   \* history: the terms of the entries known to be committed
          damage    \* history: what kills have cost

vars == <<dir, wal, snaps, raft, prev_hs, applied, snapshot_index, rd, saving, pc, used, chosen, damage>>

RaftType == [term : Nat, vote : Nat, commit : Nat, log : Seq(Nat)]
SnapFile == [index : Nat, term : Nat, whole : BOOLEAN]
Place == {"down", "create", "idle", "save", "snap_record", "snap_open", "snap_write", "publish", "dead"}

NoReady    == [hs |-> EmptyState, entries |-> <<>>, snap |-> 0]
NoSnapshot == [index |-> 0, term |-> 0, install |-> FALSE]
NewRaft    == [term |-> 0, vote |-> 0, commit |-> 0, log |-> <<>>]

hard_state(r) == [term |-> r.term, vote |-> r.vote, commit |-> r.commit]

-----------------------------------------------------------------------------
(* Starting: replay_WAL and the constructors of RaftNode, RawNode and Raft. *)

\* File f has a greater name than g: names are term and index.
Newer(f, g) == f.term > g.term \/ (f.term = g.term /\ f.index > g.index)

\* Mutant: the files are tried from the oldest on.
load_Oldest(files) ==
    LET whole == {f \in files : f.whole}
    IN  IF whole = {} THEN [index |-> 0, term |-> 0, whole |-> TRUE]
        ELSE CHOOSE f \in whole : \A g \in whole : g = f \/ Newer(g, f)

\* Snapshotter::load: the newest file that can be read
load(files) ==
    LET whole == {f \in files : f.whole}
    IN  IF whole = {} THEN [index |-> 0, term |-> 0, whole |-> TRUE]
        ELSE CHOOSE f \in whole : \A g \in whole : g = f \/ Newer(f, g)

\* load_snap renames the broken files that load meets on its way.
Broken(files) == {f \in files : ~f.whole /\ Newer(f, load(files))}

\* Mutant: load_state takes any commit index.
replay_WAL_AnyCommit(content, files) ==
    LET s    == load(files)
        recs == Readable(content)
        hs   == LastState(recs)
        ents == Entries(recs, s.index)
        last == s.index + Len(ents)
    IN  [fatal |-> "none", snap |-> s.index,
         raft |-> [term |-> hs.term, vote |-> hs.vote, commit |-> hs.commit,
                   log |-> [k \in 1..last |-> IF k <= s.index THEN s.term ELSE ents[k - s.index]]]]

\* What replay_WAL makes of a log file and the snapshot files, with the reason
\* why it dies, if it does: a missing entry is a null pointer, and load_state
\* wants the commit index between the snapshot and the end of the log.
replay_WAL(content, files) ==
    LET s    == load(files)
        recs == Readable(content)
        hs   == LastState(recs)
        ents == Entries(recs, s.index)
        last == s.index + Len(ents)
    IN  [fatal |-> CASE Mismatch(recs, s.index, s.term) -> "mismatch"
                     [] ~Mismatch(recs, s.index, s.term) /\ \E k \in 1..Len(ents) : ents[k] = 0 -> "hole"
                     [] ~Mismatch(recs, s.index, s.term) /\ (\A k \in 1..Len(ents) : ents[k] # 0)
                        /\ hs # EmptyState /\ (hs.commit < s.index \/ hs.commit > last) -> "range"
                     [] OTHER -> "none",
         snap |-> s.index,
         raft |-> [term |-> hs.term, vote |-> hs.vote,
                   commit |-> IF hs = EmptyState THEN s.index ELSE hs.commit,
                   log |-> [k \in 1..last |-> IF k <= s.index THEN s.term ELSE ents[k - s.index]]]]

Init ==
    /\ dir = "none" /\ wal = OpenWAL(<<>>) /\ snaps = {}
    /\ raft = NewRaft /\ prev_hs = EmptyState
    /\ applied = 0 /\ snapshot_index = 0
    /\ rd = NoReady /\ saving = NoSnapshot /\ pc = "down"
    /\ used = [events |-> 0, restarts |-> 0]
    /\ chosen = <<>> /\ damage = {}

\* open_WAL on the first start makes the directory ...
MakeDirectory ==
    /\ pc = "down" /\ dir = "none"
    /\ dir' = "empty" /\ pc' = "create"
    /\ UNCHANGED <<wal, snaps, raft, prev_hs, applied, snapshot_index, rd, saving, used, chosen, damage>>

\* ... and then the file.  The node bootstraps: a committed configuration
\* entry, and a first Ready.
Create ==
    /\ pc = "create"
    /\ dir' = "ready" /\ wal' = OpenWAL(create) /\ pc' = "save"
    /\ raft' = [term |-> 1, vote |-> 0, commit |-> 1, log |-> <<1>>]
    /\ prev_hs' = EmptyState
    /\ rd' = [hs |-> hard_state(raft'), entries |-> <<EntryRecord(1, 1)>>, snap |-> 0]
    /\ chosen' = <<1>>
    /\ UNCHANGED <<snaps, applied, snapshot_index, saving, used, damage>>

\* A later start: a directory is taken for a node that has run before.
Start ==
    /\ pc = "down" /\ dir # "none"
    /\ LET r == replay_WAL(wal.file, snaps)
       IN  IF dir = "empty" \/ r.fatal # "none"
           THEN pc' = "dead" /\ UNCHANGED <<wal, snaps, raft, prev_hs, applied, snapshot_index>>
           ELSE /\ pc' = "idle"
                /\ wal' = Reopened(wal.file)
                /\ snaps' = snaps \ Broken(snaps)
                /\ raft' = r.raft
                /\ prev_hs' = IF r.raft.log = <<>> THEN EmptyState ELSE hard_state(r.raft)
                /\ applied' = r.snap /\ snapshot_index' = r.snap
    /\ UNCHANGED <<dir, rd, saving, used, chosen, damage>>

-----------------------------------------------------------------------------
(* Running: an event changes Raft, and pull_ready_events handles its Ready. *)

\* Raft is now r; `entries' are its new entries, `snap' a received snapshot.
\* What r commits above `base' is what the cluster has chosen.
Event(r, base, entries, snap) ==
    /\ pc = "idle" /\ used.events < MaxEvents
    /\ \A k \in base + 1..r.commit : k <= Len(chosen) => r.log[k] = chosen[k]
    /\ chosen' = chosen \o SubSeq(r.log, Len(chosen) + 1, r.commit)
    /\ raft' = r
    /\ rd' = [hs |-> IF hard_state(r) = prev_hs THEN EmptyState ELSE hard_state(r),
              entries |-> entries, snap |-> snap]
    /\ pc' = "save"
    /\ used' = [used EXCEPT !.events = @ + 1]
    /\ UNCHANGED <<dir, wal, snaps, prev_hs, applied, snapshot_index, saving, damage>>

\* The term of entry k, 0 before the first
TermAt(log, k) == IF k = 0 THEN 0 ELSE log[k]

\* Terms never fall along what a leader has.  They may in the log of a node that a
\* restart has given entries from before a snapshot.
Rising(log, lo, hi) == \A j \in lo..hi : \A i \in lo..j : TermAt(log, i) <= TermAt(log, j)

\* Raft itself, or with a higher term that the event's message or campaign brings
Terms(r) ==
    {r} \cup UNION {{[r EXCEPT !.term = t, !.vote = v] : v \in Candidate \cup {0}} : t \in r.term + 1..MaxTerm}

\* A term or a vote, without entries; or a tick with entries left to apply
TermOrVote ==
    \E r \in Terms(raft) \cup {[raft EXCEPT !.vote = v] : v \in IF raft.vote = 0 THEN Candidate ELSE {}} :
        /\ r # raft \/ applied < raft.commit
        /\ Event(r, r.commit, <<>>, 0)

\* An entry of term t after index `after', which displaces what followed, and
\* possibly a commit index with it
AppendEntry ==
    \E r \in Terms(raft), after \in raft.commit..Len(raft.log), c \in raft.commit..MaxIndex :
        \E t \in TermAt(r.log, after)..r.term :
            /\ t > 0 /\ after < MaxIndex /\ c <= after + 1
            /\ Rising(r.log, r.commit, after)
            /\ after < Len(r.log) => r.log[after + 1] # t
            /\ Event([r EXCEPT !.log = Append(SubSeq(@, 1, after), t), !.commit = c],
                     r.commit, <<EntryRecord(after + 1, t)>>, 0)

\* A commit index
Commit ==
    \E c \in raft.commit + 1..Len(raft.log) :
        Rising(raft.log, raft.commit, c) /\ Event([raft EXCEPT !.commit = c], raft.commit, <<>>, 0)

\* MsgSnap, when Raft::restore takes it: nothing of the log stays
ReceiveSnapshot ==
    \E r \in Terms(raft), n \in raft.commit + 1..MaxIndex :
        \E t \in TermAt(r.log, r.commit)..r.term :
            /\ t > 0 /\ (n > Len(chosen) => t >= TermAt(chosen, Len(chosen)))
            /\ n <= Len(r.log) => r.log[n] # t
            /\ Event([r EXCEPT !.log = [k \in 1..n |-> t], !.commit = n], n - 1, <<>>, n)

\* wal_->save, and the branch on a snapshot
Save ==
    /\ pc = "save"
    /\ wal' = save(wal, rd.hs, rd.entries)
    /\ IF rd.snap > 0
       THEN /\ saving' = [index |-> rd.snap, term |-> raft.log[rd.snap], install |-> TRUE]
            /\ pc' = "snap_record"
       ELSE pc' = "publish" /\ UNCHANGED saving
    /\ UNCHANGED <<dir, snaps, raft, prev_hs, applied, snapshot_index, rd, used, chosen, damage>>

\* save_snap: the WAL's record first ...
SaveRecord ==
    /\ pc = "snap_record"
    /\ wal' = save_snapshot(wal, saving.index, saving.term)
    /\ pc' = "snap_open"
    /\ UNCHANGED <<dir, snaps, raft, prev_hs, applied, snapshot_index, rd, saving, used, chosen, damage>>

SameName(f) == f.index = saving.index /\ f.term = saving.term

\* ... then Snapshotter::save_snap: fopen leaves an empty file ...
OpenFile ==
    /\ pc = "snap_open"
    /\ snaps' = {f \in snaps : ~SameName(f)} \cup
                {[index |-> saving.index, term |-> saving.term, whole |-> FALSE]}
    /\ pc' = "snap_write"
    /\ UNCHANGED <<dir, wal, raft, prev_hs, applied, snapshot_index, rd, saving, used, chosen, damage>>

\* ... and fclose a whole one.  A received snapshot is published, and the
\* Ready goes on; a local one ends it.
WriteFile ==
    /\ pc = "snap_write"
    /\ snaps' = {f \in snaps : ~SameName(f)} \cup
                {[index |-> saving.index, term |-> saving.term, whole |-> TRUE]}
    /\ snapshot_index' = saving.index
    /\ applied' = saving.index
    /\ pc' = IF saving.install THEN "publish" ELSE "idle"
    /\ prev_hs' = IF saving.install \/ rd.hs = EmptyState THEN prev_hs ELSE rd.hs
    /\ saving' = NoSnapshot
    /\ UNCHANGED <<dir, wal, raft, rd, used, chosen, damage>>

\* The messages leave, the committed entries are published, a snapshot may be
\* due, advance ends the Ready.
Publish ==
    /\ pc = "publish"
    /\ applied' = raft.commit
    /\ IF raft.commit - snapshot_index > SnapCount
       THEN /\ saving' = [index |-> raft.commit, term |-> raft.log[raft.commit], install |-> FALSE]
            /\ pc' = "snap_record"
            /\ UNCHANGED prev_hs
       ELSE /\ pc' = "idle"
            /\ prev_hs' = IF rd.hs = EmptyState THEN prev_hs ELSE rd.hs
            /\ UNCHANGED saving
    /\ UNCHANGED <<dir, wal, snaps, raft, snapshot_index, rd, used, chosen, damage>>

\* The process is gone and has left `content' in the WAL's file.
Gone(content) ==
    /\ wal' = OpenWAL(content)
    /\ pc' = "down" /\ raft' = NewRaft /\ prev_hs' = EmptyState
    /\ applied' = 0 /\ snapshot_index' = 0 /\ rd' = NoReady /\ saving' = NoSnapshot
    /\ used' = [used EXCEPT !.restarts = @ + 1]
    /\ UNCHANGED <<dir, snaps, chosen>>

\* A signal stops the event loop, and the destructors run.
Stop ==
    /\ pc = "idle" /\ used.restarts < MaxRestarts
    /\ Gone(Closed(wal))
    /\ UNCHANGED damage

\* The process is killed.
Kill ==
    /\ pc \notin {"down", "dead"} /\ used.restarts < MaxRestarts
    /\ \E k \in 0..Len(wal.stdio), torn \in BOOLEAN :
          /\ torn => k < Len(wal.stdio)
          /\ Gone(Killed(wal, k, torn))
          /\ damage' = damage \cup (IF k < Len(wal.stdio) THEN {"lost"} ELSE {})
                              \cup (IF saving.install THEN {"install"} ELSE {})
                              \cup (IF pc = "create" THEN {"create"} ELSE {})

Next ==
    \/ MakeDirectory \/ Create \/ Start
    \/ TermOrVote \/ AppendEntry \/ Commit \/ ReceiveSnapshot
    \/ Save \/ SaveRecord \/ OpenFile \/ WriteFile \/ Publish
    \/ Stop \/ Kill

Spec == Init /\ [][Next]_vars

-----------------------------------------------------------------------------
(* Properties. *)

\* The indexes are in order wherever RaftNode is (entries_to_apply,
\* maybe_trigger_snapshot and load_state rely on it).
TypeOK ==
    /\ dir \in {"none", "empty", "ready"} /\ wal \in WALType
    /\ \A f \in snaps : f \in SnapFile
    /\ raft \in RaftType /\ prev_hs \in HardState
    /\ pc \in Place
    /\ snapshot_index <= applied /\ applied <= raft.commit /\ raft.commit <= Len(raft.log)

\* A restart from r finds Raft's term and vote and every entry of its log.
Covers(r, current) ==
    /\ r.fatal = "none"
    /\ r.raft.term = current.term /\ r.raft.vote = current.vote
    /\ Len(r.raft.log) >= Len(current.log)
    /\ \A k \in r.snap + 1..Len(current.log) : r.raft.log[k] = current.log[k]

\* A process that is stopped between two events comes up again with the term,
\* the vote and the entries it has told others of: save and save_snapshot have
\* handed over everything that must not be lost, and a torn tail of an earlier
\* kill does not hide it (is_must_sync, save_snapshot, read_all).  Only a kill
\* while a received snapshot was being saved takes that away.
StopKeepsPromises ==
    pc = "idle" /\ "install" \notin damage => Covers(replay_WAL(Closed(wal), snaps), raft)

\* What a node holds for committed is what the cluster has committed, whatever
\* its kills have lost: the file keeps entries and HardStates in the order they
\* were saved in, so no commit index outlives the entries it speaks of.  The
\* exception is a kill while a received snapshot was being saved.
CommittedIsChosen ==
    pc = "idle" /\ "install" \notin damage =>
        \A k \in applied + 1..raft.commit : raft.log[k] = chosen[k]

\* A node that cannot start again was killed with records in the buffer of the
\* FILE, while a received snapshot was being saved, or before its WAL had a
\* file.  A kill at any other point, a local snapshot half written included,
\* leaves a disk that load, read_all and load_state accept.
DeathNeedsALoss == pc = "dead" => damage # {}

\* No restart meets a missing entry or a snapshot record of another term, whatever
\* was lost (ents.resize in handle_record_wal_record, the fallback of load).  After
\* a kill while a received snapshot was being saved the node may hold entries that
\* are not the cluster's, and snapshots of them that are older by name.
NoHoles ==
    pc = "down" /\ dir = "ready" /\ "install" \notin damage =>
        replay_WAL(wal.file, snaps).fatal \notin {"hole", "mismatch"}

\* raft_log.h: "committed is the highest log position that is known to be in
\* stable storage on a quorum of nodes": the entries a node holds for committed
\* are those the cluster has committed.
CommittedOnQuorum == pc = "idle" => \A k \in applied + 1..raft.commit : raft.log[k] = chosen[k]
=============================================================================
