-------------------------- MODULE LogStorageProofs --------------------------
(***************************************************************************)
(* For every set of leader logs, every snapshot and catch-up count and     *)
(* every interleaving of Raft with the application's work on a Ready: the  *)
(* two halves of the log, Unstable and MemoryStorage, never lose or change *)
(* an entry, and no LOG_FATAL is reached.                                  *)
(***************************************************************************)
EXTENDS LogStorage, SequenceTheorems, WellFoundedInduction, TLAPS

Positive == Nat \ {0}
Point == [index : Nat, term : Nat]
Phase == {"none", "ready", "restored", "saved", "applied"}

\* The logs that what the node holds may be a part of
Known == Logs \cup {<<>>}

Typed ==
    /\ unstable \in [offset : Positive, entries : Seq(Positive), snapshot : Point]
    /\ storage \in [snapshot : Point, dummy : Point, entries : Seq(Positive)]
    /\ committed \in Nat /\ applied \in Nat /\ applied_index \in Nat
    /\ rd \in [phase : Phase, first : Nat, entries : Seq(Positive), snapshot : Point,
               low : Nat, cursor : Nat]
    /\ fatal \in BOOLEAN

\* Names for the parts of the state
offset      == unstable.offset
fresh       == unstable.entries
size        == Len(unstable.entries)
image       == unstable.snapshot
image_index == unstable.snapshot.index
image_term  == unstable.snapshot.term
dummy_index == storage.dummy.index
dummy_term  == storage.dummy.term
saved       == storage.entries
kept        == Len(storage.entries)
saved_index == storage.snapshot.index
phase       == rd.phase
rd_first    == rd.first
rd_entries  == rd.entries
rd_size     == Len(rd.entries)
rd_image    == rd.snapshot
rd_index    == rd.snapshot.index
rd_term     == rd.snapshot.term
rd_low      == rd.low
rd_cursor   == rd.cursor

\* Raft has restored a snapshot that MemoryStorage does not have yet.
Behind == image # None /\ phase \in {"none", "ready"}

End   == offset + size - 1            \* of what is unstable
Taken == rd_first + rd_size - 1     \* of what the Ready holds

\* stable_to will find the Ready's last entry in Unstable.
Matches ==
    /\ rd_size > 0 /\ offset <= Taken /\ Taken <= End
    /\ fresh[Taken - offset + 1] = rd_entries[rd_size]

\* How the indexes of the node are ordered
Ordered ==
    /\ image # None => 0 < image_index /\ image_index <= committed /\ offset = image_index + 1
    /\ Behind => applied_index < image_index
    /\ dummy_index <= saved_index /\ saved_index <= applied_index
    /\ applied_index <= storage_last /\ applied_index <= committed /\ committed <= End
    /\ size = 0 /\ ~Behind => offset = storage_last + 1
    /\ phase \in {"none", "ready"} => applied = applied_index
    /\ phase = "none" /\ size > 0 => dummy_index < End

\* What a Ready keeps to while the application works on it, whatever Raft does
\* in between: what it holds is what Unstable still has, or was replaced above
\* all that is applied.
Held ==
    /\ rd_image = image /\ rd_index = image_index /\ rd_term = image_term
    /\ offset <= rd_first
    /\ image # None => rd_first = image_index + 1 /\ applied < image_index
    /\ size = 0 => rd_size = 0
    /\ size > 0 =>
          Matches \/ (dummy_index < End /\ rd_cursor < End /\ applied_index < End)
    /\ rd_cursor <= committed /\ rd_cursor <= Taken /\ applied_index <= Taken
    /\ rd_cursor > 0 =>
          rd_low = (IF image = None THEN applied + 1 ELSE image_index + 1) /\ rd_low <= rd_cursor

\* What each step of that work relies on
Staged ==
    /\ phase \in {"ready", "restored"} =>
          /\ rd_size > 0 => dummy_index < Taken
          /\ ~Behind => /\ rd_first <= storage_last + 1
                        /\ rd_size = 0 => rd_first = storage_last + 1
    /\ phase \in {"restored", "saved"} =>
          applied_index = IF image = None THEN applied ELSE image_index
    /\ phase \in {"saved", "applied"} => storage_last = Taken
    /\ phase = "applied" =>
          applied_index = IF rd_cursor > 0 THEN rd_cursor
                          ELSE IF image = None THEN applied ELSE image_index
    /\ phase \in {"restored", "saved", "applied"} /\ image # None => image_index <= dummy_index

\* MemoryStorage holds, up to `last', entries of the log m.
SavedAs(m, last) ==
    /\ last <= Len(m) /\ last <= storage_last /\ dummy_index <= Len(m)
    /\ dummy_index > 0 => dummy_term = m[dummy_index]
    /\ \A k \in 1..last - dummy_index : saved[k] = m[dummy_index + k]

\* What Raft reads is a part of the log l.
ReadsAs(l) ==
    /\ End <= Len(l)
    /\ image # None => image_term = l[image_index]
    /\ \A k \in 1..size : fresh[k] = l[offset + k - 1]
    /\ ~Behind => SavedAs(l, offset - 1)

\* What the Ready holds is a part of the log r, which was Raft's log when it was
\* taken; Raft's log l now agrees with it on all that is or will be applied.
TakenAs(l, r) ==
    /\ Taken <= Len(r)
    /\ \A k \in 1..rd_size : rd_entries[k] = r[rd_first + k - 1]
    /\ image # None => image_term = r[image_index]
    /\ applied_index <= Len(l) /\ rd_cursor <= Len(l)
    /\ \A k \in 1..Most(applied_index, rd_cursor) : l[k] = r[k]
    /\ ~Behind => SavedAs(r, IF phase \in {"ready", "restored"} THEN rd_first - 1 ELSE Taken)

Holds ==
    /\ \E m \in Known : SavedAs(m, storage_last)
    /\ \E l \in Known : ReadsAs(l) /\ (phase # "none" => \E r \in Known : TakenAs(l, r))

\* The inductive invariant
StorageInv ==
    Typed /\ ~fatal /\ Ordered /\ (phase # "none" => Held) /\ Staged /\ Holds

-----------------------------------------------------------------------------
(* What the parts mean. *)

\* Leaders' logs are sequences of terms.
LEMMA KnownType ==
    ASSUME NEW l \in Known
    PROVE  /\ l \in Seq(Positive) /\ Len(l) \in Nat
           /\ \A k \in 1..Len(l) : l[k] \in Positive
<1>1. CASE l \in Logs BY <1>1, LogsAssumption DEF Positive
<1>2. CASE l = <<>> BY <1>2
<1> QED BY <1>1, <1>2 DEF Known

\* Two leaders' logs that have the same term at an index are the same up to it.
LEMMA LogsMatch ==
    ASSUME NEW l \in Known, NEW m \in Known, NEW k \in Nat, 1 <= k,
           k <= Len(l), k <= Len(m), l[k] = m[k], NEW j \in 1..k
    PROVE  l[j] = m[j]
<1>1. l \in Logs /\ m \in Logs
  <2>1. Len(<<>>) = 0 OBVIOUS
  <2> QED BY <2>1 DEF Known
<1>2. l \in Seq(Positive) /\ m \in Seq(Positive) /\ Len(l) \in Nat /\ Len(m) \in Nat
  BY KnownType
<1>3. k \in 1..Len(l) BY <1>2
<1>4. SubSeq(l, 1, k) = SubSeq(m, 1, k) BY <1>1, <1>3, LogsAssumption
<1>5. SubSeq(l, 1, k)[j] = l[j] /\ SubSeq(m, 1, k)[j] = m[j] BY <1>2
<1> QED BY <1>4, <1>5

\* The numbers among the parts of the state
Sized ==
    /\ offset \in Nat /\ 1 <= offset /\ size \in Nat /\ image_index \in Nat
    /\ dummy_index \in Nat /\ saved_index \in Nat /\ kept \in Nat
    /\ committed \in Nat /\ applied \in Nat /\ applied_index \in Nat
    /\ rd_first \in Nat /\ rd_low \in Nat /\ rd_cursor \in Nat
    /\ rd_size \in Nat /\ rd_index \in Nat
    /\ storage_last = dummy_index + kept
    /\ End = offset + size - 1
    /\ Taken = rd_first + rd_size - 1

\* The parts of the state and what they are
LEMMA Parts ==
    ASSUME Typed
    PROVE  /\ Sized /\ phase \in Phase
           /\ fresh \in Seq(Positive) /\ saved \in Seq(Positive) /\ rd_entries \in Seq(Positive)
           /\ size = Len(fresh) /\ kept = Len(saved) /\ rd_size = Len(rd_entries)
           /\ image \in Point /\ rd_image \in Point
           /\ image_term \in Nat /\ dummy_term \in Nat /\ rd_term \in Nat
<1>1. /\ offset \in Positive /\ fresh \in Seq(Positive) /\ image \in Point
      /\ image_index = image.index /\ image_term = image.term
  BY DEF Typed, offset, fresh, image, image_index, image_term
<1>2. /\ storage.dummy \in Point /\ storage.snapshot \in Point /\ saved \in Seq(Positive)
  BY DEF Typed, saved
<1>3. /\ phase \in Phase /\ rd_first \in Nat /\ rd_low \in Nat /\ rd_cursor \in Nat
      /\ rd_entries \in Seq(Positive) /\ rd_image \in Point
  BY DEF Typed, phase, rd_first, rd_low, rd_cursor, rd_entries, rd_image
<1>4. \A p \in Point : p.index \in Nat /\ p.term \in Nat BY DEF Point
<1>5. image_index \in Nat /\ image_term \in Nat BY <1>1, <1>4
<1>6. dummy_index \in Nat /\ dummy_term \in Nat /\ saved_index \in Nat
  BY <1>2, <1>4 DEF dummy_index, dummy_term, saved_index
<1>7. rd_index \in Nat /\ rd_term \in Nat BY <1>3, <1>4 DEF rd_image, rd_index, rd_term
<1>8. offset \in Nat /\ 1 <= offset BY <1>1 DEF Positive
<1>9. committed \in Nat /\ applied \in Nat /\ applied_index \in Nat BY DEF Typed
<1>10. size \in Nat /\ kept \in Nat /\ rd_size \in Nat
  BY <1>1, <1>2, <1>3 DEF size, kept, rd_size, fresh, saved, rd_entries
<1>11. storage_last = dummy_index + kept BY DEF storage_last, dummy_index, kept
<1>12. Sized BY <1>3, <1>5, <1>6, <1>7, <1>8, <1>9, <1>10, <1>11 DEF Sized, End, Taken
<1>13. size = Len(fresh) /\ kept = Len(saved) /\ rd_size = Len(rd_entries)
  BY DEF size, kept, rd_size, fresh, saved, rd_entries
<1> QED BY <1>1, <1>2, <1>3, <1>5, <1>6, <1>7, <1>12, <1>13

\* The empty sequence is the one of length 0.
LEMMA Empties ==
    ASSUME NEW s \in Seq(Positive)
    PROVE  s = <<>> <=> Len(s) = 0
OBVIOUS

\* What MemoryStorage answers
LEMMA StorageTerm ==
    ASSUME NEW i
    PROVE  storage_term(i) = IF i = dummy_index THEN dummy_term
                             ELSE IF i > dummy_index /\ i <= storage_last
                                  THEN saved[i - dummy_index] ELSE NoTerm
BY DEF storage_term, dummy_index, dummy_term, saved

\* The log that Raft reads goes from first_index to last_index.
Spans ==
    /\ first_index = IF image # None THEN offset ELSE dummy_index + 1
    /\ last_index = End
    /\ first_index \in Nat /\ 1 <= first_index /\ last_index \in Nat
    /\ first_index - 1 <= committed /\ committed <= last_index
    /\ ~Behind => offset <= storage_last + 1

\* The indexes that the readers compute are where the invariant has them.
LEMMA Limits ==
    ASSUME StorageInv
    PROVE  Spans
<1>1. Typed /\ Ordered /\ Holds /\ Sized BY Parts DEF StorageInv
<1>2. first_index = IF image # None THEN image_index + 1 ELSE dummy_index + 1
  BY DEF first_index, image, image_index, dummy_index
<1>3. ~Behind => offset <= storage_last + 1
  <2>1. PICK l \in Known : ReadsAs(l) BY <1>1 DEF Holds
  <2> QED BY <1>1, <2>1 DEF ReadsAs, SavedAs, Sized
<1>4. last_index = IF size > 0 THEN offset + size - 1
                   ELSE IF image # None THEN image_index ELSE storage_last
  <2>1. fresh # <<>> <=> size > 0 BY <1>1, Parts, Empties DEF Sized
  <2> QED BY <2>1 DEF last_index, offset, fresh, size, image, image_index
<1>5. image = None => ~Behind BY DEF Behind
<1>6. last_index = End BY <1>1, <1>4, <1>5 DEF Ordered, Sized
<1>7. first_index = IF image # None THEN offset ELSE dummy_index + 1
  BY <1>1, <1>2 DEF Ordered, Sized
<1> QED BY <1>1, <1>3, <1>6, <1>7 DEF Ordered, Sized, Spans

\* What is known of the state at the start of a step
LEMMA Start ==
    ASSUME StorageInv
    PROVE  /\ Typed /\ ~fatal /\ Ordered /\ (phase # "none" => Held) /\ Staged /\ Holds
           /\ Sized /\ Spans
BY Parts, Limits DEF StorageInv

\* Where term looks
LEMMA TermLooks ==
    ASSUME NEW i
    PROVE  /\ InUnstable(i) <=> IF i < offset THEN image # None /\ image_index = i
                                ELSE i < offset + size
           /\ maybe_term(i) = IF i < offset THEN image_term ELSE fresh[i - offset + 1]
BY DEF InUnstable, maybe_term, offset, fresh, size, image, image_index, image_term

\* term answers with the terms of the log that Raft's log is a part of.
LEMMA TermIs ==
    ASSUME StorageInv, NEW l \in Known, ReadsAs(l), NEW i \in Nat,
           first_index - 1 <= i, i <= last_index, 0 < i
    PROVE  i <= Len(l) /\ log_term(i) = l[i]
<1>1. Ordered /\ Sized /\ Spans /\ Len(l) \in Nat BY Start, KnownType
<1>2. i <= End /\ i <= Len(l) BY <1>1 DEF Spans, Sized, ReadsAs
<1>3. CASE InUnstable(i)
  <2>1. log_term(i) = maybe_term(i) BY <1>1, <1>3 DEF log_term, Spans
  <2>2. CASE i < offset
    BY <2>1, <2>2, <1>2, <1>3, TermLooks DEF ReadsAs
  <2>3. CASE ~(i < offset)
    <3>1. i < offset + size /\ maybe_term(i) = fresh[i - offset + 1]
      BY <1>3, <2>3, TermLooks
    <3>2. i - offset + 1 \in 1..size /\ offset + (i - offset + 1) - 1 = i
      BY <2>3, <3>1, <1>1 DEF Sized
    <3> QED BY <1>2, <2>1, <3>1, <3>2 DEF ReadsAs
  <2> QED BY <2>2, <2>3
<1>4. CASE ~InUnstable(i)
  <2>1. log_term(i) = storage_term(i) BY <1>1, <1>4 DEF log_term, Spans
  <2>2. ~(i < offset + size) \/ i < offset BY <1>4, TermLooks
  <2>3. i < offset BY <1>1, <1>2, <2>2 DEF Sized
  <2>4. image = None
    <3>1. image = None \/ image_index # i BY <1>4, <2>3, TermLooks
    <3> QED BY <1>1, <2>3, <3>1 DEF Ordered, Sized, Spans
  <2>5. SavedAs(l, offset - 1) BY <2>4 DEF ReadsAs, Behind
  <2>6. dummy_index <= i BY <1>1, <2>4 DEF Sized, Spans
  <2>7. CASE i = dummy_index BY <1>2, <2>1, <2>5, <2>7, StorageTerm DEF SavedAs
  <2>8. CASE i # dummy_index
    <3>1. /\ i - dummy_index \in 1..(offset - 1) - dummy_index
          /\ dummy_index + (i - dummy_index) = i
          /\ i > dummy_index /\ i <= storage_last
      BY <2>3, <2>5, <2>6, <2>8, <1>1 DEF SavedAs, Sized
    <3>2. storage_term(i) = saved[i - dummy_index] BY <2>8, <3>1, StorageTerm
    <3> QED BY <1>2, <2>1, <2>5, <3>1, <3>2 DEF SavedAs
  <2> QED BY <2>7, <2>8
<1> QED BY <1>3, <1>4

\* The log ends at last_index.
LEMMA NoTermBehind ==
    ASSUME NEW i \in Nat, i > last_index
    PROVE  log_term(i) = 0
BY DEF log_term

\* Every part of the log can be read.
LEMMA AllReadable ==
    ASSUME StorageInv, NEW low \in Nat, NEW high \in Nat,
           first_index <= low, low <= high, high <= last_index + 1
    PROVE  Readable(low, high)
<1>1. Ordered /\ Sized /\ Spans BY Start
<1>2. must_check_out_of_bounds(low, high) BY DEF must_check_out_of_bounds
<1>3. ASSUME low < high, low < offset
      PROVE  InStorage(low, Least(high, offset))
  <2>1. image = None BY <1>1, <1>3 DEF Sized, Spans
  <2>2. offset <= storage_last + 1 /\ dummy_index < low
    BY <1>1, <2>1 DEF Behind, Sized, Spans
  <2>3. Least(high, offset) <= storage_last + 1 BY <1>1, <2>2 DEF Least, Sized
  <2> QED BY <2>2, <2>3 DEF InStorage, dummy_index
<1>4. ASSUME low < high, high > offset
      PROVE  unstable_bound(high)
  <2>1. high <= offset + size BY <1>1, <1>4 DEF Sized, Spans
  <2> QED BY <2>1 DEF unstable_bound, offset, size
<1> QED BY <1>2, <1>3, <1>4 DEF Readable, offset

\* The invariant gives the invariants of the run.
LEMMA InvImplies ==
    ASSUME StorageInv
    PROVE  SlicesAgree /\ NeverFatal
<1>1. Ordered /\ ~fatal /\ Holds /\ Sized /\ Spans BY Start
<1>2. PICK l \in Known : ReadsAs(l) BY <1>1 DEF Holds
<1>3. ASSUME NEW low \in first_index..last_index + 1, NEW high \in low..last_index + 1
      PROVE  /\ Readable(low, high)
             /\ log_slice(low, high) = [k \in 1..high - low |-> log_term(low + k - 1)]
  <2>1. low \in Nat /\ high \in Nat /\ first_index <= low /\ low <= high /\ high <= last_index + 1
    BY <1>1 DEF Spans
  <2>2. Readable(low, high) BY <2>1, AllReadable
  <2>3. ASSUME NEW k \in 1..high - low
        PROVE  (IF low + k - 1 < offset
                THEN saved[low + k - 1 - dummy_index]
                ELSE fresh[low + k - offset]) = log_term(low + k - 1)
    <3>1. PICK i \in Nat : i = low + k - 1 BY <2>1
    <3>2. first_index <= i /\ i <= last_index /\ 0 < i /\ low + k - offset = i - offset + 1
      BY <1>1, <2>1, <3>1 DEF Spans, Sized
    <3>3. log_term(i) = l[i] BY <1>1, <3>2, <1>2, TermIs DEF Spans
    <3>4. CASE i < offset
      <4>1. image = None BY <1>1, <3>2, <3>4 DEF Spans, Sized
      <4>2. SavedAs(l, offset - 1) BY <1>2, <4>1 DEF ReadsAs, Behind
      <4>3. /\ i - dummy_index \in 1..(offset - 1) - dummy_index
            /\ dummy_index + (i - dummy_index) = i
        BY <1>1, <3>2, <3>4, <4>1 DEF Sized, Spans
      <4>4. saved[i - dummy_index] = log_term(i) BY <3>3, <4>2, <4>3 DEF SavedAs
      <4>5. /\ low + k - 1 - dummy_index = i - dummy_index /\ low + k - 1 < offset
            /\ log_term(low + k - 1) = log_term(i)
        BY <1>1, <2>1, <3>1, <3>4 DEF Sized
      <4> QED BY <4>4, <4>5
    <3>5. CASE ~(i < offset)
      <4>1. i - offset + 1 \in 1..size /\ offset + (i - offset + 1) - 1 = i
        BY <1>1, <3>2, <3>5 DEF Sized, Spans
      <4>2. fresh[low + k - offset] = log_term(i) BY <1>2, <3>2, <3>3, <4>1 DEF ReadsAs
      <4> QED BY <3>1, <3>5, <4>2
    <3> QED BY <3>4, <3>5
  <2>4. log_slice(low, high) = [k \in 1..high - low |-> log_term(low + k - 1)]
    BY <2>3 DEF log_slice, offset, saved, fresh, dummy_index
  <2> QED BY <2>2, <2>4
<1> QED BY <1>1, <1>3 DEF SlicesAgree, NeverFatal

-----------------------------------------------------------------------------
(* Raft's operations.  They leave MemoryStorage and the Ready alone. *)

\* What is read from MemoryStorage alone does not change while it does not.
LEMMA SameStorage ==
    ASSUME storage' = storage
    PROVE  /\ dummy_index' = dummy_index /\ dummy_term' = dummy_term /\ saved' = saved /\ kept' = kept
           /\ saved_index' = saved_index /\ storage_last' = storage_last
BY DEF dummy_index, dummy_term, saved, kept, saved_index, storage_last

\* What is read from Unstable alone does not change while it does not.
LEMMA SameUnstable ==
    ASSUME unstable' = unstable
    PROVE  /\ offset' = offset /\ fresh' = fresh /\ size' = size /\ image' = image /\ End' = End
           /\ image_index' = image_index /\ image_term' = image_term
BY DEF offset, fresh, size, image, image_index, image_term, End

\* What is read from the Ready alone does not change while it does not.
LEMMA SameReady ==
    ASSUME rd' = rd
    PROVE  /\ phase' = phase /\ rd_first' = rd_first /\ rd_entries' = rd_entries /\ rd_size' = rd_size
           /\ rd_image' = rd_image /\ rd_index' = rd_index /\ rd_term' = rd_term
           /\ rd_low' = rd_low /\ rd_cursor' = rd_cursor /\ Taken' = Taken
BY DEF phase, rd_first, rd_entries, rd_size, rd_image, rd_index, rd_term, rd_low, rd_cursor, Taken

\* The commit index moves up inside the log.
LEMMA CommitStep ==
    ASSUME StorageInv, committed' \in Nat, committed <= committed', committed' <= End,
           UNCHANGED <<unstable, storage, applied, rd, applied_index, fatal>>
    PROVE  StorageInv'
<1>1. Typed /\ ~fatal /\ Ordered /\ (phase # "none" => Held) /\ Staged /\ Holds /\ Sized
  BY Start
<1>2. /\ unstable' = unstable /\ storage' = storage /\ rd' = rd /\ applied' = applied
      /\ applied_index' = applied_index /\ fatal' = fatal
  OBVIOUS
<1>3. /\ offset' = offset /\ fresh' = fresh /\ size' = size /\ image' = image /\ End' = End
      /\ image_index' = image_index /\ image_term' = image_term
  BY <1>2, SameUnstable
<1>4. /\ dummy_index' = dummy_index /\ dummy_term' = dummy_term /\ saved' = saved /\ kept' = kept
      /\ saved_index' = saved_index /\ storage_last' = storage_last
  BY <1>2, SameStorage
<1>5. /\ phase' = phase /\ rd_first' = rd_first /\ rd_entries' = rd_entries /\ rd_size' = rd_size
      /\ rd_image' = rd_image /\ rd_index' = rd_index /\ rd_term' = rd_term
      /\ rd_low' = rd_low /\ rd_cursor' = rd_cursor /\ Taken' = Taken
  BY <1>2, SameReady
<1>6. Behind' = Behind /\ Matches' = Matches BY <1>3, <1>5 DEF Behind, Matches
<1>7. Typed' /\ ~fatal' BY <1>1, <1>2 DEF Typed
<1>8. Ordered' BY <1>1, <1>2, <1>3, <1>4, <1>5, <1>6 DEF Ordered, Sized
<1>9. phase' # "none" => Held' BY <1>1, <1>2, <1>3, <1>4, <1>5, <1>6 DEF Held, Sized
<1>10. Staged' BY <1>1, <1>2, <1>3, <1>4, <1>5, <1>6 DEF Staged
<1>11. Holds' BY <1>1, <1>2, <1>3, <1>4, <1>5, <1>6 DEF Holds, SavedAs, ReadsAs, TakenAs
<1> QED BY <1>7, <1>8, <1>9, <1>10, <1>11 DEF StorageInv

\* What truncate_and_append makes of Unstable when the first new entry has index
\* `after'
LEMMA TruncateIs ==
    ASSUME Typed, NEW leader \in Known, NEW after \in Nat, NEW last \in Nat,
           0 < after, after <= End + 1, after <= last, last <= Len(leader),
           unstable' = truncate_and_append(after, SubSeq(leader, after, last))
    PROVE  /\ unstable' \in [offset : Positive, entries : Seq(Positive), snapshot : Point]
           /\ image' = image /\ image_index' = image_index /\ image_term' = image_term
           /\ End' = last
           /\ \E o \in Nat, n \in Nat :
                 /\ offset' = o /\ o = (IF after < offset THEN after ELSE offset)
                 /\ size' = n /\ n = last - o + 1
                 /\ \A k \in 1..n :
                       fresh'[k] = IF o + k - 1 < after THEN fresh[k] ELSE leader[o + k - 1]
<1>1. Sized /\ fresh \in Seq(Positive) /\ size = Len(fresh) BY Parts
<1>2. leader \in Seq(Positive) /\ Len(leader) \in Nat BY KnownType
<1> DEFINE new == SubSeq(leader, after, last)
<1>3. /\ new \in Seq(Positive) /\ Len(new) = last - after + 1
      /\ \A k \in 1..last - after + 1 : new[k] = leader[after + k - 1]
  BY <1>2
<1> HIDE DEF new
<1>4. unstable \in [offset : Positive, entries : Seq(Positive), snapshot : Point] BY DEF Typed
<1>5. CASE after <= offset
  <2>1. unstable' = [unstable EXCEPT !.offset = after, !.entries = new]
    <3>1. CASE after # offset + size
      BY <1>5, <3>1 DEF truncate_and_append, new, offset, fresh, size
    <3>2. CASE after = offset + size
      <4>1. after = offset /\ size = 0 BY <1>1, <1>5, <3>2 DEF Sized
      <4>2. SubSeq(fresh, 1, after - offset) = <<>>
        <5>1. after - offset = 0 BY <1>1, <4>1 DEF Sized
        <5> QED BY <5>1
      <4>3. <<>> \o new = new BY <1>3
      <4>4. unstable' = [unstable EXCEPT !.entries = new]
        BY <3>2, <4>2, <4>3 DEF truncate_and_append, new, offset, fresh, size
      <4>5. unstable.offset = after BY <4>1 DEF offset
      <4> QED BY <1>4, <4>4, <4>5
    <3> QED BY <3>1, <3>2
  <2>2. after \in Positive BY DEF Positive
  <2>3. unstable' \in [offset : Positive, entries : Seq(Positive), snapshot : Point]
    BY <1>3, <1>4, <2>1, <2>2
  <2>4. /\ offset' = after /\ fresh' = new
        /\ image' = image /\ image_index' = image_index /\ image_term' = image_term
    BY <1>4, <2>1 DEF offset, fresh, image, image_index, image_term
  <2>5. PICK n \in Nat : n = last - after + 1 OBVIOUS
  <2>6. size' = n BY <1>3, <2>4, <2>5 DEF size, fresh
  <2>7. End' = last BY <2>4, <2>5, <2>6 DEF End
  <2>8. after = IF after < offset THEN after ELSE offset BY <1>1, <1>5 DEF Sized
  <2>9. \A k \in 1..n : fresh'[k] = leader[after + k - 1] /\ ~(after + k - 1 < after)
    BY <1>3, <2>4, <2>5
  <2> QED BY <2>3, <2>4, <2>5, <2>6, <2>7, <2>8, <2>9
<1>6. CASE ~(after <= offset)
  <2> DEFINE old == SubSeq(fresh, 1, after - offset)
             all == old \o new
  <2>1. unstable' = [unstable EXCEPT !.entries = all]
    BY <1>6 DEF truncate_and_append, new, offset, fresh
  <2>2. after - offset \in Nat /\ after - offset <= size BY <1>1, <1>6 DEF Sized
  <2>3. /\ old \in Seq(Positive) /\ Len(old) = after - offset
        /\ \A k \in 1..after - offset : old[k] = fresh[k]
    BY <1>1, <2>2
  <2> HIDE DEF old
  <2>4. /\ all \in Seq(Positive) /\ Len(all) = Len(old) + Len(new)
        /\ \A k \in 1..Len(old) + Len(new) :
              all[k] = IF k <= Len(old) THEN old[k] ELSE new[k - Len(old)]
    BY <1>3, <2>3, ConcatProperties
  <2> HIDE DEF all
  <2>5. unstable' \in [offset : Positive, entries : Seq(Positive), snapshot : Point]
    BY <1>4, <2>1, <2>4
  <2>6. /\ offset' = offset /\ fresh' = all
        /\ image' = image /\ image_index' = image_index /\ image_term' = image_term
    BY <1>4, <2>1 DEF offset, fresh, image, image_index, image_term
  <2>7. PICK n \in Nat : n = last - offset + 1 BY <1>1, <1>6 DEF Sized
  <2>8. size' = n
    <3>1. Len(all) = (after - offset) + (last - after + 1) BY <1>3, <2>3, <2>4
    <3>2. size' = Len(all) BY <2>6 DEF size, fresh
    <3> QED BY <1>1, <2>7, <3>1, <3>2 DEF Sized
  <2>9. End' = last BY <1>1, <2>6, <2>7, <2>8 DEF End, Sized
  <2>10. ASSUME NEW k \in 1..n
         PROVE  fresh'[k] = IF offset + k - 1 < after THEN fresh[k] ELSE leader[offset + k - 1]
    <3>0. k \in 1..Len(old) + Len(new) /\ Len(old) = after - offset
      BY <1>1, <1>3, <2>3, <2>7 DEF Sized
    <3>1. CASE k <= after - offset
      <4>1. k \in 1..after - offset /\ offset + k - 1 < after BY <1>1, <3>1 DEF Sized
      <4>2. all[k] = old[k] BY <2>4, <3>0, <3>1
      <4> QED BY <2>3, <2>6, <4>1, <4>2
    <3>2. CASE ~(k <= after - offset)
      <4>1. /\ k - (after - offset) \in 1..last - after + 1
            /\ after + (k - (after - offset)) - 1 = offset + k - 1
            /\ ~(offset + k - 1 < after)
        BY <1>1, <2>7, <3>2 DEF Sized
      <4>2. all[k] = new[k - (after - offset)] BY <2>4, <3>0, <3>2
      <4> QED BY <1>3, <2>6, <4>1, <4>2
    <3> QED BY <3>1, <3>2
  <2>11. offset \in Nat /\ offset = (IF after < offset THEN after ELSE offset)
    BY <1>1, <1>6 DEF Sized
  <2> QED BY <2>5, <2>6, <2>7, <2>8, <2>9, <2>10, <2>11
<1> QED BY <1>5, <1>6

\* A leader that has Raft's term at an index has all that Raft reads up to it.
LEMMA AgreesBelow ==
    ASSUME StorageInv, NEW l \in Known, ReadsAs(l), NEW leader \in Known, NEW at \in Nat,
           first_index - 1 <= at, at <= last_index, at <= Len(leader),
           at > 0 => log_term(at) = leader[at], NEW j \in 1..at
    PROVE  j <= Len(l) /\ l[j] = leader[j]
<1>1. at > 0 /\ Len(l) \in Nat /\ Len(leader) \in Nat BY KnownType
<1>2. at <= Len(l) /\ log_term(at) = l[at] BY <1>1, TermIs
<1>3. l[j] = leader[j] BY <1>1, <1>2, LogsMatch
<1> QED BY <1>1, <1>2, <1>3

\* Entries after..last of a leader take the place of what is not committed.
Replaces(leader, after, last) ==
    /\ committed < after /\ after <= End + 1 /\ after <= last /\ last <= Len(leader)
    /\ after - 1 > 0 => log_term(after - 1) = leader[after - 1]
    /\ unstable' = truncate_and_append(after, SubSeq(leader, after, last))
    /\ committed' \in Nat /\ committed <= committed' /\ committed' <= last
    /\ UNCHANGED <<storage, applied, rd, applied_index, fatal>>

\* truncate_and_append, for entries of a leader's log that agree with what is committed.
LEMMA TruncateStep ==
    ASSUME StorageInv, NEW leader \in Known, NEW after \in Nat, NEW last \in Nat,
           Replaces(leader, after, last)
    PROVE  /\ StorageInv' /\ ReadsAs(leader)' /\ End' = last
           /\ first_index' = first_index /\ image' = image
<1>1. /\ Typed /\ ~fatal /\ Ordered /\ (phase # "none" => Held) /\ Staged /\ Holds
      /\ Sized /\ Spans
  BY Start
<1>2. storage' = storage /\ rd' = rd /\ applied' = applied
      /\ applied_index' = applied_index /\ fatal' = fatal
  BY DEF Replaces
<1>3. /\ dummy_index' = dummy_index /\ dummy_term' = dummy_term /\ saved' = saved /\ kept' = kept
      /\ saved_index' = saved_index /\ storage_last' = storage_last
  BY <1>2, SameStorage
<1>4. /\ phase' = phase /\ rd_first' = rd_first /\ rd_entries' = rd_entries /\ rd_size' = rd_size
      /\ rd_image' = rd_image /\ rd_index' = rd_index /\ rd_term' = rd_term
      /\ rd_low' = rd_low /\ rd_cursor' = rd_cursor /\ Taken' = Taken
  BY <1>2, SameReady
<1>5. /\ committed < after /\ 0 < after /\ after <= End + 1 /\ after <= last
      /\ committed' \in Nat /\ committed <= committed' /\ committed' <= last
  BY <1>1 DEF Replaces, Sized
<1>6. Len(leader) \in Nat /\ last <= Len(leader) BY KnownType DEF Replaces
<1>7. /\ unstable' \in [offset : Positive, entries : Seq(Positive), snapshot : Point]
      /\ image' = image /\ image_index' = image_index /\ image_term' = image_term
      /\ End' = last
      /\ \E o \in Nat, n \in Nat :
            /\ offset' = o /\ o = (IF after < offset THEN after ELSE offset)
            /\ size' = n /\ n = last - o + 1
            /\ \A k \in 1..n :
                  fresh'[k] = IF o + k - 1 < after THEN fresh[k] ELSE leader[o + k - 1]
  BY <1>1, <1>5, TruncateIs, ZenonT(60) DEF Replaces
<1>8. PICK o \in Nat, n \in Nat :
        /\ offset' = o /\ o = (IF after < offset THEN after ELSE offset)
        /\ size' = n /\ n = last - o + 1
        /\ \A k \in 1..n :
              fresh'[k] = IF o + k - 1 < after THEN fresh[k] ELSE leader[o + k - 1]
  BY <1>7
<1>9. /\ image' = image /\ image_index' = image_index /\ image_term' = image_term
      /\ End' = last /\ offset' = o /\ size' = n /\ n > 0
      /\ 1 <= o /\ o <= offset /\ o <= after /\ (o = offset \/ o = after)
      /\ image # None => o = offset
  BY <1>1, <1>5, <1>7, <1>8 DEF Ordered, Sized
<1>10. Behind' = Behind BY <1>4, <1>9 DEF Behind
<1>11. dummy_index < after /\ applied_index < after BY <1>1, <1>5 DEF Ordered, Sized
<1>12. phase # "none" => rd_cursor < after BY <1>1, <1>5 DEF Held, Sized
<1>13. Typed' /\ ~fatal' BY <1>1, <1>2, <1>5, <1>7 DEF Typed
<1>14. Ordered' BY <1>1, <1>2, <1>3, <1>4, <1>5, <1>9, <1>10, <1>11 DEF Ordered, Sized
<1>15. phase' # "none" => Held'
  BY <1>1, <1>2, <1>3, <1>4, <1>5, <1>9, <1>10, <1>11, <1>12 DEF Held, Sized
<1>16. Staged' BY <1>1, <1>2, <1>3, <1>4, <1>9, <1>10 DEF Staged
<1>17. PICK m \in Known : SavedAs(m, storage_last) BY <1>1 DEF Holds
<1>18. PICK l \in Known : ReadsAs(l) /\ (phase # "none" => \E r \in Known : TakenAs(l, r))
  BY <1>1 DEF Holds
<1>19. \A j \in 1..after - 1 : j <= Len(l) /\ l[j] = leader[j]
  <2>1. /\ after - 1 \in Nat /\ first_index - 1 <= after - 1 /\ after - 1 <= last_index
        /\ after - 1 <= Len(leader)
    BY <1>1, <1>5, <1>6 DEF Spans, Sized
  <2>2. after - 1 > 0 => log_term(after - 1) = leader[after - 1] BY DEF Replaces
  <2> QED BY <1>18, <2>1, <2>2, AgreesBelow
<1>20. SavedAs(m, storage_last)' BY <1>3, <1>17 DEF SavedAs
<1>21. ReadsAs(leader)'
  <2>1. ASSUME image # None
        PROVE  image_term = leader[image_index]
    <3>1. image_index \in 1..after - 1 BY <1>1, <1>5, <2>1 DEF Ordered, Sized
    <3> QED BY <1>18, <1>19, <2>1, <3>1 DEF ReadsAs
  <2>2. ASSUME NEW k \in 1..n
        PROVE  fresh'[k] = leader[o + k - 1]
    <3>1. CASE o + k - 1 < after
      <4>1. o = offset /\ offset + k - 1 \in 1..after - 1 /\ k \in 1..size
        BY <1>1, <1>5, <1>9, <3>1 DEF Sized
      <4>2. fresh[k] = l[offset + k - 1] BY <1>18, <4>1 DEF ReadsAs
      <4> QED BY <1>8, <1>19, <3>1, <4>1, <4>2
    <3>2. CASE ~(o + k - 1 < after) BY <1>8, <3>2
    <3> QED BY <3>1, <3>2
  <2>3. ASSUME ~Behind
        PROVE  SavedAs(leader, offset - 1)'
    <3>1. SavedAs(l, offset - 1) BY <1>18, <2>3 DEF ReadsAs
    <3>2. offset - 1 <= storage_last BY <3>1 DEF SavedAs
    <3>3. /\ o - 1 <= Len(leader) /\ o - 1 <= storage_last /\ dummy_index <= Len(leader)
      BY <1>1, <1>5, <1>6, <1>9, <1>11, <3>2 DEF Sized
    <3>4. dummy_index > 0 => dummy_term = leader[dummy_index]
      <4>1. dummy_index > 0 => dummy_index \in 1..after - 1 BY <1>1, <1>11 DEF Sized
      <4> QED BY <1>19, <3>1, <4>1 DEF SavedAs
    <3>5. ASSUME NEW k \in 1..(o - 1) - dummy_index
          PROVE  saved[k] = leader[dummy_index + k]
      <4>1. k \in 1..(offset - 1) - dummy_index /\ dummy_index + k \in 1..after - 1
        BY <1>1, <1>9 DEF Sized
      <4> QED BY <1>19, <3>1, <4>1 DEF SavedAs
    <3> QED BY <1>3, <1>9, <3>3, <3>4, <3>5 DEF SavedAs
  <2> QED BY <1>6, <1>9, <1>10, <2>1, <2>2, <2>3 DEF ReadsAs
<1>22. ASSUME phase' # "none"
       PROVE  \E r \in Known : TakenAs(leader, r)'
  <2>1. PICK r \in Known : TakenAs(l, r) BY <1>4, <1>18, <1>22
  <2>2. rd_cursor < after BY <1>4, <1>12, <1>22
  <2>3. applied_index <= Len(leader) /\ rd_cursor <= Len(leader)
    BY <1>1, <1>5, <1>6, <1>11, <2>2 DEF Sized
  <2>4. ASSUME NEW k \in 1..Most(applied_index, rd_cursor)
        PROVE  leader[k] = r[k]
    <3>1. k \in 1..after - 1 BY <1>1, <1>11, <2>2 DEF Most, Sized
    <3> QED BY <1>19, <2>1, <3>1 DEF TakenAs
  <2>5. TakenAs(leader, r)'
    BY <1>2, <1>3, <1>4, <1>9, <1>10, <2>1, <2>3, <2>4 DEF TakenAs, SavedAs
  <2> QED BY <2>5
<1>23. Holds' BY <1>20, <1>21, <1>22 DEF Holds
<1>24. first_index' = first_index
  BY <1>3, <1>9 DEF first_index, image, image_index, dummy_index
<1> QED BY <1>9, <1>13, <1>14, <1>15, <1>16, <1>21, <1>23, <1>24 DEF StorageInv

\* A set of numbers has a least one.
LEMMA LeastOf ==
    ASSUME NEW S \in SUBSET Nat, S # {}
    PROVE  LET n == CHOOSE k \in S : \A j \in S : k <= j
           IN  n \in S /\ \A j \in S : n <= j
<1>1. \E x \in S : \A y \in S : <<y, x>> \notin OpToRel(<, Nat)
  BY NatLessThanWellFounded, WFMin
<1>2. \E x \in S : \A y \in S : x <= y
  <2>1. PICK x \in S : \A y \in S : <<y, x>> \notin OpToRel(<, Nat) BY <1>1
  <2>2. ASSUME NEW y \in S
        PROVE  x <= y
    <3>1. <<y, x>> \notin OpToRel(<, Nat) BY <2>1
    <3>2. x \in Nat /\ y \in Nat OBVIOUS
    <3>3. ~(y < x) BY <3>1, <3>2 DEF OpToRel
    <3> QED BY <3>2, <3>3
  <2> QED BY <2>2
<1> QED BY <1>2

\* maybe_append finds nothing new, or replaces all from the first conflict on.
LEMMA AppendCases ==
    ASSUME StorageInv, NEW leader \in Logs, NEW last \in 1..Len(leader), NEW index \in 0..last,
           NEW commit \in 0..last, MaybeAppend(leader, index, last, commit)
    PROVE  /\ leader \in Known /\ committed <= index /\ index <= last_index
           /\ index > 0 => log_term(index) = leader[index]
           /\ \/ /\ last <= End
                 /\ \A k \in index + 1..last : log_term(k) = leader[k]
                 /\ committed' \in Nat /\ committed <= committed' /\ committed' <= last
                 /\ UNCHANGED <<unstable, storage, applied, rd, applied_index, fatal>>
              \/ \E after \in Nat : /\ Replaces(leader, after, last) /\ log_term(after) # leader[after]
<1> DEFINE entries == SubSeq(leader, index + 1, last)
           news == Conflicts(index, entries)
           n == CHOOSE k \in news : \A j \in news : k <= j
           to == Least(commit, last)
<1>1. leader \in Known BY DEF Known
<1>2. leader \in Seq(Positive) /\ Len(leader) \in Nat /\ \A k \in 1..Len(leader) : leader[k] \in Positive
  BY <1>1, KnownType
<1>3. last \in Nat /\ index \in Nat /\ commit \in Nat /\ index <= last /\ commit <= last
      /\ last <= Len(leader) /\ 0 < last
  BY <1>2
<1>4. Len(entries) = last - index /\ \A k \in 1..last - index : entries[k] = leader[index + k]
  BY <1>2, <1>3
<1>5. news = {k \in 1..last - index : log_term(index + k) # leader[index + k]}
  BY <1>4 DEF Conflicts
<1>6. /\ committed <= index /\ index <= last_index
      /\ index > 0 => log_term(index) = leader[index]
      /\ unstable' = IF news = {} THEN unstable
                     ELSE truncate_and_append(index + n, SubSeq(entries, n, Len(entries)))
      /\ committed' = Most(committed, to)
      /\ UNCHANGED <<storage, applied, rd, applied_index, fatal>>
  BY DEF MaybeAppend
<1>7. Sized /\ Spans BY Start
<1>8. committed' \in Nat /\ committed <= committed' /\ committed' <= last
  BY <1>3, <1>6, <1>7 DEF Most, Least, Sized
<1> HIDE DEF entries, news, n, to
<1>9. CASE news = {}
  <2>1. \A k \in index + 1..last : log_term(k) = leader[k]
    <3>1. ASSUME NEW k \in index + 1..last
          PROVE  log_term(k) = leader[k]
      <4>1. k - index \in 1..last - index /\ index + (k - index) = k BY <1>3
      <4> QED BY <1>5, <1>9, <4>1
    <3> QED BY <3>1
  <2>2. last <= End
    <3>1. CASE index = last BY <1>6, <1>7, <3>1 DEF Spans
    <3>2. CASE index # last
      <4>1. log_term(last) = leader[last] BY <1>3, <2>1, <3>2
      <4>2. leader[last] # 0 BY <1>2, <1>3 DEF Positive
      <4>3. ~(last > last_index) BY <1>3, <4>1, <4>2, NoTermBehind
      <4> QED BY <1>3, <1>7, <4>3 DEF Spans, Sized
    <3> QED BY <3>1, <3>2
  <2> QED BY <1>1, <1>6, <1>8, <1>9, <2>1, <2>2
<1>10. CASE news # {}
  <2>1. n \in news /\ \A j \in news : n <= j
    <3>1. news \in SUBSET Nat BY <1>3, <1>5
    <3> QED BY <1>10, <3>1, LeastOf DEF n
  <2>2. n \in 1..last - index BY <1>5, <2>1
  <2>3. PICK after \in Nat : after = index + n BY <1>3, <2>2
  <2>4. /\ committed < after /\ after <= last /\ index <= after - 1 /\ after - 1 \in Nat
        /\ 0 < after
    BY <1>3, <1>6, <1>7, <2>2, <2>3 DEF Sized
  <2>5. \A k \in index + 1..after - 1 : log_term(k) = leader[k]
    <3>1. ASSUME NEW k \in index + 1..after - 1
          PROVE  log_term(k) = leader[k]
      <4>1. k - index \in 1..last - index /\ index + (k - index) = k /\ ~(n <= k - index)
        BY <1>3, <2>2, <2>3
      <4> QED BY <1>5, <2>1, <4>1
    <3> QED BY <3>1
  <2>6. after - 1 > 0 => log_term(after - 1) = leader[after - 1]
    <3>1. CASE after - 1 = index BY <1>6, <3>1
    <3>2. CASE after - 1 # index
      <4>1. after - 1 \in index + 1..after - 1 BY <1>3, <2>4, <3>2
      <4> QED BY <2>5, <4>1
    <3> QED BY <3>1, <3>2
  <2>7. after <= End + 1
    <3>1. CASE after - 1 = index BY <1>6, <1>7, <2>4, <3>1 DEF Spans, Sized
    <3>2. CASE after - 1 # index
      <4>1. after - 1 > 0 /\ after - 1 \in 1..Len(leader) BY <1>2, <1>3, <2>4, <3>2
      <4>2. leader[after - 1] # 0 BY <1>2, <4>1 DEF Positive
      <4>3. ~(after - 1 > last_index) BY <2>4, <2>6, <4>1, <4>2, NoTermBehind
      <4> QED BY <1>7, <2>4, <4>3 DEF Spans, Sized
    <3> QED BY <3>1, <3>2
  <2>8. SubSeq(entries, n, Len(entries)) = SubSeq(leader, after, last)
    <3>1. entries \in Seq(Positive) BY <1>2, <1>3 DEF entries
    <3>2. /\ SubSeq(entries, n, last - index) \in Seq(Positive)
          /\ Len(SubSeq(entries, n, last - index)) = last - index - n + 1
          /\ \A k \in 1..last - index - n + 1 : SubSeq(entries, n, last - index)[k] = entries[n + k - 1]
      BY <1>3, <1>4, <2>2, <3>1
    <3>3. /\ SubSeq(leader, after, last) \in Seq(Positive)
          /\ Len(SubSeq(leader, after, last)) = last - after + 1
          /\ \A k \in 1..last - after + 1 : SubSeq(leader, after, last)[k] = leader[after + k - 1]
      BY <1>2, <1>3, <2>4
    <3>4. last - index - n + 1 = last - after + 1 BY <1>3, <2>2, <2>3
    <3>5. \A k \in 1..last - after + 1 : entries[n + k - 1] = leader[after + k - 1]
      <4>1. ASSUME NEW k \in 1..last - after + 1
            PROVE  entries[n + k - 1] = leader[after + k - 1]
        <5>1. n + k - 1 \in 1..last - index /\ index + (n + k - 1) = after + k - 1
          BY <1>3, <2>2, <2>3
        <5> QED BY <1>4, <5>1
      <4> QED BY <4>1
    <3> DEFINE a == SubSeq(entries, n, last - index)
               b == SubSeq(leader, after, last)
    <3> HIDE DEF a, b
    <3>6. Len(a) = Len(b) /\ \A k \in 1..Len(a) : a[k] = b[k]
      BY <3>2, <3>3, <3>4, <3>5 DEF a, b
    <3>7. a \in Seq(Positive) /\ b \in Seq(Positive) BY <3>2, <3>3 DEF a, b
    <3>8. a = b BY <3>6, <3>7, SeqEqual
    <3> QED BY <1>4, <3>8 DEF a, b
  <2>9. log_term(after) # leader[after] BY <1>5, <2>1, <2>3
  <2>10. Replaces(leader, after, last)
    <3>1. unstable' = truncate_and_append(after, SubSeq(leader, after, last))
      BY <1>6, <1>10, <2>3, <2>8
    <3> QED BY <1>3, <1>6, <1>8, <2>4, <2>6, <2>7, <3>1 DEF Replaces
  <2> QED BY <1>1, <1>6, <2>9, <2>10
<1> QED BY <1>9, <1>10

\* Raft's log gives way to a leader's snapshot.
LEMMA RestoreStep ==
    ASSUME StorageInv, NEW leader \in Logs, NEW index \in 1..Len(leader), Restore(leader, index)
    PROVE  /\ StorageInv' /\ ReadsAs(leader)' /\ leader \in Known
           /\ End' = index /\ first_index' = index + 1 /\ committed' = index
           /\ committed < index
           /\ log_term(committed) = IF committed = 0 THEN 0 ELSE leader[committed]
<1>1. Typed /\ ~fatal /\ Ordered /\ Staged /\ Holds /\ Sized /\ Spans BY Start
<1>2. leader \in Known BY DEF Known
<1>3. Len(leader) \in Nat /\ index \in Nat /\ 0 < index /\ index <= Len(leader)
  BY <1>2, KnownType
<1>4. leader[index] \in Nat BY <1>2, <1>3, KnownType DEF Positive
<1>5. /\ phase = "none" /\ index > committed
      /\ log_term(committed) = (IF committed = 0 THEN 0 ELSE leader[committed])
      /\ unstable' = [offset |-> index + 1, entries |-> <<>>, snapshot |-> At(index, leader[index])]
      /\ committed' = index
      /\ storage' = storage /\ rd' = rd /\ applied' = applied
      /\ applied_index' = applied_index /\ fatal' = fatal
  BY DEF Restore, phase
<1>6. /\ dummy_index' = dummy_index /\ dummy_term' = dummy_term /\ saved' = saved /\ kept' = kept
      /\ saved_index' = saved_index /\ storage_last' = storage_last
  BY <1>5, SameStorage
<1>7. phase' = "none" BY <1>5, SameReady
<1>8. PICK o \in Nat : o = index + 1 BY <1>3
<1>9. /\ offset' = o /\ fresh' = <<>> /\ image' = At(index, leader[index])
      /\ image_index' = index /\ image_term' = leader[index] /\ size' = 0
  BY <1>5, <1>8 DEF offset, fresh, size, image, image_index, image_term, At
<1>10. image' # None /\ Behind'
  <2>1. image' # None BY <1>3, <1>9 DEF None, At
  <2> QED BY <1>7, <2>1 DEF Behind
<1>11. End' = index BY <1>3, <1>8, <1>9 DEF End
<1>12. Typed'
  <2>1. unstable' \in [offset : Positive, entries : Seq(Positive), snapshot : Point]
    <3>1. At(index, leader[index]) \in Point BY <1>3, <1>4 DEF Point, At
    <3>2. index + 1 \in Positive BY <1>3 DEF Positive
    <3>3. <<>> \in Seq(Positive) OBVIOUS
    <3> QED BY <1>5, <3>1, <3>2, <3>3
  <2> QED BY <1>1, <1>3, <1>5, <2>1 DEF Typed
<1>13. Ordered'
  BY <1>1, <1>3, <1>5, <1>6, <1>7, <1>8, <1>9, <1>10, <1>11 DEF Ordered, Sized
<1>14. Staged' BY <1>7 DEF Staged
<1>15. PICK m \in Known : SavedAs(m, storage_last) BY <1>1 DEF Holds
<1>16. SavedAs(m, storage_last)' BY <1>6, <1>15 DEF SavedAs
<1>17. ReadsAs(leader)' BY <1>3, <1>9, <1>10, <1>11 DEF ReadsAs
<1>18. Holds' BY <1>2, <1>7, <1>16, <1>17 DEF Holds
<1>19. first_index' = index + 1 BY <1>9, <1>10 DEF first_index, image, image_index
<1> QED
  BY <1>1, <1>2, <1>5, <1>7, <1>11, <1>12, <1>13, <1>14, <1>17, <1>18, <1>19 DEF StorageInv

-----------------------------------------------------------------------------
(* The application's work on a Ready.  It leaves Raft's part alone, except *)
(* that advance tells it what is saved.                                    *)

\* What the Ready will hold
LEMMA ReadyIs ==
    ASSUME StorageInv, TakeReady
    PROVE  /\ rd' \in [phase : Phase, first : Nat, entries : Seq(Positive), snapshot : Point,
                        low : Nat, cursor : Nat]
           /\ phase = "none" /\ phase' = "ready" /\ fatal' = FALSE
           /\ rd_first' = offset /\ rd_entries' = fresh /\ rd_size' = size
           /\ rd_image' = image /\ rd_index' = image_index /\ rd_term' = image_term
           /\ \E low \in Nat, cursor \in Nat :
                 /\ rd_low' = low /\ rd_cursor' = cursor
                 /\ cursor <= committed
                 /\ cursor > 0 =>
                       /\ low <= cursor
                       /\ low = IF image = None THEN applied + 1 ELSE image_index + 1
<1>1. Typed /\ ~fatal /\ Ordered /\ Sized /\ Spans BY Start
<1>2. phase = "none" /\ applied = applied_index
  BY <1>1 DEF TakeReady, phase, Ordered
<1>3. PICK o \in Nat : /\ o = Offset
                       /\ o = IF image = None THEN applied + 1 ELSE image_index + 1
  <2>1. image = None => dummy_index <= applied BY <1>1, <1>2 DEF Ordered, Sized
  <2>2. image # None => applied < image_index /\ offset = image_index + 1
    BY <1>1, <1>2 DEF Ordered, Behind
  <2>3. Most(applied + 1, first_index) = IF image = None THEN applied + 1 ELSE image_index + 1
    BY <1>1, <2>1, <2>2 DEF Most, Sized, Spans
  <2>4. Offset = IF image = None THEN applied + 1 ELSE image_index + 1 BY <2>3 DEF Offset
  <2> QED BY <1>1, <2>4 DEF Sized
<1>4. first_index <= o /\ 1 <= o BY <1>1, <1>2, <1>3 DEF Ordered, Sized, Spans
<1>5. PICK h \in Nat : /\ h = High /\ h <= committed + 1
                       /\ has_next_entries => o < h
  <2>1. MaxNext \in Nat /\ 0 < MaxNext BY CountAssumption
  <2>2. High = Least(committed + 1, o + MaxNext) BY <1>3 DEF High
  <2>3. has_next_entries => committed + 1 > o BY <1>3 DEF has_next_entries
  <2> QED BY <1>1, <2>1, <2>2, <2>3 DEF Least, Sized
<1>6. fatal' = FALSE
  <2>1. has_next_entries => Readable(o, h)
    <3>1. has_next_entries => o <= h /\ h <= last_index + 1 BY <1>1, <1>5 DEF Spans, Sized
    <3> QED BY <1>4, <3>1, AllReadable
  <2>2. fatal' = (has_next_entries /\ ~Readable(o, h)) BY <1>3, <1>5 DEF TakeReady
  <2> QED BY <2>1, <2>2
<1>7. PICK low \in Nat, cursor \in Nat :
        /\ low = (IF has_next_entries THEN o ELSE 0)
        /\ cursor = (IF has_next_entries THEN h - 1 ELSE 0)
  BY <1>5
<1>8. rd' = [phase |-> "ready", first |-> offset, entries |-> fresh, snapshot |-> image,
             low |-> low, cursor |-> cursor]
  BY <1>3, <1>5, <1>7 DEF TakeReady, offset, fresh, image
<1>9. fresh \in Seq(Positive) /\ image \in Point /\ offset \in Nat BY <1>1, Parts DEF Sized
<1>10. rd' \in [phase : Phase, first : Nat, entries : Seq(Positive), snapshot : Point,
                low : Nat, cursor : Nat]
  BY <1>8, <1>9 DEF Phase
<1>11. /\ phase' = "ready" /\ rd_first' = offset /\ rd_entries' = fresh /\ rd_size' = size
       /\ rd_image' = image /\ rd_index' = image_index /\ rd_term' = image_term
       /\ rd_low' = low /\ rd_cursor' = cursor
  BY <1>8 DEF phase, rd_first, rd_entries, rd_size, rd_image, rd_index, rd_term, rd_low,
              rd_cursor, size, fresh, image, image_index, image_term
<1>12. cursor <= committed /\ (cursor > 0 => low <= cursor /\ low = o)
  BY <1>1, <1>5, <1>7 DEF Sized
<1> QED BY <1>2, <1>3, <1>6, <1>10, <1>11, <1>12

\* The Ready holds what Raft reads, and no more is applied than is committed.
LEMMA TakeReadyStep ==
    ASSUME StorageInv, TakeReady
    PROVE  StorageInv' /\ \E l \in Known : ReadsAs(l) /\ ReadsAs(l)'
<1>1. Typed /\ Ordered /\ Staged /\ Holds /\ Sized /\ Spans BY Start
<1>2. /\ rd' \in [phase : Phase, first : Nat, entries : Seq(Positive), snapshot : Point,
                   low : Nat, cursor : Nat]
      /\ phase = "none" /\ phase' = "ready" /\ fatal' = FALSE
      /\ rd_first' = offset /\ rd_entries' = fresh /\ rd_size' = size
      /\ rd_image' = image /\ rd_index' = image_index /\ rd_term' = image_term
  BY ReadyIs
<1>3. PICK low \in Nat, cursor \in Nat :
        /\ rd_low' = low /\ rd_cursor' = cursor /\ cursor <= committed
        /\ cursor > 0 =>
              low <= cursor /\ low = (IF image = None THEN applied + 1 ELSE image_index + 1)
  BY ReadyIs
<1>4. /\ unstable' = unstable /\ storage' = storage /\ committed' = committed
      /\ applied' = applied /\ applied_index' = applied_index
  BY DEF TakeReady
<1>5. /\ offset' = offset /\ fresh' = fresh /\ size' = size /\ image' = image /\ End' = End
      /\ image_index' = image_index /\ image_term' = image_term
  BY <1>4, SameUnstable
<1>6. /\ dummy_index' = dummy_index /\ dummy_term' = dummy_term /\ saved' = saved /\ kept' = kept
      /\ saved_index' = saved_index /\ storage_last' = storage_last
  BY <1>4, SameStorage
<1>7. Taken' = End BY <1>2 DEF Taken, End
<1>8. Behind' = Behind BY <1>2, <1>5 DEF Behind
<1>9. size > 0 => Matches'
  <2>1. End - offset + 1 = size BY <1>1 DEF Sized
  <2>2. size > 0 => offset <= End BY <1>1 DEF Sized
  <2>3. fresh[End - offset + 1] = fresh[size] BY <2>1
  <2>4. /\ rd_size' = size /\ offset' = offset /\ Taken' = End /\ End' = End /\ fresh' = fresh
        /\ rd_entries' = fresh
    BY <1>2, <1>5, <1>7
  <2>5. End <= End BY <1>1 DEF Sized
  <2> QED BY <2>2, <2>3, <2>4, <2>5 DEF Matches
<1>10. Typed' /\ ~fatal' BY <1>1, <1>2, <1>4 DEF Typed
<1>11. Ordered' BY <1>1, <1>2, <1>4, <1>5, <1>6, <1>8 DEF Ordered
<1>12. cursor <= End /\ applied_index <= End BY <1>1, <1>3 DEF Ordered, Sized
<1>13. Held'
  <2>1. image # None => offset = image_index + 1 /\ applied < image_index
    BY <1>1, <1>2 DEF Ordered, Behind, Sized
  <2>2. offset <= offset /\ (size > 0 <=> ~(size = 0)) BY <1>1 DEF Sized
  <2> QED BY <1>2, <1>3, <1>4, <1>5, <1>6, <1>7, <1>9, <1>12, <2>1, <2>2 DEF Held
<1>14. Staged'
  <2>1. size > 0 => dummy_index < End BY <1>1, <1>2 DEF Ordered
  <2>2. ~Behind => offset <= storage_last + 1 /\ (size = 0 => offset = storage_last + 1)
    BY <1>1 DEF Spans, Ordered
  <2> QED BY <1>2, <1>5, <1>6, <1>7, <1>8, <2>1, <2>2 DEF Staged
<1>15. PICK m \in Known : SavedAs(m, storage_last) BY <1>1 DEF Holds
<1>16. PICK l \in Known : ReadsAs(l) BY <1>1 DEF Holds
<1>17. SavedAs(m, storage_last)' BY <1>6, <1>15 DEF SavedAs
<1>18. ReadsAs(l)' BY <1>5, <1>6, <1>8, <1>16 DEF ReadsAs, SavedAs
<1>19. TakenAs(l, l)'
  <2>1. Len(l) \in Nat /\ End <= Len(l) BY <1>16, KnownType DEF ReadsAs
  <2>2. applied_index <= Len(l) /\ cursor <= Len(l) BY <1>1, <1>12, <2>1 DEF Sized
  <2> QED BY <1>2, <1>3, <1>4, <1>5, <1>6, <1>7, <1>8, <1>16, <2>1, <2>2
          DEF TakenAs, ReadsAs, SavedAs
<1>20. Holds' BY <1>17, <1>18, <1>19 DEF Holds
<1> QED BY <1>2, <1>10, <1>11, <1>13, <1>14, <1>16, <1>18, <1>20 DEF StorageInv

\* The phase of the Ready moves on, the rest of it stays.
LEMMA NextPhase ==
    ASSUME Typed, NEW p \in Phase, rd' = [rd EXCEPT !.phase = p]
    PROVE  /\ rd' \in [phase : Phase, first : Nat, entries : Seq(Positive), snapshot : Point,
                        low : Nat, cursor : Nat]
           /\ phase' = p /\ rd_first' = rd_first /\ rd_entries' = rd_entries
           /\ rd_size' = rd_size /\ rd_image' = rd_image /\ rd_index' = rd_index
           /\ rd_term' = rd_term /\ rd_low' = rd_low /\ rd_cursor' = rd_cursor /\ Taken' = Taken
<1>1. rd \in [phase : Phase, first : Nat, entries : Seq(Positive), snapshot : Point,
              low : Nat, cursor : Nat]
  BY DEF Typed
<1>2. rd' \in [phase : Phase, first : Nat, entries : Seq(Positive), snapshot : Point,
               low : Nat, cursor : Nat]
  BY <1>1
<1>3. /\ rd'.phase = p /\ rd'.first = rd.first /\ rd'.entries = rd.entries
      /\ rd'.snapshot = rd.snapshot /\ rd'.low = rd.low /\ rd'.cursor = rd.cursor
  BY <1>1
<1> QED BY <1>2, <1>3 DEF phase, rd_first, rd_entries, rd_size, rd_image, rd_index, rd_term,
                          rd_low, rd_cursor, Taken

\* What apply_snapshot makes of MemoryStorage
LEMMA SnapshotIs ==
    ASSUME StorageInv, ApplySnapshot, image # None
    PROVE  /\ storage' \in [snapshot : Point, dummy : Point, entries : Seq(Positive)]
           /\ dummy_index' = image_index /\ dummy_term' = image_term /\ saved_index' = image_index
           /\ saved' = <<>> /\ kept' = 0 /\ storage_last' = image_index
           /\ applied_index' = image_index /\ fatal' = FALSE
<1>1. Typed /\ Ordered /\ (phase # "none" => Held) /\ Sized BY Start
<1>2. phase = "ready" BY DEF ApplySnapshot, phase
<1>3. rd_image = image /\ rd_index = image_index /\ rd_term = image_term BY <1>1, <1>2 DEF Held
<1>4. saved_index < image_index /\ applied_index < image_index
  BY <1>1, <1>2 DEF Ordered, Behind, Sized
<1>5. /\ image.index = image_index /\ image.term = image_term /\ image \in Point
      /\ image_index \in Nat
  BY <1>1, Parts DEF image, image_index, image_term, Sized
<1>6. storage' = [snapshot |-> image, dummy |-> image, entries |-> <<>>]
  <2>1. ~(saved_index >= image.index) BY <1>1, <1>4, <1>5 DEF Sized
  <2>2. storage' = apply_snapshot(image) BY <1>3 DEF ApplySnapshot, rd_image
  <2> QED BY <2>1, <2>2 DEF apply_snapshot, saved_index
<1>7. applied_index' = image_index /\ fatal' = FALSE
  <2>1. ~(image.index <= applied_index) BY <1>1, <1>4, <1>5 DEF Sized
  <2>2. applied_index' = image.index /\ fatal' = (image # None /\ image.index <= applied_index)
    BY <1>3 DEF ApplySnapshot, rd_image
  <2> QED BY <1>5, <2>1, <2>2
<1>8. <<>> \in Seq(Positive) /\ Len(<<>>) = 0 OBVIOUS
<1>9. /\ dummy_index' = image_index /\ dummy_term' = image_term /\ saved_index' = image_index
      /\ saved' = <<>> /\ kept' = 0
  BY <1>5, <1>6, <1>8 DEF dummy_index, dummy_term, saved_index, saved, kept
<1>10. storage_last' = image_index
  <2>1. storage_last' = dummy_index' + kept' BY DEF storage_last, dummy_index, kept
  <2> QED BY <1>5, <1>9, <2>1
<1> QED BY <1>5, <1>6, <1>7, <1>8, <1>9, <1>10

\* apply_snapshot and publish_snapshot bring MemoryStorage up with Raft.
LEMMA ApplySnapshotStep ==
    ASSUME StorageInv, ApplySnapshot
    PROVE  StorageInv' /\ \E l \in Known : ReadsAs(l) /\ ReadsAs(l)'
<1>1. Typed /\ Ordered /\ (phase # "none" => Held) /\ Staged /\ Holds /\ Sized BY Start
<1>2. phase = "ready" /\ rd' = [rd EXCEPT !.phase = "restored"] BY DEF ApplySnapshot, phase
<1>3. /\ rd' \in [phase : Phase, first : Nat, entries : Seq(Positive), snapshot : Point,
                   low : Nat, cursor : Nat]
      /\ phase' = "restored" /\ rd_first' = rd_first /\ rd_entries' = rd_entries
      /\ rd_size' = rd_size /\ rd_image' = rd_image /\ rd_index' = rd_index
      /\ rd_term' = rd_term /\ rd_low' = rd_low /\ rd_cursor' = rd_cursor /\ Taken' = Taken
  <2>1. "restored" \in Phase BY DEF Phase
  <2> QED BY <1>1, <1>2, <2>1, NextPhase
<1>4. unstable' = unstable /\ committed' = committed /\ applied' = applied
  BY DEF ApplySnapshot
<1>5. /\ offset' = offset /\ fresh' = fresh /\ size' = size /\ image' = image /\ End' = End
      /\ image_index' = image_index /\ image_term' = image_term
  BY <1>4, SameUnstable
<1>6. ~Behind' BY <1>3 DEF Behind
<1>7. Matches' = Matches BY <1>3, <1>5 DEF Matches
<1>8. Held BY <1>1, <1>2
<1>9. PICK m \in Known : SavedAs(m, storage_last) BY <1>1 DEF Holds
<1>10. PICK l \in Known, r \in Known : ReadsAs(l) /\ TakenAs(l, r)
  BY <1>1, <1>2 DEF Holds
<1>11. CASE image = None
  <2>1. rd_image = None BY <1>8, <1>11 DEF Held
  <2>2. storage' = storage /\ applied_index' = applied_index /\ fatal' = FALSE
    BY <2>1 DEF ApplySnapshot, rd_image
  <2>3. /\ dummy_index' = dummy_index /\ dummy_term' = dummy_term /\ saved' = saved /\ kept' = kept
        /\ saved_index' = saved_index /\ storage_last' = storage_last
    BY <2>2, SameStorage
  <2>4. ~Behind BY <1>11 DEF Behind
  <2>5. Typed' BY <1>1, <1>3, <1>4, <2>2 DEF Typed
  <2>6. Ordered' BY <1>1, <1>3, <1>4, <1>5, <1>6, <1>11, <2>2, <2>3, <2>4 DEF Ordered
  <2>7. Held' BY <1>3, <1>4, <1>5, <1>7, <1>8, <2>2, <2>3 DEF Held
  <2>8. applied_index = applied BY <1>1, <1>2 DEF Ordered
  <2>9. Staged'
    BY <1>1, <1>2, <1>3, <1>4, <1>5, <1>6, <1>11, <2>2, <2>3, <2>4, <2>8 DEF Staged
  <2>10. SavedAs(m, storage_last)' /\ ReadsAs(l)'
    BY <1>5, <1>6, <1>9, <1>10, <2>3, <2>4 DEF SavedAs, ReadsAs
  <2>11. TakenAs(l, r)'
    BY <1>2, <1>3, <1>5, <1>6, <1>10, <2>2, <2>3, <2>4 DEF SavedAs, TakenAs
  <2>12. Holds' BY <2>10, <2>11 DEF Holds
  <2> QED BY <1>10, <2>2, <2>5, <2>6, <2>7, <2>9, <2>10, <2>12 DEF StorageInv
<1>12. CASE image # None
  <2>1. /\ storage' \in [snapshot : Point, dummy : Point, entries : Seq(Positive)]
        /\ dummy_index' = image_index /\ dummy_term' = image_term /\ saved_index' = image_index
        /\ saved' = <<>> /\ kept' = 0 /\ storage_last' = image_index
        /\ applied_index' = image_index /\ fatal' = FALSE
    BY <1>12, SnapshotIs
  <2>2. /\ 0 < image_index /\ image_index <= committed /\ offset = image_index + 1
        /\ rd_first = image_index + 1 /\ applied < image_index
    BY <1>1, <1>8, <1>12 DEF Ordered, Held
  <2>3. Typed' BY <1>1, <1>3, <1>4, <2>1, <2>2 DEF Typed, Sized
  <2>4. Ordered'
    BY <1>1, <1>3, <1>4, <1>5, <1>6, <2>1, <2>2 DEF Ordered, Sized
  <2>5. Held'
    <3>1. image_index <= Taken BY <1>1, <2>2 DEF Sized
    <3>2. size > 0 => image_index < End BY <1>1, <2>2 DEF Sized
    <3> QED BY <1>3, <1>4, <1>5, <1>7, <1>8, <2>1, <3>1, <3>2 DEF Held
  <2>6. Staged'
    <3>1. rd_size > 0 => image_index < Taken BY <1>1, <2>2 DEF Sized
    <3> QED BY <1>1, <1>3, <1>4, <1>5, <1>6, <1>12, <2>1, <2>2, <3>1 DEF Staged, Sized
  <2>7. /\ Len(l) \in Nat /\ Len(r) \in Nat /\ image_index <= Len(l) /\ image_index <= Len(r)
        /\ image_term = l[image_index] /\ image_term = r[image_index]
    <3>1. Len(l) \in Nat /\ Len(r) \in Nat BY KnownType
    <3>2. End <= Len(l) /\ Taken <= Len(r) BY <1>10 DEF ReadsAs, TakenAs
    <3>3. image_index <= End /\ image_index <= Taken BY <1>1, <2>2 DEF Ordered, Sized
    <3>4. image_index <= Len(l) /\ image_index <= Len(r) BY <1>1, <3>1, <3>2, <3>3 DEF Sized
    <3> QED BY <1>10, <1>12, <3>1, <3>4 DEF ReadsAs, TakenAs
  <2>8. ASSUME NEW j \in 1..image_index
        PROVE  l[j] = r[j]
    <3>1. image_index \in Nat /\ 1 <= image_index /\ l[image_index] = r[image_index]
      BY <1>1, <2>2, <2>7 DEF Sized
    <3> QED BY <2>7, <3>1, LogsMatch
  <2>9. image_index - image_index = 0 BY <1>1 DEF Sized
  <2>10. ASSUME NEW g \in {l, r}
         PROVE  /\ image_index <= Len(g) /\ (image_index > 0 => image_term = g[image_index])
                /\ \A k \in 1..image_index - image_index : <<>>[k] = g[image_index + k]
    <3>1. 1..0 = {} OBVIOUS
    <3> QED BY <2>7, <2>9, <3>1
  <2>11. offset - 1 = image_index /\ rd_first - 1 = image_index BY <1>1, <2>2 DEF Sized
  <2>12. SavedAs(l, storage_last)'
    BY <1>1, <2>1, <2>10 DEF SavedAs, Sized
  <2>13. ReadsAs(l)'
    <3>1. SavedAs(l, offset - 1)' BY <1>1, <1>5, <2>1, <2>10, <2>11 DEF SavedAs, Sized
    <3> QED BY <1>5, <1>10, <3>1 DEF ReadsAs
  <2>14. TakenAs(l, r)'
    <3>1. SavedAs(r, rd_first - 1)' BY <1>1, <1>3, <2>1, <2>10, <2>11 DEF SavedAs, Sized
    <3>2. ASSUME NEW k \in 1..Most(image_index, rd_cursor)
          PROVE  l[k] = r[k]
      <4>1. k \in 1..image_index \/ k \in 1..Most(applied_index, rd_cursor)
        BY <1>1 DEF Most, Sized
      <4> QED BY <1>10, <2>8, <4>1 DEF TakenAs
    <3> QED BY <1>3, <1>5, <1>10, <2>1, <2>7, <3>1, <3>2 DEF TakenAs
  <2>15. Holds' BY <2>12, <2>13, <2>14 DEF Holds
  <2> QED BY <1>10, <2>1, <2>3, <2>4, <2>5, <2>6, <2>13, <2>15 DEF StorageInv
<1> QED BY <1>11, <1>12

\* What MemoryStorage::append makes of MemoryStorage
LEMMA AppendIs ==
    ASSUME StorageInv, AppendEntries
    PROVE  /\ storage' \in [snapshot : Point, dummy : Point, entries : Seq(Positive)]
           /\ fatal' = FALSE /\ dummy_index' = dummy_index /\ dummy_term' = dummy_term
           /\ saved_index' = saved_index /\ storage_last' = Taken /\ dummy_index <= Taken
           /\ \A k \in 1..Taken - dummy_index :
                 saved'[k] = IF dummy_index + k < rd_first THEN saved[k]
                             ELSE rd_entries[dummy_index + k - rd_first + 1]
<1>1. Typed /\ Staged /\ Sized BY Start
<1>2. /\ fresh \in Seq(Positive) /\ saved \in Seq(Positive) /\ rd_entries \in Seq(Positive)
      /\ kept = Len(saved) /\ rd_size = Len(rd_entries)
  BY <1>1, Parts
<1>3. phase = "restored" BY DEF AppendEntries, phase
<1>4. ~Behind BY <1>3 DEF Behind
<1>5. /\ rd_size > 0 => dummy_index < Taken
      /\ rd_first <= storage_last + 1 /\ (rd_size = 0 => rd_first = storage_last + 1)
  BY <1>1, <1>3, <1>4 DEF Staged
<1>6. fatal' = FALSE
  <2>1. ~(rd_first > storage_last + 1) BY <1>1, <1>5 DEF Sized
  <2> QED BY <2>1 DEF AppendEntries, rd_first
<1>7. storage' = [storage EXCEPT !.entries = storage_append(rd_first, rd_entries)]
  BY <1>6 DEF AppendEntries, rd_first, rd_entries
<1>8. storage \in [snapshot : Point, dummy : Point, entries : Seq(Positive)] BY <1>1 DEF Typed
<1>9. PICK skip \in Nat : /\ skip = Most(0, storage.dummy.index + 1 - rd_first)
                          /\ skip = IF dummy_index + 1 > rd_first THEN dummy_index + 1 - rd_first ELSE 0
  BY <1>1 DEF Most, Sized, dummy_index
<1> DEFINE all == storage_append(rd_first, rd_entries)
<1>10. /\ all \in Seq(Positive) /\ Len(all) = Taken - dummy_index /\ dummy_index <= Taken
       /\ \A k \in 1..Taken - dummy_index :
             all[k] = IF dummy_index + k < rd_first THEN saved[k]
                      ELSE rd_entries[dummy_index + k - rd_first + 1]
  <2>1. CASE rd_size = 0
    <3>1. skip >= Len(rd_entries) BY <1>2, <1>9, <2>1
    <3>2. all = saved BY <1>9, <3>1 DEF storage_append, saved
    <3>3. /\ Taken = rd_first - 1 /\ Taken = storage_last /\ kept = Taken - dummy_index
          /\ dummy_index <= Taken
      BY <1>1, <1>5, <2>1 DEF Sized
    <3>4. ASSUME NEW k \in 1..Taken - dummy_index
          PROVE  dummy_index + k < rd_first
      BY <1>1, <3>3 DEF Sized
    <3> HIDE DEF all
    <3> QED BY <1>2, <3>2, <3>3, <3>4
  <2>2. CASE rd_size # 0
    <3>1. rd_size > 0 /\ dummy_index < Taken /\ skip < rd_size BY <1>1, <1>5, <1>9, <2>2 DEF Sized
    <3>2. ~(skip >= Len(rd_entries)) BY <1>1, <1>2, <1>9, <3>1 DEF Sized
    <3>3. PICK keep \in Nat : /\ keep = rd_first + skip - 1 - dummy_index /\ keep <= kept
                              /\ keep = 0 \/ skip = 0
      BY <1>1, <1>5, <1>9 DEF Sized
    <3> DEFINE old == SubSeq(saved, 1, keep)
               new == SubSeq(rd_entries, skip + 1, rd_size)
    <3>4. all = old \o new
      BY <1>2, <1>9, <3>2, <3>3 DEF storage_append, saved, dummy_index
    <3>5. /\ old \in Seq(Positive) /\ Len(old) = keep /\ \A k \in 1..keep : old[k] = saved[k]
      BY <1>2, <3>3
    <3>6. /\ new \in Seq(Positive) /\ Len(new) = rd_size - skip
          /\ \A k \in 1..rd_size - skip : new[k] = rd_entries[skip + k]
      <4>1. new \in Seq(Positive) /\ Len(new) = rd_size - skip BY <1>2, <1>9, <3>1
      <4>2. ASSUME NEW k \in 1..rd_size - skip
            PROVE  new[k] = rd_entries[skip + k]
        <5>1. new[k] = rd_entries[skip + 1 + k - 1] BY <1>2, <1>9, <3>1, SMTT(30)
        <5>2. skip + 1 + k - 1 = skip + k BY <1>9
        <5> QED BY <5>1, <5>2
      <4> QED BY <4>1, <4>2
    <3> HIDE DEF old, new, all
    <3>7. /\ old \o new \in Seq(Positive) /\ Len(old \o new) = Len(old) + Len(new)
          /\ \A k \in 1..Len(old) + Len(new) :
                (old \o new)[k] = IF k <= Len(old) THEN old[k] ELSE new[k - Len(old)]
      BY <3>5, <3>6, ConcatProperties
    <3>8. keep + (rd_size - skip) = Taken - dummy_index BY <1>1, <1>9, <3>1, <3>3 DEF Sized
    <3>9. Len(all) = Taken - dummy_index BY <3>4, <3>5, <3>6, <3>7, <3>8
    <3>10. ASSUME NEW k \in 1..Taken - dummy_index
           PROVE  all[k] = IF dummy_index + k < rd_first THEN saved[k]
                           ELSE rd_entries[dummy_index + k - rd_first + 1]
      <4>0. k \in 1..Len(old) + Len(new) /\ Len(old) = keep BY <3>5, <3>6, <3>8
      <4>1. CASE k <= keep
        <5>1. dummy_index + k < rd_first /\ k \in 1..keep BY <1>1, <1>9, <3>3, <4>1 DEF Sized
        <5>2. all[k] = old[k] BY <3>4, <3>7, <4>0, <4>1
        <5> QED BY <3>5, <5>1, <5>2
      <4>2. CASE ~(k <= keep)
        <5>1. /\ k - keep \in 1..rd_size - skip
              /\ skip + (k - keep) = dummy_index + k - rd_first + 1
              /\ ~(dummy_index + k < rd_first)
          BY <1>1, <1>9, <3>3, <3>8, <4>2 DEF Sized
        <5>2. all[k] = new[k - keep] BY <3>4, <3>7, <4>0, <4>2
        <5> QED BY <3>6, <5>1, <5>2
      <4> QED BY <4>1, <4>2
    <3>11. dummy_index <= Taken BY <1>1, <3>1 DEF Sized
    <3> QED BY <3>4, <3>7, <3>9, <3>10, <3>11
  <2> QED BY <2>1, <2>2
<1> HIDE DEF all
<1>11. storage' = [storage EXCEPT !.entries = all] BY <1>7 DEF all
<1>12. storage' \in [snapshot : Point, dummy : Point, entries : Seq(Positive)]
  BY <1>8, <1>10, <1>11
<1>13. /\ saved' = all /\ dummy_index' = dummy_index /\ dummy_term' = dummy_term
       /\ saved_index' = saved_index
  BY <1>8, <1>11 DEF saved, dummy_index, dummy_term, saved_index
<1>14. storage_last' = Taken
  <2>1. storage_last' = dummy_index' + Len(saved') BY DEF storage_last, dummy_index, saved
  <2>2. storage_last' = dummy_index + (Taken - dummy_index) BY <1>10, <1>13, <2>1
  <2> QED BY <1>1, <2>2 DEF Sized
<1> QED BY <1>6, <1>10, <1>12, <1>13, <1>14

\* The Ready's entries are saved: MemoryStorage ends where the Ready ends, and
\* is a part of the log that the Ready was taken from.
LEMMA AppendEntriesStep ==
    ASSUME StorageInv, AppendEntries
    PROVE  StorageInv' /\ \E l \in Known : ReadsAs(l) /\ ReadsAs(l)'
<1>1. Typed /\ Ordered /\ (phase # "none" => Held) /\ Staged /\ Holds /\ Sized BY Start
<1>2. phase = "restored" /\ rd' = [rd EXCEPT !.phase = "saved"] BY DEF AppendEntries, phase
<1>3. /\ rd' \in [phase : Phase, first : Nat, entries : Seq(Positive), snapshot : Point,
                   low : Nat, cursor : Nat]
      /\ phase' = "saved" /\ rd_first' = rd_first /\ rd_entries' = rd_entries
      /\ rd_size' = rd_size /\ rd_image' = rd_image /\ rd_index' = rd_index
      /\ rd_term' = rd_term /\ rd_low' = rd_low /\ rd_cursor' = rd_cursor /\ Taken' = Taken
  <2>1. "saved" \in Phase BY DEF Phase
  <2> QED BY <1>1, <1>2, <2>1, NextPhase
<1>4. /\ unstable' = unstable /\ committed' = committed /\ applied' = applied
      /\ applied_index' = applied_index
  BY DEF AppendEntries
<1>5. /\ offset' = offset /\ fresh' = fresh /\ size' = size /\ image' = image /\ End' = End
      /\ image_index' = image_index /\ image_term' = image_term
  BY <1>4, SameUnstable
<1>6. /\ storage' \in [snapshot : Point, dummy : Point, entries : Seq(Positive)]
      /\ fatal' = FALSE /\ dummy_index' = dummy_index /\ dummy_term' = dummy_term
      /\ saved_index' = saved_index /\ storage_last' = Taken /\ dummy_index <= Taken
      /\ \A k \in 1..Taken - dummy_index :
            saved'[k] = IF dummy_index + k < rd_first THEN saved[k]
                        ELSE rd_entries[dummy_index + k - rd_first + 1]
  BY AppendIs
<1>7. Held /\ ~Behind /\ ~Behind' BY <1>1, <1>2, <1>3 DEF Behind
<1>8. Matches' = Matches BY <1>3, <1>5 DEF Matches
<1>9. /\ applied_index <= Taken /\ offset <= rd_first
      /\ size = 0 => rd_size = 0
  BY <1>7 DEF Held
<1>10. PICK l \in Known, r \in Known : ReadsAs(l) /\ TakenAs(l, r)
  BY <1>1, <1>2 DEF Holds
<1>11. /\ SavedAs(l, offset - 1) /\ SavedAs(r, rd_first - 1)
       /\ Taken <= Len(r) /\ \A k \in 1..rd_size : rd_entries[k] = r[rd_first + k - 1]
  BY <1>2, <1>7, <1>10 DEF ReadsAs, TakenAs
<1>12. /\ rd_size = 0 => rd_first = storage_last + 1
       /\ size = 0 => offset = storage_last + 1
       /\ offset <= storage_last + 1
  <2>1. rd_size = 0 => rd_first = storage_last + 1 BY <1>1, <1>2, <1>7 DEF Staged
  <2>2. size = 0 => offset = storage_last + 1 BY <1>1, <1>7 DEF Ordered
  <2>3. offset - 1 <= storage_last BY <1>11 DEF SavedAs
  <2> QED BY <1>1, <2>1, <2>2, <2>3 DEF Sized
<1>13. Typed' BY <1>1, <1>3, <1>4, <1>6 DEF Typed
<1>14. Ordered'
  <2>1. size = 0 => offset = Taken + 1 BY <1>1, <1>9, <1>12 DEF Sized
  <2> QED BY <1>1, <1>3, <1>4, <1>5, <1>6, <1>7, <1>9, <2>1 DEF Ordered
<1>15. Held' BY <1>3, <1>4, <1>5, <1>6, <1>7, <1>8 DEF Held
<1>16. Staged' BY <1>1, <1>2, <1>3, <1>4, <1>5, <1>6, <1>7 DEF Staged
<1>17. SavedAs(r, Taken)'
  <2>1. dummy_index <= Len(r) /\ (dummy_index > 0 => dummy_term = r[dummy_index])
    BY <1>11 DEF SavedAs
  <2>2. ASSUME NEW k \in 1..Taken - dummy_index
        PROVE  saved'[k] = r[dummy_index + k]
    <3>1. CASE dummy_index + k < rd_first
      <4>1. k \in 1..(rd_first - 1) - dummy_index BY <1>1, <3>1 DEF Sized
      <4>2. saved'[k] = saved[k] BY <1>6, <3>1
      <4> QED BY <1>11, <4>1, <4>2 DEF SavedAs
    <3>2. CASE ~(dummy_index + k < rd_first)
      <4>1. /\ dummy_index + k - rd_first + 1 \in 1..rd_size
            /\ rd_first + (dummy_index + k - rd_first + 1) - 1 = dummy_index + k
        BY <1>1, <3>2 DEF Sized
      <4>2. saved'[k] = rd_entries[dummy_index + k - rd_first + 1] BY <1>6, <3>2
      <4> QED BY <1>11, <4>1, <4>2
    <3> QED BY <3>1, <3>2
  <2>3. Taken <= Taken BY <1>1 DEF Sized
  <2> QED BY <1>3, <1>6, <1>11, <2>1, <2>2, <2>3 DEF SavedAs
<1>18. ReadsAs(l)'
  <2>1. dummy_index <= Len(l) /\ (dummy_index > 0 => dummy_term = l[dummy_index])
        /\ offset - 1 <= Len(l)
    BY <1>11 DEF SavedAs
  <2>2. offset - 1 <= Taken BY <1>1, <1>9 DEF Sized
  <2>3. ASSUME NEW k \in 1..(offset - 1) - dummy_index
        PROVE  saved'[k] = l[dummy_index + k]
    <3>1. k \in 1..Taken - dummy_index /\ dummy_index + k < rd_first BY <1>1, <1>9, <2>2 DEF Sized
    <3>2. saved'[k] = saved[k] BY <1>6, <3>1
    <3> QED BY <1>11, <3>2 DEF SavedAs
  <2>4. SavedAs(l, offset - 1)' BY <1>5, <1>6, <2>1, <2>2, <2>3 DEF SavedAs
  <2> QED BY <1>5, <1>10, <2>4 DEF ReadsAs
<1>19. TakenAs(l, r)' BY <1>3, <1>4, <1>5, <1>10, <1>17 DEF TakenAs
<1>20. Holds'
  <2>1. SavedAs(r, storage_last)' BY <1>3, <1>6, <1>17
  <2> QED BY <1>18, <1>19, <2>1 DEF Holds
<1> QED BY <1>6, <1>10, <1>13, <1>14, <1>15, <1>16, <1>18, <1>20 DEF StorageInv

\* MemoryStorage is compacted up to d and holds a snapshot of what is applied up
\* to i.
CompactedTo(d, i) ==
    /\ storage' \in [snapshot : Point, dummy : Point, entries : Seq(Positive)]
    /\ dummy_index' = d /\ dummy_index <= d /\ d <= i /\ storage_last' = storage_last
    /\ saved_index' \in Nat /\ d <= saved_index' /\ saved_index' <= i
    /\ dummy_term' = (IF d = dummy_index THEN dummy_term ELSE saved[d - dummy_index])
    /\ \A k \in 1..storage_last - d : saved'[k] = saved[d - dummy_index + k]

\* What compact makes of MemoryStorage
LEMMA CompactIs ==
    ASSUME Typed, NEW i \in Nat, NEW d \in Nat, dummy_index < d, d <= i, i <= storage_last,
           storage' = compact(create_snapshot(i), d)
    PROVE  CompactedTo(d, i)
<1>1. Sized /\ saved \in Seq(Positive) /\ kept = Len(saved) BY Parts
<1>2. storage \in [snapshot : Point, dummy : Point, entries : Seq(Positive)] BY DEF Typed
<1>3. /\ storage_term(i) = saved[i - dummy_index] /\ storage_term(d) = saved[d - dummy_index]
      /\ i - dummy_index \in 1..kept /\ d - dummy_index \in 1..kept
  <2>1. i > dummy_index /\ i <= storage_last /\ d > dummy_index /\ d <= storage_last
        /\ i # dummy_index /\ d # dummy_index
    BY <1>1 DEF Sized
  <2>2. storage_term(i) = saved[i - dummy_index] /\ storage_term(d) = saved[d - dummy_index]
    BY <2>1, StorageTerm
  <2> QED BY <1>1, <2>1, <2>2 DEF Sized
<1>4. /\ storage_term(i) \in Nat /\ storage_term(d) \in Nat
  <2>1. \A k \in 1..kept : saved[k] \in Positive BY <1>1
  <2> QED BY <1>3, <2>1 DEF Positive
<1> DEFINE rest == SubSeq(saved, d - dummy_index + 1, kept)
<1>5. storage' = [snapshot |-> At(i, storage_term(i)), dummy |-> At(d, storage_term(d)),
                  entries |-> rest]
  BY <1>1, <1>2 DEF compact, create_snapshot, saved, dummy_index, kept
<1>6. PICK c \in Nat : c = d - dummy_index /\ c <= kept BY <1>1, <1>3 DEF Sized
<1>7. /\ rest \in Seq(Positive) /\ Len(rest) = kept - c
      /\ \A k \in 1..kept - c : rest[k] = saved[c + k]
  <2>1. rest = SubSeq(saved, c + 1, kept) BY <1>6
  <2>2. SubSeq(saved, c + 1, kept) \in Seq(Positive) /\ Len(SubSeq(saved, c + 1, kept)) = kept - c
    BY <1>1, <1>6
  <2>3. ASSUME NEW k \in 1..kept - c
        PROVE  SubSeq(saved, c + 1, kept)[k] = saved[c + k]
    <3>1. SubSeq(saved, c + 1, kept)[k] = saved[c + 1 + k - 1] BY <1>1, <1>6
    <3>2. c + 1 + k - 1 = c + k BY <1>6
    <3> QED BY <3>1, <3>2
  <2> QED BY <2>1, <2>2, <2>3
<1> HIDE DEF rest
<1>8. At(i, storage_term(i)) \in Point /\ At(d, storage_term(d)) \in Point
  BY <1>4 DEF At, Point
<1>9. storage' \in [snapshot : Point, dummy : Point, entries : Seq(Positive)]
  BY <1>5, <1>7, <1>8
<1>10. /\ dummy_index' = d /\ dummy_term' = saved[d - dummy_index] /\ saved_index' = i
       /\ saved' = rest
  BY <1>3, <1>5 DEF dummy_index, dummy_term, saved_index, saved, At
<1>11. storage_last' = storage_last
  <2>1. storage_last' = dummy_index' + Len(saved') BY DEF storage_last, dummy_index, saved
  <2>2. storage_last' = d + (kept - c) BY <1>7, <1>10, <2>1
  <2> QED BY <1>1, <1>6, <2>2 DEF Sized
<1>12. ASSUME NEW k \in 1..storage_last - d
       PROVE  saved'[k] = saved[d - dummy_index + k]
  <2>1. k \in 1..kept - c BY <1>1, <1>6 DEF Sized
  <2> QED BY <1>6, <1>7, <1>10, <2>1
<1>13. d # dummy_index /\ dummy_index <= d BY <1>1 DEF Sized
<1> QED BY <1>9, <1>10, <1>11, <1>12, <1>13 DEF CompactedTo

\* What publish_entries and maybe_trigger_snapshot do
LEMMA PublishIs ==
    ASSUME StorageInv, Publish
    PROVE  \E i \in Nat, d \in Nat :
              /\ i = (IF rd_cursor > 0 THEN rd_cursor ELSE applied_index)
              /\ applied_index <= i /\ rd_cursor <= i
              /\ applied_index' = i /\ fatal' = FALSE /\ CompactedTo(d, i)
<1>1. Typed /\ Ordered /\ (phase # "none" => Held) /\ Staged /\ Sized BY Start
<1>2. phase = "saved" BY DEF Publish, phase
<1>3. /\ Held /\ storage_last = Taken
      /\ applied_index = IF image = None THEN applied ELSE image_index
  BY <1>1, <1>2 DEF Staged
<1>4. /\ rd_cursor <= Taken /\ applied_index <= Taken
      /\ rd_cursor > 0 =>
            rd_low = (IF image = None THEN applied + 1 ELSE image_index + 1) /\ rd_low <= rd_cursor
  BY <1>3 DEF Held
<1>5. rd_cursor > 0 => rd_low = applied_index + 1 /\ applied_index < rd_cursor
  <2>1. rd_cursor > 0 => rd_low = applied_index + 1 BY <1>3, <1>4
  <2> QED BY <1>1, <1>4, <2>1 DEF Sized
<1>6. PICK i \in Nat : /\ i = Most(applied_index, rd_cursor)
                       /\ i = (IF rd_cursor > 0 THEN rd_cursor ELSE applied_index)
                       /\ applied_index <= i /\ rd_cursor <= i /\ i <= storage_last
  <2>1. /\ applied_index \in Nat /\ rd_cursor \in Nat /\ applied_index <= storage_last
        /\ rd_cursor <= storage_last
    BY <1>1, <1>3, <1>4 DEF Sized
  <2> QED BY <1>5, <2>1 DEF Most
<1>7. /\ applied_index' = i
      /\ fatal' = (\/ rd_cursor > 0 /\ rd_low > applied_index + 1
                   \/ SnapshotDue(i) /\ (i > storage_last \/ CompactIndex(i) <= dummy_index))
      /\ storage' = IF SnapshotDue(i) /\ ~fatal'
                    THEN compact(create_snapshot(i), CompactIndex(i)) ELSE storage
  BY <1>6 DEF Publish, rd_cursor, rd_low, dummy_index
<1>8. dummy_index <= saved_index /\ saved_index <= applied_index BY <1>1 DEF Ordered
<1>9. ~(rd_cursor > 0 /\ rd_low > applied_index + 1) BY <1>1, <1>5 DEF Sized
<1>10. CASE SnapshotDue(i)
  <2>1. PICK d \in Nat : d = CompactIndex(i) /\ dummy_index < d /\ d <= i
    <3>1. SnapCount \in Nat /\ CatchUp \in Nat /\ CatchUp <= SnapCount BY CountAssumption
    <3>2. i - saved_index > SnapCount BY <1>10 DEF SnapshotDue, saved_index
    <3>3. i > CatchUp BY <1>1, <3>1, <3>2 DEF Sized
    <3>4. CompactIndex(i) = i - CatchUp BY <3>3 DEF CompactIndex
    <3> QED BY <1>1, <1>8, <3>1, <3>2, <3>3, <3>4 DEF Sized
  <2>2. ~(i > storage_last) /\ ~(d <= dummy_index) BY <1>1, <1>6, <2>1 DEF Sized
  <2>3. fatal' = FALSE BY <1>7, <1>9, <2>1, <2>2
  <2>4. storage' = compact(create_snapshot(i), d) BY <1>7, <1>10, <2>1, <2>3
  <2>5. CompactedTo(d, i) BY <1>1, <1>6, <2>1, <2>4, CompactIs
  <2> QED BY <1>6, <1>7, <2>3, <2>5
<1>11. CASE ~SnapshotDue(i)
  <2>1. fatal' = FALSE /\ storage' = storage BY <1>7, <1>9, <1>11
  <2>2. /\ dummy_index' = dummy_index /\ dummy_term' = dummy_term /\ saved' = saved
        /\ saved_index' = saved_index /\ storage_last' = storage_last
    BY <2>1, SameStorage
  <2>3. dummy_index - dummy_index = 0 /\ \A k \in Nat : 0 + k = k BY <1>1 DEF Sized
  <2>4. /\ dummy_index <= dummy_index /\ dummy_index <= i /\ saved_index <= i
        /\ saved_index \in Nat
    BY <1>1, <1>6, <1>8 DEF Sized
  <2>5. \A k \in 1..storage_last - dummy_index : saved[k] = saved[dummy_index - dummy_index + k]
    BY <2>3
  <2>6. storage \in [snapshot : Point, dummy : Point, entries : Seq(Positive)] BY <1>1 DEF Typed
  <2>7. CompactedTo(dummy_index, i)
    BY <1>8, <2>1, <2>2, <2>4, <2>5, <2>6 DEF CompactedTo
  <2>8. dummy_index \in Nat BY <1>1 DEF Sized
  <2> QED BY <1>6, <1>7, <2>1, <2>7, <2>8
<1> QED BY <1>10, <1>11

\* Committed entries are applied, and MemoryStorage may be compacted up to what
\* was applied.
LEMMA PublishStep ==
    ASSUME StorageInv, Publish
    PROVE  StorageInv' /\ \E l \in Known : ReadsAs(l) /\ ReadsAs(l)'
<1>1. Typed /\ Ordered /\ (phase # "none" => Held) /\ Staged /\ Holds /\ Sized BY Start
<1>2. phase = "saved" /\ rd' = [rd EXCEPT !.phase = "applied"] BY DEF Publish, phase
<1>3. /\ rd' \in [phase : Phase, first : Nat, entries : Seq(Positive), snapshot : Point,
                   low : Nat, cursor : Nat]
      /\ phase' = "applied" /\ rd_first' = rd_first /\ rd_entries' = rd_entries
      /\ rd_size' = rd_size /\ rd_image' = rd_image /\ rd_index' = rd_index
      /\ rd_term' = rd_term /\ rd_low' = rd_low /\ rd_cursor' = rd_cursor /\ Taken' = Taken
  <2>1. "applied" \in Phase BY DEF Phase
  <2> QED BY <1>1, <1>2, <2>1, NextPhase
<1>4. unstable' = unstable /\ committed' = committed /\ applied' = applied BY DEF Publish
<1>5. /\ offset' = offset /\ fresh' = fresh /\ size' = size /\ image' = image /\ End' = End
      /\ image_index' = image_index /\ image_term' = image_term
  BY <1>4, SameUnstable
<1>6. PICK i \in Nat, d \in Nat :
              /\ i = (IF rd_cursor > 0 THEN rd_cursor ELSE applied_index)
              /\ applied_index <= i /\ rd_cursor <= i
              /\ applied_index' = i /\ fatal' = FALSE /\ CompactedTo(d, i)
  BY PublishIs
<1>7. /\ storage' \in [snapshot : Point, dummy : Point, entries : Seq(Positive)]
      /\ dummy_index' = d /\ dummy_index <= d /\ d <= i /\ storage_last' = storage_last
      /\ saved_index' \in Nat /\ d <= saved_index' /\ saved_index' <= i
      /\ dummy_term' = (IF d = dummy_index THEN dummy_term ELSE saved[d - dummy_index])
      /\ \A k \in 1..storage_last - d : saved'[k] = saved[d - dummy_index + k]
  BY <1>6 DEF CompactedTo
<1>8. Held /\ ~Behind /\ ~Behind' BY <1>1, <1>2, <1>3 DEF Behind
<1>9. Matches' = Matches BY <1>3, <1>5 DEF Matches
<1>10. /\ storage_last = Taken
       /\ applied_index = (IF image = None THEN applied ELSE image_index)
       /\ image # None => image_index <= dummy_index
  BY <1>1, <1>2 DEF Staged
<1>11. i <= Taken /\ i <= committed
  BY <1>1, <1>6, <1>8 DEF Held, Ordered
<1>12. PICK l \in Known, r \in Known : ReadsAs(l) /\ TakenAs(l, r)
  BY <1>1, <1>2 DEF Holds
<1>13. /\ SavedAs(l, offset - 1) /\ SavedAs(r, Taken) /\ Taken <= Len(r)
       /\ applied_index <= Len(l) /\ rd_cursor <= Len(l)
       /\ \A k \in 1..Most(applied_index, rd_cursor) : l[k] = r[k]
  BY <1>2, <1>8, <1>12 DEF ReadsAs, TakenAs
<1>14. i <= Len(l) /\ \A k \in 1..i : l[k] = r[k]
  <2>1. i = Most(applied_index, rd_cursor) BY <1>1, <1>6 DEF Most, Sized
  <2> QED BY <1>6, <1>13, <2>1
<1>15. Typed' BY <1>1, <1>3, <1>4, <1>6, <1>7 DEF Typed
<1>16. Ordered'
  BY <1>1, <1>3, <1>4, <1>5, <1>6, <1>7, <1>8, <1>10, <1>11 DEF Ordered
<1>17. Held'
  <2>1. size > 0 =>
           Matches \/ (d < End /\ rd_cursor < End /\ i < End)
    <3>1. size > 0 => Matches \/ (rd_cursor < End /\ applied_index < End) BY <1>8 DEF Held
    <3>2. rd_cursor < End /\ applied_index < End => i < End /\ d < End
      BY <1>1, <1>6, <1>7 DEF Sized
    <3> QED BY <3>1, <3>2
  <2> QED BY <1>3, <1>4, <1>5, <1>6, <1>7, <1>8, <1>9, <1>11, <2>1 DEF Held
<1>18. Staged'
  <2>1. image # None => image_index <= d BY <1>1, <1>7, <1>10 DEF Sized
  <2> QED BY <1>3, <1>4, <1>5, <1>6, <1>7, <1>10, <2>1 DEF Staged
<1>19. d <= Len(r) /\ d <= Len(l) /\ Len(l) \in Nat /\ Len(r) \in Nat
  <2>1. Len(l) \in Nat /\ Len(r) \in Nat BY KnownType
  <2> QED BY <1>1, <1>7, <1>11, <1>13, <1>14, <2>1 DEF Sized
<1>20. d > 0 => dummy_term' = r[d] /\ dummy_term' = l[d]
  <2>1. ASSUME d > 0
        PROVE  dummy_term' = r[d]
    <3>1. CASE d = dummy_index BY <1>7, <1>13, <2>1, <3>1 DEF SavedAs
    <3>2. CASE d # dummy_index
      <4>1. d - dummy_index \in 1..Taken - dummy_index /\ dummy_index + (d - dummy_index) = d
        BY <1>1, <1>7, <1>11, <3>2 DEF Sized
      <4> QED BY <1>7, <1>13, <3>2, <4>1 DEF SavedAs
    <3> QED BY <3>1, <3>2
  <2>2. d > 0 => d \in 1..i BY <1>7
  <2> QED BY <1>14, <2>1, <2>2
<1>21. SavedAs(r, Taken)'
  <2>1. ASSUME NEW k \in 1..Taken - d
        PROVE  saved'[k] = r[d + k]
    <3>1. /\ d - dummy_index + k \in 1..Taken - dummy_index
          /\ dummy_index + (d - dummy_index + k) = d + k
      BY <1>1, <1>7 DEF Sized
    <3>2. saved'[k] = saved[d - dummy_index + k] BY <1>7, <1>10
    <3> QED BY <1>13, <3>1, <3>2 DEF SavedAs
  <2>2. Taken <= Taken BY <1>1 DEF Sized
  <2> QED BY <1>3, <1>7, <1>10, <1>13, <1>19, <1>20, <2>1, <2>2 DEF SavedAs
<1>22. ReadsAs(l)'
  <2>1. offset - 1 <= storage_last /\ offset - 1 <= Len(l) BY <1>13 DEF SavedAs
  <2>2. ASSUME NEW k \in 1..(offset - 1) - d
        PROVE  saved'[k] = l[d + k]
    <3>1. /\ d - dummy_index + k \in 1..(offset - 1) - dummy_index
          /\ dummy_index + (d - dummy_index + k) = d + k
          /\ k \in 1..storage_last - d
      BY <1>1, <1>7, <2>1 DEF Sized
    <3>2. saved'[k] = saved[d - dummy_index + k] BY <1>7, <3>1
    <3> QED BY <1>13, <3>1, <3>2 DEF SavedAs
  <2>3. SavedAs(l, offset - 1)' BY <1>5, <1>7, <1>19, <1>20, <2>1, <2>2 DEF SavedAs
  <2> QED BY <1>5, <1>12, <2>3 DEF ReadsAs
<1>23. TakenAs(l, r)'
  <2>1. Most(i, rd_cursor) = i BY <1>1, <1>6 DEF Most, Sized
  <2> QED BY <1>3, <1>5, <1>6, <1>12, <1>14, <1>21, <2>1 DEF TakenAs
<1>24. Holds'
  <2>1. SavedAs(r, storage_last)' BY <1>3, <1>7, <1>10, <1>21
  <2> QED BY <1>22, <1>23, <2>1 DEF Holds
<1> QED BY <1>6, <1>12, <1>15, <1>16, <1>17, <1>18, <1>22, <1>24 DEF StorageInv

\* Unstable without what it holds below o, and without its snapshot
StableTo(o, n) ==
    /\ unstable' \in [offset : Positive, entries : Seq(Positive), snapshot : Point]
    /\ image' = None /\ image_index' = 0
    /\ offset' = o /\ size' = n /\ End' = End
    /\ o = (IF Matches THEN Taken + 1 ELSE offset) /\ n = End - o + 1
    /\ \A k \in 1..n : fresh'[k] = fresh[o - offset + k]

\* What stable_to and stable_snap_to make of Unstable
LEMMA AdvanceIs ==
    ASSUME StorageInv, Advance
    PROVE  /\ \E o \in Nat, n \in Nat : StableTo(o, n)
           /\ applied' = applied_index
<1>1. Typed /\ Ordered /\ (phase # "none" => Held) /\ Staged /\ Sized BY Start
<1>2. phase = "applied" BY DEF Advance, phase
<1>3. /\ Held /\ rd_image = image /\ rd_index = image_index
      /\ applied_index = (IF rd_cursor > 0 THEN rd_cursor
                          ELSE IF image = None THEN applied ELSE image_index)
      /\ image # None => 0 < image_index
  BY <1>1, <1>2 DEF Held, Staged, Ordered
<1>4. /\ fresh \in Seq(Positive) /\ size = Len(fresh) /\ rd_size = Len(rd_entries)
      /\ image \in Point
  BY <1>1, Parts
<1>5. image = None => image_index = 0 BY DEF image, image_index, None, At
<1>6. applied' = applied_index
  <2>1. applied_cursor = IF rd_cursor > 0 THEN rd_cursor ELSE image_index
    BY <1>3 DEF applied_cursor, rd_cursor, rd_index
  <2>2. applied' = IF applied_cursor > 0 THEN applied_cursor ELSE applied BY DEF Advance
  <2> QED BY <1>1, <1>3, <1>5, <2>1, <2>2 DEF Sized
<1> DEFINE u == IF rd_size = 0 THEN unstable
                ELSE stable_to(unstable, Taken, rd_entries[rd_size])
<1>7. unstable' = IF rd_image = None THEN u ELSE stable_snap_to(u, rd_index)
  BY DEF Advance, rd_image, rd_index, rd_size, rd_entries, Taken, rd_first
<1>8. unstable \in [offset : Positive, entries : Seq(Positive), snapshot : Point] BY <1>1 DEF Typed
<1>9. \E o \in Nat, n \in Nat :
         /\ o = (IF Matches THEN Taken + 1 ELSE offset) /\ n = End - o + 1
         /\ u \in [offset : Positive, entries : Seq(Positive), snapshot : Point]
         /\ u.offset = o /\ Len(u.entries) = n /\ u.snapshot = image
         /\ \A k \in 1..n : u.entries[k] = fresh[o - offset + k]
  <2>1. CASE Matches
    <3>1. /\ rd_size > 0 /\ offset <= Taken /\ Taken <= End
          /\ fresh[Taken - offset + 1] = rd_entries[rd_size]
      BY <2>1 DEF Matches
    <3>2. Taken \in Nat /\ Taken + 1 \in Positive /\ Taken < offset + size /\ Taken >= offset
          /\ rd_size # 0
      BY <1>1, <3>1 DEF Sized, Positive
    <3> DEFINE rest == SubSeq(fresh, Taken - offset + 2, size)
    <3>3. u = [unstable EXCEPT !.offset = Taken + 1, !.entries = rest]
      BY <1>4, <3>1, <3>2 DEF stable_to, offset, fresh, size
    <3>4. PICK c \in Nat : c = Taken - offset + 1 /\ c <= size BY <1>1, <3>1, <3>2 DEF Sized
    <3>5. /\ rest \in Seq(Positive) /\ Len(rest) = size - c
          /\ \A k \in 1..size - c : rest[k] = fresh[c + k]
      <4>1. rest = SubSeq(fresh, c + 1, size)
        <5>1. Taken - offset + 2 = c + 1 BY <1>1, <3>2, <3>4 DEF Sized
        <5> QED BY <5>1
      <4>2. /\ SubSeq(fresh, c + 1, size) \in Seq(Positive)
            /\ Len(SubSeq(fresh, c + 1, size)) = size - c
        BY <1>4, <3>4
      <4>3. ASSUME NEW k \in 1..size - c
            PROVE  SubSeq(fresh, c + 1, size)[k] = fresh[c + k]
        <5>1. SubSeq(fresh, c + 1, size)[k] = fresh[c + 1 + k - 1] BY <1>4, <3>4
        <5>2. c + 1 + k - 1 = c + k BY <3>4
        <5> QED BY <5>1, <5>2
      <4> QED BY <4>1, <4>2, <4>3
    <3> HIDE DEF rest, u
    <3>6. /\ u \in [offset : Positive, entries : Seq(Positive), snapshot : Point]
          /\ u.offset = Taken + 1 /\ u.entries = rest /\ u.snapshot = image
      BY <1>8, <3>2, <3>3, <3>5 DEF image
    <3>7. /\ Taken + 1 \in Nat /\ End - (Taken + 1) + 1 \in Nat
          /\ End - (Taken + 1) + 1 = size - c /\ (Taken + 1) - offset = c
      BY <1>1, <3>1, <3>2, <3>4 DEF Sized
    <3>8. \A k \in 1..size - c : u.entries[k] = fresh[(Taken + 1) - offset + k]
      BY <3>5, <3>6, <3>7
    <3>9. Len(u.entries) = End - (Taken + 1) + 1 BY <3>5, <3>6, <3>7
    <3> QED BY <2>1, <3>6, <3>7, <3>8, <3>9
  <2>2. CASE ~Matches
    <3>1. u = unstable
      <4>1. CASE rd_size = 0 BY <4>1
      <4>2. CASE rd_size # 0
        <5>1. rd_size > 0 BY <1>1, <4>2 DEF Sized
        <5>2. ~(/\ offset <= Taken /\ Taken <= End /\ fresh[Taken - offset + 1] = rd_entries[rd_size])
          BY <2>2, <5>1 DEF Matches
        <5>3. Taken <= End <=> Taken < offset + size BY <1>1 DEF Sized
        <5>4. offset <= Taken <=> Taken >= offset BY <1>1 DEF Sized
        <5> QED BY <4>2, <5>2, <5>3, <5>4 DEF stable_to, offset, fresh, size
      <4> QED BY <4>1, <4>2
    <3> HIDE DEF u
    <3>2. offset \in Nat /\ size = End - offset + 1 /\ size \in Nat BY <1>1 DEF Sized
    <3>3. offset - offset = 0 /\ \A k \in Nat : 0 + k = k BY <3>2
    <3>4. \A k \in 1..size : fresh[k] = fresh[offset - offset + k] BY <3>3
    <3>5. unstable.offset = offset /\ unstable.entries = fresh /\ unstable.snapshot = image
      BY DEF offset, fresh, image
    <3> QED BY <1>4, <1>8, <2>2, <3>1, <3>2, <3>4, <3>5
  <2> QED BY <2>1, <2>2
<1> HIDE DEF u
<1>10. PICK o \in Nat, n \in Nat :
         /\ o = (IF Matches THEN Taken + 1 ELSE offset) /\ n = End - o + 1
         /\ u \in [offset : Positive, entries : Seq(Positive), snapshot : Point]
         /\ u.offset = o /\ Len(u.entries) = n /\ u.snapshot = image
         /\ \A k \in 1..n : u.entries[k] = fresh[o - offset + k]
  BY <1>9
<1>11. /\ unstable' \in [offset : Positive, entries : Seq(Positive), snapshot : Point]
       /\ unstable'.offset = o /\ unstable'.entries = u.entries /\ unstable'.snapshot = None
  <2>1. CASE image = None BY <1>3, <1>7, <1>10, <2>1
  <2>2. CASE image # None
    <3>1. u.snapshot # None /\ u.snapshot.index = rd_index
      BY <1>3, <1>10, <2>2 DEF image, image_index
    <3>2. unstable' = [u EXCEPT !.snapshot = None] BY <1>3, <1>7, <2>2, <3>1 DEF stable_snap_to
    <3>3. None \in Point BY DEF None, At, Point
    <3> QED BY <1>10, <3>2, <3>3
  <2> QED BY <2>1, <2>2
<1>12. /\ offset' = o /\ fresh' = u.entries /\ size' = n /\ image' = None
  BY <1>10, <1>11 DEF offset, fresh, size, image
<1>13. image_index' = 0 BY <1>11 DEF image_index, None, At
<1>14. End' = End
  <2>1. End' = o + n - 1 BY <1>12 DEF End
  <2> QED BY <1>1, <1>10, <2>1 DEF Sized
<1>15. StableTo(o, n) BY <1>10, <1>11, <1>12, <1>13, <1>14 DEF StableTo
<1> QED BY <1>6, <1>15

\* advance: what was saved, and is still what Raft reads, leaves Unstable.
LEMMA AdvanceStep ==
    ASSUME StorageInv, Advance
    PROVE  StorageInv' /\ \E l \in Known : ReadsAs(l) /\ ReadsAs(l)'
<1>1. Typed /\ ~fatal /\ Ordered /\ (phase # "none" => Held) /\ Staged /\ Holds /\ Sized BY Start
<1>2. /\ phase = "applied" /\ rd' = NoReady /\ storage' = storage /\ committed' = committed
      /\ applied_index' = applied_index /\ fatal' = fatal
  BY DEF Advance, phase
<1>3. /\ dummy_index' = dummy_index /\ dummy_term' = dummy_term /\ saved' = saved /\ kept' = kept
      /\ saved_index' = saved_index /\ storage_last' = storage_last
  BY <1>2, SameStorage
<1>4. phase' = "none" BY <1>2 DEF phase, NoReady
<1>5. PICK o \in Nat, n \in Nat : StableTo(o, n) BY AdvanceIs
<1>6. applied' = applied_index BY AdvanceIs
<1>7. /\ unstable' \in [offset : Positive, entries : Seq(Positive), snapshot : Point]
      /\ image' = None /\ image_index' = 0
      /\ offset' = o /\ size' = n /\ End' = End
      /\ o = (IF Matches THEN Taken + 1 ELSE offset) /\ n = End - o + 1
      /\ \A k \in 1..n : fresh'[k] = fresh[o - offset + k]
  BY <1>5 DEF StableTo
<1>8. Held /\ ~Behind /\ ~Behind' BY <1>1, <1>2, <1>7 DEF Behind
<1>9. storage_last = Taken BY <1>1, <1>2 DEF Staged
<1>10. Typed'
  <2>1. NoReady \in [phase : Phase, first : Nat, entries : Seq(Positive), snapshot : Point,
                     low : Nat, cursor : Nat]
    <3>1. None \in Point BY DEF None, At, Point
    <3>2. <<>> \in Seq(Positive) OBVIOUS
    <3> QED BY <3>1, <3>2 DEF NoReady, Phase
  <2> QED BY <1>1, <1>2, <1>6, <1>7, <2>1 DEF Typed
<1>11. Matches => offset <= Taken /\ Taken <= End BY DEF Matches
<1>12. Ordered'
  <2>1. n = 0 => o = storage_last + 1
    <3>1. CASE Matches BY <1>7, <1>9, <3>1
    <3>2. CASE ~Matches
      <4>1. o = offset /\ n = size BY <1>1, <1>7, <3>2 DEF Sized
      <4> QED BY <1>1, <1>8, <4>1 DEF Ordered
    <3> QED BY <3>1, <3>2
  <2>2. n > 0 => dummy_index < End
    <3>1. CASE Matches
      <4>1. n > 0 => Taken < End BY <1>1, <1>7, <3>1 DEF Sized
      <4> QED BY <1>1, <1>9, <4>1 DEF Sized
    <3>2. CASE ~Matches
      <4>1. n = size BY <1>1, <1>7, <3>2 DEF Sized
      <4> QED BY <1>8, <3>2, <4>1 DEF Held
    <3> QED BY <3>1, <3>2
  <2> QED BY <1>1, <1>2, <1>3, <1>4, <1>6, <1>7, <1>8, <2>1, <2>2 DEF Ordered
<1>13. Staged' BY <1>4 DEF Staged
<1>14. PICK m \in Known : SavedAs(m, storage_last) BY <1>1 DEF Holds
<1>15. PICK l \in Known, r \in Known : ReadsAs(l) /\ TakenAs(l, r)
  BY <1>1, <1>2 DEF Holds
<1>16. /\ SavedAs(l, offset - 1) /\ SavedAs(r, Taken) /\ Taken <= Len(r)
       /\ End <= Len(l) /\ \A k \in 1..size : fresh[k] = l[offset + k - 1]
       /\ \A k \in 1..rd_size : rd_entries[k] = r[rd_first + k - 1]
  BY <1>2, <1>8, <1>15 DEF ReadsAs, TakenAs
<1>17. SavedAs(m, storage_last)' BY <1>3, <1>14 DEF SavedAs
<1>18. SavedAs(l, o - 1)
  <2>1. CASE Matches
    <3>1. /\ rd_size > 0 /\ offset <= Taken /\ Taken <= End
          /\ fresh[Taken - offset + 1] = rd_entries[rd_size]
      BY <2>1 DEF Matches
    <3>2. /\ Taken - offset + 1 \in 1..size /\ offset + (Taken - offset + 1) - 1 = Taken
          /\ rd_size \in 1..rd_size /\ rd_first + rd_size - 1 = Taken
          /\ Taken \in Nat /\ 1 <= Taken
      BY <1>1, <3>1 DEF Sized
    <3>3. l[Taken] = r[Taken] BY <1>16, <3>1, <3>2
    <3>4. Len(l) \in Nat /\ Len(r) \in Nat BY KnownType
    <3>5. Taken <= Len(l) BY <1>1, <1>16, <3>1, <3>4 DEF Sized
    <3>6. ASSUME NEW j \in 1..Taken
          PROVE  l[j] = r[j]
      BY <1>16, <3>2, <3>3, <3>5, LogsMatch
    <3>7. dummy_index <= Taken /\ dummy_index <= Len(l) BY <1>1, <1>9, <3>4, <3>5 DEF Sized
    <3>8. dummy_index > 0 => dummy_term = l[dummy_index]
      <4>1. dummy_index > 0 => dummy_index \in 1..Taken BY <1>1, <3>7 DEF Sized
      <4> QED BY <1>16, <3>6, <4>1 DEF SavedAs
    <3>9. ASSUME NEW k \in 1..Taken - dummy_index
          PROVE  saved[k] = l[dummy_index + k]
      <4>1. dummy_index + k \in 1..Taken BY <1>1, <3>2 DEF Sized
      <4> QED BY <1>16, <3>6, <4>1 DEF SavedAs
    <3>10. o - 1 = Taken BY <1>7, <2>1, <3>2
    <3>11. Taken <= storage_last BY <1>9, <3>2
    <3> QED BY <3>5, <3>7, <3>8, <3>9, <3>10, <3>11 DEF SavedAs
  <2>2. CASE ~Matches BY <1>7, <1>16, <2>2
  <2> QED BY <2>1, <2>2
<1>19. ReadsAs(l)'
  <2>1. SavedAs(l, offset - 1)' BY <1>3, <1>7, <1>18 DEF SavedAs
  <2>2. ASSUME NEW k \in 1..n
        PROVE  fresh'[k] = l[o + k - 1]
    <3>1. o - offset + k \in 1..size /\ offset + (o - offset + k) - 1 = o + k - 1
      BY <1>1, <1>7, <1>11 DEF Sized
    <3> QED BY <1>7, <1>16, <3>1
  <2> QED BY <1>7, <1>16, <2>1, <2>2 DEF ReadsAs
<1>20. Holds' BY <1>4, <1>17, <1>19 DEF Holds
<1> QED BY <1>1, <1>2, <1>4, <1>10, <1>12, <1>13, <1>15, <1>19, <1>20 DEF StorageInv

-----------------------------------------------------------------------------
(* The invariant holds in every reachable state. *)

\* At the start both halves are empty, a part of the empty log.
LEMMA InitStorage ==
    ASSUME Init
    PROVE  StorageInv
<1>1. <<>> \in Seq(Positive) /\ Len(<<>>) = 0 /\ None \in Point /\ 1 \in Positive
  BY DEF None, At, Point, Positive
<1>2. /\ unstable = [offset |-> 1, entries |-> <<>>, snapshot |-> None]
      /\ storage = [snapshot |-> None, dummy |-> None, entries |-> <<>>]
      /\ committed = 0 /\ applied = 0 /\ applied_index = 0
      /\ rd = NoReady /\ fatal = FALSE
  BY DEF Init
<1>3. Typed
  <2>1. NoReady \in [phase : Phase, first : Nat, entries : Seq(Positive), snapshot : Point,
                     low : Nat, cursor : Nat]
    BY <1>1 DEF NoReady, Phase
  <2> QED BY <1>1, <1>2, <2>1 DEF Typed
<1>4. offset = 1 /\ fresh = <<>> /\ size = 0 /\ image = None
  BY <1>1, <1>2 DEF offset, fresh, size, image
<1>5. dummy_index = 0 /\ saved = <<>> /\ kept = 0 /\ saved_index = 0
  BY <1>1, <1>2 DEF dummy_index, saved, kept, saved_index, None, At
<1>6. phase = "none" BY <1>2 DEF phase, NoReady
<1>7. End = 0 /\ storage_last = 0
  <2>1. storage_last = dummy_index + kept BY DEF storage_last, dummy_index, kept
  <2> QED BY <1>4, <1>5, <2>1 DEF End
<1>8. ~Behind BY <1>4 DEF Behind
<1>9. Ordered BY <1>2, <1>4, <1>5, <1>6, <1>7, <1>8 DEF Ordered
<1>10. Staged BY <1>6 DEF Staged
<1>11. SavedAs(<<>>, 0) BY <1>1, <1>5, <1>7 DEF SavedAs
<1>12. ReadsAs(<<>>)
  <2>1. offset - 1 = 0 BY <1>4
  <2> QED BY <1>1, <1>4, <1>7, <1>11, <2>1 DEF ReadsAs
<1>13. Holds BY <1>6, <1>7, <1>11, <1>12 DEF Holds, Known
<1> QED BY <1>2, <1>3, <1>6, <1>9, <1>10, <1>13 DEF StorageInv

\* Raft's steps keep it.
LEMMA RaftKeeps ==
    ASSUME StorageInv, RaftStep
    PROVE  StorageInv'
<1>1. CASE \E l \in Logs : \E last \in 1..Len(l) : \E index \in 0..last, commit \in 0..last :
              MaybeAppend(l, index, last, commit)
  <2>0. PICK l \in Logs : \E last \in 1..Len(l) : \E index \in 0..last, commit \in 0..last :
              MaybeAppend(l, index, last, commit)
    BY <1>1
  <2>1. PICK last \in 1..Len(l) : \E index \in 0..last, commit \in 0..last :
              MaybeAppend(l, index, last, commit)
    BY <2>0
  <2>2. PICK index \in 0..last, commit \in 0..last : MaybeAppend(l, index, last, commit)
    BY <2>1
  <2>3. \/ /\ last <= End /\ committed' \in Nat /\ committed <= committed' /\ committed' <= last
           /\ UNCHANGED <<unstable, storage, applied, rd, applied_index, fatal>>
        \/ \E after \in Nat : Replaces(l, after, last)
    BY <2>2, AppendCases
  <2>4. l \in Known /\ last \in Nat
    <3>1. l \in Known BY DEF Known
    <3>2. Len(l) \in Nat BY <3>1, KnownType
    <3> QED BY <3>1, <3>2
  <2>5. CASE /\ last <= End /\ committed' \in Nat /\ committed <= committed' /\ committed' <= last
             /\ UNCHANGED <<unstable, storage, applied, rd, applied_index, fatal>>
    <3>1. Sized BY Start
    <3>2. committed' <= End BY <2>4, <2>5, <3>1 DEF Sized
    <3> QED BY <2>5, <3>2, CommitStep
  <2>6. CASE \E after \in Nat : Replaces(l, after, last)
    BY <2>4, <2>6, TruncateStep
  <2> QED BY <2>3, <2>5, <2>6
<1>2. CASE \E c \in 1..last_index : CommitTo(c)
  <2>1. PICK c \in 1..last_index : CommitTo(c) BY <1>2
  <2>2. Sized /\ Spans BY Start
  <2>3. c \in Nat /\ c <= End BY <2>2 DEF Spans, Sized
  <2>4. committed < c /\ committed' = c
        /\ UNCHANGED <<unstable, storage, applied, rd, applied_index, fatal>>
    BY <2>1 DEF CommitTo
  <2>5. committed' \in Nat /\ committed <= committed' /\ committed' <= End
    BY <2>2, <2>3, <2>4 DEF Sized
  <2> QED BY <2>4, <2>5, CommitStep
<1>3. CASE \E l \in Logs : \E index \in 1..Len(l) : committed <= Len(l) /\ Restore(l, index)
  BY <1>3, RestoreStep
<1> QED BY <1>1, <1>2, <1>3 DEF RaftStep

\* A step that changes nothing keeps it.
LEMMA StutterKeeps ==
    ASSUME StorageInv, UNCHANGED vars
    PROVE  StorageInv'
<1>1. Sized /\ Ordered BY Start
<1>2. /\ UNCHANGED <<unstable, storage, applied, rd, applied_index, fatal>>
      /\ committed' = committed
  BY DEF vars
<1>3. committed' \in Nat /\ committed <= committed' /\ committed' <= End
  BY <1>1, <1>2 DEF Sized, Ordered
<1> QED BY <1>2, <1>3, CommitStep

\* Every step keeps it.
LEMMA StepKeeps ==
    ASSUME StorageInv, [Next]_vars
    PROVE  StorageInv'
BY RaftKeeps, TakeReadyStep, ApplySnapshotStep, AppendEntriesStep, PublishStep, AdvanceStep,
   StutterKeeps DEF Next

\* The two halves of the log, Unstable and MemoryStorage, and the Ready between
\* them keep to the inductive invariant (RaftLog, Unstable, MemoryStorage and the
\* application's loop over Ready and advance).
THEOREM StorageInvariant == Spec => []StorageInv
<1>1. Init => StorageInv BY InitStorage
<1>2. StorageInv /\ [Next]_vars => StorageInv' BY StepKeeps
<1> QED BY <1>1, <1>2, PTL DEF Spec

\* Whatever Raft does between a Ready and its advance, every slice of the log can
\* be served from the two halves, and has the entries that term tells of
\* (RaftLog::slice, RaftLog::term).
THEOREM SlicesAlwaysAgree == Spec => []SlicesAgree
<1>1. StorageInv => SlicesAgree BY InvImplies
<1> QED BY <1>1, StorageInvariant, PTL

\* No LOG_FATAL of the log, the storage or the application's loop is reached, for
\* every snapshot count and every catch-up count that is not above it
\* (MemoryStorage::append and compact, RaftNode::entries_to_apply,
\* publish_snapshot and maybe_trigger_snapshot).
THEOREM StorageNeverFatal == Spec => []NeverFatal
<1>1. StorageInv => NeverFatal BY InvImplies
<1> QED BY <1>1, StorageInvariant, PTL

-----------------------------------------------------------------------------
(* The order in which entries are applied *)

\* Raft's count of what is applied never runs ahead of the application's.
LEMMA AppliedBehind ==
    ASSUME StorageInv
    PROVE  applied <= applied_index
<1>1. Ordered /\ (phase # "none" => Held) /\ Staged /\ Sized /\ phase \in Phase
  BY Start, Parts
<1>2. CASE phase \in {"none", "ready"} BY <1>1, <1>2 DEF Ordered, Sized
<1>3. CASE phase \in {"restored", "saved"}
  <2>1. applied_index = (IF image = None THEN applied ELSE image_index) BY <1>1, <1>3 DEF Staged
  <2>2. image # None => applied < image_index BY <1>1, <1>3 DEF Held
  <2> QED BY <1>1, <2>1, <2>2 DEF Sized
<1>4. CASE phase = "applied"
  <2>1. applied_index = (IF rd_cursor > 0 THEN rd_cursor
                         ELSE IF image = None THEN applied ELSE image_index)
    BY <1>1, <1>4 DEF Staged
  <2>2. /\ image # None => applied < image_index
        /\ rd_cursor > 0 =>
              rd_low = (IF image = None THEN applied + 1 ELSE image_index + 1) /\ rd_low <= rd_cursor
    BY <1>1, <1>4 DEF Held
  <2> QED BY <1>1, <2>1, <2>2 DEF Sized
<1> QED BY <1>1, <1>2, <1>3, <1>4 DEF Phase

\* No step takes the application back, and it never applies what is not committed
\* (RaftNode::publish_entries and publish_snapshot, RaftLog::applied_to).
THEOREM AppliesInOrder == Spec => AppliedInOrder
<1>1. ASSUME StorageInv, StorageInv', [Next]_vars
      PROVE  applied_index' >= applied_index /\ applied' >= applied /\ applied_index' <= committed'
  <2>1. Sized /\ (phase # "none" => Held) /\ Ordered /\ applied <= applied_index
    BY <1>1, Start, AppliedBehind
  <2>2. applied_index' <= committed' BY <1>1 DEF StorageInv, Ordered
  <2>3. applied >= applied /\ applied_index >= applied_index /\ applied_index >= applied
    BY <2>1 DEF Sized
  <2>4. CASE RaftStep \/ TakeReady \/ AppendEntries \/ UNCHANGED vars
    <3>1. applied' = applied /\ applied_index' = applied_index
      BY <2>4 DEF RaftStep, MaybeAppend, CommitTo, Restore, TakeReady, AppendEntries, vars
    <3> QED BY <2>2, <2>3, <3>1
  <2>5. CASE ApplySnapshot
    <3>1. phase = "ready" /\ applied' = applied BY <2>5 DEF ApplySnapshot, phase
    <3>2. CASE image = None
      <4>1. rd_image = None BY <2>1, <3>1, <3>2 DEF Held
      <4>2. applied_index' = applied_index BY <2>5, <4>1 DEF ApplySnapshot, rd_image
      <4> QED BY <2>2, <2>3, <3>1, <4>2
    <3>3. CASE image # None
      <4>1. applied_index' = image_index BY <1>1, <2>5, <3>3, SnapshotIs
      <4>2. applied_index < image_index BY <2>1, <3>1, <3>3 DEF Ordered, Behind
      <4>3. image_index >= applied_index BY <2>1, <4>2 DEF Sized
      <4> QED BY <2>2, <2>3, <3>1, <4>1, <4>3
    <3> QED BY <3>2, <3>3
  <2>6. CASE Publish
    <3>1. applied' = applied BY <2>6 DEF Publish
    <3>2. PICK i \in Nat : applied_index <= i /\ applied_index' = i BY <1>1, <2>6, PublishIs
    <3>3. i >= applied_index BY <2>1, <3>2 DEF Sized
    <3> QED BY <2>2, <2>3, <3>1, <3>2, <3>3
  <2>7. CASE Advance
    <3>1. applied' = applied_index BY <1>1, <2>7, AdvanceIs
    <3>2. applied_index' = applied_index BY <2>7 DEF Advance
    <3> QED BY <2>2, <2>3, <3>1, <3>2
  <2> QED BY <1>1, <2>4, <2>5, <2>6, <2>7 DEF Next
<1> QED BY <1>1, StorageInvariant, PTL DEF Spec, AppliedInOrder

-----------------------------------------------------------------------------
(* The two halves implement one plain log. *)

\* What Plain is instantiated with
Base == At(first_index - 1, log_term(first_index - 1))
Ents == [k \in 1..last_index - first_index + 1 |-> log_term(first_index + k - 1)]

\* Seen from Raft, the log is the part f..e of the log l: entry f is the last one
\* compacted away.
Shows(l, f, e) ==
    /\ first_index = f + 1 /\ f <= committed /\ committed <= e /\ e <= Len(l)
    /\ last_index = e
    /\ Base.index = f /\ Base = At(Base.index, Base.term)
    /\ f > 0 => Base.term = l[f]
    /\ f = 0 => Base.term = dummy_term
    /\ Ents \in Seq(Positive) /\ Len(Ents) = e - f
    /\ \A k \in 1..e - f : Ents[k] = l[f + k]

\* The log that is read, from its first index to its last, is a piece of a known log.
LEMMA Shown ==
    ASSUME StorageInv, NEW l \in Known, ReadsAs(l)
    PROVE  \E f \in Nat, e \in Nat : Shows(l, f, e)
<1>1. Ordered /\ Sized /\ Spans BY Start
<1>2. PICK f \in Nat : first_index = f + 1 /\ f = first_index - 1 BY <1>1 DEF Spans
<1>3. PICK e \in Nat : last_index = e BY <1>1 DEF Spans
<1>4. Len(l) \in Nat /\ \A k \in 1..Len(l) : l[k] \in Positive BY KnownType
<1>5. /\ f <= committed /\ committed <= e /\ e <= Len(l)
  BY <1>1, <1>2, <1>3, <1>4 DEF Spans, Sized, ReadsAs
<1>6. Base.index = f /\ Base.term = log_term(f) /\ Base = At(Base.index, Base.term)
  BY <1>2 DEF Base, At
<1>7. f > 0 => log_term(f) = l[f]
  <2>1. first_index - 1 <= f /\ f <= last_index BY <1>1, <1>2, <1>3, <1>5 DEF Sized
  <2> QED BY <1>2, <2>1, TermIs
<1>8. f = 0 => log_term(f) = dummy_term
  <2>1. ASSUME f = 0
        PROVE  log_term(0) = dummy_term
    <3>1. image = None /\ dummy_index = 0 /\ 0 < offset
      BY <1>1, <1>2, <2>1 DEF Ordered, Sized, Spans
    <3>2. ~InUnstable(0) BY <3>1, TermLooks
    <3>3. ~(0 < first_index - 1) /\ ~(0 > last_index) BY <1>2, <1>3, <2>1
    <3>4. log_term(0) = storage_term(0) BY <3>2, <3>3 DEF log_term
    <3> QED BY <3>1, <3>4, StorageTerm
  <2> QED BY <2>1
<1>9. ASSUME NEW k \in 1..e - f
      PROVE  log_term(first_index + k - 1) = l[f + k] /\ l[f + k] \in Positive
  <2>1. /\ first_index + k - 1 = f + k /\ f + k \in Nat /\ first_index - 1 <= f + k
        /\ f + k <= last_index /\ 0 < f + k /\ f + k \in 1..Len(l)
    BY <1>2, <1>3, <1>4, <1>5
  <2>2. log_term(f + k) = l[f + k] BY <2>1, TermIs
  <2> QED BY <1>4, <2>1, <2>2
<1>10. last_index - first_index + 1 = e - f BY <1>2, <1>3
<1>11. e - f \in Nat BY <1>1, <1>5 DEF Sized
<1>12. Ents = [k \in 1..e - f |-> log_term(first_index + k - 1)] BY <1>10 DEF Ents
<1>13. Ents \in Seq(Positive) /\ Len(Ents) = e - f /\ \A k \in 1..e - f : Ents[k] = l[f + k]
  BY <1>9, <1>11, <1>12
<1> QED BY <1>2, <1>3, <1>5, <1>6, <1>7, <1>8, <1>13 DEF Shows

AllShown == \A l \in Known : ReadsAs(l) => \E f \in Nat, e \in Nat : Shows(l, f, e)

\* The same, as a state predicate, so that it can be primed.
LEMMA EveryShown == StorageInv => AllShown
BY Shown DEF AllShown

\* The same after a step.
LEMMA ShownNext ==
    ASSUME StorageInv', NEW l \in Known, ReadsAs(l)'
    PROVE  \E f \in Nat, e \in Nat : Shows(l, f, e)'
<1>1. AllShown' BY EveryShown, PTL
<1> QED BY <1>1 DEF AllShown

\* The operators of Plain, in terms of Base and Ents
LEMMA PlainLast == Plain!Last = Base.index + Len(Ents)
BY DEF Plain!Last, Base, Ents

\* Term of Plain, in terms of Base and Ents.
LEMMA PlainTerm ==
    ASSUME NEW i
    PROVE  Plain!Term(i) = IF i = Base.index THEN Base.term ELSE Ents[i - Base.index]
BY DEF Plain!Term, Base, Ents

\* A step that changes nothing that is read is a stutter of Plain.
LEMMA PlainSame ==
    ASSUME Base' = Base, Ents' = Ents, committed' = committed
    PROVE  UNCHANGED Plain!log
BY DEF Plain!log, Base, Ents

\* What makes a step one of Plain: compaction.
LEMMA PlainCompact ==
    ASSUME NEW k, Base' = At(k, Plain!Term(k)), Ents' = SubSeq(Ents, k - Base.index + 1, Len(Ents)),
           committed' = committed
    PROVE  Plain!Compact(k)
BY DEF Plain!Compact, Base, Ents, At

\* What makes a step one of Plain: commitment.
LEMMA PlainCommit ==
    ASSUME committed' \in committed + 1..Plain!Last, Base' = Base, Ents' = Ents
    PROVE  Plain!Commit
BY DEF Plain!Commit, Base, Ents

\* What makes a step one of Plain: a snapshot.
LEMMA PlainRestore ==
    ASSUME NEW leader, NEW i, Plain!Knows(leader), i > committed, Base' = At(i, leader[i]),
           Ents' = <<>>, committed' = i
    PROVE  Plain!Restore(leader, i)
BY DEF Plain!Restore, Base, Ents, At

\* What makes a step one of Plain: entries of a leader.
LEMMA PlainExtend ==
    ASSUME NEW leader, NEW last, Plain!Knows(leader), committed <= last,
           Ents' = IF Plain!Has(leader, last) THEN Ents ELSE SubSeq(leader, Base.index + 1, last),
           committed' \in committed..last, Base' = Base
    PROVE  Plain!Extend(leader, last)
BY DEF Plain!Extend, Base, Ents

\* Has of Plain, in terms of Base and Ents.
LEMMA PlainHas ==
    ASSUME NEW leader, NEW last
    PROVE  Plain!Has(leader, last) <=>
              last <= Plain!Last /\ \A k \in Base.index + 1..last : Plain!Term(k) = leader[k]
BY DEF Plain!Has, Base

\* What term of Plain answers
LEMMA PlainTermIs ==
    ASSUME NEW l, NEW f \in Nat, NEW e \in Nat, Shows(l, f, e), NEW i \in Nat, f <= i, i <= e, 0 < i
    PROVE  Plain!Term(i) = l[i]
<1>1. /\ Base.index = f /\ (f > 0 => Base.term = l[f])
      /\ \A k \in 1..e - f : Ents[k] = l[f + k]
  BY DEF Shows
<1>2. Plain!Term(i) = IF i = f THEN Base.term ELSE Ents[i - f] BY <1>1, PlainTerm
<1>3. CASE i = f BY <1>1, <1>2, <1>3
<1>4. CASE i # f
  <2>1. i - f \in 1..e - f /\ f + (i - f) = i BY <1>4
  <2> QED BY <1>1, <1>2, <1>4, <2>1
<1> QED BY <1>3, <1>4

\* Two views of the same part of a log are the same to Raft.
LEMMA SameView ==
    ASSUME NEW l, NEW g, NEW f \in Nat, NEW e \in Nat, Shows(l, f, e), Shows(g, f, e)',
           \A k \in 1..e : k >= f => l[k] = g[k], f = 0 => dummy_term' = dummy_term
    PROVE  Base' = Base /\ Ents' = Ents
<1>1. /\ Base = At(Base.index, Base.term) /\ Base.index = f
      /\ f > 0 => Base.term = l[f]
      /\ f = 0 => Base.term = dummy_term
      /\ Ents \in Seq(Positive) /\ Len(Ents) = e - f
      /\ \A k \in 1..e - f : Ents[k] = l[f + k]
      /\ first_index = f + 1 /\ f <= committed /\ committed <= e
  BY DEF Shows
<1>2. /\ Base' = At(Base'.index, Base'.term) /\ Base'.index = f
      /\ f > 0 => Base'.term = g[f]
      /\ f = 0 => Base'.term = dummy_term'
      /\ Ents' \in Seq(Positive) /\ Len(Ents') = e - f
      /\ \A k \in 1..e - f : Ents'[k] = g[f + k]
  BY DEF Shows
<1>3. Base'.term = Base.term
  <2>1. CASE f = 0 BY <1>1, <1>2, <2>1
  <2>2. CASE f > 0
    <3>1. CASE f <= e BY <1>1, <1>2, <2>2, <3>1
    <3>2. CASE ~(f <= e)
      <4>1. e - f \notin Nat BY <3>2
      <4>2. Len(Ents) \in Nat BY <1>1
      <4> QED BY <1>1, <4>1, <4>2
    <3> QED BY <3>1, <3>2
  <2> QED BY <2>1, <2>2
<1>4. Base' = Base BY <1>1, <1>2, <1>3
<1>5. ASSUME NEW k \in 1..e - f
      PROVE  Ents'[k] = Ents[k]
  <2>1. f + k \in 1..e /\ f + k >= f OBVIOUS
  <2> QED BY <1>1, <1>2, <2>1
<1> DEFINE a == Ents
           b == Ents'
<1> HIDE DEF a, b
<1>6. a \in Seq(Positive) /\ b \in Seq(Positive) /\ Len(a) = Len(b) /\ \A k \in 1..Len(a) : a[k] = b[k]
  BY <1>1, <1>2, <1>5 DEF a, b
<1>7. a = b BY <1>6, SeqEqual
<1> QED BY <1>4, <1>7 DEF a, b

\* A leader that agrees with Raft's log at an index that is not below the commit
\* index knows what is committed.
LEMMA LeaderKnows ==
    ASSUME NEW l, NEW f \in Nat, NEW e \in Nat, Shows(l, f, e), NEW leader, committed \in Nat,
           committed <= Len(leader), committed > 0 => l[committed] = leader[committed]
    PROVE  Plain!Knows(leader)
<1>1. f <= committed /\ committed <= e BY DEF Shows
<1>2. committed > 0 => Plain!Term(committed) = l[committed] BY <1>1, PlainTermIs
<1>3. committed = 0 \/ Plain!Term(committed) = leader[committed] BY <1>2
<1> QED BY <1>3 DEF Plain!Knows

\* What Unstable, MemoryStorage and the commit index are is what Raft reads.
LEMMA SameLog ==
    ASSUME unstable' = unstable, storage' = storage
    PROVE  Base' = Base /\ Ents' = Ents
BY DEF Base, Ents, first_index, last_index, log_term, InUnstable, maybe_term, storage_term,
       storage_last

\* maybe_append is Plain's Extend.
LEMMA AppendRefines ==
    ASSUME StorageInv, NEW leader \in Logs, NEW last \in 1..Len(leader), NEW index \in 0..last,
           NEW commit \in 0..last, MaybeAppend(leader, index, last, commit)
    PROVE  Plain!Extend(leader, last)
<1>1. Sized /\ Spans /\ Holds BY Start
<1>2. leader \in Known BY DEF Known
<1>3. Len(leader) \in Nat /\ last \in Nat /\ index \in Nat /\ last <= Len(leader) /\ index <= last
      /\ leader \in Seq(Positive)
  BY <1>2, KnownType
<1>4. PICK l \in Known : ReadsAs(l) BY <1>1 DEF Holds
<1>5. PICK f \in Nat, e \in Nat : Shows(l, f, e) BY <1>4, Shown
<1>6. /\ first_index = f + 1 /\ f <= committed /\ committed <= e /\ e <= Len(l) /\ last_index = e
      /\ Base.index = f /\ Len(Ents) = e - f
  BY <1>5 DEF Shows
<1>7. /\ committed <= index /\ index <= last_index
      /\ index > 0 => log_term(index) = leader[index]
  BY AppendCases
<1>8. ASSUME NEW j \in 1..index
      PROVE  l[j] = leader[j]
  <2>1. first_index - 1 <= index /\ index <= Len(leader) BY <1>1, <1>3, <1>6, <1>7 DEF Sized
  <2> QED BY <1>2, <1>3, <1>4, <1>7, <2>1, AgreesBelow
<1>9. Plain!Knows(leader)
  <2>1. /\ committed \in Nat /\ committed <= Len(leader)
        /\ committed > 0 => committed \in 1..index
    BY <1>1, <1>3, <1>7 DEF Sized
  <2> QED BY <1>5, <1>8, <2>1, LeaderKnows
<1>10. committed <= last BY <1>1, <1>3, <1>7 DEF Sized
<1>11. Plain!Last = e
  <2>1. Plain!Last = f + (e - f) BY <1>6, PlainLast
  <2> QED BY <2>1
<1>12. CASE /\ last <= End
            /\ \A k \in index + 1..last : log_term(k) = leader[k]
            /\ committed' \in Nat /\ committed <= committed' /\ committed' <= last
            /\ UNCHANGED <<unstable, storage, applied, rd, applied_index, fatal>>
  <2>1. last <= e BY <1>1, <1>6, <1>12 DEF Spans
  <2>2. ASSUME NEW k \in f + 1..last
        PROVE  Plain!Term(k) = leader[k]
    <3>1. k \in Nat /\ f <= k /\ k <= e /\ 0 < k BY <1>3, <2>1
    <3>2. Plain!Term(k) = l[k] BY <1>5, <3>1, PlainTermIs
    <3>3. CASE k <= index BY <1>8, <3>1, <3>2, <3>3
    <3>4. CASE ~(k <= index)
      <4>1. log_term(k) = leader[k] BY <1>3, <1>12, <3>1, <3>4
      <4>2. first_index - 1 <= k /\ k <= last_index BY <1>6, <3>1
      <4>3. log_term(k) = l[k] BY <1>4, <3>1, <4>2, TermIs
      <4> QED BY <3>2, <4>1, <4>3
    <3> QED BY <3>3, <3>4
  <2>3. Plain!Has(leader, last) BY <1>6, <1>11, <2>1, <2>2, PlainHas
  <2>4. Base' = Base /\ Ents' = Ents BY <1>12, SameLog
  <2>5. committed' \in committed..last BY <1>1, <1>3, <1>12 DEF Sized
  <2> QED BY <1>9, <1>10, <2>3, <2>4, <2>5, PlainExtend
<1>13. CASE \E after \in Nat : Replaces(leader, after, last) /\ log_term(after) # leader[after]
  <2>1. PICK after \in Nat : Replaces(leader, after, last) /\ log_term(after) # leader[after]
    BY <1>13
  <2>2. /\ StorageInv' /\ ReadsAs(leader)' /\ End' = last /\ first_index' = first_index
    BY <1>2, <1>3, <2>1, TruncateStep
  <2>3. /\ committed < after /\ after <= last /\ after <= e + 1
        /\ after - 1 > 0 => log_term(after - 1) = leader[after - 1]
        /\ committed' \in Nat /\ committed <= committed' /\ committed' <= last
        /\ storage' = storage
    BY <1>1, <1>6, <2>1 DEF Replaces, Spans
  <2>4. ~Plain!Has(leader, last)
    <3>1. ASSUME Plain!Has(leader, last)
          PROVE  FALSE
      <4>1. last <= e /\ \A k \in f + 1..last : Plain!Term(k) = leader[k]
        BY <1>6, <1>11, <3>1, PlainHas
      <4>2. after \in f + 1..last /\ f <= after /\ after <= e /\ 0 < after
        BY <1>1, <1>3, <1>6, <2>3, <4>1 DEF Sized
      <4>3. Plain!Term(after) = l[after] BY <1>5, <4>2, PlainTermIs
      <4>4. first_index - 1 <= after /\ after <= last_index BY <1>6, <4>2
      <4>5. log_term(after) = l[after] BY <1>4, <4>2, <4>4, TermIs
      <4> QED BY <2>1, <4>1, <4>2, <4>3, <4>5
    <3> QED BY <3>1
  <2>5. PICK f2 \in Nat, e2 \in Nat : Shows(leader, f2, e2)' BY <1>2, <2>2, ShownNext
  <2>6. f2 = f /\ e2 = last
    <3>1. first_index' = f2 + 1 /\ last_index' = e2 BY <2>5 DEF Shows
    <3>2. Spans' BY <2>2, Limits, PTL
    <3>3. last_index' = last BY <2>2, <3>2 DEF Spans
    <3> QED BY <1>6, <2>2, <3>1, <3>3
  <2>7. /\ Base' = At(Base'.index, Base'.term) /\ Base'.index = f
        /\ f > 0 => Base'.term = leader[f]
        /\ f = 0 => Base'.term = dummy_term'
        /\ Ents' \in Seq(Positive) /\ Len(Ents') = last - f
        /\ \A k \in 1..last - f : Ents'[k] = leader[f + k]
    BY <2>5, <2>6 DEF Shows
  <2>8. /\ Base = At(Base.index, Base.term)
        /\ f > 0 => Base.term = l[f]
        /\ f = 0 => Base.term = dummy_term
    BY <1>5 DEF Shows
  <2>9. Base' = Base
    <3>1. f > 0 => l[f] = leader[f]
      <4>1. f > 0 => f \in 1..index BY <1>1, <1>6, <1>7 DEF Sized
      <4> QED BY <1>8, <4>1
    <3>2. dummy_term' = dummy_term BY <2>3, SameStorage
    <3>3. Base'.term = Base.term BY <2>7, <2>8, <3>1, <3>2
    <3> QED BY <1>6, <2>7, <2>8, <3>3
  <2>10. Ents' = SubSeq(leader, f + 1, last)
    <3>1. f <= last BY <1>1, <1>3, <1>6, <1>10 DEF Sized
    <3> DEFINE a == Ents'
               b == SubSeq(leader, f + 1, last)
    <3>2. b \in Seq(Positive) /\ Len(b) = last - f BY <1>3, <3>1
    <3>3. ASSUME NEW k \in 1..last - f
          PROVE  b[k] = leader[f + k]
      <4>1. b[k] = leader[f + 1 + k - 1] BY <1>3, <3>1
      <4>2. f + 1 + k - 1 = f + k OBVIOUS
      <4> QED BY <4>1, <4>2
    <3>4. a \in Seq(Positive) /\ Len(a) = last - f /\ \A k \in 1..last - f : a[k] = leader[f + k]
      BY <2>7
    <3> HIDE DEF a, b
    <3>6. Len(a) = Len(b) /\ \A k \in 1..Len(a) : a[k] = b[k] BY <3>2, <3>3, <3>4
    <3>7. a = b BY <3>2, <3>4, <3>6, SeqEqual
    <3> QED BY <3>7 DEF a, b
  <2>11. committed' \in committed..last BY <1>1, <1>3, <2>3 DEF Sized
  <2> QED BY <1>6, <1>9, <1>10, <2>4, <2>9, <2>10, <2>11, PlainExtend
<1> QED BY <1>12, <1>13, AppendCases

\* commit_to is Plain's Commit.
LEMMA CommitRefines ==
    ASSUME StorageInv, NEW c \in 1..last_index, CommitTo(c)
    PROVE  Plain!Commit
<1>1. Sized /\ Spans /\ Holds BY Start
<1>2. PICK l \in Known : ReadsAs(l) BY <1>1 DEF Holds
<1>3. PICK f \in Nat, e \in Nat : Shows(l, f, e) BY <1>2, Shown
<1>4. last_index = e /\ Base.index = f /\ Len(Ents) = e - f BY <1>3 DEF Shows
<1>5. Plain!Last = e
  <2>1. Plain!Last = f + (e - f) BY <1>4, PlainLast
  <2> QED BY <2>1
<1>6. committed < c /\ committed' = c /\ unstable' = unstable /\ storage' = storage
  BY DEF CommitTo
<1>7. committed' \in committed + 1..Plain!Last BY <1>1, <1>4, <1>5, <1>6 DEF Sized
<1>8. Base' = Base /\ Ents' = Ents BY <1>6, SameLog
<1> QED BY <1>7, <1>8, PlainCommit

\* restore is Plain's Restore.
LEMMA RestoreRefines ==
    ASSUME StorageInv, NEW leader \in Logs, NEW index \in 1..Len(leader), committed <= Len(leader),
           Restore(leader, index)
    PROVE  Plain!Restore(leader, index)
<1>1. Sized /\ Spans /\ Holds BY Start
<1>2. PICK l \in Known : ReadsAs(l) BY <1>1 DEF Holds
<1>3. PICK f \in Nat, e \in Nat : Shows(l, f, e) BY <1>2, Shown
<1>4. /\ StorageInv' /\ ReadsAs(leader)' /\ leader \in Known
      /\ End' = index /\ first_index' = index + 1 /\ committed' = index /\ committed < index
      /\ log_term(committed) = IF committed = 0 THEN 0 ELSE leader[committed]
  BY RestoreStep
<1>5. Len(leader) \in Nat /\ index \in Nat /\ 0 < index BY <1>4, KnownType
<1>6. Plain!Knows(leader)
  <2>1. committed > 0 => l[committed] = leader[committed]
    <3>1. committed \in Nat /\ first_index - 1 <= committed /\ committed <= last_index
      BY <1>1 DEF Sized, Spans
    <3>2. committed > 0 => log_term(committed) = l[committed] BY <1>2, <3>1, TermIs
    <3> QED BY <1>4, <3>1, <3>2
  <2>2. committed \in Nat BY <1>1 DEF Sized
  <2> QED BY <1>3, <2>1, <2>2, LeaderKnows
<1>7. PICK f2 \in Nat, e2 \in Nat : Shows(leader, f2, e2)' BY <1>4, ShownNext
<1>8. f2 = index /\ e2 = index
  <2>1. first_index' = f2 + 1 /\ last_index' = e2 BY <1>7 DEF Shows
  <2>2. Spans' BY <1>4, Limits, PTL
  <2>3. last_index' = index BY <1>4, <2>2 DEF Spans
  <2> QED BY <1>4, <1>5, <2>1, <2>3
<1>9. /\ Base' = At(Base'.index, Base'.term) /\ Base'.index = index
      /\ Base'.term = leader[index] /\ Ents' \in Seq(Positive) /\ Len(Ents') = index - index
  BY <1>5, <1>7, <1>8 DEF Shows
<1>10. Ents' = <<>>
  <2>1. index - index = 0 BY <1>5
  <2> DEFINE a == Ents'
  <2>2. a \in Seq(Positive) /\ Len(a) = 0 BY <1>9, <2>1
  <2> HIDE DEF a
  <2>3. a = <<>> BY <2>2
  <2> QED BY <2>3 DEF a
<1>11. index > committed BY <1>1, <1>4, <1>5 DEF Sized
<1> QED BY <1>4, <1>6, <1>9, <1>10, <1>11, PlainRestore

\* A step of the application, seen from Raft: the log stays what it is, above a
\* prefix that may have become longer.
Quiet ==
    /\ committed' = committed /\ End' = End /\ first_index <= first_index'
    /\ first_index' = 1 => dummy_term' = dummy_term
    /\ \E l \in Known : ReadsAs(l) /\ ReadsAs(l)'

\* Such a step is a stutter of the log, or Plain's Compact.
LEMMA QuietRefines ==
    ASSUME StorageInv, StorageInv', Quiet
    PROVE  Plain!AppStep
<1>1. Sized /\ Spans BY Start
<1>2. Spans' BY Limits, PTL
<1>3. PICK l \in Known : ReadsAs(l) /\ ReadsAs(l)' BY DEF Quiet
<1>4. PICK f \in Nat, e \in Nat : Shows(l, f, e) BY <1>3, Shown
<1>5. PICK k \in Nat, e2 \in Nat : Shows(l, k, e2)' BY <1>3, ShownNext
<1>6. /\ first_index = f + 1 /\ last_index = e /\ f <= committed /\ committed <= e
      /\ Base.index = f /\ Base = At(Base.index, Base.term)
      /\ Ents \in Seq(Positive) /\ Len(Ents) = e - f
      /\ \A j \in 1..e - f : Ents[j] = l[f + j]
  BY <1>4 DEF Shows
<1>7. /\ first_index' = k + 1 /\ last_index' = e2 /\ k <= committed'
      /\ Base'.index = k /\ Base' = At(Base'.index, Base'.term) /\ (k > 0 => Base'.term = l[k])
      /\ Ents' \in Seq(Positive) /\ Len(Ents') = e2 - k
      /\ \A j \in 1..e2 - k : Ents'[j] = l[k + j]
  BY <1>5 DEF Shows
<1>8. committed' = committed /\ End' = End /\ first_index <= first_index'
      /\ (first_index' = 1 => dummy_term' = dummy_term)
  BY DEF Quiet
<1>9. e2 = e
  <2>1. last_index = End BY <1>1 DEF Spans
  <2>2. last_index' = End' BY <1>2 DEF Spans
  <2> QED BY <1>6, <1>7, <1>8, <2>1, <2>2
<1>10. f <= k /\ k <= committed BY <1>1, <1>6, <1>7, <1>8 DEF Sized
<1>11. CASE k = f
  <2>1. f = 0 => dummy_term' = dummy_term BY <1>7, <1>8, <1>11
  <2>2. Shows(l, f, e)' BY <1>5, <1>9, <1>11
  <2>3. Base' = Base /\ Ents' = Ents BY <1>4, <2>1, <2>2, SameView
  <2>4. UNCHANGED Plain!log BY <1>8, <2>3, PlainSame
  <2> QED BY <2>4 DEF Plain!AppStep
<1>12. CASE k # f
  <2>1. k > f /\ k <= e /\ 0 < k /\ k \in f + 1..committed BY <1>1, <1>6, <1>10, <1>12 DEF Sized
  <2>2. Plain!Term(k) = l[k] BY <1>4, <2>1, PlainTermIs
  <2>3. Base' = At(k, Plain!Term(k)) BY <1>7, <2>1, <2>2
  <2>4. Ents' = SubSeq(Ents, k - f + 1, Len(Ents))
    <3>1. PICK c \in Nat : c = k - f BY <2>1
    <3>2. PICK n \in Nat : n = e - f /\ c <= n BY <2>1, <3>1
    <3> DEFINE g == Ents
               a == Ents'
               b == SubSeq(g, c + 1, n)
    <3>3. g \in Seq(Positive) /\ Len(g) = n /\ \A j \in 1..n : g[j] = l[f + j]
      BY <1>6, <3>2
    <3>4. n - c = e2 - k BY <1>9, <3>1, <3>2
    <3>5. a \in Seq(Positive) /\ Len(a) = n - c /\ \A j \in 1..n - c : a[j] = l[k + j]
      BY <1>7, <3>4
    <3> HIDE DEF g, a
    <3>6. b \in Seq(Positive) /\ Len(b) = n - c BY <3>2, <3>3
    <3>7. ASSUME NEW j \in 1..n - c
          PROVE  b[j] = a[j]
      <4>1. b[j] = g[c + 1 + j - 1] BY <3>2, <3>3
      <4>2. c + 1 + j - 1 \in 1..n /\ f + (c + 1 + j - 1) = k + j BY <3>1, <3>2
      <4> QED BY <3>3, <3>5, <4>1, <4>2
    <3> HIDE DEF b
    <3>8. Len(a) = Len(b) /\ \A j \in 1..Len(a) : a[j] = b[j] BY <3>5, <3>6, <3>7
    <3>9. a = b BY <3>5, <3>6, <3>8, SeqEqual
    <3> QED BY <1>6, <3>1, <3>2, <3>9 DEF a, b, g
  <2>5. Plain!Compact(k) BY <1>6, <1>8, <2>3, <2>4, PlainCompact
  <2>6. k \in Base.index + 1..committed BY <1>6, <2>1
  <2> QED BY <2>5, <2>6 DEF Plain!AppStep, Base
<1> QED BY <1>11, <1>12

\* Where Raft's log starts
LEMMA FirstIs == first_index = IF image # None THEN image_index + 1 ELSE dummy_index + 1
BY DEF first_index, image, image_index, dummy_index

\* The steps of the application are quiet.
LEMMA AppIsQuiet ==
    ASSUME StorageInv, TakeReady \/ ApplySnapshot \/ AppendEntries \/ Publish \/ Advance
    PROVE  StorageInv' /\ Quiet
<1>1. Typed /\ Ordered /\ (phase # "none" => Held) /\ Staged /\ Sized BY Start
<1>2. StorageInv' /\ \E l \in Known : ReadsAs(l) /\ ReadsAs(l)'
  BY TakeReadyStep, ApplySnapshotStep, AppendEntriesStep, PublishStep, AdvanceStep
<1>3. committed' = committed
  BY DEF TakeReady, ApplySnapshot, AppendEntries, Publish, Advance
<1>4. first_index' = IF image' # None THEN image_index' + 1 ELSE dummy_index' + 1
  BY DEF first_index, image, image_index, dummy_index
<1>5. image_index + 1 \in Nat /\ dummy_index + 1 \in Nat /\ first_index \in Nat
      /\ first_index <= first_index
  <2>1. image_index + 1 \in Nat /\ dummy_index + 1 \in Nat BY <1>1 DEF Sized
  <2>2. first_index \in Nat BY <2>1, FirstIs
  <2> QED BY <2>1, <2>2
<1>6. CASE TakeReady \/ AppendEntries
  <2>1. unstable' = unstable BY <1>6 DEF TakeReady, AppendEntries
  <2>2. image' = image /\ image_index' = image_index /\ End' = End BY <2>1, SameUnstable
  <2>3. dummy_index' = dummy_index /\ dummy_term' = dummy_term
    <3>1. CASE TakeReady
      <4>1. storage' = storage BY <3>1 DEF TakeReady
      <4> QED BY <4>1, SameStorage
    <3>2. CASE AppendEntries BY <3>2, AppendIs
    <3> QED BY <1>6, <3>1, <3>2
  <2>4. first_index' = first_index BY <1>4, <2>2, <2>3, FirstIs
  <2> QED BY <1>2, <1>3, <1>5, <2>2, <2>3, <2>4 DEF Quiet
<1>7. CASE ApplySnapshot
  <2>1. unstable' = unstable /\ phase = "ready" BY <1>7 DEF ApplySnapshot, phase
  <2>2. image' = image /\ image_index' = image_index /\ End' = End BY <2>1, SameUnstable
  <2>3. CASE image = None
    <3>1. rd_image = None BY <1>1, <2>1, <2>3 DEF Held
    <3>2. storage' = storage BY <1>7, <3>1 DEF ApplySnapshot, rd_image
    <3>3. dummy_index' = dummy_index /\ dummy_term' = dummy_term BY <3>2, SameStorage
    <3>4. first_index' = first_index BY <1>4, <2>2, <3>3, FirstIs
    <3> QED BY <1>2, <1>3, <1>5, <2>2, <3>3, <3>4 DEF Quiet
  <2>4. CASE image # None
    <3>1. first_index' = first_index /\ first_index = image_index + 1 BY <1>4, <2>2, <2>4, FirstIs
    <3>2. 0 < image_index BY <1>1, <2>4 DEF Ordered
    <3>3. first_index' # 1 BY <1>1, <3>1, <3>2 DEF Sized
    <3> QED BY <1>2, <1>3, <1>5, <2>2, <3>1, <3>3 DEF Quiet
  <2> QED BY <2>3, <2>4
<1>8. CASE Publish
  <2>1. unstable' = unstable BY <1>8 DEF Publish
  <2>2. image' = image /\ image_index' = image_index /\ End' = End BY <2>1, SameUnstable
  <2>3. CASE image = None
    <3>1. PICK i \in Nat, d \in Nat : CompactedTo(d, i) BY <1>8, PublishIs
    <3>2. /\ dummy_index' = d /\ dummy_index <= d
          /\ dummy_term' = (IF d = dummy_index THEN dummy_term ELSE saved[d - dummy_index])
      BY <3>1 DEF CompactedTo
    <3>3. first_index = dummy_index + 1 /\ first_index' = d + 1
      BY <1>4, <2>2, <2>3, <3>2, FirstIs
    <3>4. d = 0 => d = dummy_index BY <1>1, <3>2 DEF Sized
    <3>5. d + 1 = 1 => d = 0 OBVIOUS
    <3>6. dummy_index + 1 <= d + 1 BY <1>1, <3>2 DEF Sized
    <3> QED BY <1>2, <1>3, <2>2, <3>2, <3>3, <3>4, <3>5, <3>6 DEF Quiet
  <2>4. CASE image # None
    <3>1. first_index' = first_index /\ first_index = image_index + 1 BY <1>4, <2>2, <2>4, FirstIs
    <3>2. 0 < image_index BY <1>1, <2>4 DEF Ordered
    <3>3. first_index' # 1 BY <1>1, <3>1, <3>2 DEF Sized
    <3> QED BY <1>2, <1>3, <1>5, <2>2, <3>1, <3>3 DEF Quiet
  <2> QED BY <2>3, <2>4
<1>9. CASE Advance
  <2>1. storage' = storage /\ phase = "applied" BY <1>9 DEF Advance, phase
  <2>2. dummy_index' = dummy_index /\ dummy_term' = dummy_term BY <2>1, SameStorage
  <2>3. PICK o \in Nat, n \in Nat : StableTo(o, n) BY <1>9, AdvanceIs
  <2>4. image' = None /\ End' = End BY <2>3 DEF StableTo
  <2>5. first_index' = dummy_index + 1 BY <1>4, <2>2, <2>4
  <2>6. image # None => image_index <= dummy_index BY <1>1, <2>1 DEF Staged
  <2>7. first_index <= dummy_index + 1
    <3>1. CASE image = None BY <1>5, <3>1, FirstIs
    <3>2. CASE image # None
      <4>1. image_index + 1 <= dummy_index + 1 BY <1>1, <2>6, <3>2 DEF Sized
      <4> QED BY <3>2, <4>1, FirstIs
    <3> QED BY <3>1, <3>2
  <2> QED BY <1>2, <1>3, <2>2, <2>4, <2>5, <2>7 DEF Quiet
<1> QED BY <1>6, <1>7, <1>8, <1>9

\* The steps of the application change what it is doing.
LEMMA AppMoves ==
    ASSUME StorageInv, TakeReady \/ ApplySnapshot \/ AppendEntries \/ Publish \/ Advance
    PROVE  rd' # rd
<1>1. Typed BY Start
<1>2. \A p \in Phase : rd' = [rd EXCEPT !.phase = p] => rd'.phase = p BY <1>1 DEF Typed
<1>3. {"ready", "restored", "saved", "applied"} \subseteq Phase BY DEF Phase
<1>4. CASE TakeReady BY <1>4 DEF TakeReady
<1>5. CASE ApplySnapshot
  <2>1. rd'.phase = "restored" /\ rd.phase = "ready" BY <1>2, <1>3, <1>5 DEF ApplySnapshot
  <2> QED BY <2>1
<1>6. CASE AppendEntries
  <2>1. rd'.phase = "saved" /\ rd.phase = "restored" BY <1>2, <1>3, <1>6 DEF AppendEntries
  <2> QED BY <2>1
<1>7. CASE Publish
  <2>1. rd'.phase = "applied" /\ rd.phase = "saved" BY <1>2, <1>3, <1>7 DEF Publish
  <2> QED BY <2>1
<1>8. CASE Advance BY <1>8 DEF Advance, NoReady
<1> QED BY <1>4, <1>5, <1>6, <1>7, <1>8

\* Every step is a step of Plain or a stutter.
LEMMA StepRefines ==
    ASSUME StorageInv, [Next]_vars
    PROVE  [Plain!Next]_<<Plain!log, <<rd, applied_index>>>>
<1>1. CASE RaftStep
  <2>1. <<rd, applied_index>>' = <<rd, applied_index>>
    BY <1>1 DEF RaftStep, MaybeAppend, CommitTo, Restore
  <2>2. Plain!RaftStep
    <3>1. CASE \E l \in Logs : \E last \in 1..Len(l) : \E index \in 0..last, commit \in 0..last :
                  MaybeAppend(l, index, last, commit)
      BY <3>1, AppendRefines DEF Plain!RaftStep
    <3>2. CASE \E c \in 1..last_index : CommitTo(c)
      BY <3>2, CommitRefines DEF Plain!RaftStep
    <3>3. CASE \E l \in Logs : \E index \in 1..Len(l) : committed <= Len(l) /\ Restore(l, index)
      BY <3>3, RestoreRefines DEF Plain!RaftStep
    <3> QED BY <1>1, <3>1, <3>2, <3>3 DEF RaftStep
  <2> QED BY <2>1, <2>2 DEF Plain!Next
<1>2. CASE TakeReady \/ ApplySnapshot \/ AppendEntries \/ Publish \/ Advance
  <2>1. Plain!AppStep BY <1>2, AppIsQuiet, QuietRefines
  <2>2. <<rd, applied_index>>' # <<rd, applied_index>> BY <1>2, AppMoves
  <2> QED BY <2>1, <2>2 DEF Plain!Next
<1>3. CASE UNCHANGED vars
  <2>1. /\ unstable' = unstable /\ storage' = storage /\ committed' = committed
        /\ rd' = rd /\ applied_index' = applied_index
    BY <1>3 DEF vars
  <2>2. UNCHANGED Plain!log BY <2>1, SameLog, PlainSame
  <2> QED BY <2>1, <2>2
<1> QED BY <1>1, <1>2, <1>3 DEF Next

\* The log starts empty.
LEMMA InitRefines ==
    ASSUME Init
    PROVE  Plain!Init
<1>1. /\ unstable = [offset |-> 1, entries |-> <<>>, snapshot |-> None]
      /\ storage = [snapshot |-> None, dummy |-> None, entries |-> <<>>] /\ committed = 0
  BY DEF Init
<1>2. /\ unstable.offset = 1 /\ unstable.entries = <<>> /\ unstable.snapshot = None
      /\ storage.dummy.index = 0 /\ storage.dummy.term = 0 /\ storage.entries = <<>>
      /\ Len(<<>>) = 0
  BY <1>1 DEF None, At
<1>3. storage_last = 0 BY <1>2 DEF storage_last
<1>4. first_index = 1 /\ last_index = 0 BY <1>2, <1>3 DEF first_index, last_index
<1>5. log_term(0) = 0
  <2>1. ~InUnstable(0) BY <1>2 DEF InUnstable
  <2>2. storage_term(0) = 0 BY <1>2 DEF storage_term
  <2> QED BY <1>4, <2>1, <2>2 DEF log_term
<1>6. first_index - 1 = 0 /\ last_index - first_index + 1 = 0 BY <1>4
<1>7. Base = [index |-> 0, term |-> 0] BY <1>5, <1>6 DEF Base, At
<1>8. Ents = <<>>
  <2>1. Ents = [k \in 1..0 |-> log_term(first_index + k - 1)] BY <1>6 DEF Ents
  <2> QED BY <2>1
<1> QED BY <1>1, <1>7, <1>8 DEF Plain!Init, Base, Ents

\* Saving, stabilising and compacting never change what Raft reads: Unstable and
\* MemoryStorage together implement one log that only Raft's own operations
\* change, above a compacted prefix that only grows (RaftLog::term, stable_to,
\* truncate_and_append, MemoryStorage::append and compact).
THEOREM StorageImplementsLog == Spec => ReadsAreOneLog
<1>1. Init => Plain!Init BY InitRefines
<1>2. StorageInv /\ [Next]_vars => [Plain!Next]_<<Plain!log, <<rd, applied_index>>>>
  BY StepRefines
<1> QED BY <1>1, <1>2, StorageInvariant, PTL DEF Spec, ReadsAreOneLog, Plain!Spec
=============================================================================
