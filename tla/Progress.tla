------------------------------ MODULE Progress ------------------------------
(***************************************************************************)
(* A leader's view of one follower: class Progress of raft/progress.{h,cpp}.*)
(* A Progress is a record; a method that changes it is an operator from the *)
(* old record to the new one.                                              *)
(*                                                                         *)
(* `inflights' is the window of unacknowledged MsgApp messages, the queue  *)
(* that module InFlights shows the ring buffer of the code to implement:   *)
(* the index of the last entry of each message, oldest first.              *)
(***************************************************************************)
EXTENDS Integers, Sequences, FiniteSets

CONSTANT MaxInflight    \* Config.max_inflight_msgs

ASSUME MaxInflightAssumption == MaxInflight \in Nat \ {0}

ProgressState == {"Probe", "Replicate", "Snapshot"}

ProgressType ==
    [match : Nat, next : Nat \ {0}, state : ProgressState, paused : BOOLEAN,
     pending_snapshot : Nat, recent_active : BOOLEAN, inflights : Seq(Nat)]

\* A fresh Progress: the constructor, with `next' and `match' as its callers set them.
NewProgress(match, next) ==
    [match |-> match, next |-> next, state |-> "Probe", paused |-> FALSE,
     pending_snapshot |-> 0, recent_active |-> FALSE, inflights |-> <<>>]

-----------------------------------------------------------------------------
(* The in-flight window, as InFlights promises it. *)

is_full(fl) == Len(fl) = MaxInflight

\* Number of leading in-flight messages that an acknowledgement of `to' covers.
Covered(fl, to) == Cardinality({k \in 1..Len(fl) : \A j \in 1..k : fl[j] <= to})

free_to(fl, to) == SubSeq(fl, Covered(fl, to) + 1, Len(fl))

free_first_one(fl) == free_to(fl, fl[1])

-----------------------------------------------------------------------------
reset_state(pr, st) ==
    [pr EXCEPT !.paused = FALSE, !.pending_snapshot = 0, !.state = st, !.inflights = <<>>]

become_replicate(pr) == [reset_state(pr, "Replicate") EXCEPT !.next = pr.match + 1]

\* Leaving Snapshot, the pending snapshot is taken to have arrived.
become_probe(pr) ==
    [reset_state(pr, "Probe") EXCEPT
        !.next = IF pr.state = "Snapshot" /\ pr.pending_snapshot > pr.match
                 THEN pr.pending_snapshot + 1
                 ELSE pr.match + 1]

become_snapshot(pr, snapshoti) ==
    [reset_state(pr, "Snapshot") EXCEPT !.pending_snapshot = snapshoti]

is_paused(pr) ==
    \/ pr.state = "Probe" /\ pr.paused
    \/ pr.state = "Replicate" /\ is_full(pr.inflights)
    \/ pr.state = "Snapshot"

\* maybe_update returns whether the acknowledged index n is news ...
Updates(pr, n) == pr.match < n

\* Mutant: next skips the index after the acknowledged one.
maybe_update_Skip(pr, n) ==
    [pr EXCEPT !.match = IF pr.match < n THEN n ELSE @,
               !.paused = IF pr.match < n THEN FALSE ELSE @,
               !.next = IF @ < n + 2 THEN n + 2 ELSE @]

\* ... and moves match and next forward.
maybe_update(pr, n) ==
    [pr EXCEPT !.match = IF pr.match < n THEN n ELSE @,
               !.paused = IF pr.match < n THEN FALSE ELSE @,
               !.next = IF @ < n + 1 THEN n + 1 ELSE @]

\* maybe_decreases_to returns whether the rejection is genuine ...
Rejects(pr, rejected) ==
    IF pr.state = "Replicate" THEN rejected > pr.match ELSE pr.next - 1 = rejected

\* ... and moves next back, never below 1.
maybe_decreases_to(pr, rejected, last) ==
    CASE ~Rejects(pr, rejected) -> pr
      [] Rejects(pr, rejected) /\ pr.state = "Replicate" ->
           [pr EXCEPT !.next = pr.match + 1]
      [] OTHER ->
           LET n == IF rejected < last + 1 THEN rejected ELSE last + 1
           IN  [pr EXCEPT !.next = IF n < 1 THEN 1 ELSE n, !.paused = FALSE]

need_snapshot_abort(pr) == pr.state = "Snapshot" /\ pr.match >= pr.pending_snapshot
=============================================================================
