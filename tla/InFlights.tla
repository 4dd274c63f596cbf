------------------------------ MODULE InFlights ------------------------------
(***************************************************************************)
(* Class InFlights (raft/progress.{h,cpp}): the window of unacknowledged   *)
(* MsgApp messages as a ring in a buffer that grows on demand.  Slots are  *)
(* numbered from 0 as in the code; slot s is buffer[s + 1].                *)
(***************************************************************************)
EXTENDS Progress

CONSTANT Index          \* the indexes that callers pass

ASSUME IndexAssumption == Index \subseteq Nat

VARIABLES start, count, buffer

vars == <<start, count, buffer>>

\* Mutant: wrapping around means starting over at slot 0.
Slot_ToZero(k) == IF start + k >= MaxInflight THEN 0 ELSE start + k

\* The slot k places after the start, with the code's wrap-around at `size'.
Slot(k) == IF start + k >= MaxInflight THEN start + k - MaxInflight ELSE start + k

At(k) == buffer[Slot(k) + 1]

Init == start = 0 /\ count = 0 /\ buffer = <<>>

\* std::vector::resize to a size that is not smaller
resize(b, n) == [s \in 1..n |-> IF s <= Len(b) THEN b[s] ELSE 0]

\* Mutant: the buffer grows one message too late.
Grown_Late(next) ==
    LET n == Len(buffer)
        new_size == IF n = 0 THEN 1 ELSE IF 2 * n > MaxInflight THEN MaxInflight ELSE 2 * n
    IN  IF next > n THEN resize(buffer, new_size) ELSE buffer

\* The buffer once slot `next' has to be written: doubled, but not beyond `size'.
Grown(next) ==
    LET n == Len(buffer)
        new_size == IF n = 0 THEN 1 ELSE IF 2 * n > MaxInflight THEN MaxInflight ELSE 2 * n
    IN  IF next >= n THEN resize(buffer, new_size) ELSE buffer

\* maybe_send_append adds only while the window is not full (is_paused).
add(inflight) ==
    /\ count # MaxInflight
    /\ buffer' = [Grown(Slot(count)) EXCEPT ![Slot(count) + 1] = inflight]
    /\ count' = count + 1
    /\ UNCHANGED start

\* The loop of free_to has stepped over i messages and ends.
Frees(i, to) ==
    /\ \A k \in 0..i - 1 : At(k) <= to
    /\ i < count => to < At(i)

ring_free_to(to) ==
    /\ \E i \in 0..count :
          /\ Frees(i, to)
          /\ count' = count - i
          /\ start' = IF i = 0 THEN start ELSE IF i = count THEN 0 ELSE Slot(i)
    /\ UNCHANGED buffer

\* step_leader frees the first one only when the window is full.
ring_free_first_one == count = MaxInflight /\ ring_free_to(At(0))

ring_reset == start' = 0 /\ count' = 0 /\ UNCHANGED buffer

Next ==
    \/ \E inflight \in Index : add(inflight)
    \/ \E to \in Index : ring_free_to(to)
    \/ ring_free_first_one
    \/ ring_reset

Spec == Init /\ [][Next]_vars

-----------------------------------------------------------------------------
(* Properties. *)

TypeOK == start \in Nat /\ count \in 0..MaxInflight /\ buffer \in Seq(Nat)

\* Every message of the window lies inside the buffer that has been grown so
\* far, and the ring wraps only once the buffer has its full size (add, free_to).
InBounds ==
    /\ Len(buffer) <= MaxInflight
    /\ start < MaxInflight
    /\ start + count <= Len(buffer) \/ Len(buffer) = MaxInflight

RingInv == TypeOK /\ InBounds

\* The ring, read from its start, is the queue of Window.
Contents == [k \in 1..count |-> At(k - 1)]

Queue == INSTANCE Window WITH window <- Contents

\* add, free_to, free_first_one and reset do to the ring what the queue's
\* operations do to the queue, also when it wraps around and when it grows.
RingIsAQueue == Queue!Spec
=============================================================================
