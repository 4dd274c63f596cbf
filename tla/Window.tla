------------------------------- MODULE Window -------------------------------
(***************************************************************************)
(* What class InFlights promises to Progress: a bounded queue of indexes.  *)
(***************************************************************************)
EXTENDS Progress

CONSTANT Index          \* the indexes that callers pass

VARIABLE window         \* oldest first

Init == window = <<>>

Add(inflight) == ~is_full(window) /\ window' = Append(window, inflight)

FreeTo(to) == window' = free_to(window, to)

FreeFirstOne == is_full(window) /\ window' = free_first_one(window)

Reset == window' = <<>>

Next ==
    \/ \E inflight \in Index : Add(inflight)
    \/ \E to \in Index : FreeTo(to)
    \/ FreeFirstOne
    \/ Reset

Spec == Init /\ [][Next]_window
=============================================================================
