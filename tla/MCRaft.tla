------------------------------- MODULE MCRaft -------------------------------
(***************************************************************************)
(* Module Raft for TLC.  The nodes are interchangeable; the histories are  *)
(* written and never read, so a run whose properties do not mention them   *)
(* leaves them out of its view of a state.                                 *)
(***************************************************************************)
EXTENDS Raft, TLC

Symmetry == Permutations(Node)

LogView == <<node, wire, used, peak>>
=============================================================================
