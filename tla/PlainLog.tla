------------------------------ MODULE PlainLog ------------------------------
(***************************************************************************)
(* What class RaftLog promises to Raft: one sequence of entries above a    *)
(* compacted prefix, of which a growing part is committed.  Only Raft      *)
(* changes it; whatever the application does, saving included, it sees at  *)
(* most a longer compacted prefix.  An entry is its term.                  *)
(***************************************************************************)
EXTENDS Integers, Sequences

CONSTANT Logs           \* logs of the leaders that the node may hear from

VARIABLES base,         \* index and term of the last entry compacted away
          ents,         \* the entries above it
          committed,
          app           \* what the application is doing

log == <<base, ents, committed>>

Last == base.index + Len(ents)

Term(i) == IF i = base.index THEN base.term ELSE ents[i - base.index]

Init == base = [index |-> 0, term |-> 0] /\ ents = <<>> /\ committed = 0

\* A leader's log has what the node has committed.
Knows(leader) ==
    committed <= Len(leader) /\ (committed = 0 \/ Term(committed) = leader[committed])

Has(leader, last) ==
    last <= Last /\ \A k \in base.index + 1..last : Term(k) = leader[k]

\* Entries of a leader up to index `last': the log has them already, or becomes
\* the leader's up to there.
Extend(leader, last) ==
    /\ Knows(leader) /\ committed <= last
    /\ ents' = IF Has(leader, last) THEN ents ELSE SubSeq(leader, base.index + 1, last)
    /\ committed' \in committed..last
    /\ UNCHANGED base

Commit == committed' \in committed + 1..Last /\ UNCHANGED <<base, ents>>

\* A leader's snapshot up to index i takes the place of the log.
Restore(leader, i) ==
    /\ Knows(leader) /\ i > committed
    /\ base' = [index |-> i, term |-> leader[i]] /\ ents' = <<>> /\ committed' = i

Compact(k) ==
    /\ base' = [index |-> k, term |-> Term(k)]
    /\ ents' = SubSeq(ents, k - base.index + 1, Len(ents))
    /\ UNCHANGED committed

RaftStep ==
    \/ \E l \in Logs : \E i \in 1..Len(l) : Extend(l, i) \/ Restore(l, i)
    \/ Commit

AppStep == UNCHANGED log \/ \E k \in base.index + 1..committed : Compact(k)

Next == (RaftStep /\ UNCHANGED app) \/ (AppStep /\ app' # app)

Spec == Init /\ [][Next]_<<log, app>>
=============================================================================
