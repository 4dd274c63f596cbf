------------------------------ MODULE Network ------------------------------
(***************************************************************************)
(* What the transport promises Raft: a message is received at most once,   *)
(* it may be lost, and messages may overtake each other.  After `damaged'  *)
(* something that nobody sent may be received as well.                     *)
(***************************************************************************)
EXTENDS Naturals, Sequences

CONSTANTS Message, Junk

VARIABLES sent, net, received, damaged

vars == <<sent, net, received, damaged>>

Init == sent = {} /\ net = {} /\ received = <<>> /\ damaged = FALSE

Send ==
    \E m \in Message \ sent :
        sent' = sent \cup {m} /\ net' = net \cup {m} /\ UNCHANGED <<received, damaged>>

\* Some of the messages on the way are lost.
Lose == net' \subseteq net /\ UNCHANGED <<sent, received, damaged>>

Deliver ==
    \E m \in net :
        received' = Append(received, m) /\ net' = net \ {m} /\ UNCHANGED <<sent, damaged>>

Damage == damaged' = TRUE /\ UNCHANGED <<sent, net, received>>

DeliverJunk ==
    /\ damaged
    /\ received' = Append(received, Junk) /\ net' \subseteq net /\ UNCHANGED <<sent, damaged>>

Next == Send \/ Lose \/ Deliver \/ Damage \/ DeliverJunk

Spec == Init /\ [][Next]_vars
=============================================================================
