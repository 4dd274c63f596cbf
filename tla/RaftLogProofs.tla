---------------------------- MODULE RaftLogProofs ----------------------------
(*****************************************************************************)
(* Why the logs of the cluster are safe: the inductive invariant, and what a *)
(* step of one node must leave behind for it to go on.                       *)
(*                                                                           *)
(* LogMatching, StateMachineSafety, LeaderCompleteness and MatchIsReal are   *)
(* not inductive, alone or together: that two leaders' logs agree depends on *)
(* the logs that leaders of terms gone by once had, and on what nodes that   *)
(* have since moved on had acknowledged to them.  The variables have none of *)
(* that, so the invariant says that it exists:                               *)
(*                                                                           *)
(*   G  the logs that there have been, closed under beginnings; those whose  *)
(*      last entries have one term begin one another (Logs);                 *)
(*   H  the acknowledgements: <<v, t, A>> when v, in term t, has held A, a   *)
(*      beginning of the log of t's leader (Acks).                           *)
(*                                                                           *)
(* A log is Chosen when a quorum has acknowledged it in the term of its last *)
(* entry, Doomed when a quorum has passed that term without doing so, and    *)
(* Complete says that the logs of later terms hold all that is not doomed.   *)
(* What a node has committed, or had before a restart forgot it, begins a    *)
(* chosen log (Sure, Peaks); a message says only what its sender's log and   *)
(* acknowledgements bear out (MsgOK); a candidate has what its voters        *)
(* acknowledged (Votes), which makes a winner's log Complete.                *)
(*                                                                           *)
(* A step of node i adds to G the beginnings of its new log, and to H what   *)
(* it has of its leader's: it Rests (its log is untouched), Follows (it has  *)
(* taken over a part of a leader's log) or Leads (it has appended).  Outcome *)
(* is the disjunction; this module shows that an event with an Outcome keeps *)
(* the invariant, RaftSafetyProofs that every handler has one.               *)
(*****************************************************************************)
EXTENDS RaftProofs

\* The log that every node of a new cluster starts with
Boot == [k \in 1..Cardinality(Node) |-> [term |-> 1, data |-> Conf]]

\* The first n entries of a log
First(A, n) == SubSeq(A, 1, n)

\* Log A is a beginning of log B.
Within(A, B) == Len(A) <= Len(B) /\ \A k \in 1..Len(A) : A[k] = B[k]

\* The term of the last entry
LastTerm(A) == IF Len(A) = 0 THEN 0 ELSE A[Len(A)].term

\* A begins a log that the leader of term t has had in that term.
Led(G, A, t) == \E B \in G : LastTerm(B) = t /\ Within(A, B)

\* A quorum has acknowledged A to the leader of A's last term.
Chosen(H, A) ==
    \E Q \in SUBSET Node : Cardinality(Q) >= quorum /\ \A v \in Q : <<v, LastTerm(A), A>> \in H

\* A quorum has not, and no longer can.
Doomed(N, H, A) ==
    \E V \in SUBSET Node :
        /\ Cardinality(V) >= quorum
        /\ \A v \in V : N[v].term > LastTerm(A) /\ <<v, LastTerm(A), A>> \notin H

\* C is committed, by a leader of a term up to t.
Sure(G, H, C, t) ==
    Within(C, Boot) \/ \E A \in G : Within(C, A) /\ LastTerm(A) <= t /\ Chosen(H, A)

\* The logs there have been: their terms are in order and those of leaders, and
\* logs whose last entries have one term are beginnings of one log.
Logs(E, G) ==
    /\ G \subseteq Seq(Entry) /\ Boot \in G
    /\ \A A \in G : \A n \in 0..Len(A) : First(A, n) \in G
    /\ \A A \in G : Within(A, Boot) \/ Within(Boot, A)
    /\ \A A \in G : \A k \in 1..Len(A) : 0 < A[k].term /\ A[k].term <= LastTerm(A)
    /\ \A A \in G : LastTerm(A) <= 1 \/ \E j \in Node : <<LastTerm(A), j>> \in E
    /\ \A A, B \in G : LastTerm(A) = LastTerm(B) /\ Len(A) <= Len(B) => Within(A, B)

\* The logs of later terms hold what earlier terms may have committed.
Complete(N, G, H) ==
    \A A, B \in G : LastTerm(A) < LastTerm(B) => Within(A, B) \/ Doomed(N, H, A)

\* An acknowledgement <<v, t, A>>: in term t node v has held A, of the leader's log.
\* It still does in that term, and later unless A can not be committed any more.
Ack(N, G, H, v, t, A) ==
    /\ 0 < t /\ t <= N[v].term
    /\ Led(G, A, t)
    /\ \A n \in 0..Len(A) : <<v, t, First(A, n)>> \in H
    /\ t = N[v].term => Within(A, N[v].raft_log.ents)
    /\ LastTerm(A) = t => Within(A, N[v].raft_log.ents) \/ Doomed(N, H, A)

Acks(N, G, H) ==
    /\ H \subseteq Node \X Nat \X G
    /\ \A v \in Node, t \in Nat, A \in G : <<v, t, A>> \in H => Ack(N, G, H, v, t, A)

\* A vote is on record, and a candidate has what its voters have acknowledged.
Votes(N, B, G, H) ==
    /\ \A b \in B : N[b[3]].term >= b[2]
    /\ \A v \in Node : N[v].vote # Nil => <<v, N[v].term, N[v].vote>> \in B
    /\ \A v, c \in Node, t \in Nat, A \in G :
          /\ <<v, N[c].term, c>> \in B /\ N[c].state = "Candidate"
          /\ <<v, t, A>> \in H /\ LastTerm(A) = t /\ t < N[c].term
          => Within(A, N[c].raft_log.ents) \/ Doomed(N, H, A)

\* A leader's view of a follower, given the length of its log
Fits(pr, n) == pr.match <= n /\ pr.next <= n + 1 /\ pr.pending_snapshot <= n

\* What r knows of the others, as their leader
View(H, r) ==
    \A p \in Node :
        /\ Fits(r.prs[p], Len(r.raft_log.ents))
        /\ \/ r.prs[p].match = 0
           \/ <<p, r.term, First(r.raft_log.ents, r.prs[p].match)>> \in H

\* Node i is r.
NodeOK(E, G, H, i, r) ==
    LET L == r.raft_log.ents
    IN  /\ L \in G /\ Within(Boot, L) /\ LastTerm(L) <= r.term
        /\ Sure(G, H, First(L, r.raft_log.committed), r.term)
        /\ ~r.raft_log.fatal
        /\ r.lead # Nil => <<r.term, r.lead>> \in E
        /\ r.state # "Leader" => r.lead # i
        /\ r.state \in {"Candidate", "Leader"} => r.term > 1
        /\ r.state = "Leader" =>
              /\ LastTerm(L) = r.term
              /\ \A A \in G : LastTerm(A) = r.term => Within(A, L)
              /\ View(H, r)

\* MsgApp: a part of the leader's log, and what of it is committed
AppOK(G, H, m) ==
    \E A \in G : /\ Len(A) = m.index + Len(m.entries)
                 /\ \A k \in 1..Len(m.entries) : m.entries[k] = A[m.index + k]
                 /\ m.log_term = LastTerm(First(A, m.index))
                 /\ Led(G, A, m.term)
                 /\ Sure(G, H, First(A, Least(m.commit, Len(A))), m.term)

\* MsgSnap: a committed part of the leader's log
SnapOK(G, H, m) ==
    /\ m.snapshot \in G /\ m.snapshot # <<>>
    /\ Led(G, m.snapshot, m.term) /\ Sure(G, H, m.snapshot, m.term)

\* MsgHeartbeat: a commit index that its receiver has acknowledged
BeatOK(G, H, m) ==
    \/ m.commit = 0
    \/ \E A \in G : Len(A) = m.commit /\ <<m.to, m.term, A>> \in H /\ Sure(G, H, A, m.term)

\* MsgAppResp: an acknowledgement
RespOK(G, H, m) ==
    m.reject \/ m.index = 0 \/ \E A \in G : Len(A) = m.index /\ <<m.from, m.term, A>> \in H

\* MsgVote: the end of the candidate's log
VoteOK(N, m) ==
    /\ N[m.from].term >= m.term
    /\ N[m.from].term = m.term /\ N[m.from].state = "Candidate" =>
         /\ m.index = Len(N[m.from].raft_log.ents)
         /\ m.log_term = LastTerm(N[m.from].raft_log.ents)

\* A message is what its sender has meant.
MsgOK(N, E, G, H, m) ==
    /\ m.from # m.to
    /\ IF m.type = "MsgProp" THEN m.term = 0 /\ m.entries # <<>> ELSE m.term > 0
    /\ m.type = "MsgTransferLeader" => <<m.term, m.to>> \in E
    /\ m.type \in LeaderMsg => <<m.term, m.from>> \in E
    /\ m.type = "MsgVote" => VoteOK(N, m)
    /\ m.type = "MsgApp" => AppOK(G, H, m)
    /\ m.type = "MsgSnap" => SnapOK(G, H, m)
    /\ m.type = "MsgHeartbeat" => BeatOK(G, H, m)
    /\ m.type = "MsgAppResp" => RespOK(G, H, m)

\* Whoever has been elected has reached the term, and is no candidate of it again.
Elections(N, E) ==
    \A e \in E : /\ e[1] > 1 /\ e[1] <= N[e[2]].term
                 /\ e[1] = N[e[2]].term => N[e[2]].state # "Candidate"

\* The invariant, given the logs there have been and the acknowledgements
Safe(N, W, B, E, G, H) ==
    /\ Logs(E, G) /\ Complete(N, G, H) /\ Acks(N, G, H) /\ Votes(N, B, G, H)
    /\ \A i \in Node : NodeOK(E, G, H, i, N[i])
    /\ \A m \in W : MsgOK(N, E, G, H, m)
    /\ Elections(N, E)

\* What a node has ever known to be committed, it has, and it is.
Peaks(N, P, G, H) ==
    \A i \in Node :
        LET L == N[i].raft_log.ents
        IN  /\ P[i] \in Nat /\ N[i].raft_log.committed <= P[i] /\ P[i] <= Len(L)
            /\ Sure(G, H, First(L, P[i]), N[i].term)

\* There are such logs and acknowledgements.
Sound(N, W, B, E, P) ==
    \E G \in SUBSET Seq(Entry) : \E H \in SUBSET (Node \X Nat \X G) :
        Safe(N, W, B, E, G, H) /\ Peaks(N, P, G, H)

\* Why logs are safe, as an inductive invariant (with ElectionInv)
SafetyInv == Sound(node, net, ballots, elected, peak)

-----------------------------------------------------------------------------
(* Logs and their beginnings. *)

\* The first entries of a log
LEMMA FirstFacts ==
    ASSUME NEW A \in Seq(Entry), NEW n \in Nat, n <= Len(A)
    PROVE  /\ First(A, n) \in Seq(Entry) /\ Len(First(A, n)) = n
           /\ \A k \in 1..n : First(A, n)[k] = A[k]
           /\ Within(First(A, n), A)
           /\ First(A, Len(A)) = A
<1>1. First(A, n) \in Seq(Entry) /\ Len(First(A, n)) = n /\ \A k \in 1..n : First(A, n)[k] = A[k]
  BY DEF First
<1>2. First(A, Len(A)) = A BY DEF First
<1> QED BY <1>1, <1>2 DEF Within

\* A log is a beginning of itself.
LEMMA WithinRefl == ASSUME NEW A \in Seq(Entry) PROVE Within(A, A)
BY DEF Within

\* A beginning of a beginning
LEMMA WithinTrans ==
    ASSUME NEW A \in Seq(Entry), NEW B \in Seq(Entry), NEW C \in Seq(Entry), Within(A, B), Within(B, C)
    PROVE  Within(A, C)
BY DEF Within

\* Two beginnings of one log
LEMMA WithinSame ==
    ASSUME NEW A \in Seq(Entry), NEW B \in Seq(Entry), NEW C \in Seq(Entry), Within(A, C), Within(B, C),
           Len(A) <= Len(B)
    PROVE  Within(A, B)
BY DEF Within

\* A beginning is the first entries.
LEMMA WithinFirst ==
    ASSUME NEW A \in Seq(Entry), NEW B \in Seq(Entry), Within(A, B)
    PROVE  First(B, Len(A)) = A
<1>1. Len(A) \in Nat /\ Len(A) <= Len(B) BY DEF Within
<1>2. Len(First(B, Len(A))) = Len(A) /\ \A k \in 1..Len(A) : First(B, Len(A))[k] = A[k]
  BY <1>1, FirstFacts DEF Within
<1>3. First(B, Len(A)) \in Seq(Entry) BY <1>1, FirstFacts
<1> HIDE DEF First
<1> QED BY <1>2, <1>3, SeqEqual

\* The term of the last entry
LEMMA LastTermFacts ==
    ASSUME NEW A \in Seq(Entry)
    PROVE  /\ LastTerm(A) \in Nat
           /\ \A n \in 1..Len(A) : LastTerm(First(A, n)) = A[n].term
           /\ LastTerm(First(A, 0)) = 0
<1>0. \A k \in 1..Len(A) : A[k] \in Entry OBVIOUS
<1>1. \A k \in 1..Len(A) : A[k].term \in Nat BY <1>0 DEF Entry
<1>2. LastTerm(A) \in Nat BY <1>1 DEF LastTerm
<1>3. ASSUME NEW n \in 1..Len(A) PROVE LastTerm(First(A, n)) = A[n].term
  <2>1. n \in Nat /\ n <= Len(A) /\ n # 0 OBVIOUS
  <2>2. Len(First(A, n)) = n /\ First(A, n)[n] = A[n] BY <2>1, FirstFacts
  <2> QED BY <2>1, <2>2 DEF LastTerm
<1>4. LastTerm(First(A, 0)) = 0
  <2>1. Len(First(A, 0)) = 0 BY FirstFacts
  <2> QED BY <2>1 DEF LastTerm
<1> QED BY <1>2, <1>3, <1>4

\* A beginning of the same length is the log.
LEMMA WithinEqual ==
    ASSUME NEW A \in Seq(Entry), NEW B \in Seq(Entry), Within(A, B), Len(B) <= Len(A)
    PROVE  A = B
<1>1. Len(A) = Len(B) /\ \A k \in 1..Len(A) : A[k] = B[k] BY DEF Within
<1> QED BY <1>1, SeqEqual

\* Of two beginnings of one log, one begins the other.
LEMMA WithinEither ==
    ASSUME NEW A \in Seq(Entry), NEW B \in Seq(Entry), NEW C \in Seq(Entry), Within(A, C), Within(B, C)
    PROVE  Within(A, B) \/ Within(B, A)
<1>1. Len(A) \in Nat /\ Len(B) \in Nat OBVIOUS
<1> QED BY <1>1, WithinSame

\* The first entries of a log and of a beginning of it
LEMMA FirstSame ==
    ASSUME NEW A \in Seq(Entry), NEW B \in Seq(Entry), Within(A, B), NEW n \in Nat, n <= Len(A)
    PROVE  First(A, n) = First(B, n)
<1>1. n <= Len(B) BY DEF Within
<1>2. First(A, n) \in Seq(Entry) /\ First(B, n) \in Seq(Entry) /\ Len(First(A, n)) = n
      /\ Len(First(B, n)) = n /\ Within(First(A, n), A) /\ Within(First(B, n), B)
  BY <1>1, FirstFacts
<1> HIDE DEF First
<1>3. Within(First(A, n), B) BY <1>2, WithinTrans
<1>4. Within(First(A, n), First(B, n)) BY <1>2, <1>3, WithinSame
<1> QED BY <1>2, <1>4, WithinEqual

\* Fewer of the first entries
LEMMA FirstFirst ==
    ASSUME NEW A \in Seq(Entry), NEW n \in Nat, n <= Len(A), NEW k \in Nat, k <= n
    PROVE  First(First(A, n), k) = First(A, k) /\ Within(First(A, k), First(A, n))
<1>1. First(A, n) \in Seq(Entry) /\ Len(First(A, n)) = n /\ Within(First(A, n), A)
  BY FirstFacts
<1> HIDE DEF First
<1>2. First(First(A, n), k) = First(A, k) BY <1>1, FirstSame
<1>3. Within(First(First(A, n), k), First(A, n)) BY <1>1, FirstFacts
<1> QED BY <1>2, <1>3

\* One entry more
LEMMA AppendOne ==
    ASSUME NEW L \in Seq(Entry), NEW e \in Entry
    PROVE  /\ Append(L, e) \in Seq(Entry) /\ Len(Append(L, e)) = Len(L) + 1
           /\ Within(L, Append(L, e)) /\ LastTerm(Append(L, e)) = e.term
           /\ Append(L, e)[Len(L) + 1] = e
<1>1. Append(L, e) \in Seq(Entry) /\ Len(Append(L, e)) = Len(L) + 1
      /\ \A k \in 1..Len(L) : Append(L, e)[k] = L[k]
      /\ Append(L, e)[Len(L) + 1] = e
  OBVIOUS
<1>2. Within(L, Append(L, e)) BY <1>1 DEF Within
<1> QED BY <1>1, <1>2 DEF LastTerm

\* RaftLog::term and last_term read the entries.
LEMMA LogTerms ==
    ASSUME NEW l \in LogType
    PROVE  /\ last_term(l) = LastTerm(l.ents) /\ last_index(l) = Len(l.ents)
           /\ \A n \in Nat : l.offset <= n /\ n <= Len(l.ents) => term(l, n) = LastTerm(First(l.ents, n))
           /\ \A n \in Nat : n > Len(l.ents) => term(l, n) = 0
<1>1. l.ents \in Seq(Entry) /\ Len(l.ents) \in Nat /\ l.offset \in Nat /\ l.offset <= Len(l.ents)
  BY LogFields
<1>2. last_index(l) = Len(l.ents) BY DEF last_index
<1>3. last_term(l) = LastTerm(l.ents) BY <1>1, <1>2 DEF last_term, term, LastTerm
<1>4. ASSUME NEW n \in Nat, l.offset <= n, n <= Len(l.ents) PROVE term(l, n) = LastTerm(First(l.ents, n))
  <2>1. CASE n = 0 BY <1>1, <2>1, LastTermFacts DEF term
  <2>2. CASE n # 0
    <3>1. n \in 1..Len(l.ents) BY <1>1, <1>4, <2>2
    <3>2. LastTerm(First(l.ents, n)) = l.ents[n].term BY <1>1, <3>1, LastTermFacts
    <3> QED BY <1>1, <1>2, <1>4, <2>2, <3>2 DEF term
  <2> QED BY <2>1, <2>2
<1>5. ASSUME NEW n \in Nat, n > Len(l.ents) PROVE term(l, n) = 0 BY <1>2, <1>5 DEF term
<1> QED BY <1>2, <1>3, <1>4, <1>5

-----------------------------------------------------------------------------
(* The logs there have been. *)

\* The first entries of such a log are one.
LEMMA LogsFirst ==
    ASSUME NEW E, NEW G, Logs(E, G), NEW A \in G, NEW n \in Nat, n <= Len(A)
    PROVE  First(A, n) \in G
<1>1. A \in Seq(Entry) BY DEF Logs
<1>2. n \in 0..Len(A) BY <1>1
<1> QED BY <1>2 DEF Logs

\* A beginning has no later term.
LEMMA LogsOrder ==
    ASSUME NEW E, NEW G, Logs(E, G), NEW A \in Seq(Entry), NEW B \in G, Within(A, B)
    PROVE  LastTerm(A) <= LastTerm(B)
<1>1. B \in Seq(Entry) BY DEF Logs
<1>2. LastTerm(A) \in Nat /\ LastTerm(B) \in Nat BY <1>1, LastTermFacts
<1>3. CASE Len(A) = 0 BY <1>2, <1>3 DEF LastTerm
<1>4. CASE Len(A) # 0
  <2>1. Len(A) \in 1..Len(B) /\ A[Len(A)] = B[Len(A)] BY <1>1, <1>4 DEF Within
  <2>2. B[Len(A)].term <= LastTerm(B) BY <2>1 DEF Logs
  <2> QED BY <1>4, <2>1, <2>2 DEF LastTerm
<1> QED BY <1>3, <1>4

\* Logs agree up to an entry of one index and one term.
LEMMA LogsMatch ==
    ASSUME NEW E, NEW G, Logs(E, G), NEW A \in G, NEW B \in G, NEW n \in Nat,
           n <= Len(A), n <= Len(B), LastTerm(First(A, n)) = LastTerm(First(B, n))
    PROVE  First(A, n) = First(B, n)
<1>1. A \in Seq(Entry) /\ B \in Seq(Entry) BY DEF Logs
<1>2. First(A, n) \in G /\ First(B, n) \in G BY LogsFirst
<1>3. /\ First(A, n) \in Seq(Entry) /\ First(B, n) \in Seq(Entry)
      /\ Len(First(A, n)) = n /\ Len(First(B, n)) = n
  BY <1>1, FirstFacts
<1> HIDE DEF First
<1>4. Within(First(A, n), First(B, n)) BY <1>2, <1>3 DEF Logs
<1> QED BY <1>3, <1>4, WithinEqual

\* A log that has an entry of every index up to its length has terms above 0.
LEMMA LogsTerm ==
    ASSUME NEW E, NEW G, Logs(E, G), NEW A \in G, NEW n \in Nat, 0 < n, n <= Len(A)
    PROVE  LastTerm(First(A, n)) > 0 /\ LastTerm(First(A, n)) = A[n].term
<1>1. A \in Seq(Entry) /\ n \in 1..Len(A) BY DEF Logs
<1>2. LastTerm(First(A, n)) = A[n].term BY <1>1, LastTermFacts
<1>3. A[n].term > 0
  <2>1. 0 < A[n].term BY <1>1 DEF Logs
  <2>2. A[n] \in Entry BY <1>1
  <2>3. A[n].term \in Nat BY <2>2 DEF Entry
  <2> QED BY <2>1, <2>3
<1> QED BY <1>2, <1>3

\* What begins a log of a leader
LEMMA LedWithin ==
    ASSUME NEW G \in SUBSET Seq(Entry), NEW A \in Seq(Entry), NEW B \in Seq(Entry), NEW t,
           Within(A, B), Led(G, B, t)
    PROVE  Led(G, A, t)
<1>1. PICK C \in G : LastTerm(C) = t /\ Within(B, C) BY DEF Led
<1>2. C \in Seq(Entry) OBVIOUS
<1>3. Within(A, C) BY <1>1, <1>2, WithinTrans
<1> QED BY <1>1, <1>3 DEF Led

\* Two beginnings of logs of one leader
LEMMA LedSame ==
    ASSUME NEW E, NEW G, Logs(E, G), NEW A \in Seq(Entry), NEW B \in Seq(Entry), NEW t,
           Led(G, A, t), Led(G, B, t), Len(A) <= Len(B)
    PROVE  Within(A, B)
<1>1. PICK C \in G : LastTerm(C) = t /\ Within(A, C) BY DEF Led
<1>2. PICK D \in G : LastTerm(D) = t /\ Within(B, D) BY DEF Led
<1>3. C \in Seq(Entry) /\ D \in Seq(Entry) BY DEF Logs
<1>4. CASE Len(C) <= Len(D)
  <2>1. Within(C, D) BY <1>1, <1>2, <1>4 DEF Logs
  <2>2. Within(A, D) BY <1>1, <1>3, <2>1, WithinTrans
  <2> QED BY <1>2, <1>3, <2>2, WithinSame
<1>5. CASE Len(D) <= Len(C)
  <2>1. Within(D, C) BY <1>1, <1>2, <1>5 DEF Logs
  <2>2. Within(B, C) BY <1>2, <1>3, <2>1, WithinTrans
  <2> QED BY <1>1, <1>3, <2>2, WithinSame
<1>6. Len(C) \in Nat /\ Len(D) \in Nat BY <1>3
<1> QED BY <1>4, <1>5, <1>6

\* More logs, acknowledgements and terms leave what is committed committed.
LEMMA SureKept ==
    ASSUME NEW G, NEW G2, G \subseteq G2, G2 \subseteq Seq(Entry), NEW H, NEW H2, H \subseteq H2,
           NEW C, NEW t \in Nat, NEW t2 \in Nat, t <= t2, Sure(G, H, C, t)
    PROVE  Sure(G2, H2, C, t2)
<1>1. CASE Within(C, Boot) BY <1>1 DEF Sure
<1>2. CASE \E A \in G : Within(C, A) /\ LastTerm(A) <= t /\ Chosen(H, A)
  <2>1. PICK A \in G : Within(C, A) /\ LastTerm(A) <= t /\ Chosen(H, A) BY <1>2
  <2>2. LastTerm(A) \in Nat BY LastTermFacts
  <2>3. Chosen(H2, A) BY <2>1 DEF Chosen
  <2>4. LastTerm(A) <= t2 BY <2>1, <2>2
  <2> QED BY <2>1, <2>3, <2>4 DEF Sure
<1> QED BY <1>1, <1>2 DEF Sure

\* A beginning of what is committed is committed.
LEMMA SureWithin ==
    ASSUME NEW G \in SUBSET Seq(Entry), NEW H, NEW C \in Seq(Entry), NEW D \in Seq(Entry), NEW t,
           Boot \in Seq(Entry), Within(C, D), Sure(G, H, D, t)
    PROVE  Sure(G, H, C, t)
<1>1. CASE Within(D, Boot) BY <1>1, WithinTrans DEF Sure
<1>2. CASE \E A \in G : Within(D, A) /\ LastTerm(A) <= t /\ Chosen(H, A)
  <2>1. PICK A \in G : Within(D, A) /\ LastTerm(A) <= t /\ Chosen(H, A) BY <1>2
  <2>2. Within(C, A) BY <2>1, WithinTrans
  <2> QED BY <2>1, <2>2 DEF Sure
<1> QED BY <1>1, <1>2 DEF Sure

\* Two quorums share a node.
LEMMA QuorumsMeet ==
    ASSUME NEW P \in SUBSET Node, NEW Q \in SUBSET Node,
           Cardinality(P) >= quorum, Cardinality(Q) >= quorum
    PROVE  \E v \in Node : v \in P /\ v \in Q
<1>1. IsFiniteSet(P) /\ IsFiniteSet(Q) BY NodeAssumption, FS_Subset
<1>2. Cardinality(P) \in Nat /\ Cardinality(Q) \in Nat BY <1>1, FS_CardinalityType
<1>3. Cardinality(P) + Cardinality(Q) > Cardinality(Node) BY <1>2, QuorumNat
<1>4. P \cap Q # {} BY <1>3, NodeAssumption, FS_MajoritiesIntersect
<1> QED BY <1>4

\* What a quorum has acknowledged is not out of reach.
LEMMA ChosenNotDoomed ==
    ASSUME NEW N, NEW H, NEW A, Chosen(H, A)
    PROVE  ~Doomed(N, H, A)
<1> SUFFICES ASSUME Doomed(N, H, A) PROVE FALSE OBVIOUS
<1>1. PICK Q \in SUBSET Node : Cardinality(Q) >= quorum /\ \A v \in Q : <<v, LastTerm(A), A>> \in H
  BY DEF Chosen
<1>2. PICK V \in SUBSET Node : /\ Cardinality(V) >= quorum
                               /\ \A v \in V : <<v, LastTerm(A), A>> \notin H
  BY DEF Doomed
<1>3. PICK v \in Node : v \in Q /\ v \in V BY <1>1, <1>2, QuorumsMeet
<1> QED BY <1>1, <1>2, <1>3

\* A log of a term above 1 begins as every log of a new cluster does.
LEMMA BeyondBoot ==
    ASSUME NEW E, NEW G, Logs(E, G), NEW B \in G, LastTerm(B) > 1
    PROVE  Within(Boot, B)
<1>1. Boot \in Seq(Entry) /\ Boot \in G /\ B \in Seq(Entry) BY DEF Logs
<1>2. LastTerm(Boot) <= 1
  <2>1. Cardinality(Node) \in Nat BY QuorumNat
  <2>2. Len(Boot) = Cardinality(Node) BY <2>1 DEF Boot
  <2>3. CASE Len(Boot) = 0 BY <2>3 DEF LastTerm
  <2>4. CASE Len(Boot) # 0
    <3>1. Boot[Len(Boot)].term = 1 BY <2>1, <2>2, <2>4 DEF Boot
    <3> QED BY <2>4, <3>1 DEF LastTerm
  <2> QED BY <2>3, <2>4
<1>3. ASSUME Within(B, Boot) PROVE FALSE
  <2>1. LastTerm(B) <= LastTerm(Boot) BY <1>1, <1>3, LogsOrder
  <2>2. LastTerm(B) \in Nat /\ LastTerm(Boot) \in Nat BY <1>1, LastTermFacts
  <2> QED BY <1>2, <2>1, <2>2
<1> QED BY <1>3 DEF Logs

\* What is committed up to a term is part of the log of that term's leader.
LEMMA SureLed ==
    ASSUME NEW N, NEW E, NEW G, NEW H, Logs(E, G), Complete(N, G, H),
           NEW C \in Seq(Entry), NEW t \in Nat, NEW T \in Nat, t <= T, 1 < T,
           Sure(G, H, C, t), NEW B \in G, LastTerm(B) = T
    PROVE  Led(G, C, T)
<1>1. Boot \in Seq(Entry) /\ B \in Seq(Entry) BY DEF Logs
<1>2. CASE Within(C, Boot)
  <2>1. LastTerm(B) > 1 BY LastTermFacts
  <2>2. Within(Boot, B) BY <2>1, BeyondBoot
  <2>3. Within(C, B) BY <1>1, <1>2, <2>2, WithinTrans
  <2> QED BY <2>3 DEF Led
<1>3. CASE \E A \in G : Within(C, A) /\ LastTerm(A) <= t /\ Chosen(H, A)
  <2>1. PICK A \in G : Within(C, A) /\ LastTerm(A) <= t /\ Chosen(H, A) BY <1>3
  <2>2. A \in Seq(Entry) /\ LastTerm(A) \in Nat BY LastTermFacts DEF Logs
  <2>3. CASE LastTerm(A) = T BY <2>1, <2>3 DEF Led
  <2>4. CASE LastTerm(A) # T
    <3>1. LastTerm(A) < LastTerm(B) BY <2>1, <2>2, <2>4
    <3>2. ~Doomed(N, H, A) BY <2>1, ChosenNotDoomed
    <3>3. Within(A, B) BY <3>1, <3>2 DEF Complete
    <3>4. Within(C, B) BY <1>1, <2>1, <2>2, <3>3, WithinTrans
    <3> QED BY <3>4 DEF Led
  <2> QED BY <2>3, <2>4
<1> QED BY <1>2, <1>3 DEF Sure
-----------------------------------------------------------------------------
(* A step of node i: its new log is one more that there has been, and it holds *)
(* what its log has of its leader's.                                         *)

Grows(N, N2, i, G, G2, H, H2) ==
    LET L == N2[i].raft_log.ents
        T == N2[i].term
    IN  /\ N[i].term <= T
        /\ \A j \in Node : j # i => N2[j] = N[j]
        /\ G2 = G \cup {L}
        /\ H2 = H \cup {<<i, T, A>> : A \in {B \in G2 : Within(B, L) /\ Led(G2, B, T)}}

\* Log L2 is L with one entry more, of term T.
Longer(L, L2, T) == \E e \in Entry : e.term = T /\ L2 = Append(L, e)

\* A quorum has reached the term of every election.
Reached(N, E) ==
    \A e \in E : \E V \in SUBSET Node :
        Cardinality(V) >= quorum /\ \A v \in V : N[v].term >= e[1]

\* What such a step adds
LEMMA GrowsFacts ==
    ASSUME NEW N \in [Node -> RaftType], NEW N2 \in [Node -> RaftType], NEW i \in Node,
           NEW G, NEW G2, NEW H, NEW H2, Grows(N, N2, i, G, G2, H, H2)
    PROVE  /\ G \subseteq G2 /\ H \subseteq H2
           /\ N2[i].raft_log.ents \in G2 /\ N2[i].raft_log.ents \in Seq(Entry)
           /\ \A A \in G2 : A \in G \/ A = N2[i].raft_log.ents
           /\ \A v, t, A : <<v, t, A>> \in H2 =>
                 \/ <<v, t, A>> \in H
                 \/ /\ v = i /\ t = N2[i].term /\ A \in G2
                    /\ Within(A, N2[i].raft_log.ents) /\ Led(G2, A, t)
           /\ \A A \in G2 : Within(A, N2[i].raft_log.ents) /\ Led(G2, A, N2[i].term)
                               => <<i, N2[i].term, A>> \in H2
           /\ \A j \in Node : N[j].term \in Nat /\ N2[j].term \in Nat /\ N[j].term <= N2[j].term
<1> DEFINE L == N2[i].raft_log.ents
           T == N2[i].term
           K == {<<i, T, A>> : A \in {B \in G2 : Within(B, L) /\ Led(G2, B, T)}}
<1>1. G2 = G \cup {L} /\ H2 = H \cup K /\ N[i].term <= T /\ \A j \in Node : j # i => N2[j] = N[j]
  BY DEF Grows
<1>2. \A j \in Node : N[j] \in RaftType /\ N2[j] \in RaftType OBVIOUS
<1>3. \A j \in Node : N[j].term \in Nat /\ N2[j].term \in Nat /\ N[j].term <= N2[j].term
  BY <1>1, <1>2, RaftFields
<1>4. L \in Seq(Entry) BY <1>2, RaftFields, LogFields
<1>5. \A v, t, A : <<v, t, A>> \in K => v = i /\ t = T /\ A \in G2 /\ Within(A, L) /\ Led(G2, A, T)
  <2> HIDE DEF L, T
  <2> QED OBVIOUS
<1>6. \A A \in G2 : Within(A, L) /\ Led(G2, A, T) => <<i, T, A>> \in K OBVIOUS
<1> HIDE DEF K
<1> QED BY <1>1, <1>3, <1>4, <1>5, <1>6

\* What can not be committed any more never can.
LEMMA DoomedKept ==
    ASSUME NEW N \in [Node -> RaftType], NEW N2 \in [Node -> RaftType], NEW i \in Node,
           NEW G, NEW G2, NEW H, NEW H2, Grows(N, N2, i, G, G2, H, H2),
           NEW A \in Seq(Entry), Doomed(N, H, A)
    PROVE  Doomed(N2, H2, A)
<1>1. PICK V \in SUBSET Node :
        /\ Cardinality(V) >= quorum
        /\ \A v \in V : N[v].term > LastTerm(A) /\ <<v, LastTerm(A), A>> \notin H
  BY DEF Doomed
<1>2. LastTerm(A) \in Nat BY LastTermFacts
<1>3. \A j \in Node : N[j].term \in Nat /\ N2[j].term \in Nat /\ N[j].term <= N2[j].term
  BY GrowsFacts
<1>4. \A v, t : <<v, t, A>> \in H2 => <<v, t, A>> \in H \/ (v = i /\ t = N2[i].term)
  BY GrowsFacts
<1>5. ASSUME NEW v \in V PROVE N2[v].term > LastTerm(A) /\ <<v, LastTerm(A), A>> \notin H2
  <2>0. v \in Node /\ N[v].term > LastTerm(A) BY <1>1
  <2>1. N2[v].term > LastTerm(A) BY <1>2, <1>3, <2>0
  <2>2. v = i => LastTerm(A) # N2[i].term BY <1>2, <1>3, <2>1
  <2> QED BY <1>1, <1>4, <2>1, <2>2
<1> QED BY <1>1, <1>5 DEF Doomed

\* A leader's new log is one of those there may be.
LEMMA LogsKept ==
    ASSUME NEW N \in [Node -> RaftType], NEW N2 \in [Node -> RaftType], NEW i \in Node,
           NEW G, NEW G2, NEW H, NEW H2, Grows(N, N2, i, G, G2, H, H2),
           NEW E, NEW E2, E \subseteq E2, Logs(E, G),
           NEW L \in G, Within(Boot, L), LastTerm(L) <= N2[i].term,
           \/ N2[i].raft_log.ents \in G
           \/ /\ Longer(L, N2[i].raft_log.ents, N2[i].term)
              /\ 0 < N2[i].term /\ <<N2[i].term, i>> \in E2
              /\ \A A \in G : LastTerm(A) = N2[i].term => Within(A, L)
    PROVE  Logs(E2, G2)
<1> DEFINE M == N2[i].raft_log.ents
           T == N2[i].term
<1>1. G \subseteq G2 /\ M \in G2 /\ M \in Seq(Entry) /\ T \in Nat /\ \A A \in G2 : A \in G \/ A = M
  BY GrowsFacts
<1>2. G \subseteq Seq(Entry) /\ Boot \in G /\ L \in Seq(Entry) BY DEF Logs
<1>3. CASE M \in G
  <2>1. G2 = G BY <1>1, <1>3
  <2> QED BY <2>1 DEF Logs
<1>4. CASE Longer(L, M, T) /\ 0 < T /\ <<T, i>> \in E2
           /\ \A A \in G : LastTerm(A) = T => Within(A, L)
  <2> HIDE DEF M, T
  <2>0. PICK e \in Entry : e.term = T /\ M = Append(L, e) BY <1>4 DEF Longer
  <2>1. Len(M) = Len(L) + 1 /\ Within(L, M) /\ LastTerm(M) = T /\ M[Len(L) + 1] = e /\ Len(L) \in Nat
    BY <1>2, <2>0, AppendOne
  <2>2. ASSUME NEW A \in G2, NEW n \in 0..Len(A) PROVE First(A, n) \in G2
    <3>1. CASE A \in G BY <1>1, <3>1 DEF Logs
    <3>2. CASE A = M /\ n <= Len(L)
      <4>1. n \in Nat BY <1>1, <3>2
      <4>2. First(L, n) = First(M, n) BY <1>1, <1>2, <2>1, <3>2, <4>1, FirstSame
      <4>3. First(L, n) \in G BY <3>2, <4>1, LogsFirst
      <4> QED BY <1>1, <3>2, <4>2, <4>3
    <3>3. CASE A = M /\ n = Len(M) BY <1>1, <3>3, FirstFacts
    <3> QED BY <1>1, <2>1, <2>2, <3>1, <3>2, <3>3
  <2>3. ASSUME NEW A \in G2 PROVE Within(A, Boot) \/ Within(Boot, A)
    <3>1. Within(Boot, M) BY <1>1, <1>2, <2>1, WithinTrans
    <3> QED BY <1>1, <3>1 DEF Logs
  <2>4. ASSUME NEW A \in G2, NEW k \in 1..Len(A) PROVE 0 < A[k].term /\ A[k].term <= LastTerm(A)
    <3>1. CASE A \in G BY <3>1 DEF Logs
    <3>2. CASE A = M /\ k <= Len(L)
      <4>1. k \in 1..Len(L) /\ M[k] = L[k] BY <1>1, <2>1, <3>2 DEF Within
      <4>2. 0 < L[k].term /\ L[k].term <= LastTerm(L) BY <4>1 DEF Logs
      <4>3. L[k].term \in Nat /\ LastTerm(L) \in Nat
        <5>1. L[k] \in Entry BY <1>2, <4>1
        <5> QED BY <1>2, <5>1, LastTermFacts DEF Entry
      <4>4. LastTerm(L) <= T BY DEF T
      <4> QED BY <1>1, <2>1, <3>2, <4>1, <4>2, <4>3, <4>4
    <3>3. CASE A = M /\ k = Len(L) + 1 BY <1>1, <1>4, <2>0, <2>1, <3>3
    <3> QED BY <1>1, <2>1, <2>4, <3>1, <3>2, <3>3
  <2>5. ASSUME NEW A \in G2 PROVE LastTerm(A) <= 1 \/ \E j \in Node : <<LastTerm(A), j>> \in E2
    BY <1>1, <1>4, <2>1 DEF Logs
  <2>6. ASSUME NEW A \in G2, NEW B \in G2, LastTerm(A) = LastTerm(B), Len(A) <= Len(B)
        PROVE  Within(A, B)
    <3>1. CASE A \in G /\ B \in G BY <2>6, <3>1 DEF Logs
    <3>2. CASE A \in G /\ B = M
      <4>1. Within(A, L) BY <1>4, <2>1, <2>6, <3>2
      <4> QED BY <1>1, <1>2, <2>1, <3>2, <4>1, WithinTrans
    <3>3. CASE A = M /\ B \in G
      <4>1. Within(B, L) BY <1>4, <2>1, <2>6, <3>3
      <4>2. Len(B) <= Len(L) /\ Len(B) \in Nat BY <1>2, <3>3, <4>1 DEF Within
      <4> QED BY <2>1, <2>6, <3>3, <4>2
    <3>4. CASE A = M /\ B = M BY <1>1, <3>4, WithinRefl
    <3> QED BY <1>1, <3>1, <3>2, <3>3, <3>4
  <2>7. G2 \subseteq Seq(Entry) /\ Boot \in G2 BY <1>1, <1>2
  <2> QED BY <2>2, <2>3, <2>4, <2>5, <2>6, <2>7 DEF Logs
<1> QED BY <1>3, <1>4

\* The logs of later terms still hold what earlier terms may have committed.
LEMMA CompleteKept ==
    ASSUME NEW N \in [Node -> RaftType], NEW N2 \in [Node -> RaftType], NEW i \in Node,
           NEW G, NEW G2, NEW H, NEW H2, Grows(N, N2, i, G, G2, H, H2),
           NEW E, Logs(E, G), Reached(N, E), Complete(N, G, H), H \subseteq Node \X Nat \X G,
           NEW L \in G,
           \/ N2[i].raft_log.ents \in G
           \/ /\ Longer(L, N2[i].raft_log.ents, N2[i].term) /\ 0 < N2[i].term
              /\ \A A \in G : LastTerm(A) < N2[i].term => Within(A, L) \/ Doomed(N2, H2, A)
    PROVE  Complete(N2, G2, H2)
<1> DEFINE M == N2[i].raft_log.ents
           T == N2[i].term
<1>1. /\ G \subseteq G2 /\ M \in G2 /\ M \in Seq(Entry) /\ T \in Nat /\ \A A \in G2 : A \in G \/ A = M
      /\ \A j \in Node : N[j].term \in Nat /\ N2[j].term \in Nat /\ N[j].term <= N2[j].term
      /\ \A v, t, A : <<v, t, A>> \in H2 => <<v, t, A>> \in H \/ (v = i /\ t = T)
  BY GrowsFacts
<1>2. G \subseteq Seq(Entry) /\ L \in Seq(Entry) BY DEF Logs
<1> SUFFICES ASSUME NEW A \in G2, NEW B \in G2, LastTerm(A) < LastTerm(B)
             PROVE  Within(A, B) \/ Doomed(N2, H2, A)
  BY DEF Complete
<1>3. A \in Seq(Entry) /\ B \in Seq(Entry) BY <1>1, <1>2
<1>4. CASE A \in G /\ B \in G
  <2>1. Within(A, B) \/ Doomed(N, H, A) BY <1>4 DEF Complete
  <2> QED BY <1>3, <2>1, DoomedKept
<1>5. CASE ~(A \in G /\ B \in G)
  <2>0. M \notin G BY <1>1, <1>5
  <2>1. PICK e \in Entry : e.term = T /\ M = Append(L, e) BY <2>0 DEF Longer
  <2>2. Within(L, M) /\ LastTerm(M) = T /\ 0 < T BY <1>2, <2>0, <2>1, AppendOne
  <2>3. CASE A \in G /\ B = M
    <3>1. Within(A, L) \/ Doomed(N2, H2, A) BY <2>0, <2>2, <2>3
    <3> QED BY <1>1, <1>2, <1>3, <2>2, <2>3, <3>1, WithinTrans
  <2>4. CASE A = M /\ B \in G
    <3>1. LastTerm(B) \in Nat /\ T < LastTerm(B) /\ LastTerm(B) > 1
      BY <1>1, <1>3, <2>2, <2>4, LastTermFacts
    <3>a. LastTerm(B) <= 1 \/ \E j \in Node : <<LastTerm(B), j>> \in E BY <2>4 DEF Logs
    <3>b. ~(LastTerm(B) <= 1) BY <3>1
    <3>2. PICK j \in Node : <<LastTerm(B), j>> \in E BY <3>a, <3>b, Zenon
    <3>3. PICK V \in SUBSET Node : Cardinality(V) >= quorum /\ \A v \in V : N[v].term >= LastTerm(B)
      BY <3>2 DEF Reached
    <3>4. ASSUME NEW v \in V PROVE N2[v].term > LastTerm(A) /\ <<v, LastTerm(A), A>> \notin H2
      <4>1. N2[v].term > T /\ v # i BY <1>1, <3>1, <3>3
      <4>2. <<v, LastTerm(A), A>> \notin H BY <2>0, <2>4
      <4> QED BY <1>1, <2>2, <2>4, <4>1, <4>2
    <3> QED BY <3>3, <3>4 DEF Doomed
  <2>5. A \in G \/ A = M BY <1>1
  <2>6. B \in G \/ B = M BY <1>1
  <2>7. ~(A = M /\ B = M)
    <3>1. LastTerm(A) \in Nat BY <1>3, LastTermFacts
    <3> QED BY <3>1
  <2> QED BY <1>5, <2>3, <2>4, <2>5, <2>6, <2>7
<1> QED BY <1>4, <1>5
\* How the log of node i may change without losing an acknowledgement that matters
KeepsAcks(N, G, H, i, L2, T) ==
    \A t \in Nat, A \in G : <<i, t, A>> \in H =>
        /\ t = T => Within(A, L2)
        /\ LastTerm(A) = t => Within(A, L2) \/ Doomed(N, H, A)

\* A log with more entries keeps everything.
LEMMA LongerKeepsAcks ==
    ASSUME NEW N \in [Node -> RaftType], NEW i \in Node, NEW E, NEW G, NEW H, Logs(E, G),
           Acks(N, G, H), NEW T \in Nat, N[i].term <= T,
           NEW L2 \in Seq(Entry), Within(N[i].raft_log.ents, L2)
    PROVE  KeepsAcks(N, G, H, i, L2, T)
<1> DEFINE L == N[i].raft_log.ents
<1>1. N[i] \in RaftType OBVIOUS
<1>2. L \in Seq(Entry) /\ N[i].term \in Nat BY <1>1, RaftFields, LogFields
<1> HIDE DEF L
<1> SUFFICES ASSUME NEW t \in Nat, NEW A \in G, <<i, t, A>> \in H
             PROVE  /\ t = T => Within(A, L2)
                    /\ LastTerm(A) = t => Within(A, L2) \/ Doomed(N, H, A)
  BY DEF KeepsAcks
<1>3. A \in Seq(Entry) BY DEF Logs
<1>4. Ack(N, G, H, i, t, A) BY DEF Acks
<1>5. t <= N[i].term /\ (t = N[i].term => Within(A, L))
      /\ (LastTerm(A) = t => Within(A, L) \/ Doomed(N, H, A))
  BY <1>4 DEF Ack, L
<1>6. Within(A, L) => Within(A, L2) BY <1>2, <1>3, WithinTrans DEF L
<1>7. t = T => t = N[i].term BY <1>2, <1>5
<1> QED BY <1>5, <1>6, <1>7

\* So does a log of the present leader that the node did not have.
LEMMA TakenKeepsAcks ==
    ASSUME NEW N \in [Node -> RaftType], NEW i \in Node, NEW E, NEW G, NEW H, Logs(E, G),
           Complete(N, G, H), Acks(N, G, H), NEW T \in Nat, N[i].term <= T,
           NEW L2 \in G, Led(G, L2, T), ~Within(L2, N[i].raft_log.ents)
    PROVE  KeepsAcks(N, G, H, i, L2, T)
<1> DEFINE L == N[i].raft_log.ents
<1>1. N[i] \in RaftType OBVIOUS
<1>2. L \in Seq(Entry) /\ N[i].term \in Nat BY <1>1, RaftFields, LogFields
<1>3. ~Within(L2, L) OBVIOUS
<1> HIDE DEF L
<1> SUFFICES ASSUME NEW t \in Nat, NEW A \in G, <<i, t, A>> \in H
             PROVE  /\ t = T => Within(A, L2)
                    /\ LastTerm(A) = t => Within(A, L2) \/ Doomed(N, H, A)
  BY DEF KeepsAcks
<1>4. A \in Seq(Entry) /\ L2 \in Seq(Entry) BY DEF Logs
<1>5. Ack(N, G, H, i, t, A) BY DEF Acks
<1>6. Led(G, A, t) /\ t <= N[i].term /\ (t = N[i].term => Within(A, L))
      /\ (LastTerm(A) = t => Within(A, L) \/ Doomed(N, H, A))
  BY <1>5 DEF Ack, L
<1>7. ASSUME Led(G, A, T), Within(A, L) PROVE Within(A, L2)
  <2>1. CASE Len(A) <= Len(L2) BY <1>4, <1>7, <2>1, LedSame
  <2>2. CASE Len(L2) <= Len(A)
    <3>1. Within(L2, A) BY <1>4, <1>7, <2>2, LedSame
    <3>2. Within(L2, L) BY <1>2, <1>4, <1>7, <3>1, WithinTrans
    <3> QED BY <1>3, <3>2
  <2>3. Len(A) \in Nat /\ Len(L2) \in Nat BY <1>4
  <2> QED BY <2>1, <2>2, <2>3
<1>8. ASSUME t = T PROVE Within(A, L2)
  <2>1. t = N[i].term BY <1>2, <1>6, <1>8
  <2> QED BY <1>6, <1>7, <1>8, <2>1
<1>9. ASSUME LastTerm(A) = t, t # T PROVE Within(A, L2) \/ Doomed(N, H, A)
  <2>1. t < T BY <1>2, <1>6, <1>9
  <2>2. PICK B \in G : LastTerm(B) = T /\ Within(L2, B) BY DEF Led
  <2>3. Within(A, B) \/ Doomed(N, H, A) BY <1>9, <2>1, <2>2 DEF Complete
  <2>4. Within(A, B) => Led(G, A, T) BY <2>2 DEF Led
  <2> QED BY <1>6, <1>7, <1>9, <2>3, <2>4
<1> QED BY <1>8, <1>9

\* More logs
LEMMA LedKept ==
    ASSUME NEW G, NEW G2, G \subseteq G2, NEW A, NEW t, Led(G, A, t)
    PROVE  Led(G2, A, t)
BY DEF Led

\* Every acknowledgement still means what it did, and the new ones are true.
LEMMA AcksKept ==
    ASSUME NEW N \in [Node -> RaftType], NEW N2 \in [Node -> RaftType], NEW i \in Node,
           NEW G, NEW G2, NEW H, NEW H2, Grows(N, N2, i, G, G2, H, H2),
           NEW E, NEW E2, Logs(E, G), Logs(E2, G2), Acks(N, G, H), 0 < N2[i].term,
           KeepsAcks(N, G, H, i, N2[i].raft_log.ents, N2[i].term)
    PROVE  Acks(N2, G2, H2)
<1> DEFINE M == N2[i].raft_log.ents
           T == N2[i].term
<1>1. /\ G \subseteq G2 /\ H \subseteq H2 /\ M \in G2 /\ M \in Seq(Entry) /\ T \in Nat
      /\ \A v, t, A : <<v, t, A>> \in H2 =>
            \/ <<v, t, A>> \in H
            \/ v = i /\ t = T /\ A \in G2 /\ Within(A, M) /\ Led(G2, A, t)
      /\ \A A \in G2 : Within(A, M) /\ Led(G2, A, T) => <<i, T, A>> \in H2
      /\ \A j \in Node : N[j].term \in Nat /\ N2[j].term \in Nat /\ N[j].term <= N2[j].term
  BY GrowsFacts
<1>2. G \subseteq Seq(Entry) /\ G2 \subseteq Seq(Entry) BY DEF Logs
<1>3. H \subseteq Node \X Nat \X G BY DEF Acks
<1>4. \A j \in Node : j # i => N2[j] = N[j] BY DEF Grows
<1>5. H2 \subseteq Node \X Nat \X G2
  <2>1. H2 = H \cup {<<i, T, A>> : A \in {B \in G2 : Within(B, M) /\ Led(G2, B, T)}} BY DEF Grows
  <2> HIDE DEF M, T
  <2> QED BY <1>1, <1>3, <2>1
<1>6. ASSUME NEW v \in Node, NEW t \in Nat, NEW A \in G2, <<v, t, A>> \in H2
      PROVE  Ack(N2, G2, H2, v, t, A)
  <2>1. CASE <<v, t, A>> \in H
    <3>1. A \in G /\ A \in Seq(Entry) BY <1>2, <1>3, <2>1
    <3>2. Ack(N, G, H, v, t, A) BY <2>1, <3>1 DEF Acks
    <3>3. /\ 0 < t /\ t <= N[v].term /\ Led(G, A, t)
          /\ \A n \in 0..Len(A) : <<v, t, First(A, n)>> \in H
          /\ t = N[v].term => Within(A, N[v].raft_log.ents)
          /\ LastTerm(A) = t => Within(A, N[v].raft_log.ents) \/ Doomed(N, H, A)
      BY <3>2 DEF Ack
    <3>4. t <= N2[v].term /\ Led(G2, A, t) BY <1>1, <3>3, LedKept
    <3>5. \A n \in 0..Len(A) : <<v, t, First(A, n)>> \in H2 BY <1>1, <3>3
    <3>6. Doomed(N, H, A) => Doomed(N2, H2, A) BY <3>1, DoomedKept
    <3>7. CASE v = i
      <4>1. /\ t = T => Within(A, M)
            /\ LastTerm(A) = t => Within(A, M) \/ Doomed(N, H, A)
        BY <2>1, <3>1, <3>7 DEF KeepsAcks
      <4> QED BY <3>3, <3>4, <3>5, <3>6, <3>7, <4>1 DEF Ack
    <3>8. CASE v # i
      <4>1. N2[v] = N[v] BY <1>4, <3>8
      <4> QED BY <3>3, <3>4, <3>5, <3>6, <4>1 DEF Ack
    <3> QED BY <3>7, <3>8
  <2>2. CASE v = i /\ t = T /\ Within(A, M) /\ Led(G2, A, t)
    <3>1. A \in Seq(Entry) BY <1>2
    <3>2. ASSUME NEW n \in 0..Len(A) PROVE <<v, t, First(A, n)>> \in H2
      <4>1. n \in Nat /\ n <= Len(A) BY <3>1
      <4>2. First(A, n) \in G2 BY <4>1, LogsFirst
      <4>3. First(A, n) \in Seq(Entry) /\ Within(First(A, n), A) BY <3>1, <4>1, FirstFacts
      <4>4. Within(First(A, n), M) BY <1>1, <2>2, <3>1, <4>3, WithinTrans
      <4>5. Led(G2, First(A, n), T) BY <1>2, <2>2, <3>1, <4>3, LedWithin
      <4> QED BY <1>1, <2>2, <4>2, <4>4, <4>5
    <3>3. t <= N2[v].term /\ 0 < t BY <1>1, <2>2
    <3> QED BY <2>2, <3>2, <3>3 DEF Ack
  <2> QED BY <1>1, <1>6, <2>1, <2>2
<1> QED BY <1>5, <1>6 DEF Acks

\* How the vote of node i may change: it keeps it, or votes for itself, or grants it
\* to a candidate whose log is up to date.
VotesFor(N, i, s) ==
    \/ s.vote = Nil
    \/ s.vote = N[i].vote /\ s.term = N[i].term
    \/ s.vote = i
    \/ LET c == N[s.vote]
           L == N[i].raft_log.ents
           C == c.raft_log.ents
       IN  /\ c.term >= s.term
           /\ c.term = s.term /\ c.state = "Candidate" =>
                \/ LastTerm(C) > LastTerm(L)
                \/ LastTerm(C) = LastTerm(L) /\ Len(C) >= Len(L)

\* A candidate is a new one, of a later term, or still is one, and has the log it had.
Stands(r, s) ==
    s.state = "Candidate" =>
        /\ s.raft_log.ents = r.raft_log.ents
        /\ r.term < s.term \/ (r.term = s.term /\ r.state = "Candidate")
\* Every candidate has what its voters have acknowledged, those of this step included.
LEMMA VotesKept ==
    ASSUME NEW N \in [Node -> RaftType], NEW N2 \in [Node -> RaftType], NEW i \in Node,
           NEW G, NEW G2, NEW H, NEW H2, Grows(N, N2, i, G, G2, H, H2),
           NEW E, Logs(E, G), Complete(N, G, H), Acks(N, G, H),
           \A j \in Node : N[j].raft_log.ents \in G,
           NEW B \in SUBSET (Node \X Nat \X Node), NEW B2, Votes(N, B, G, H),
           \A b \in B : b[2] <= N[b[1]].term,
           B2 = B \cup (IF N2[i].vote = Nil THEN {} ELSE {<<i, N2[i].term, N2[i].vote>>}),
           VotesFor(N, i, N2[i]), Stands(N[i], N2[i])
    PROVE  Votes(N2, B2, G2, H2)
<1> DEFINE s == N2[i]
           L == N[i].raft_log.ents
           T == N2[i].term
<1>1. /\ G \subseteq G2 /\ T \in Nat
      /\ \A v, t, A : <<v, t, A>> \in H2 => <<v, t, A>> \in H \/ (v = i /\ t = T)
      /\ \A j \in Node : N[j].term \in Nat /\ N2[j].term \in Nat /\ N[j].term <= N2[j].term
  BY GrowsFacts
<1>2. G \subseteq Seq(Entry) BY DEF Logs
<1>3. H \subseteq Node \X Nat \X G BY DEF Acks
<1>4. \A j \in Node : j # i => N2[j] = N[j] BY DEF Grows
<1>5. \A b \in B : b[1] \in Node /\ b[2] \in Nat /\ b[3] \in Node /\ N[b[3]].term >= b[2] BY DEF Votes
<1>6. \A v \in Node : N[v].vote # Nil => <<v, N[v].term, N[v].vote>> \in B BY DEF Votes
<1>7. s \in RaftType /\ s.vote \in Node \cup {Nil} BY RaftFields
<1>8. \A b \in B2 : b \in B \/ (s.vote # Nil /\ b = <<i, T, s.vote>>) BY DEF s, T
<1>9. B \subseteq B2 OBVIOUS
<1>10. \A j \in Node : N[j].raft_log.ents \in Seq(Entry) /\ Len(N[j].raft_log.ents) \in Nat
                       /\ LastTerm(N[j].raft_log.ents) \in Nat
  BY <1>2, LastTermFacts
<1>11. s.vote = Nil \/ <<i, T, s.vote>> \in B \/ s.vote = i
       \/ (/\ N[s.vote].term >= T
           /\ N[s.vote].term = T /\ N[s.vote].state = "Candidate" =>
                LET C == N[s.vote].raft_log.ents
                IN  \/ LastTerm(C) > LastTerm(L)
                    \/ LastTerm(C) = LastTerm(L) /\ Len(C) >= Len(L))
  BY <1>6 DEF VotesFor
<1>12. \A v \in Node : N2[v].vote # Nil => <<v, N2[v].term, N2[v].vote>> \in B2
  <2> TAKE v \in Node
  <2>1. CASE v = i BY <2>1
  <2>2. CASE v # i
    <3>1. N2[v] = N[v] BY <1>4, <2>2
    <3> QED BY <1>6, <1>9, <3>1
  <2> QED BY <2>1, <2>2
<1>13. ASSUME NEW b \in B2 PROVE N2[b[3]].term >= b[2]
  <2>1. CASE b \in B BY <1>1, <1>5, <2>1
  <2>2. CASE s.vote # Nil /\ b = <<i, T, s.vote>>
    <3>1. s.vote \in Node /\ b[3] = s.vote /\ b[2] = T BY <1>7, <2>2
    <3>2. CASE <<i, T, s.vote>> \in B BY <1>1, <1>5, <2>2, <3>1, <3>2
    <3>3. CASE s.vote = i BY <1>1, <3>1, <3>3
    <3>4. CASE N[s.vote].term >= T BY <1>1, <3>1, <3>4
    <3> QED BY <1>11, <2>2, <3>2, <3>3, <3>4
  <2> QED BY <1>8, <2>1, <2>2
<1> SUFFICES ASSUME NEW v \in Node, NEW c \in Node, NEW t \in Nat, NEW A \in G2,
                    <<v, N2[c].term, c>> \in B2, N2[c].state = "Candidate",
                    <<v, t, A>> \in H2, LastTerm(A) = t, t < N2[c].term
             PROVE  Within(A, N2[c].raft_log.ents) \/ Doomed(N2, H2, A)
  BY <1>12, <1>13 DEF Votes
<1>14. ASSUME <<v, t, A>> \in H, Doomed(N, H, A) PROVE Doomed(N2, H2, A)
  BY <1>2, <1>3, <1>14, DoomedKept
<1>15. ASSUME v = i, <<v, t, A>> \in H PROVE Within(A, L) \/ Doomed(N2, H2, A)
  <2>1. A \in G BY <1>3, <1>15
  <2>2. Ack(N, G, H, i, t, A) BY <1>15, <2>1 DEF Acks
  <2>3. Within(A, L) \/ Doomed(N, H, A) BY <2>2 DEF Ack
  <2> QED BY <1>14, <1>15, <2>3
<1>16. ASSUME <<v, t, A>> \in H, <<v, N[c].term, c>> \in B, N[c].state = "Candidate",
              t < N[c].term
       PROVE  Within(A, N[c].raft_log.ents) \/ Doomed(N2, H2, A)
  <2>1. A \in G BY <1>3, <1>16
  <2>2. Within(A, N[c].raft_log.ents) \/ Doomed(N, H, A) BY <1>16, <2>1 DEF Votes
  <2> QED BY <1>14, <1>16, <2>2
<1>17. CASE c # i
  <2>1. N2[c] = N[c] BY <1>4, <1>17
  <2>2. <<v, N[c].term, c>> \in B \/ (v = i /\ N[c].term = T /\ s.vote = c /\ s.vote # Nil)
    BY <1>8, <2>1
  <2>3. CASE <<v, t, A>> \in H /\ <<v, N[c].term, c>> \in B BY <1>16, <2>1, <2>3
  <2>4. CASE <<v, t, A>> \in H /\ v = i /\ N[c].term = T /\ s.vote = c /\ s.vote # Nil
                /\ <<v, N[c].term, c>> \notin B
    <3> DEFINE C == N[c].raft_log.ents
    <3>1. \/ LastTerm(C) > LastTerm(L)
          \/ LastTerm(C) = LastTerm(L) /\ Len(C) >= Len(L)
      BY <1>1, <1>11, <1>17, <2>1, <2>4
    <3>2. A \in G /\ A \in Seq(Entry) BY <1>2, <1>3, <2>4
    <3>3. L \in G /\ C \in G /\ C \in Seq(Entry) /\ L \in Seq(Entry) BY <1>2
    <3>4. CASE Within(A, L)
      <4>1. LastTerm(A) <= LastTerm(L) BY <3>2, <3>3, <3>4, LogsOrder
      <4>2. CASE LastTerm(C) > LastTerm(L)
        <5>1. LastTerm(A) < LastTerm(C) BY <1>10, <4>1, <4>2
        <5>2. Within(A, C) \/ Doomed(N, H, A) BY <3>2, <3>3, <5>1 DEF Complete
        <5> QED BY <1>14, <2>1, <2>4, <5>2
      <4>3. CASE LastTerm(C) = LastTerm(L) /\ Len(C) >= Len(L)
        <5>1. Len(L) <= Len(C) BY <1>10, <4>3
        <5>2. Within(L, C) BY <3>3, <4>3, <5>1 DEF Logs
        <5>3. Within(A, C) BY <3>2, <3>3, <3>4, <5>2, WithinTrans
        <5> QED BY <2>1, <5>3
      <4> QED BY <3>1, <4>2, <4>3
    <3> QED BY <1>15, <2>4, <3>4
  <2>5. CASE v = i /\ t = T /\ <<v, N[c].term, c>> \in B
    <3>1. N[c].term <= N[i].term BY <1>5, <2>5
    <3> QED BY <1>1, <2>1, <2>5, <3>1
  <2>6. ~(v = i /\ t = T /\ N[c].term = T) BY <1>1, <2>1
  <2> QED BY <1>1, <2>2, <2>3, <2>4, <2>5, <2>6
<1>18. CASE c = i
  <2>1. N2[i].raft_log.ents = L /\ (N[i].term < T \/ (N[i].term = T /\ N[i].state = "Candidate"))
    BY <1>18 DEF Stands
  <2>2. <<v, t, A>> \in H BY <1>1, <1>18
  <2>3. CASE v = i BY <1>15, <1>18, <2>1, <2>2, <2>3
  <2>4. CASE v # i
    <3>1. <<v, T, i>> \in B BY <1>8, <1>18, <2>4
    <3>2. N[i].term >= T BY <1>5, <3>1
    <3>3. N[i].term = T /\ N[i].state = "Candidate" BY <1>1, <2>1, <3>2
    <3> QED BY <1>16, <1>18, <2>1, <2>2, <3>1, <3>3
  <2> QED BY <2>3, <2>4
<1> QED BY <1>17, <1>18
\* What holds of a node that does not step
LEMMA NodeKept ==
    ASSUME NEW G, NEW G2, G \subseteq G2, G2 \subseteq Seq(Entry), NEW H, NEW H2, H \subseteq H2,
           NEW E, NEW E2, E \subseteq E2, NEW j \in Node, NEW r \in RaftType,
           NodeOK(E, G, H, j, r),
           r.state = "Leader" => \A A \in G2 : LastTerm(A) = r.term => A \in G
    PROVE  NodeOK(E2, G2, H2, j, r)
<1> DEFINE L == r.raft_log.ents
           C == First(L, r.raft_log.committed)
<1>1. /\ L \in G /\ Within(Boot, L) /\ LastTerm(L) <= r.term
      /\ Sure(G, H, C, r.term)
      /\ ~r.raft_log.fatal
      /\ r.lead # Nil => <<r.term, r.lead>> \in E
      /\ r.state # "Leader" => r.lead # j
      /\ r.state \in {"Candidate", "Leader"} => r.term > 1
      /\ r.state = "Leader" =>
            /\ LastTerm(L) = r.term
            /\ \A A \in G : LastTerm(A) = r.term => Within(A, L)
            /\ View(H, r)
  BY DEF NodeOK
<1>2. r.term \in Nat BY RaftFields
<1>3. Sure(G2, H2, C, r.term) BY <1>1, <1>2, SureKept
<1>4. View(H, r) => View(H2, r) BY DEF View
<1>5. r.state = "Leader" => \A A \in G2 : LastTerm(A) = r.term => Within(A, L) BY <1>1
<1>6. L \in G2 BY <1>1
<1> HIDE DEF L, C
<1>7. /\ L \in G2 /\ Within(Boot, L) /\ LastTerm(L) <= r.term
      /\ Sure(G2, H2, C, r.term)
      /\ ~r.raft_log.fatal
      /\ r.lead # Nil => <<r.term, r.lead>> \in E2
      /\ r.state # "Leader" => r.lead # j
      /\ r.state \in {"Candidate", "Leader"} => r.term > 1
      /\ r.state = "Leader" =>
            /\ LastTerm(L) = r.term
            /\ \A A \in G2 : LastTerm(A) = r.term => Within(A, L)
            /\ View(H2, r)
  BY <1>1, <1>3, <1>4, <1>5, <1>6
<1> QED BY <1>7 DEF NodeOK, L, C

\* What holds of a message of the past
LEMMA MessageKept ==
    ASSUME NEW N \in [Node -> RaftType], NEW N2 \in [Node -> RaftType], NEW i \in Node,
           NEW G, NEW G2, NEW H, NEW H2, Grows(N, N2, i, G, G2, H, H2),
           G2 \subseteq Seq(Entry), NEW E, NEW E2, E \subseteq E2,
           Stands(N[i], N2[i]), NEW m \in MessageType, MsgOK(N, E, G, H, m)
    PROVE  MsgOK(N2, E2, G2, H2, m)
<1>1. /\ G \subseteq G2 /\ H \subseteq H2
      /\ \A j \in Node : N[j].term \in Nat /\ N2[j].term \in Nat /\ N[j].term <= N2[j].term
  BY GrowsFacts
<1>2. m.term \in Nat /\ m.from \in Node /\ m.to \in Node /\ m.snapshot \in Seq(Entry)
  BY DEF MessageType
<1>3. \A C : Sure(G, H, C, m.term) => Sure(G2, H2, C, m.term)
  <2> SUFFICES ASSUME NEW C, Sure(G, H, C, m.term) PROVE Sure(G2, H2, C, m.term) OBVIOUS
  <2>1. m.term <= m.term BY <1>2
  <2> QED BY <1>1, <1>2, <2>1, SureKept
<1>4. \A A : Led(G, A, m.term) => Led(G2, A, m.term) BY <1>1, LedKept
<1>5. m.type = "MsgVote" => VoteOK(N2, m)
  <2> SUFFICES ASSUME m.type = "MsgVote" PROVE VoteOK(N2, m) OBVIOUS
  <2>1. VoteOK(N, m) BY DEF MsgOK
  <2>2. CASE m.from = i
    <3>1. N2[i].term >= m.term BY <1>1, <1>2, <2>1, <2>2 DEF VoteOK
    <3>2. ASSUME N2[i].term = m.term, N2[i].state = "Candidate"
          PROVE  /\ m.index = Len(N2[i].raft_log.ents)
                 /\ m.log_term = LastTerm(N2[i].raft_log.ents)
      <4>1. N[i].term = m.term BY <1>1, <1>2, <2>1, <2>2, <3>2 DEF VoteOK
      <4>2. N2[i].raft_log.ents = N[i].raft_log.ents /\ N[i].state = "Candidate"
        BY <1>1, <3>2, <4>1 DEF Stands
      <4> QED BY <2>1, <2>2, <4>1, <4>2 DEF VoteOK
    <3> QED BY <2>2, <3>1, <3>2 DEF VoteOK
  <2>3. CASE m.from # i
    <3>1. N2[m.from] = N[m.from] BY <1>2, <2>3 DEF Grows
    <3> QED BY <2>1, <3>1 DEF VoteOK
  <2> QED BY <2>2, <2>3
<1>6. AppOK(G, H, m) => AppOK(G2, H2, m)
  <2> SUFFICES ASSUME AppOK(G, H, m) PROVE AppOK(G2, H2, m) OBVIOUS
  <2>1. PICK A \in G : /\ Len(A) = m.index + Len(m.entries)
                       /\ \A k \in 1..Len(m.entries) : m.entries[k] = A[m.index + k]
                       /\ m.log_term = LastTerm(First(A, m.index))
                       /\ Led(G, A, m.term)
                       /\ Sure(G, H, First(A, Least(m.commit, Len(A))), m.term)
    BY DEF AppOK
  <2>2. A \in G2 /\ Led(G2, A, m.term) /\ Sure(G2, H2, First(A, Least(m.commit, Len(A))), m.term)
    BY <1>1, <1>3, <1>4, <2>1
  <2> QED BY <2>1, <2>2 DEF AppOK
<1>7. SnapOK(G, H, m) => SnapOK(G2, H2, m) BY <1>1, <1>3, <1>4 DEF SnapOK
<1>8. BeatOK(G, H, m) => BeatOK(G2, H2, m) BY <1>1, <1>3 DEF BeatOK
<1>9. RespOK(G, H, m) => RespOK(G2, H2, m) BY <1>1 DEF RespOK
<1>10. /\ m.from # m.to
       /\ IF m.type = "MsgProp" THEN m.term = 0 /\ m.entries # <<>> ELSE m.term > 0
       /\ m.type = "MsgTransferLeader" => <<m.term, m.to>> \in E
       /\ m.type \in LeaderMsg => <<m.term, m.from>> \in E
       /\ m.type = "MsgApp" => AppOK(G, H, m)
       /\ m.type = "MsgSnap" => SnapOK(G, H, m)
       /\ m.type = "MsgHeartbeat" => BeatOK(G, H, m)
       /\ m.type = "MsgAppResp" => RespOK(G, H, m)
  BY DEF MsgOK
<1> QED BY <1>5, <1>6, <1>7, <1>8, <1>9, <1>10 DEF MsgOK

\* Nobody who has won a term is a candidate of it.
LEMMA ElectionsKept ==
    ASSUME NEW N \in [Node -> RaftType], NEW N2 \in [Node -> RaftType], NEW i \in Node,
           NEW G, NEW G2, NEW H, NEW H2, Grows(N, N2, i, G, G2, H, H2),
           NEW E \in SUBSET (Nat \X Node), NEW E2,
           E2 = E \cup (IF N2[i].state = "Leader" THEN {<<N2[i].term, i>>} ELSE {}),
           Elections(N, E), Stands(N[i], N2[i]), N2[i].state = "Leader" => N2[i].term > 1
    PROVE  Elections(N2, E2)
<1>1. \A j \in Node : N[j].term \in Nat /\ N2[j].term \in Nat /\ N[j].term <= N2[j].term
  BY GrowsFacts
<1>2. \A j \in Node : j # i => N2[j] = N[j] BY DEF Grows
<1> SUFFICES ASSUME NEW e \in E2
             PROVE  /\ e[1] > 1 /\ e[1] <= N2[e[2]].term
                    /\ e[1] = N2[e[2]].term => N2[e[2]].state # "Candidate"
  BY DEF Elections
<1>3. CASE e \in E
  <2>1. e[1] \in Nat /\ e[2] \in Node BY <1>3
  <2>2. /\ e[1] > 1 /\ e[1] <= N[e[2]].term
        /\ e[1] = N[e[2]].term => N[e[2]].state # "Candidate"
    BY <1>3 DEF Elections
  <2>3. e[1] <= N2[e[2]].term BY <1>1, <2>1, <2>2
  <2>4. CASE e[2] = i
    <3>1. ASSUME e[1] = N2[i].term, N2[i].state = "Candidate" PROVE FALSE
      <4>1. N[i].term = e[1] BY <1>1, <2>1, <2>2, <2>4, <3>1
      <4>2. N[i].state = "Candidate" BY <1>1, <3>1, <4>1 DEF Stands
      <4> QED BY <2>2, <2>4, <4>1, <4>2
    <3> QED BY <2>2, <2>3, <2>4, <3>1
  <2>5. CASE e[2] # i BY <1>2, <2>1, <2>2, <2>5
  <2> QED BY <2>4, <2>5
<1>4. CASE e \notin E
  <2>1. N2[i].state = "Leader" /\ e = <<N2[i].term, i>> BY <1>4
  <2>2. e[1] = N2[i].term /\ e[2] = i BY <2>1
  <2> QED BY <1>1, <2>1, <2>2
<1> QED BY <1>3, <1>4
\* Node i leads the term of s: it already does, or a quorum has voted for it.
Wins(N, B, i, s) ==
    \/ N[i].state = "Leader" /\ N[i].term = s.term
    \/ /\ N[i].term < s.term \/ (N[i].term = s.term /\ N[i].state = "Candidate")
       /\ \E Q \in SUBSET Node :
             /\ Cardinality(Q) >= quorum
             /\ \A v \in Q : v = i \/ (/\ <<v, s.term, i>> \in B
                                       /\ N[i].state = "Candidate" /\ N[i].term = s.term)

\* A leader's log has what was before: of its own term, and of what earlier terms may
\* have committed.
LEMMA HeadKept ==
    ASSUME NEW N \in [Node -> RaftType], NEW N2 \in [Node -> RaftType], NEW i \in Node,
           NEW G, NEW G2, NEW H, NEW H2, Grows(N, N2, i, G, G2, H, H2),
           NEW E, Logs(E, G), Complete(N, G, H), Acks(N, G, H), Elections(N, E),
           NodeOK(E, G, H, i, N[i]), NEW E2, E \subseteq E2, <<N2[i].term, i>> \in E2,
           \A e, f \in E2 : e[1] = f[1] => e = f,
           NEW B, Votes(N, B, G, H), \A b \in B : b[2] <= N[b[1]].term,
           1 < N2[i].term, Wins(N, B, i, N2[i])
    PROVE  /\ \A A \in G : LastTerm(A) = N2[i].term => Within(A, N[i].raft_log.ents)
           /\ \A A \in G : LastTerm(A) < N2[i].term =>
                 Within(A, N[i].raft_log.ents) \/ Doomed(N2, H2, A)
<1> DEFINE L == N[i].raft_log.ents
           T == N2[i].term
<1>1. /\ T \in Nat
      /\ \A v, t, A : <<v, t, A>> \in H2 => <<v, t, A>> \in H \/ (v = i /\ t = T)
      /\ \A j \in Node : N[j].term \in Nat /\ N2[j].term \in Nat /\ N[j].term <= N2[j].term
  BY GrowsFacts
<1>2. G \subseteq Seq(Entry) /\ \A A \in G : LastTerm(A) \in Nat BY LastTermFacts DEF Logs
<1>3. H \subseteq Node \X Nat \X G BY DEF Acks
<1>4. CASE N[i].state = "Leader" /\ N[i].term = T
  <2>1. L \in G /\ LastTerm(L) = T /\ \A A \in G : LastTerm(A) = T => Within(A, L)
    BY <1>4 DEF NodeOK
  <2>2. ASSUME NEW A \in G, LastTerm(A) < T PROVE Within(A, L) \/ Doomed(N2, H2, A)
    <3>1. Within(A, L) \/ Doomed(N, H, A) BY <2>1, <2>2 DEF Complete
    <3> QED BY <1>2, <3>1, DoomedKept
  <2> QED BY <2>1, <2>2
<1>5. CASE /\ N[i].term < T \/ (N[i].term = T /\ N[i].state = "Candidate")
           /\ \E Q \in SUBSET Node :
                 /\ Cardinality(Q) >= quorum
                 /\ \A v \in Q : v = i \/ (/\ <<v, T, i>> \in B
                                           /\ N[i].state = "Candidate" /\ N[i].term = T)
  <2>1. \A j : <<T, j>> \notin E
    <3> SUFFICES ASSUME NEW j, <<T, j>> \in E PROVE FALSE OBVIOUS
    <3> DEFINE e == <<T, j>>
               f == <<T, i>>
    <3>1. e[1] = T /\ e[2] = j /\ f[1] = T /\ f[2] = i OBVIOUS
    <3>2. e \in E2 /\ f \in E2 /\ e \in E OBVIOUS
    <3> HIDE DEF e, f
    <3>3. e[1] = f[1] BY <3>1
    <3>3a. e = f BY <3>2, <3>3
    <3>3b. j = i BY <3>1, <3>3a
    <3>4. T <= N[i].term /\ (T = N[i].term => N[i].state # "Candidate")
      BY <3>1, <3>2, <3>3b DEF Elections
    <3> QED BY <1>1, <1>5, <3>4
  <2>2. \A A \in G : LastTerm(A) # T
    <3> SUFFICES ASSUME NEW A \in G, LastTerm(A) = T PROVE FALSE OBVIOUS
    <3>1. LastTerm(A) <= 1 \/ \E j \in Node : <<LastTerm(A), j>> \in E BY DEF Logs
    <3>2. ~(LastTerm(A) <= 1) BY <1>1
    <3>3. PICK j \in Node : <<LastTerm(A), j>> \in E BY <3>1, <3>2, Zenon
    <3>4. <<T, j>> \in E BY <3>3
    <3> QED BY <2>1, <3>4
  <2>3. PICK Q \in SUBSET Node :
           /\ Cardinality(Q) >= quorum
           /\ \A v \in Q : v = i \/ (/\ <<v, T, i>> \in B
                                     /\ N[i].state = "Candidate" /\ N[i].term = T)
    BY <1>5
  <2>4. ASSUME NEW A \in G, LastTerm(A) < T PROVE Within(A, L) \/ Doomed(N2, H2, A)
    <3>0. LastTerm(A) \in Nat /\ A \in Seq(Entry) BY <1>2
    <3>1. CASE \E v \in Q : <<v, LastTerm(A), A>> \in H
      <4>1. PICK v \in Q : <<v, LastTerm(A), A>> \in H BY <3>1
      <4>2. CASE v = i
        <5>1. Ack(N, G, H, i, LastTerm(A), A) BY <3>0, <4>1, <4>2 DEF Acks
        <5>2. Within(A, L) \/ Doomed(N, H, A) BY <5>1 DEF Ack
        <5> QED BY <3>0, <5>2, DoomedKept
      <4>3. CASE v # i
        <5>1. <<v, N[i].term, i>> \in B /\ N[i].state = "Candidate" /\ N[i].term = T
          BY <2>3, <4>3
        <5>2. v \in Node OBVIOUS
        <5>3. Within(A, L) \/ Doomed(N, H, A) BY <2>4, <3>0, <4>1, <5>1, <5>2 DEF Votes
        <5> QED BY <3>0, <5>3, DoomedKept
      <4> QED BY <4>2, <4>3
    <3>2. CASE \A v \in Q : <<v, LastTerm(A), A>> \notin H
      <4>1. ASSUME NEW v \in Q PROVE N2[v].term > LastTerm(A) /\ <<v, LastTerm(A), A>> \notin H2
        <5>1. <<v, LastTerm(A), A>> \notin H2 BY <1>1, <2>4, <3>0, <3>2
        <5>2. CASE v = i BY <1>1, <2>4, <3>0, <5>1, <5>2
        <5>3. CASE v # i
          <6> DEFINE b == <<v, T, i>>
          <6>1. b \in B /\ b[1] = v /\ b[2] = T BY <2>3, <5>3
          <6> HIDE DEF b
          <6>2. T <= N[v].term /\ v \in Node BY <6>1
          <6>3. N2[v].term > LastTerm(A) BY <1>1, <2>4, <3>0, <6>2
          <6> QED BY <5>1, <6>3
        <5> QED BY <5>2, <5>3
      <4> QED BY <2>3, <4>1 DEF Doomed
    <3> QED BY <3>1, <3>2
  <2> QED BY <2>2, <2>4
<1> QED BY <1>4, <1>5 DEF Wins
\* What a step of node i does to the votes and the elections, and to the node
Moves(N, N2, B, B2, E, E2, i) ==
    LET r == N[i]
        s == N2[i]
    IN  /\ B2 = B \cup (IF s.vote = Nil THEN {} ELSE {<<i, s.term, s.vote>>})
        /\ E2 = E \cup (IF s.state = "Leader" THEN {<<s.term, i>>} ELSE {})
        /\ \A e, f \in E2 : e[1] = f[1] => e = f
        /\ VotesFor(N, i, s) /\ Stands(r, s)
        /\ 0 < s.term
        /\ s.state \in {"Candidate", "Leader"} => 1 < s.term

\* The ways the log of node i may change: not, to a log of the leader that the node did
\* not have, or by an entry of its own as the leader
Rewrites(N, N2, B, G, i) ==
    LET L  == N[i].raft_log.ents
        L2 == N2[i].raft_log.ents
        T  == N2[i].term
    IN  \/ L2 = L
        \/ L2 \in G /\ Led(G, L2, T) /\ ~Within(L2, L)
        \/ Longer(L, L2, T) /\ N2[i].state = "Leader" /\ Wins(N, B, i, N2[i])

\* What a step leaves of the invariant outside of the node that makes it and of the
\* messages it sends
LEMMA RestKept ==
    ASSUME NEW N \in [Node -> RaftType], NEW N2 \in [Node -> RaftType], NEW i \in Node,
           NEW G, NEW G2, NEW H, NEW H2, Grows(N, N2, i, G, G2, H, H2),
           NEW W \in SUBSET MessageType, NEW B \in SUBSET (Node \X Nat \X Node), NEW B2,
           NEW E \in SUBSET (Nat \X Node), NEW E2, Safe(N, W, B, E, G, H),
           Reached(N, E), \A b \in B : b[2] <= N[b[1]].term,
           \A j \in Node : N[j].state = "Leader" => <<N[j].term, j>> \in E,
           Moves(N, N2, B, B2, E, E2, i), Rewrites(N, N2, B, G, i)
    PROVE  /\ Logs(E2, G2) /\ Complete(N2, G2, H2) /\ Acks(N2, G2, H2) /\ Votes(N2, B2, G2, H2)
           /\ Elections(N2, E2)
           /\ \A j \in Node : j # i => NodeOK(E2, G2, H2, j, N2[j])
           /\ \A m \in W : MsgOK(N2, E2, G2, H2, m)
<1> DEFINE L == N[i].raft_log.ents
           M == N2[i].raft_log.ents
           T == N2[i].term
<1>1. /\ Logs(E, G) /\ Complete(N, G, H) /\ Acks(N, G, H) /\ Votes(N, B, G, H)
      /\ \A j \in Node : NodeOK(E, G, H, j, N[j])
      /\ \A m \in W : MsgOK(N, E, G, H, m)
      /\ Elections(N, E)
  BY DEF Safe
<1>2. /\ B2 = B \cup (IF N2[i].vote = Nil THEN {} ELSE {<<i, T, N2[i].vote>>})
      /\ E2 = E \cup (IF N2[i].state = "Leader" THEN {<<T, i>>} ELSE {})
      /\ \A e, f \in E2 : e[1] = f[1] => e = f
      /\ VotesFor(N, i, N2[i]) /\ Stands(N[i], N2[i])
      /\ 0 < T
      /\ N2[i].state \in {"Candidate", "Leader"} => 1 < T
  BY DEF Moves
<1>3. \/ M = L
      \/ M \in G /\ Led(G, M, T) /\ ~Within(M, L)
      \/ Longer(L, M, T) /\ N2[i].state = "Leader" /\ Wins(N, B, i, N2[i])
  BY DEF Rewrites
<1>4. /\ G \subseteq G2 /\ H \subseteq H2 /\ M \in G2 /\ M \in Seq(Entry) /\ T \in Nat
      /\ \A A \in G2 : A \in G \/ A = M
      /\ \A j \in Node : N[j].term \in Nat /\ N2[j].term \in Nat /\ N[j].term <= N2[j].term
  BY GrowsFacts
<1>5. G \subseteq Seq(Entry) /\ H \subseteq Node \X Nat \X G BY <1>1 DEF Logs, Acks
<1>6. L \in G /\ Within(Boot, L) /\ LastTerm(L) <= T
  <2>1. L \in G /\ Within(Boot, L) /\ LastTerm(L) <= N[i].term BY <1>1 DEF NodeOK
  <2>2. LastTerm(L) \in Nat BY <1>5, <2>1, LastTermFacts
  <2> QED BY <1>4, <2>1, <2>2
<1>7. E \subseteq E2 /\ N[i].term <= T BY <1>2, <1>4
<1> DEFINE Same == \A j \in Node : j # i /\ N[j].state = "Leader" =>
                      \A A \in G2 : LastTerm(A) = N[j].term => A \in G
<1> HIDE DEF L, M, T
<1>8. ASSUME N2[i].state = "Leader", Longer(L, M, T), Wins(N, B, i, N2[i])
      PROVE  Logs(E2, G2) /\ Complete(N2, G2, H2) /\ Acks(N2, G2, H2) /\ Same
  <2>1. <<T, i>> \in E2 /\ 1 < T BY <1>2, <1>8
  <2>2. PICK e \in Entry : e.term = T /\ M = Append(L, e) BY <1>8 DEF Longer
  <2>3. Within(L, M) /\ LastTerm(M) = T BY <1>5, <1>6, <2>2, AppendOne
  <2>4. /\ \A A \in G : LastTerm(A) = T => Within(A, L)
        /\ \A A \in G : LastTerm(A) < T => Within(A, L) \/ Doomed(N2, H2, A)
    <3>1. <<N2[i].term, i>> \in E2 /\ 1 < N2[i].term BY <2>1 DEF T
    <3>2. NodeOK(E, G, H, i, N[i]) BY <1>1
    <3>3. /\ \A A \in G : LastTerm(A) = N2[i].term => Within(A, N[i].raft_log.ents)
          /\ \A A \in G : LastTerm(A) < N2[i].term =>
                Within(A, N[i].raft_log.ents) \/ Doomed(N2, H2, A)
      BY <1>1, <1>2, <1>7, <1>8, <3>1, <3>2, HeadKept
    <3> QED BY <3>3 DEF L, T
  <2>5. Logs(E2, G2)
    <3>1. /\ Longer(L, N2[i].raft_log.ents, N2[i].term)
          /\ 0 < N2[i].term /\ <<N2[i].term, i>> \in E2 /\ LastTerm(L) <= N2[i].term
          /\ \A A \in G : LastTerm(A) = N2[i].term => Within(A, L)
      BY <1>2, <1>6, <1>8, <2>1, <2>4 DEF M, T
    <3> QED BY <1>1, <1>6, <1>7, <3>1, LogsKept
  <2>6. Complete(N2, G2, H2) BY <1>1, <1>2, <1>5, <1>6, <1>8, <2>4, CompleteKept, SMTT(30) DEF M, T
  <2>7. KeepsAcks(N, G, H, i, M, T) BY <1>1, <1>4, <1>7, <2>3, LongerKeepsAcks DEF L
  <2>8. Acks(N2, G2, H2) BY <1>1, <1>2, <2>5, <2>7, AcksKept DEF M, T
  <2>9. Same
    <3> SUFFICES ASSUME NEW j \in Node, j # i, N[j].state = "Leader", LastTerm(M) = N[j].term
                 PROVE  FALSE
      BY <1>4 DEF Same
    <3> DEFINE g == <<N[j].term, j>>
               f == <<T, i>>
    <3>1. g[1] = N[j].term /\ g[2] = j /\ f[1] = T /\ f[2] = i OBVIOUS
    <3>2. g \in E2 /\ f \in E2 BY <1>7, <2>1
    <3> HIDE DEF g, f
    <3>3. g = f BY <1>2, <2>3, <3>1, <3>2
    <3> QED BY <3>1, <3>3
  <2> QED BY <2>5, <2>6, <2>8, <2>9
<1>9. ASSUME M \in G
      PROVE  Logs(E2, G2) /\ Complete(N2, G2, H2) /\ Acks(N2, G2, H2) /\ Same
  <2>1. M = L \/ (Led(G, M, T) /\ ~Within(M, L))
        \/ (Longer(L, M, T) /\ N2[i].state = "Leader" /\ Wins(N, B, i, N2[i]))
    BY <1>3
  <2>2. CASE M = L \/ (Led(G, M, T) /\ ~Within(M, L))
    <3>1. Logs(E2, G2) BY <1>1, <1>6, <1>7, <1>9, LogsKept DEF M, T
    <3>2. Complete(N2, G2, H2) BY <1>1, <1>5, <1>6, <1>9, CompleteKept DEF M, T
    <3>3. KeepsAcks(N, G, H, i, M, T)
      <4>1. CASE M = L
        <5>1. Within(L, M) BY <1>4, <4>1, WithinRefl
        <5> QED BY <1>1, <1>4, <1>7, <5>1, LongerKeepsAcks DEF L
      <4>2. CASE Led(G, M, T) /\ ~Within(M, L) BY <1>1, <1>4, <1>7, <1>9, <4>2, TakenKeepsAcks DEF L
      <4> QED BY <2>2, <4>1, <4>2
    <3>4. Acks(N2, G2, H2) BY <1>1, <1>2, <3>1, <3>3, AcksKept DEF M, T
    <3>5. Same BY <1>4, <1>9
    <3> QED BY <3>1, <3>2, <3>4, <3>5
  <2> QED BY <1>8, <2>1, <2>2
<1>10. M \in G \/ (N2[i].state = "Leader" /\ Longer(L, M, T) /\ Wins(N, B, i, N2[i]))
  BY <1>3, <1>6
<1>11. Logs(E2, G2) /\ Complete(N2, G2, H2) /\ Acks(N2, G2, H2) /\ Same
  BY <1>8, <1>9, <1>10
<1>12. \A j \in Node : N[j].raft_log.ents \in G BY <1>1 DEF NodeOK
<1>13. Votes(N2, B2, G2, H2) BY <1>1, <1>2, <1>12, VotesKept DEF T
<1>14. Elections(N2, E2) BY <1>1, <1>2, ElectionsKept DEF T
<1>15. G2 \subseteq Seq(Entry) BY <1>4, <1>5
<1>16. ASSUME NEW j \in Node, j # i PROVE NodeOK(E2, G2, H2, j, N2[j])
  <2>1. N2[j] = N[j] /\ N[j] \in RaftType BY <1>16 DEF Grows
  <2>2. NodeOK(E2, G2, H2, j, N[j]) BY <1>1, <1>4, <1>7, <1>11, <1>15, <1>16, <2>1, NodeKept
  <2> QED BY <2>1, <2>2
<1>17. ASSUME NEW m \in W PROVE MsgOK(N2, E2, G2, H2, m)
  <2>1. m \in MessageType /\ MsgOK(N, E, G, H, m) BY <1>1
  <2> QED BY <1>2, <1>7, <1>15, <2>1, MessageKept
<1> QED BY <1>11, <1>13, <1>14, <1>16, <1>17
-----------------------------------------------------------------------------
(* The node that makes the step. *)

\* r becomes s without touching its entries, and leads nobody.  It may forget that
\* some of them are committed.
Rests(r, s) ==
    /\ s.state # "Leader" /\ r.term <= s.term /\ ~s.raft_log.fatal
    /\ s.raft_log.ents = r.raft_log.ents /\ s.raft_log.committed <= r.raft_log.committed
    /\ s.lead = Nil \/ (s.lead = r.lead /\ s.term = r.term /\ r.state # "Leader")

\* What a log is to be that a follower has after a message of term T
Takes(G, H, T, l, l2) ==
    /\ ~l2.fatal
    /\ \/ l2.ents = l.ents
       \/ l2.ents \in G /\ Led(G, l2.ents, T) /\ ~Within(l2.ents, l.ents)
    /\ Sure(G, H, First(l2.ents, l2.committed), T) /\ l.committed <= l2.committed

\* r becomes s, a follower of m's sender.
Follows(G, H, r, m, s) ==
    /\ s.state = "Follower" /\ s.term = m.term /\ s.lead = m.from /\ r.term <= m.term
    /\ Takes(G, H, m.term, r.raft_log, s.raft_log)

\* r becomes s, a leader, having heard of the acknowledgements K: <<node, index>>.
Leads(r, K, s) ==
    LET L  == r.raft_log.ents
        L2 == s.raft_log.ents
    IN  /\ s.state = "Leader" /\ ~s.raft_log.fatal
        /\ (L2 = L /\ r.state = "Leader" /\ r.term = s.term) \/ Longer(L, L2, s.term)
        /\ \/ s.raft_log.committed = r.raft_log.committed
           \/ /\ LastTerm(First(L2, s.raft_log.committed)) = s.term
              /\ \E Q \in SUBSET Node :
                    /\ Cardinality(Q) >= quorum
                    /\ \A p \in Q : s.prs[p].match >= s.raft_log.committed
        /\ \A p \in Node :
              /\ Fits(s.prs[p], Len(L2))
              /\ \/ s.prs[p].match = 0 \/ p = s.id \/ <<p, s.prs[p].match>> \in K
                 \/ r.state = "Leader" /\ r.term = s.term /\ s.prs[p].match = r.prs[p].match
        /\ s.lead = s.id \/ (s.lead = r.lead /\ s.term = r.term)
        /\ r.raft_log.committed <= s.raft_log.committed

\* A resting node keeps what it has.
LEMMA RestNode ==
    ASSUME NEW G, NEW G2, G \subseteq G2, G2 \subseteq Seq(Entry), NEW H, NEW H2, H \subseteq H2,
           NEW E, NEW E2, E \subseteq E2, NEW i \in Node, NEW r \in RaftType, NEW s \in RaftType,
           Logs(E, G), NodeOK(E, G, H, i, r), Rests(r, s), s.state = "Candidate" => 1 < s.term
    PROVE  NodeOK(E2, G2, H2, i, s)
<1> DEFINE L == r.raft_log.ents
           c == r.raft_log.committed
           d == s.raft_log.committed
<1>1. /\ L \in G /\ Within(Boot, L) /\ LastTerm(L) <= r.term
      /\ Sure(G, H, First(L, c), r.term)
      /\ r.lead # Nil => <<r.term, r.lead>> \in E
      /\ r.state # "Leader" => r.lead # i
  BY DEF NodeOK
<1>2. r.term \in Nat /\ s.term \in Nat /\ r.term <= s.term BY RaftFields DEF Rests
<1>3. LastTerm(L) \in Nat BY <1>1, LastTermFacts
<1>4. Sure(G2, H2, First(L, d), s.term)
  <2>1. r.raft_log \in LogType /\ s.raft_log \in LogType BY RaftFields
  <2>2. L \in Seq(Entry) /\ c \in Nat /\ c <= Len(L) /\ d \in Nat /\ d <= c
    BY <2>1, LogFields DEF Rests
  <2> HIDE DEF L, c, d
  <2>3. First(L, c) \in Seq(Entry) /\ First(L, d) \in Seq(Entry) /\ d <= Len(L)
    BY <2>2, FirstFacts
  <2>4. Within(First(L, d), First(L, c)) BY <2>2, FirstFirst
  <2>5. G \in SUBSET Seq(Entry) /\ Boot \in Seq(Entry) /\ Sure(G, H, First(L, c), r.term)
    BY <1>1 DEF L, c, Logs
  <2>6. Sure(G, H, First(L, d), r.term) BY <2>3, <2>4, <2>5, SureWithin
  <2> QED BY <1>2, <2>6, SureKept
<1>5. /\ s.state # "Leader" /\ ~s.raft_log.fatal
      /\ s.raft_log.ents = L /\ s.raft_log.committed = d
      /\ s.lead = Nil \/ (s.lead = r.lead /\ s.term = r.term /\ r.state # "Leader")
  BY DEF Rests
<1>6. LastTerm(L) <= s.term BY <1>1, <1>2, <1>3
<1>7. s.lead # Nil => <<s.term, s.lead>> \in E2 /\ s.lead # i BY <1>1, <1>5
<1>8. s.lead # i BY <1>7, NodeAssumption
<1>9. s.state \in {"Candidate", "Leader"} => s.term > 1 BY <1>2, <1>5
<1> HIDE DEF L, c, d
<1> QED BY <1>1, <1>4, <1>5, <1>6, <1>7, <1>8, <1>9 DEF NodeOK

\* A follower takes over what its leader has, and what of it is committed.
LEMMA FollowNode ==
    ASSUME NEW G, NEW G2, G \subseteq G2, G2 \subseteq Seq(Entry), NEW H, NEW H2, H \subseteq H2,
           NEW E, NEW E2, E \subseteq E2, Logs(E, G),
           NEW i \in Node, NEW r \in RaftType, NEW s \in RaftType,
           NodeOK(E, G, H, i, r), NEW m \in MessageType, m.from # i, <<m.term, m.from>> \in E,
           Follows(G, H, r, m, s)
    PROVE  NodeOK(E2, G2, H2, i, s)
<1> DEFINE L == r.raft_log.ents
           M == s.raft_log.ents
           C == First(M, s.raft_log.committed)
<1>1. L \in G /\ Within(Boot, L) /\ LastTerm(L) <= r.term BY DEF NodeOK
<1>2. /\ s.state = "Follower" /\ s.term = m.term /\ s.lead = m.from /\ r.term <= s.term
      /\ ~s.raft_log.fatal /\ Sure(G, H, C, s.term)
      /\ M = L \/ (M \in G /\ Led(G, M, s.term) /\ ~Within(M, L))
  BY DEF Follows, Takes
<1>3. r.term \in Nat /\ s.term \in Nat BY RaftFields
<1>4. G \subseteq Seq(Entry) /\ Boot \in Seq(Entry) BY DEF Logs
<1>5. Sure(G2, H2, C, s.term) BY <1>2, <1>3, SureKept
<1>6. M \in G BY <1>1, <1>2
<1>7. Within(Boot, M)
  <2>1. CASE M = L BY <1>1, <2>1
  <2>2. CASE ~Within(M, L)
    <3>1. ASSUME Within(M, Boot) PROVE FALSE BY <1>1, <1>4, <1>6, <2>2, <3>1, WithinTrans
    <3> QED BY <1>6, <3>1 DEF Logs
  <2> QED BY <1>2, <2>1, <2>2
<1>8. LastTerm(M) <= s.term
  <2>1. LastTerm(L) \in Nat /\ LastTerm(M) \in Nat BY <1>1, <1>4, <1>6, LastTermFacts
  <2>2. CASE M = L BY <1>1, <1>2, <1>3, <2>1, <2>2
  <2>3. CASE Led(G, M, s.term)
    <3>1. PICK A \in G : LastTerm(A) = s.term /\ Within(M, A) BY <2>3 DEF Led
    <3>2. LastTerm(M) <= LastTerm(A) BY <1>4, <1>6, <3>1, LogsOrder
    <3> QED BY <3>1, <3>2
  <2> QED BY <1>2, <2>2, <2>3
<1>9. <<s.term, s.lead>> \in E2 /\ s.lead # i BY <1>2
<1>10. M \in G2 BY <1>6
<1> HIDE DEF L, M, C
<1> QED BY <1>2, <1>5, <1>7, <1>8, <1>9, <1>10 DEF NodeOK, M, C

\* What a quorum of a leader's followers match, up to an entry of its term, is committed.
LEMMA QuorumIsChosen ==
    ASSUME NEW N, NEW E, NEW G, NEW H, Logs(E, G), Acks(N, G, H), NEW r \in RaftType,
           r.raft_log.ents \in G, View(H, r), 0 < r.term,
           NEW n \in Nat, n <= Len(r.raft_log.ents), LastTerm(First(r.raft_log.ents, n)) = r.term,
           NEW Q \in SUBSET Node, Cardinality(Q) >= quorum, \A p \in Q : r.prs[p].match >= n
    PROVE  Sure(G, H, First(r.raft_log.ents, n), r.term)
<1> DEFINE L == r.raft_log.ents
           C == First(L, n)
<1>1. L \in Seq(Entry) /\ r.term \in Nat BY RaftFields, LogFields
<1>2. C \in Seq(Entry) /\ C \in G BY <1>1, FirstFacts, LogsFirst
<1>3. n # 0 BY <1>1, LastTermFacts
<1>4. ASSUME NEW p \in Q PROVE <<p, LastTerm(C), C>> \in H
  <2> DEFINE k == r.prs[p].match
             A == First(L, k)
  <2>1. p \in Node /\ k \in Nat /\ n <= k
    <3>1. p \in Node /\ r.prs \in [Node -> ProgressType] BY RaftFields
    <3>2. r.prs[p] \in ProgressType BY <3>1
    <3> QED BY <3>1, <3>2 DEF ProgressType
  <2>2. k <= Len(L) /\ <<p, r.term, A>> \in H BY <1>3, <2>1 DEF View, Fits
  <2> HIDE DEF k
  <2>3. A \in Seq(Entry) /\ Len(A) = k /\ A \in G BY <1>1, <2>1, <2>2, FirstFacts, LogsFirst
  <2>4. Ack(N, G, H, p, r.term, A) BY <1>1, <2>1, <2>2, <2>3 DEF Acks
  <2>5. n \in 0..Len(A) BY <2>1, <2>3
  <2>6. <<p, r.term, First(A, n)>> \in H BY <2>4, <2>5 DEF Ack
  <2>7. First(A, n) = C BY <1>1, <2>1, <2>2, FirstFirst
  <2> QED BY <2>6, <2>7
<1>5. Chosen(H, C) BY <1>4 DEF Chosen
<1>6. Within(C, C) /\ LastTerm(C) <= r.term BY <1>1, <1>2, WithinRefl
<1> QED BY <1>2, <1>5, <1>6 DEF Sure
\* The acknowledgements K that a leader of term t hears of are real.
Real(G, H, K, t) ==
    \A p \in Node, n \in Nat : <<p, n>> \in K =>
        n = 0 \/ \E A \in G : Len(A) = n /\ <<p, t, A>> \in H

\* A leader knows what its followers have, and commits what a quorum has.
LEMMA LeadNode ==
    ASSUME NEW N \in [Node -> RaftType], NEW N2 \in [Node -> RaftType], NEW i \in Node,
           NEW G, NEW G2, NEW H, NEW H2, Grows(N, N2, i, G, G2, H, H2),
           NEW E, NEW E2, E \subseteq E2, Logs(E, G), Logs(E2, G2), Acks(N, G, H), Acks(N2, G2, H2),
           NodeOK(E, G, H, i, N[i]), N2[i].id = i, 1 < N2[i].term, <<N2[i].term, i>> \in E2,
           \A A \in G : LastTerm(A) = N2[i].term => Within(A, N[i].raft_log.ents),
           NEW K, Real(G, H, K, N2[i].term), Leads(N[i], K, N2[i])
    PROVE  NodeOK(E2, G2, H2, i, N2[i])
<1> DEFINE r == N[i]
           s == N2[i]
           L == r.raft_log.ents
           M == s.raft_log.ents
           T == s.term
           c == s.raft_log.committed
<1>1. /\ G \subseteq G2 /\ H \subseteq H2 /\ M \in G2 /\ M \in Seq(Entry)
      /\ \A A \in G2 : A \in G \/ A = M
      /\ \A A \in G2 : Within(A, M) /\ Led(G2, A, T) => <<i, T, A>> \in H2
      /\ r.term \in Nat /\ T \in Nat /\ r.term <= T
  BY GrowsFacts
<1>2. /\ L \in G /\ Within(Boot, L) /\ LastTerm(L) <= r.term
      /\ Sure(G, H, First(L, r.raft_log.committed), r.term)
      /\ r.lead # Nil => <<r.term, r.lead>> \in E
      /\ r.state = "Leader" => LastTerm(L) = r.term /\ View(H, r)
  BY DEF NodeOK
<1>3. /\ s.state = "Leader" /\ ~s.raft_log.fatal
      /\ (M = L /\ r.state = "Leader" /\ r.term = T) \/ Longer(L, M, T)
      /\ \/ c = r.raft_log.committed
         \/ /\ LastTerm(First(M, c)) = T
            /\ \E Q \in SUBSET Node :
                  /\ Cardinality(Q) >= quorum
                  /\ \A p \in Q : s.prs[p].match >= c
      /\ \A p \in Node :
            /\ Fits(s.prs[p], Len(M))
            /\ \/ s.prs[p].match = 0 \/ p = i \/ <<p, s.prs[p].match>> \in K
               \/ r.state = "Leader" /\ r.term = T /\ s.prs[p].match = r.prs[p].match
      /\ s.lead = i \/ (s.lead = r.lead /\ T = r.term)
  BY DEF Leads
<1>4. G \subseteq Seq(Entry) /\ G2 \subseteq Seq(Entry) /\ Boot \in Seq(Entry)
      /\ H \subseteq Node \X Nat \X G
  BY DEF Logs, Acks
<1>5. /\ r \in RaftType /\ s \in RaftType /\ L \in Seq(Entry) /\ c \in Nat /\ c <= Len(M)
      /\ r.raft_log.committed \in Nat /\ r.raft_log.committed <= Len(L)
  <2>1. r \in RaftType /\ s \in RaftType OBVIOUS
  <2>2. r.raft_log \in LogType /\ s.raft_log \in LogType BY <2>1, RaftFields
  <2> QED BY <2>1, <2>2, LogFields
<1>6. \A p \in Node : s.prs[p].match \in Nat /\ r.prs[p].match \in Nat
  <2> TAKE p \in Node
  <2>1. s.prs[p] \in ProgressType /\ r.prs[p] \in ProgressType
    <3>1. r.prs \in [Node -> ProgressType] /\ s.prs \in [Node -> ProgressType] BY <1>5, RaftFields
    <3> QED BY <3>1
  <2> QED BY <2>1 DEF ProgressType
<1>7. 1 < T /\ <<T, i>> \in E2 /\ \A A \in G : LastTerm(A) = T => Within(A, L) OBVIOUS
<1>8. N2[i] = s /\ Real(G, H, K, T) OBVIOUS
<1> HIDE DEF r, s, L, M, T, c
<1>9. Within(L, M) /\ LastTerm(M) = T
  <2>1. CASE M = L /\ r.state = "Leader" /\ r.term = T BY <1>2, <1>5, <2>1, WithinRefl
  <2>2. CASE Longer(L, M, T)
    <3>1. PICK e \in Entry : e.term = T /\ M = Append(L, e) BY <2>2 DEF Longer
    <3> QED BY <1>5, <3>1, AppendOne
  <2> QED BY <1>3, <2>1, <2>2
<1>10. Within(Boot, M) BY <1>1, <1>2, <1>4, <1>5, <1>9, WithinTrans
<1>11. \A A \in G2 : LastTerm(A) = T => Within(A, M)
  <2> SUFFICES ASSUME NEW A \in G2, LastTerm(A) = T PROVE Within(A, M) OBVIOUS
  <2>1. CASE A \in G
    <3>1. Within(A, L) /\ A \in Seq(Entry) BY <1>4, <1>7, <2>1
    <3> QED BY <1>1, <1>5, <1>9, <3>1, WithinTrans
  <2>2. CASE A = M BY <1>1, <2>2, WithinRefl
  <2> QED BY <1>1, <2>1, <2>2
<1>12. \A n \in Nat : n <= Len(M) => First(M, n) \in G2 /\ <<i, T, First(M, n)>> \in H2
  <2> SUFFICES ASSUME NEW n \in Nat, n <= Len(M)
               PROVE  First(M, n) \in G2 /\ <<i, T, First(M, n)>> \in H2
    OBVIOUS
  <2>1. First(M, n) \in G2 BY <1>1, LogsFirst
  <2>2. Within(First(M, n), M) BY <1>1, FirstFacts
  <2>3. Led(G2, First(M, n), T) BY <1>1, <1>9, <2>2 DEF Led
  <2> QED BY <1>1, <2>1, <2>2, <2>3
<1>13. ASSUME NEW p \in Node, s.prs[p].match # 0
       PROVE  <<p, T, First(M, s.prs[p].match)>> \in H2
  <2> DEFINE n == s.prs[p].match
  <2>1. n \in Nat /\ n <= Len(M) BY <1>3, <1>6 DEF Fits
  <2>2. n # 0 BY <1>13
  <2>3. p = i \/ <<p, n>> \in K \/ (r.state = "Leader" /\ r.term = T /\ n = r.prs[p].match)
    BY <1>3, <2>2
  <2> HIDE DEF n
  <2>4. CASE p = i BY <1>12, <2>1, <2>4 DEF n
  <2>5. CASE <<p, n>> \in K
    <3>1. PICK A \in G : Len(A) = n /\ <<p, T, A>> \in H BY <1>8, <2>1, <2>2, <2>5 DEF Real
    <3>2. Ack(N, G, H, p, T, A) BY <1>1, <3>1 DEF Acks
    <3>3. Led(G, A, T) BY <3>2 DEF Ack
    <3>4. PICK B \in G : LastTerm(B) = T /\ Within(A, B) BY <3>3 DEF Led
    <3>5. Within(B, M) /\ A \in Seq(Entry) /\ B \in Seq(Entry) BY <1>1, <1>4, <1>11, <3>4
    <3>6. Within(A, M) BY <1>1, <3>4, <3>5, WithinTrans
    <3>7. First(M, n) = A BY <1>1, <3>1, <3>5, <3>6, WithinFirst
    <3> QED BY <1>1, <3>1, <3>7 DEF n
  <2>6. CASE r.state = "Leader" /\ r.term = T /\ n = r.prs[p].match
    <3>1. n <= Len(L) /\ <<p, T, First(L, n)>> \in H BY <1>2, <2>2, <2>6 DEF View, Fits, L
    <3>2. First(L, n) = First(M, n) BY <1>1, <1>5, <1>9, <2>1, <3>1, FirstSame
    <3> QED BY <1>1, <3>1, <3>2 DEF n
  <2> QED BY <2>3, <2>4, <2>5, <2>6
<1>14. View(H2, s) BY <1>3, <1>13 DEF View, M, T
<1>15. Sure(G2, H2, First(M, c), T)
  <2>1. CASE c = r.raft_log.committed
    <3>1. First(L, c) = First(M, c) BY <1>1, <1>5, <1>9, <2>1, FirstSame
    <3>2. Sure(G, H, First(M, c), r.term) BY <1>2, <2>1, <3>1
    <3> QED BY <1>1, <1>4, <3>2, SureKept
  <2>2. CASE LastTerm(First(M, c)) = T /\
             \E Q \in SUBSET Node :
                  /\ Cardinality(Q) >= quorum
                  /\ \A p \in Q : s.prs[p].match >= c
    <3>1. PICK Q \in SUBSET Node :
                  /\ Cardinality(Q) >= quorum
                  /\ \A p \in Q : s.prs[p].match >= c
      BY <2>2
    <3>2. M = s.raft_log.ents /\ T = s.term BY DEF M, T
    <3>3. 0 < T BY <1>1, <1>7
    <3> QED BY <1>1, <1>5, <1>14, <2>2, <3>1, <3>2, <3>3, QuorumIsChosen
  <2> QED BY <1>3, <2>1, <2>2
<1>16. s.lead # Nil => <<T, s.lead>> \in E2 BY <1>2, <1>3, <1>7
<1> QED BY <1>1, <1>3, <1>7, <1>8, <1>9, <1>10, <1>11, <1>14, <1>15, <1>16 DEF NodeOK, M, T, c
-----------------------------------------------------------------------------
(* The messages of a step. *)

\* A message of leader s: part of its log, a committed part, or a commit index that its
\* receiver matches
LeaderSays(s, x) ==
    LET L == s.raft_log.ents
    IN  /\ x.from = s.id /\ x.to # s.id /\ x.term = s.term
        /\ \/ x.type = "MsgTimeoutNow"
           \/ /\ x.type = "MsgApp"
              /\ x.index + Len(x.entries) <= Len(L)
              /\ \A k \in 1..Len(x.entries) : x.entries[k] = L[x.index + k]
              /\ x.log_term = LastTerm(First(L, x.index))
              /\ x.commit <= s.raft_log.committed
           \/ /\ x.type = "MsgSnap"
              /\ \E n \in Nat : /\ 0 < n /\ n <= s.raft_log.committed
                                /\ x.snapshot = First(L, n)
           \/ /\ x.type = "MsgHeartbeat"
              /\ x.commit <= s.raft_log.committed /\ x.commit <= s.prs[x.to].match

\* An answer of s to a message of its leader
Replies(G, s, x) ==
    /\ x.from = s.id /\ x.to # s.id /\ x.term = s.term
    /\ \/ x.type = "MsgHeartbeatResp"
       \/ /\ x.type = "MsgAppResp"
          /\ \/ x.reject \/ x.index = 0
             \/ \E A \in G : Len(A) = x.index /\ Within(A, s.raft_log.ents) /\ Led(G, A, s.term)

\* What else a node sends: votes and requests for them, the answer to a leader of an
\* earlier term, and what it passes on to its leader
Sends(E, s, x) ==
    /\ x.from # x.to
    /\ \/ x.type \in {"MsgVoteResp", "MsgPreVoteResp"} /\ 0 < x.term
       \/ /\ x.type = "MsgVote" /\ x.from = s.id /\ x.term = s.term
          /\ x.index = Len(s.raft_log.ents) /\ x.log_term = LastTerm(s.raft_log.ents)
       \/ x.type = "MsgAppResp" /\ x.index = 0 /\ 0 < x.term
       \/ x.type = "MsgProp" /\ x.term = 0 /\ x.entries # <<>>
       \/ x.type = "MsgTransferLeader" /\ 0 < x.term /\ <<x.term, x.to>> \in E

\* A leader's messages are what its followers may rely on.
LEMMA LeaderSaysOK ==
    ASSUME NEW N \in [Node -> RaftType], NEW i \in Node, NEW E, NEW G, NEW H, Logs(E, G),
           Acks(N, G, H), NodeOK(E, G, H, i, N[i]), N[i].state = "Leader", N[i].id = i,
           <<N[i].term, i>> \in E, NEW x \in MessageType, LeaderSays(N[i], x)
    PROVE  MsgOK(N, E, G, H, x)
<1> DEFINE s == N[i]
           L == s.raft_log.ents
           T == s.term
           c == s.raft_log.committed
<1>1. /\ L \in G /\ Sure(G, H, First(L, c), T) /\ T > 1 /\ LastTerm(L) = T /\ View(H, s)
  BY DEF NodeOK
<1>2. s \in RaftType OBVIOUS
<1>3. s.raft_log \in LogType /\ T \in Nat /\ s.prs \in [Node -> ProgressType] BY <1>2, RaftFields
<1>4. L \in Seq(Entry) /\ c \in Nat /\ c <= Len(L) /\ Len(L) \in Nat BY <1>3, LogFields
<1>5. G \subseteq Seq(Entry) /\ Boot \in Seq(Entry) BY DEF Logs
<1>6. /\ x.from = i /\ x.to # i /\ x.term = T
      /\ \/ x.type = "MsgTimeoutNow"
         \/ /\ x.type = "MsgApp"
            /\ x.index + Len(x.entries) <= Len(L)
            /\ \A k \in 1..Len(x.entries) : x.entries[k] = L[x.index + k]
            /\ x.log_term = LastTerm(First(L, x.index))
            /\ x.commit <= c
         \/ /\ x.type = "MsgSnap"
            /\ \E n \in Nat : 0 < n /\ n <= c /\ x.snapshot = First(L, n)
         \/ /\ x.type = "MsgHeartbeat"
            /\ x.commit <= c /\ x.commit <= s.prs[x.to].match
  BY DEF LeaderSays
<1>7. /\ x.index \in Nat /\ x.entries \in Seq(Entry) /\ x.commit \in Nat /\ x.to \in Node
      /\ Len(x.entries) \in Nat
  BY DEF MessageType
<1>8. \A n \in Nat : n <= Len(L) => First(L, n) \in G /\ Led(G, First(L, n), T)
  <2> SUFFICES ASSUME NEW n \in Nat, n <= Len(L) PROVE First(L, n) \in G /\ Led(G, First(L, n), T)
    OBVIOUS
  <2>1. First(L, n) \in G BY <1>1, LogsFirst
  <2>2. Within(First(L, n), L) BY <1>4, FirstFacts
  <2> QED BY <1>1, <2>1, <2>2 DEF Led
<1>9. \A n \in Nat : n <= c => Sure(G, H, First(L, n), T)
  <2> SUFFICES ASSUME NEW n \in Nat, n <= c PROVE Sure(G, H, First(L, n), T) OBVIOUS
  <2>1. Within(First(L, n), First(L, c)) BY <1>4, FirstFirst
  <2>2. First(L, n) \in Seq(Entry) /\ First(L, c) \in Seq(Entry) BY <1>4, FirstFacts
  <2> QED BY <1>1, <1>5, <2>1, <2>2, SureWithin
<1>10. x.type = "MsgApp" => AppOK(G, H, x)
  <2> SUFFICES ASSUME x.type = "MsgApp" PROVE AppOK(G, H, x) OBVIOUS
  <2> DEFINE n == x.index + Len(x.entries)
             A == First(L, n)
             k == Least(x.commit, n)
  <2>1. n \in Nat /\ n <= Len(L) /\ x.index <= n BY <1>6, <1>7
  <2>2. A \in G /\ Led(G, A, T) /\ Len(A) = n /\ \A j \in 1..n : A[j] = L[j]
    BY <1>4, <1>8, <2>1, FirstFacts
  <2>3. First(A, x.index) = First(L, x.index) BY <1>4, <1>7, <2>1, FirstFirst
  <2>4. k \in Nat /\ k <= n /\ k <= c BY <1>4, <1>6, <1>7, <2>1 DEF Least
  <2>5. First(A, k) = First(L, k) BY <1>4, <2>1, <2>4, FirstFirst
  <2>6. Sure(G, H, First(A, k), T) BY <1>9, <2>4, <2>5
  <2>7. \A j \in 1..Len(x.entries) : x.entries[j] = A[x.index + j]
    <3> TAKE j \in 1..Len(x.entries)
    <3>1. x.index + j \in 1..n BY <1>7
    <3> QED BY <1>6, <2>2, <3>1
  <2>8. Len(A) = x.index + Len(x.entries) BY <2>2
  <2>9. x.log_term = LastTerm(First(A, x.index)) BY <1>6, <2>3
  <2>10. Sure(G, H, First(A, Least(x.commit, Len(A))), x.term) BY <1>6, <2>2, <2>6
  <2>11. A \in G /\ Led(G, A, x.term) BY <1>6, <2>2
  <2> HIDE DEF A
  <2> QED BY <2>7, <2>8, <2>9, <2>10, <2>11 DEF AppOK
<1>11. x.type = "MsgSnap" => SnapOK(G, H, x)
  <2> SUFFICES ASSUME x.type = "MsgSnap" PROVE SnapOK(G, H, x) OBVIOUS
  <2>1. PICK n \in Nat : 0 < n /\ n <= c /\ x.snapshot = First(L, n) BY <1>6
  <2>2. n <= Len(L) BY <1>4, <2>1
  <2>3. Len(x.snapshot) = n BY <1>4, <2>1, <2>2, FirstFacts
  <2>4. x.snapshot # <<>> BY <2>1, <2>3
  <2> QED BY <1>6, <1>8, <1>9, <2>1, <2>2, <2>4 DEF SnapOK
<1>12. x.type = "MsgHeartbeat" => BeatOK(G, H, x)
  <2> SUFFICES ASSUME x.type = "MsgHeartbeat", x.commit # 0 PROVE BeatOK(G, H, x) BY DEF BeatOK
  <2> DEFINE k == s.prs[x.to].match
             A == First(L, k)
             D == First(L, x.commit)
  <2>1. k \in Nat
    <3>1. s.prs[x.to] \in ProgressType BY <1>3, <1>7
    <3> QED BY <3>1 DEF ProgressType
  <2>2. x.commit <= c /\ x.commit <= k BY <1>6
  <2>3. k <= Len(L) /\ (k = 0 \/ <<x.to, T, A>> \in H) BY <1>1, <1>7 DEF View, Fits
  <2> HIDE DEF k
  <2>4. <<x.to, T, A>> \in H BY <1>7, <2>1, <2>2, <2>3
  <2>5. A \in G /\ Len(A) = k BY <1>4, <1>8, <2>1, <2>3, FirstFacts
  <2>6. Ack(N, G, H, x.to, T, A) BY <1>3, <1>7, <2>4, <2>5 DEF Acks
  <2>7. x.commit \in 0..Len(A) BY <1>7, <2>1, <2>2, <2>5
  <2>8. <<x.to, T, First(A, x.commit)>> \in H BY <2>6, <2>7 DEF Ack
  <2>9. First(A, x.commit) = D BY <1>4, <1>7, <2>1, <2>2, <2>3, FirstFirst
  <2>10. x.commit <= Len(L) BY <1>4, <1>7, <2>2
  <2>11. D \in G /\ Len(D) = x.commit BY <1>4, <1>7, <1>8, <2>10, FirstFacts
  <2>12. Sure(G, H, D, T) BY <1>7, <1>9, <2>2
  <2> HIDE DEF D
  <2> QED BY <1>6, <2>8, <2>9, <2>11, <2>12 DEF BeatOK
<1>13. x.type \in {"MsgTimeoutNow", "MsgApp", "MsgSnap", "MsgHeartbeat"} BY <1>6
<1>14. x.from # x.to /\ x.term > 0 /\ <<x.term, x.from>> \in E BY <1>1, <1>3, <1>6
<1> QED BY <1>10, <1>11, <1>12, <1>13, <1>14 DEF MsgOK

\* An answer acknowledges what its sender has.
LEMMA RepliesOK ==
    ASSUME NEW N, NEW i \in Node, NEW E, NEW G, NEW H, 0 < N[i].term, N[i].id = i,
           NEW G0, G0 \subseteq G,
           \A A \in G : Within(A, N[i].raft_log.ents) /\ Led(G, A, N[i].term)
                           => <<i, N[i].term, A>> \in H,
           NEW x \in MessageType, Replies(G0, N[i], x)
    PROVE  MsgOK(N, E, G, H, x)
<1>1. /\ x.from = i /\ x.to # i /\ x.term = N[i].term
      /\ \/ x.type = "MsgHeartbeatResp"
         \/ /\ x.type = "MsgAppResp"
            /\ \/ x.reject \/ x.index = 0
               \/ \E A \in G0 : /\ Len(A) = x.index /\ Within(A, N[i].raft_log.ents)
                                /\ Led(G0, A, N[i].term)
  BY DEF Replies
<1>2. \A A \in G0 : Led(G0, A, N[i].term) => Led(G, A, N[i].term) BY LedKept
<1>3. x.type = "MsgAppResp" => RespOK(G, H, x) BY <1>1, <1>2 DEF RespOK
<1>4. x.from # x.to /\ x.term > 0 BY <1>1
<1>5. x.type \in {"MsgHeartbeatResp", "MsgAppResp"} BY <1>1
<1> QED BY <1>3, <1>4, <1>5 DEF MsgOK, LeaderMsg

\* So do the other messages.
LEMMA SendsOK ==
    ASSUME NEW N \in [Node -> RaftType], NEW i \in Node, NEW E, NEW G, NEW H, 0 < N[i].term,
           N[i].id = i, NEW E0, E0 \subseteq E, NEW x \in MessageType, Sends(E0, N[i], x)
    PROVE  MsgOK(N, E, G, H, x)
<1>1. /\ x.from # x.to
      /\ \/ x.type \in {"MsgVoteResp", "MsgPreVoteResp"} /\ 0 < x.term
         \/ /\ x.type = "MsgVote" /\ x.from = i /\ x.term = N[i].term
            /\ x.index = Len(N[i].raft_log.ents) /\ x.log_term = LastTerm(N[i].raft_log.ents)
         \/ x.type = "MsgAppResp" /\ x.index = 0 /\ 0 < x.term
         \/ x.type = "MsgProp" /\ x.term = 0 /\ x.entries # <<>>
         \/ x.type = "MsgTransferLeader" /\ 0 < x.term /\ <<x.term, x.to>> \in E
  BY DEF Sends
<1>2. x.term \in Nat BY DEF MessageType
<1>3. N[i].term \in Nat
  <2>1. N[i] \in RaftType OBVIOUS
  <2> QED BY <2>1, RaftFields
<1>4. x.type = "MsgVote" => VoteOK(N, x) BY <1>1, <1>2, <1>3 DEF VoteOK
<1>5. IF x.type = "MsgProp" THEN x.term = 0 /\ x.entries # <<>> ELSE x.term > 0
  BY <1>1, <1>2, <1>3
<1>6. x.type = "MsgTransferLeader" => <<x.term, x.to>> \in E BY <1>1
<1>7. x.type = "MsgAppResp" => RespOK(G, H, x) BY <1>1 DEF RespOK
<1>8. x.type \notin {"MsgApp", "MsgSnap", "MsgHeartbeat"} BY <1>1
<1> QED BY <1>1, <1>4, <1>5, <1>6, <1>7, <1>8 DEF MsgOK, LeaderMsg
-----------------------------------------------------------------------------
(* One step of one node. *)

\* Node i becomes s and sends M: it rests, follows, or leads.
Outcome(N, B, E, G, H, i, s, M) ==
    /\ s.id = i /\ N[i].term <= s.term /\ VotesFor(N, i, s) /\ Stands(N[i], s)
    /\ s.state \in {"Candidate", "Leader"} => 1 < s.term
    /\ \/ Rests(N[i], s) /\ \A x \in M : Sends(E, s, x)
       \/ \E m \in MessageType :
             /\ m.from # i /\ <<m.term, m.from>> \in E /\ Follows(G, H, N[i], m, s)
             /\ \A x \in M : Replies(G, s, x)
       \/ \E K : /\ Real(G, H, K, s.term) /\ Leads(N[i], K, s) /\ Wins(N, B, i, s)
                 /\ \A x \in M : LeaderSays(s, x) \/ Sends(E, s, x)

\* What is known of the nodes, the votes and the elections from ElectionInv
Ground(N, W, B, E) ==
    /\ N \in [Node -> RaftType] /\ W \in SUBSET MessageType
    /\ B \in SUBSET (Node \X Nat \X Node) /\ E \in SUBSET (Nat \X Node)
    /\ Reached(N, E) /\ \A b \in B : b[2] <= N[b[1]].term
    /\ \A j \in Node : N[j].id = j /\ 0 < N[j].term
    /\ \A j \in Node : N[j].state = "Leader" => <<N[j].term, j>> \in E

\* What the votes and the elections become
Records(N2, B, B2, E, E2, i) ==
    /\ B2 = B \cup (IF N2[i].vote = Nil THEN {} ELSE {<<i, N2[i].term, N2[i].vote>>})
    /\ E2 = E \cup (IF N2[i].state = "Leader" THEN {<<N2[i].term, i>>} ELSE {})
    /\ \A e, f \in E2 : e[1] = f[1] => e = f

\* The highest index known to be committed, when it was n and c is the commit index
Higher(n, c) == IF n < c THEN c ELSE n

\* What that becomes for each node, when node i becomes s
Raises(P, P2, i, s) ==
    \A j \in Node : P2[j] = IF j = i THEN Higher(P[i], s.raft_log.committed) ELSE P[j]

\* What r has of its first n entries, s has.
Keeps(r, s, n) ==
    /\ n <= Len(s.raft_log.ents)
    /\ First(s.raft_log.ents, n) = First(r.raft_log.ents, n)

\* No such step takes away what is committed.
LEMMA OutcomeKeeps ==
    ASSUME NEW N, NEW W, NEW B, NEW E, Ground(N, W, B, E), NEW G, NEW H, Safe(N, W, B, E, G, H),
           NEW i \in Node, NEW s \in RaftType, NEW M, Outcome(N, B, E, G, H, i, s, M),
           NEW c \in Nat, c <= Len(N[i].raft_log.ents),
           Sure(G, H, First(N[i].raft_log.ents, c), N[i].term)
    PROVE  Keeps(N[i], s, c)
<1> DEFINE r == N[i]
           L == r.raft_log.ents
           L2 == s.raft_log.ents
           T == s.term
<1>1. /\ Logs(E, G) /\ Complete(N, G, H) /\ Elections(N, E)
      /\ L \in G /\ Sure(G, H, First(L, c), r.term)
  BY DEF Safe, NodeOK
<1>2. /\ r.term <= T
      /\ \/ Rests(r, s)
         \/ \E m \in MessageType : /\ m.from # i /\ <<m.term, m.from>> \in E
                                   /\ Follows(G, H, r, m, s)
         \/ \E K : Leads(r, K, s)
  BY DEF Outcome
<1>3. r \in RaftType /\ E \in SUBSET (Nat \X Node) BY DEF Ground
<1>4. r.raft_log \in LogType /\ s.raft_log \in LogType /\ r.term \in Nat /\ T \in Nat
  BY <1>3, RaftFields
<1>5. /\ L \in Seq(Entry) /\ L2 \in Seq(Entry) /\ c <= Len(L) /\ Len(L) \in Nat
      /\ Len(L2) \in Nat
  BY <1>4, LogFields
<1>6. G \subseteq Seq(Entry) BY <1>1 DEF Logs
<1>7. CASE L2 = L BY <1>5, <1>7 DEF Keeps
<1>8. CASE Longer(L, L2, T)
  <2>1. Within(L, L2) /\ Len(L2) = Len(L) + 1 BY <1>5, <1>8, AppendOne DEF Longer
  <2>2. First(L, c) = First(L2, c) BY <1>5, <2>1, FirstSame
  <2>3. c <= Len(L2) BY <1>5, <2>1
  <2> QED BY <2>2, <2>3 DEF Keeps
<1>9. ASSUME NEW m \in MessageType, m.from # i, <<m.term, m.from>> \in E, T = m.term,
             L2 \in G, Led(G, L2, T), ~Within(L2, L)
      PROVE  Keeps(r, s, c)
  <2> DEFINE C == First(L, c)
             e == <<m.term, m.from>>
  <2>1. e \in E /\ e[1] = T BY <1>9
  <2> HIDE DEF e
  <2>2. 1 < T BY <1>1, <2>1 DEF Elections
  <2>3. PICK A \in G : LastTerm(A) = T BY <1>9 DEF Led
  <2>4. C \in Seq(Entry) /\ Len(C) = c /\ Within(C, L) BY <1>5, FirstFacts
  <2> HIDE DEF C, T
  <2>5. Sure(G, H, C, r.term) BY <1>1 DEF C
  <2>6. Led(G, C, T) BY <1>1, <1>2, <1>4, <2>2, <2>3, <2>4, <2>5, SureLed
  <2>7. ASSUME Len(L2) <= Len(C) PROVE FALSE
    <3>1. Within(L2, C) BY <1>1, <1>5, <1>9, <2>4, <2>6, <2>7, LedSame
    <3> QED BY <1>5, <1>9, <2>4, <3>1, WithinTrans
  <2>8. Len(C) <= Len(L2) BY <1>5, <2>4, <2>7
  <2>9. Within(C, L2) BY <1>1, <1>5, <1>9, <2>4, <2>6, <2>8, LedSame
  <2>10. First(L2, c) = C BY <1>5, <2>4, <2>9, WithinFirst
  <2> QED BY <2>4, <2>8, <2>10 DEF Keeps, C
<1>10. \/ L2 = L \/ Longer(L, L2, T)
       \/ \E m \in MessageType : /\ m.from # i /\ <<m.term, m.from>> \in E /\ T = m.term
                                 /\ L2 \in G /\ Led(G, L2, T) /\ ~Within(L2, L)
  <2>1. CASE Rests(r, s) BY <2>1 DEF Rests
  <2>2. CASE \E K : Leads(r, K, s) BY <2>2 DEF Leads
  <2>3. ASSUME NEW m \in MessageType, m.from # i, <<m.term, m.from>> \in E, Follows(G, H, r, m, s)
        PROVE  L2 = L \/ (T = m.term /\ L2 \in G /\ Led(G, L2, T) /\ ~Within(L2, L))
    BY <2>3 DEF Follows, Takes
  <2> QED BY <1>2, <2>1, <2>2, <2>3
<1> QED BY <1>7, <1>8, <1>9, <1>10

\* A step of one of the three kinds preserves the invariant.
LEMMA OutcomeSafe ==
    ASSUME NEW N, NEW W, NEW B, NEW E, Ground(N, W, B, E), NEW G, NEW H, Safe(N, W, B, E, G, H),
           NEW N2 \in [Node -> RaftType], NEW i \in Node, \A j \in Node : j # i => N2[j] = N[j],
           NEW B2, NEW E2, Records(N2, B, B2, E, E2, i),
           NEW M \in SUBSET MessageType, Outcome(N, B, E, G, H, i, N2[i], M),
           NEW W2, W2 \subseteq W \cup M, NEW P, Peaks(N, P, G, H), NEW P2,
           Raises(P, P2, i, N2[i])
    PROVE  Sound(N2, W2, B2, E2, P2)
<1> DEFINE r == N[i]
           s == N2[i]
           T == s.term
           G2 == G \cup {s.raft_log.ents}
           H2 == H \cup {<<i, T, A>> : A \in {C \in G2 : Within(C, s.raft_log.ents) /\ Led(G2, C, T)}}
<1>1. /\ N \in [Node -> RaftType] /\ W \in SUBSET MessageType
      /\ B \in SUBSET (Node \X Nat \X Node) /\ E \in SUBSET (Nat \X Node)
      /\ Reached(N, E) /\ \A b \in B : b[2] <= N[b[1]].term
      /\ \A j \in Node : N[j].state = "Leader" => <<N[j].term, j>> \in E
      /\ N[i].id = i /\ 0 < N[i].term
  BY DEF Ground
<1>2. /\ s.id = i /\ r.term <= T /\ VotesFor(N, i, s) /\ Stands(r, s)
      /\ s.state \in {"Candidate", "Leader"} => 1 < T
      /\ \/ Rests(r, s) /\ \A x \in M : Sends(E, s, x)
         \/ \E m \in MessageType :
               /\ m.from # i /\ <<m.term, m.from>> \in E /\ Follows(G, H, r, m, s)
               /\ \A x \in M : Replies(G, s, x)
         \/ \E K : /\ Real(G, H, K, T) /\ Leads(r, K, s) /\ Wins(N, B, i, s)
                   /\ \A x \in M : LeaderSays(s, x) \/ Sends(E, s, x)
  BY DEF Outcome
<1>3. /\ B2 = B \cup (IF s.vote = Nil THEN {} ELSE {<<i, T, s.vote>>})
      /\ E2 = E \cup (IF s.state = "Leader" THEN {<<T, i>>} ELSE {})
      /\ \A e, f \in E2 : e[1] = f[1] => e = f
  BY DEF Records
<1>4. Grows(N, N2, i, G, G2, H, H2) BY <1>2 DEF Grows
<1>5. r \in RaftType /\ s \in RaftType /\ r.term \in Nat /\ T \in Nat
  <2>1. r \in RaftType /\ s \in RaftType BY <1>1
  <2> QED BY <2>1, RaftFields
<1>6. Moves(N, N2, B, B2, E, E2, i) BY <1>1, <1>2, <1>3, <1>5 DEF Moves
<1>7. /\ Logs(E, G) /\ Complete(N, G, H) /\ Acks(N, G, H) /\ Votes(N, B, G, H)
      /\ NodeOK(E, G, H, i, r) /\ Elections(N, E)
  BY DEF Safe
<1>8. Rewrites(N, N2, B, G, i)
  <2>1. CASE Rests(r, s) BY <2>1 DEF Rests, Rewrites
  <2>2. ASSUME NEW m \in MessageType, Follows(G, H, r, m, s) PROVE Rewrites(N, N2, B, G, i)
    BY <2>2 DEF Follows, Takes, Rewrites
  <2>3. ASSUME NEW K, Leads(r, K, s), Wins(N, B, i, s) PROVE Rewrites(N, N2, B, G, i)
    BY <2>3 DEF Leads, Rewrites
  <2> QED BY <1>2, <2>1, <2>2, <2>3
<1> HIDE DEF G2, H2
<1>9. /\ Logs(E2, G2) /\ Complete(N2, G2, H2) /\ Acks(N2, G2, H2) /\ Votes(N2, B2, G2, H2)
      /\ Elections(N2, E2)
      /\ \A j \in Node : j # i => NodeOK(E2, G2, H2, j, N2[j])
      /\ \A m \in W : MsgOK(N2, E2, G2, H2, m)
  BY <1>1, <1>4, <1>6, <1>8, RestKept
<1>10. G \subseteq G2 /\ H \subseteq H2 /\ E \subseteq E2 /\ G2 \subseteq Seq(Entry) /\ 0 < T
       /\ \A A \in G2 : Within(A, s.raft_log.ents) /\ Led(G2, A, T) => <<i, T, A>> \in H2
  <2>1. G \subseteq G2 /\ H \subseteq H2
        /\ \A A \in G2 : Within(A, s.raft_log.ents) /\ Led(G2, A, T) => <<i, T, A>> \in H2
    BY <1>1, <1>4, GrowsFacts
  <2>2. G2 \subseteq Seq(Entry) BY <1>9 DEF Logs
  <2> QED BY <1>1, <1>2, <1>3, <1>5, <2>1, <2>2
<1>11. NodeOK(E2, G2, H2, i, s) /\ \A x \in M : MsgOK(N2, E2, G2, H2, x)
  <2>1. CASE Rests(r, s) /\ \A x \in M : Sends(E, s, x)
    <3>1. s.state = "Candidate" => 1 < s.term BY <1>2
    <3>2. NodeOK(E2, G2, H2, i, s) BY <1>5, <1>7, <1>10, <2>1, <3>1, RestNode
    <3>3. ASSUME NEW x \in M PROVE MsgOK(N2, E2, G2, H2, x)
      <4>1. x \in MessageType /\ Sends(E, N2[i], x) BY <2>1
      <4> QED BY <1>2, <1>10, <4>1, SendsOK
    <3> QED BY <3>2, <3>3
  <2>2. ASSUME NEW m \in MessageType, m.from # i, <<m.term, m.from>> \in E,
               Follows(G, H, r, m, s), \A x \in M : Replies(G, s, x)
        PROVE  NodeOK(E2, G2, H2, i, s) /\ \A x \in M : MsgOK(N2, E2, G2, H2, x)
    <3>1. NodeOK(E2, G2, H2, i, s) BY <1>5, <1>7, <1>10, <2>2, FollowNode
    <3>2. ASSUME NEW x \in M PROVE MsgOK(N2, E2, G2, H2, x)
      <4>1. x \in MessageType /\ Replies(G, N2[i], x) BY <2>2
      <4> QED BY <1>2, <1>10, <4>1, RepliesOK
    <3> QED BY <3>1, <3>2
  <2>3. ASSUME NEW K, Real(G, H, K, T), Leads(r, K, s), Wins(N, B, i, s),
               \A x \in M : LeaderSays(s, x) \/ Sends(E, s, x)
        PROVE  NodeOK(E2, G2, H2, i, s) /\ \A x \in M : MsgOK(N2, E2, G2, H2, x)
    <3>1. s.state = "Leader" /\ 1 < N2[i].term /\ <<N2[i].term, i>> \in E2
      BY <1>2, <1>3, <2>3 DEF Leads
    <3>2. \A A \in G : LastTerm(A) = N2[i].term => Within(A, N[i].raft_log.ents)
      <4>1. NodeOK(E, G, H, i, N[i]) /\ Wins(N, B, i, N2[i]) BY <1>7, <2>3
      <4>3. N \in [Node -> RaftType] /\ \A b \in B : b[2] <= N[b[1]].term BY <1>1
      <4>4. (\A e, f \in E2 : e[1] = f[1] => e = f) /\ E \subseteq E2 BY <1>3, <1>10
      <4>5. /\ Logs(E, G) /\ Complete(N, G, H) /\ Acks(N, G, H) /\ Votes(N, B, G, H)
            /\ Elections(N, E)
        BY <1>7
      <4>2. /\ \A A \in G : LastTerm(A) = N2[i].term => Within(A, N[i].raft_log.ents)
            /\ \A A \in G : LastTerm(A) < N2[i].term =>
                  Within(A, N[i].raft_log.ents) \/ Doomed(N2, H2, A)
        BY <1>4, <3>1, <4>1, <4>3, <4>4, <4>5, HeadKept
      <4> QED BY <4>2
    <3>3. NodeOK(E2, G2, H2, i, s) BY <1>1, <1>2, <1>4, <1>7, <1>9, <1>10, <2>3, <3>1, <3>2, LeadNode
    <3>4. ASSUME NEW x \in M PROVE MsgOK(N2, E2, G2, H2, x)
      <4>1. x \in MessageType /\ (LeaderSays(N2[i], x) \/ Sends(E, N2[i], x)) BY <2>3
      <4>2. CASE LeaderSays(N2[i], x) BY <1>2, <1>9, <3>1, <3>3, <4>1, <4>2, LeaderSaysOK
      <4>3. CASE Sends(E, N2[i], x) BY <1>2, <1>10, <4>1, <4>3, SendsOK
      <4> QED BY <4>1, <4>2, <4>3
    <3> QED BY <3>3, <3>4
  <2> QED BY <1>2, <2>1, <2>2, <2>3
<1>12. Safe(N2, W2, B2, E2, G2, H2) BY <1>9, <1>11 DEF Safe
<1>13. H2 \in SUBSET (Node \X Nat \X G2) BY <1>9 DEF Acks
<1>14. Peaks(N2, P2, G2, H2)
  <2> SUFFICES ASSUME NEW j \in Node
               PROVE  /\ P2[j] \in Nat /\ N2[j].raft_log.committed <= P2[j]
                      /\ P2[j] <= Len(N2[j].raft_log.ents)
                      /\ Sure(G2, H2, First(N2[j].raft_log.ents, P2[j]), N2[j].term)
    BY DEF Peaks
  <2>1. /\ P[j] \in Nat /\ N[j].raft_log.committed <= P[j]
        /\ P[j] <= Len(N[j].raft_log.ents)
        /\ Sure(G, H, First(N[j].raft_log.ents, P[j]), N[j].term)
    BY DEF Peaks
  <2>2. CASE j # i
    <3>1. N2[j] = N[j] /\ P2[j] = P[j] BY <2>2 DEF Raises
    <3>2. N[j].term \in Nat
      <4>1. N[j] \in RaftType BY <1>1
      <4> QED BY <4>1, RaftFields
    <3>3. Sure(G2, H2, First(N[j].raft_log.ents, P[j]), N[j].term)
      BY <1>10, <2>1, <3>2, SureKept
    <3> QED BY <2>1, <3>1, <3>3
  <2>3. CASE j = i
    <3> DEFINE d == s.raft_log.committed
    <3>1. s.raft_log \in LogType BY <1>5, RaftFields
    <3>2. d \in Nat /\ d <= Len(s.raft_log.ents) BY <3>1, LogFields
    <3>3. N2[j] = s /\ P2[j] = Higher(P[i], d) BY <2>3 DEF Raises
    <3>4. Sure(G2, H2, First(s.raft_log.ents, d), T) BY <1>11 DEF NodeOK
    <3>5. /\ P[i] \in Nat /\ P[i] <= Len(N[i].raft_log.ents)
          /\ Sure(G, H, First(N[i].raft_log.ents, P[i]), N[i].term)
      BY <2>1, <2>3
    <3>6. Keeps(r, s, P[i])
      <4>1. Outcome(N, B, E, G, H, i, N2[i], M) OBVIOUS
      <4> QED BY <1>5, <3>5, <4>1, OutcomeKeeps
    <3>7. Sure(G2, H2, First(r.raft_log.ents, P[i]), T)
      BY <1>2, <1>5, <1>10, <3>5, SureKept
    <3> HIDE DEF d, s, r, T
    <3>8. CASE P[i] < d
      <4>1. P2[j] = d BY <3>3, <3>8 DEF Higher
      <4> QED BY <3>2, <3>3, <3>4, <4>1 DEF d, T
    <3>9. CASE ~(P[i] < d)
      <4>1. P2[j] = P[i] BY <3>3, <3>9 DEF Higher
      <4>2. d <= P[i] BY <3>2, <3>5, <3>9
      <4> QED BY <3>3, <3>5, <3>6, <3>7, <4>1, <4>2 DEF Keeps, d, T
    <3> QED BY <3>8, <3>9
  <2> QED BY <2>2, <2>3
<1> QED BY <1>10, <1>12, <1>13, <1>14 DEF Sound
-----------------------------------------------------------------------------
(* Events. *)

\* p is s but for what the invariant does not read.
Alike(s, p) ==
    /\ p.id = s.id /\ p.term = s.term /\ p.vote = s.vote /\ p.state = s.state /\ p.lead = s.lead
    /\ p.prs = s.prs /\ p.raft_log.ents = s.raft_log.ents
    /\ p.raft_log.committed = s.raft_log.committed /\ p.raft_log.fatal = s.raft_log.fatal

\* maybe_trigger_snapshot finds something to compact whenever it has to.
LEMMA TriggerLives ==
    ASSUME NEW l \in LogType
    PROVE  LET q == maybe_trigger_snapshot(apply_committed(l))
           IN  q.ents = l.ents /\ q.committed = l.committed /\ q.fatal = l.fatal
<1> DEFINE a  == apply_committed(l)
           ci == IF a.applied > CatchUp THEN a.applied - CatchUp ELSE 1
           q  == maybe_trigger_snapshot(a)
<1>1. a \in LogType BY ApplyType
<1>2. a.ents = l.ents /\ a.committed = l.committed /\ a.fatal = l.fatal
  BY LogFields DEF apply_committed, LogRecord
<1>3. q.ents = a.ents /\ q.committed = a.committed /\ q.fatal = a.fatal
  <2> HIDE DEF a
  <2>1. CASE a.applied - a.snap <= SnapCount BY <2>1 DEF maybe_trigger_snapshot
  <2>2. CASE ~(a.applied - a.snap <= SnapCount)
    <3>1. ci > a.offset BY <1>1, <2>2, LogFields, SnapshotAssumption
    <3>4. ci \in Int /\ a.offset \in Int BY <1>1, LogFields, SnapshotAssumption
    <3>5. ~(ci <= a.offset) BY <3>1, <3>4
    <3>2. q = [a EXCEPT !.snap = a.applied, !.offset = ci]
      BY <2>2, <3>5 DEF maybe_trigger_snapshot
    <3>3. a \in LogRecord BY <1>1, LogFields
    <3> HIDE DEF ci, q
    <3> QED BY <3>2, <3>3 DEF LogRecord
  <2> QED BY <2>1, <2>2
<1> QED BY <1>2, <1>3

\* pull_ready_events commits nothing and kills nobody.
LEMMA PullAlike ==
    ASSUME NEW s \in RaftType
    PROVE  Alike(s, pull_ready_events(s))
<1> DEFINE l    == s.raft_log
           off  == IF l.applied < l.offset THEN l.offset ELSE l.applied
           size == TotalPayload(l, off + 1, l.committed)
           u    == IF size > s.uncommitted_size THEN 0 ELSE s.uncommitted_size - size
           l2   == maybe_trigger_snapshot(apply_committed(l))
           none == {}
           p    == [s EXCEPT !.uncommitted_size = u, !.raft_log = l2, !.msgs = none]
<1>1. pull_ready_events(s) = p BY DEF pull_ready_events
<1>2. l2.ents = l.ents /\ l2.committed = l.committed /\ l2.fatal = l.fatal
  <2>1. l \in LogType BY RaftFields
  <2> HIDE DEF l
  <2> QED BY <2>1, TriggerLives
<1>3. p.raft_log = l2 /\ p.id = s.id /\ p.term = s.term /\ p.vote = s.vote /\ p.state = s.state
      /\ p.lead = s.lead /\ p.prs = s.prs
  <2> HIDE DEF u, l2, none, l
  <2> QED BY DEF RaftType
<1> HIDE DEF p, l2
<1> QED BY <1>1, <1>2, <1>3 DEF Alike

\* Such nodes have the same kind of step behind them.
LEMMA OutcomeAlike ==
    ASSUME NEW N, NEW B, NEW E, NEW G, NEW H, NEW i, NEW s, NEW p, NEW M,
           Outcome(N, B, E, G, H, i, s, M), Alike(s, p)
    PROVE  Outcome(N, B, E, G, H, i, p, M)
<1> USE DEF Alike
<1>1. /\ p.id = i /\ N[i].term <= p.term /\ VotesFor(N, i, p) /\ Stands(N[i], p)
      /\ p.state \in {"Candidate", "Leader"} => 1 < p.term
  BY DEF Outcome, VotesFor, Stands
<1>2. \A x : /\ Sends(E, s, x) => Sends(E, p, x)
             /\ Replies(G, s, x) => Replies(G, p, x)
             /\ LeaderSays(s, x) => LeaderSays(p, x)
  BY DEF Sends, Replies, LeaderSays
<1>3. CASE Rests(N[i], s) /\ \A x \in M : Sends(E, s, x)
  <2>1. Rests(N[i], p) BY <1>3 DEF Rests
  <2>2. \A x \in M : Sends(E, p, x) BY <1>2, <1>3
  <2> QED BY <1>1, <2>1, <2>2 DEF Outcome
<1>4. ASSUME NEW m \in MessageType, m.from # i, <<m.term, m.from>> \in E,
             Follows(G, H, N[i], m, s), \A x \in M : Replies(G, s, x)
      PROVE  Outcome(N, B, E, G, H, i, p, M)
  <2>1. Follows(G, H, N[i], m, p) BY <1>4 DEF Follows, Takes
  <2>2. \A x \in M : Replies(G, p, x) BY <1>2, <1>4
  <2>3. m.from # i /\ <<m.term, m.from>> \in E BY <1>4
  <2> QED BY <1>1, <2>1, <2>2, <2>3 DEF Outcome
<1>5. ASSUME NEW K, Real(G, H, K, s.term), Leads(N[i], K, s), Wins(N, B, i, s),
             \A x \in M : LeaderSays(s, x) \/ Sends(E, s, x)
      PROVE  Outcome(N, B, E, G, H, i, p, M)
  <2>1. Leads(N[i], K, p) BY <1>5 DEF Leads
  <2>2. Real(G, H, K, p.term) /\ Wins(N, B, i, p) BY <1>5 DEF Wins
  <2>3. \A x \in M : LeaderSays(p, x) \/ Sends(E, p, x) BY <1>2, <1>5
  <2> QED BY <1>1, <2>1, <2>2, <2>3 DEF Outcome
<1> QED BY <1>3, <1>4, <1>5 DEF Outcome

\* What ElectionInv says of the nodes, the votes and the elections
LEMMA InvGround == ElectionInv => Ground(node, net, ballots, elected)
<1> SUFFICES ASSUME ElectionInv PROVE Ground(node, net, ballots, elected) OBVIOUS
<1>1. TypeOK /\ Settled /\ NoPreVotes /\ OneVote /\ ElectedByQuorum BY DEF ElectionInv
<1>2. /\ node \in [Node -> RaftType] /\ net \in SUBSET MessageType
      /\ ballots \in SUBSET (Node \X Nat \X Node) /\ elected \in SUBSET (Nat \X Node)
  BY <1>1 DEF TypeOK
<1>3. \A b \in ballots : b[2] <= node[b[1]].term BY <1>1 DEF OneVote
<1>4. Reached(node, elected)
  <2> SUFFICES ASSUME NEW e \in elected
               PROVE  \E V \in SUBSET Node :
                         Cardinality(V) >= quorum /\ \A v \in V : node[v].term >= e[1]
    BY DEF Reached
  <2> DEFINE V == Voters(e[1], e[2])
  <2>1. V \in SUBSET Node /\ Cardinality(V) >= quorum BY <1>1 DEF ElectedByQuorum, Voters
  <2>2. ASSUME NEW v \in V PROVE node[v].term >= e[1]
    <3> DEFINE b == <<v, e[1], e[2]>>
    <3>1. b \in ballots /\ b[1] = v /\ b[2] = e[1] /\ v \in Node BY <2>2 DEF Voters
    <3> HIDE DEF b
    <3>2. e[1] <= node[v].term BY <1>3, <3>1
    <3>3. e[1] \in Nat /\ node[v].term \in Nat
      <4>1. node[v] \in RaftType BY <1>2, <3>1
      <4> QED BY <1>2, <4>1, RaftFields
    <3> QED BY <3>2, <3>3
  <2> QED BY <2>1, <2>2
<1>5. \A j \in Node : node[j].id = j /\ 0 < node[j].term
  <2> TAKE j \in Node
  <2>1. node[j].id = j /\ node[j].term > 0 BY <1>1 DEF Settled
  <2>2. node[j] \in RaftType BY <1>2
  <2> QED BY <2>1, <2>2, RaftFields
<1>6. \A j \in Node : node[j].state = "Leader" => <<node[j].term, j>> \in elected
  BY <1>1 DEF NoPreVotes
<1> QED BY <1>2, <1>3, <1>4, <1>5, <1>6 DEF Ground

\* An event of one of the three kinds preserves the invariant.  N is the present state,
\* or that after the receiver of a message has caught up with its term.
LEMMA EventSafe ==
    ASSUME ElectionInv', NEW i \in Node, NEW s \in RaftType, NEW rest, PartOf(rest),
           Event(i, s, rest), TypeOK, NEW N, \A j \in Node : j # i => N[j] = node[j],
           Ground(N, net, ballots, elected), NEW G, NEW H, Safe(N, net, ballots, elected, G, H),
           Peaks(N, peak, G, H), Outcome(N, ballots, elected, G, H, i, s, s.msgs)
    PROVE  SafetyInv' /\ Keeps(N[i], node'[i], peak[i])
<1> DEFINE p == pull_ready_events(s)
<1>1. /\ node' = [node EXCEPT ![i] = p]
      /\ peak' = [peak EXCEPT ![i] = Higher(@, s.raft_log.committed)]
      /\ ballots' = ballots \cup (IF s.vote = Nil THEN {} ELSE {<<i, s.term, s.vote>>})
      /\ elected' = elected \cup (IF s.state = "Leader" THEN {<<s.term, i>>} ELSE {})
  BY DEF Event, Higher
<1>2. p \in RaftType /\ Alike(s, p) BY PullFacts, PullAlike
<1> HIDE DEF p
<1>3. node' \in [Node -> RaftType] /\ node'[i] = p /\ \A j \in Node : j # i => node'[j] = N[j]
  BY <1>1, <1>2 DEF TypeOK
<1>4. Outcome(N, ballots, elected, G, H, i, node'[i], s.msgs) BY <1>2, <1>3, OutcomeAlike
<1>5. s.msgs \in SUBSET MessageType BY RaftFields
<1>6. \A e, f \in elected' : e[1] = f[1] => e = f
  <2>1. ElectionSafety' BY InvIsSafe, PTL
  <2> QED BY <2>1 DEF ElectionSafety
<1>7. Records(node', ballots, ballots', elected, elected', i)
  BY <1>1, <1>2, <1>3, <1>6 DEF Records, Alike
<1>8. Sound(node', net', ballots', elected', peak')
  <2>1. net' \subseteq net \cup s.msgs BY EventNet
  <2> DEFINE N2 == node'
             W2 == net'
             B2 == ballots'
             E2 == elected'
             P2 == peak'
             M  == s.msgs
  <2>2. /\ N2 \in [Node -> RaftType] /\ \A j \in Node : j # i => N2[j] = N[j]
        /\ Outcome(N, ballots, elected, G, H, i, N2[i], M)
        /\ Records(N2, ballots, B2, elected, E2, i)
        /\ M \in SUBSET MessageType /\ W2 \subseteq net \cup M
    BY <1>3, <1>4, <1>5, <1>7, <2>1
  <2>4. Raises(peak, P2, i, N2[i])
    <3>1. N2[i].raft_log.committed = s.raft_log.committed BY <1>2, <1>3 DEF Alike
    <3>2. peak \in [Node -> Nat] BY DEF TypeOK
    <3> HIDE DEF N2
    <3> QED BY <1>1, <3>1, <3>2 DEF Raises
  <2> HIDE DEF N2, W2, B2, E2, M, P2
  <2>3. Sound(N2, W2, B2, E2, P2)
    BY <2>2, <2>4, OutcomeSafe
  <2> QED BY <2>3 DEF N2, W2, B2, E2, P2
<1>9. SafetyInv' BY <1>8 DEF SafetyInv
<1>10. Keeps(N[i], node'[i], peak[i])
  <2>1. node'[i] \in RaftType BY <1>2, <1>3
  <2>2. /\ peak[i] \in Nat /\ peak[i] <= Len(N[i].raft_log.ents)
        /\ Sure(G, H, First(N[i].raft_log.ents, peak[i]), N[i].term)
    BY DEF Peaks
  <2> QED BY <1>4, <2>1, <2>2, OutcomeKeeps
<1> QED BY <1>9, <1>10
\* become_follower leaves the log, and sets the leader.
LEMMA FollowerFields ==
    ASSUME NEW r \in RaftType, NEW t \in Nat, NEW lead \in Node \cup {Nil}
    PROVE  LET s == become_follower(r, t, lead)
           IN  /\ s \in RaftType /\ s.id = r.id /\ s.term = t /\ s.lead = lead
               /\ s.vote = (IF r.term # t THEN Nil ELSE r.vote) /\ s.state = "Follower"
               /\ s.raft_log = r.raft_log /\ s.msgs = r.msgs /\ s.granted = {}
<1> DEFINE s == become_follower(r, t, lead)
<1>1. /\ s \in RaftType /\ s.id = r.id /\ s.term = t
      /\ s.vote = (IF r.term # t THEN Nil ELSE r.vote) /\ s.state = "Follower"
      /\ s.raft_log = r.raft_log /\ s.msgs = r.msgs /\ s.granted = {}
  BY BecomeFollowerFacts
<1>2. reset(r, t) \in RaftType BY ResetFacts
<1>3. s.lead = lead BY <1>2 DEF become_follower, RaftType
<1> QED BY <1>1, <1>3

\* A node that catches up with the term of a message preserves the invariant.
LEMMA CatchUpSafe ==
    ASSUME NEW N, NEW W, NEW B, NEW E, Ground(N, W, B, E), \A e, f \in E : e[1] = f[1] => e = f,
           NEW G, NEW H, Safe(N, W, B, E, G, H),
           NEW m \in W, m.term > N[m.to].term, m.type \notin {"MsgPreVote", "MsgPreVoteResp"},
           NEW N2 \in [Node -> RaftType], N2[m.to] = CatchUpTerm(N[m.to], m),
           \A j \in Node : j # m.to => N2[j] = N[j], NEW P, Peaks(N, P, G, H)
    PROVE  Ground(N2, W, B, E) /\ Sound(N2, W, B, E, P)
<1> DEFINE i == m.to
           r == N[i]
           s == CatchUpTerm(r, m)
           lead == IF m.type \in LeaderMsg THEN m.from ELSE Nil
           none == {}
<1>1. /\ N \in [Node -> RaftType] /\ W \in SUBSET MessageType
      /\ B \in SUBSET (Node \X Nat \X Node) /\ E \in SUBSET (Nat \X Node)
      /\ Reached(N, E) /\ \A b \in B : b[2] <= N[b[1]].term
      /\ \A j \in Node : N[j].id = j /\ 0 < N[j].term
      /\ \A j \in Node : N[j].state = "Leader" => <<N[j].term, j>> \in E
  BY DEF Ground
<1>2. /\ m \in MessageType /\ i \in Node /\ m.from \in Node /\ m.term \in Nat
      /\ r \in RaftType /\ r.term \in Nat /\ r.term < m.term
  <2>1. m \in MessageType BY <1>1
  <2>2. i \in Node /\ m.from \in Node /\ m.term \in Nat BY <2>1 DEF MessageType
  <2>3. r \in RaftType BY <1>1, <2>2
  <2> QED BY <2>1, <2>2, <2>3, RaftFields
<1>3. lead \in Node \cup {Nil} BY <1>2
<1>4. s = become_follower(r, m.term, lead) BY DEF CatchUpTerm
<1>5. /\ s \in RaftType /\ s.id = i /\ s.term = m.term /\ s.lead = lead
      /\ s.vote = Nil /\ s.state = "Follower" /\ s.raft_log = r.raft_log
  <2> DEFINE t == m.term
  <2>0. s = become_follower(r, t, lead) /\ r \in RaftType /\ t \in Nat /\ lead \in Node \cup {Nil}
    BY <1>2, <1>3, <1>4
  <2> HIDE DEF lead, s, r, t
  <2>1. /\ s \in RaftType /\ s.id = r.id /\ s.term = t /\ s.lead = lead
        /\ s.vote = (IF r.term # t THEN Nil ELSE r.vote) /\ s.state = "Follower"
        /\ s.raft_log = r.raft_log
    BY <2>0, FollowerFields
  <2>2. r.term # m.term BY <1>2
  <2>3. r.id = i BY <1>1, <1>2 DEF r
  <2> QED BY <2>1, <2>2, <2>3 DEF t
<1>7. /\ N2 \in [Node -> RaftType] /\ N2[i] = s /\ \A j \in Node : j # i => N2[j] = N[j]
  OBVIOUS
<1> HIDE DEF s, i
<1>8. \A j \in Node : N[j].term \in Nat /\ N2[j].term \in Nat /\ N[j].term <= N2[j].term
  <2> TAKE j \in Node
  <2>1. N[j] \in RaftType /\ N2[j] \in RaftType BY <1>1, <1>7
  <2>2. N[j].term \in Nat /\ N2[j].term \in Nat BY <2>1, RaftFields
  <2> QED BY <1>2, <1>5, <1>7, <2>2
<1>9. Ground(N2, W, B, E)
  <2>1. Reached(N2, E)
    <3> SUFFICES ASSUME NEW e \in E
                 PROVE  \E V \in SUBSET Node :
                           Cardinality(V) >= quorum /\ \A v \in V : N2[v].term >= e[1]
      BY DEF Reached
    <3>1. PICK V \in SUBSET Node : Cardinality(V) >= quorum /\ \A v \in V : N[v].term >= e[1]
      BY <1>1 DEF Reached
    <3>2. e[1] \in Nat BY <1>1
    <3>3. \A v \in V : N2[v].term >= e[1] BY <1>8, <3>1, <3>2
    <3> QED BY <3>1, <3>3
  <2>2. \A b \in B : b[2] <= N2[b[1]].term
    <3> TAKE b \in B
    <3>1. b[1] \in Node /\ b[2] \in Nat BY <1>1
    <3>2. b[2] <= N[b[1]].term BY <1>1
    <3> QED BY <1>8, <3>1, <3>2
  <2>3. \A j \in Node : N2[j].id = j /\ 0 < N2[j].term BY <1>1, <1>5, <1>7, <1>8
  <2>4. \A j \in Node : N2[j].state = "Leader" => <<N2[j].term, j>> \in E BY <1>1, <1>5, <1>7
  <2> QED BY <1>1, <1>7, <2>1, <2>2, <2>3, <2>4 DEF Ground
<1>10. Records(N2, B, B, E, E, i) BY <1>5, <1>7 DEF Records
<1>11. Logs(E, G) /\ NodeOK(E, G, H, i, r) /\ MsgOK(N, E, G, H, m) BY <1>2 DEF Safe
<1>12. /\ VotesFor(N, i, s) /\ Stands(r, s) /\ ~(s.state \in {"Candidate", "Leader"})
  BY <1>5 DEF VotesFor, Stands
<1>13. Outcome(N, B, E, G, H, i, s, none)
  <2>1. CASE m.type \in LeaderMsg
    <3>1. lead = m.from /\ m.from # i /\ <<m.term, m.from>> \in E
      BY <1>11, <2>1 DEF MsgOK, i
    <3>2. /\ Sure(G, H, First(r.raft_log.ents, r.raft_log.committed), r.term)
          /\ ~r.raft_log.fatal
      BY <1>11 DEF NodeOK
    <3>3. G \subseteq Seq(Entry) BY <1>11 DEF Logs
    <3>4. Sure(G, H, First(r.raft_log.ents, r.raft_log.committed), m.term)
      BY <1>2, <3>2, <3>3, SureKept
    <3>5. r.raft_log.committed <= r.raft_log.committed
      <4>1. r.raft_log \in LogType BY <1>2, RaftFields
      <4> QED BY <4>1, LogFields
    <3>6. Follows(G, H, r, m, s) BY <1>2, <1>5, <3>1, <3>2, <3>4, <3>5 DEF Follows, Takes
    <3>7. \A x \in none : Replies(G, s, x) OBVIOUS
    <3>8. s.id = i /\ N[i].term <= s.term BY <1>2, <1>5
    <3> HIDE DEF none
    <3> QED BY <1>2, <1>12, <3>1, <3>6, <3>7, <3>8 DEF Outcome
  <2>2. CASE m.type \notin LeaderMsg
    <3>1. ~r.raft_log.fatal BY <1>11 DEF NodeOK
    <3>3. r.raft_log.committed <= r.raft_log.committed
      <4>1. r.raft_log \in LogType BY <1>2, RaftFields
      <4> QED BY <4>1, LogFields
    <3>2. Rests(r, s) BY <1>2, <1>5, <2>2, <3>1, <3>3 DEF Rests
    <3>7. \A x \in none : Sends(E, s, x) OBVIOUS
    <3>8. s.id = i /\ N[i].term <= s.term BY <1>2, <1>5
    <3> HIDE DEF none
    <3> QED BY <1>12, <3>2, <3>7, <3>8 DEF Outcome
  <2> QED BY <2>1, <2>2
<1>14. Sound(N2, W, B, E, P)
  <2>3. Raises(P, P, i, N2[i])
    <3> DEFINE c == N[i].raft_log.committed
    <3>1. N2[i].raft_log.committed = c BY <1>5, <1>7
    <3>2. c \in Nat
      <4>1. r.raft_log \in LogType BY <1>2, RaftFields
      <4> QED BY <4>1, LogFields
    <3>3. P[i] \in Nat /\ c <= P[i] BY <1>2 DEF Peaks
    <3> HIDE DEF c
    <3>4. Higher(P[i], c) = P[i] BY <3>2, <3>3 DEF Higher
    <3> QED BY <3>1, <3>4 DEF Raises
  <2>1. none \in SUBSET MessageType /\ W \subseteq W \cup none OBVIOUS
  <2>2. Outcome(N, B, E, G, H, i, N2[i], none) BY <1>7, <1>13
  <2> HIDE DEF none
  <2> QED BY <1>2, <1>7, <1>10, <2>1, <2>2, <2>3, OutcomeSafe
<1> QED BY <1>9, <1>14
=============================================================================
