--------------------------- MODULE NodeDiskProofs ---------------------------
(***************************************************************************)
(* For every snapshot count, segment size, sequence of events and place of *)
(* a stop or a kill: what a node finds on its disk when it starts again.   *)
(*                                                                         *)
(* None of the properties is inductive.  What they speak of is read from a *)
(* file in which later records displace earlier ones, so the invariant     *)
(* says what the records of a file are to each other (Written, Gapless),   *)
(* what a file says of what is committed (Agrees) and of the node's log    *)
(* (Holds), and it says so of every beginning of the file that a kill may  *)
(* leave.  Staged places the steps of a Ready, Kept relates memory, the    *)
(* two buffers and the file.  Kept is given up once a kill has cut off the *)
(* saving of a received snapshot: such a file may have a commit index      *)
(* above entries that the cluster has not committed.                       *)
(***************************************************************************)
EXTENDS NodeDisk, FiniteSetTheorems, WellFoundedInduction, TLAPS

-----------------------------------------------------------------------------
(* Reading records. *)

\* A set of positions has a last one (Latest).
LEMMA LatestFacts ==
    ASSUME NEW n \in Nat, NEW S \in SUBSET (1..n), S # {}
    PROVE  Latest(S) \in S /\ \A q \in S : q <= Latest(S)
<1> DEFINE T == {n - k : k \in S}
<1>1. T \in SUBSET Nat /\ T # {}
  <2>1. \A k \in S : n - k \in Nat OBVIOUS
  <2>2. PICK k \in S : TRUE OBVIOUS
  <2>3. n - k \in T OBVIOUS
  <2> QED BY <2>1, <2>3
<1>2. \E x \in T : \A y \in T : <<y, x>> \notin OpToRel(<, Nat)
  <2> HIDE DEF T
  <2> QED BY <1>1, NatLessThanWellFounded, WFMin
<1>3. PICK x \in T : \A y \in T : <<y, x>> \notin OpToRel(<, Nat) BY <1>2
<1>4. \A y \in T : x <= y
  <2> TAKE y \in T
  <2>1. x \in Nat /\ y \in Nat BY <1>1
  <2>2. ~(y < x) BY <1>3, <2>1 DEF OpToRel
  <2> QED BY <2>1, <2>2
<1>5. PICK k \in S : x = n - k BY <1>3
<1>6. \A q \in S : q <= k
  <2> TAKE q \in S
  <2>1. n - k <= n - q BY <1>4, <1>5
  <2> QED BY <2>1
<1> QED BY <1>6 DEF Latest

\* The greatest position is the last one.
LEMMA LatestIs ==
    ASSUME NEW n \in Nat, NEW S \in SUBSET (1..n), NEW m \in S, \A q \in S : q <= m
    PROVE  Latest(S) = m
<1> DEFINE x == Latest(S)
<1>1. x \in S /\ \A q \in S : q <= x BY LatestFacts
<1> HIDE DEF x
<1>2. x \in Nat /\ m \in Nat BY <1>1
<1>3. x <= m /\ m <= x BY <1>1
<1>4. x = m BY <1>2, <1>3
<1> QED BY <1>4 DEF x

\* The positions of the entries above index s
Above(P, s) == {p \in Positions(P, "entry") : P[p].index > s}

\* The positions at which entry k stands and is not displaced by what follows
Live(P, s, k) == {p \in Above(P, s) : P[p].index = k /\ \A q \in Above(P, s) : q > p => P[q].index > k}

\* The index of the last entry that is read, s if there is none
End(P, s) == s + Len(Entries(P, s))

\* The term that is read for entry k
Term(P, s, k) == Entries(P, s)[k - s]

\* What reading yields, in terms of positions
LEMMA EntriesFacts ==
    ASSUME NEW P \in Seq(Record), NEW s \in Nat
    PROVE  /\ Above(P, s) \in SUBSET (1..Len(P)) /\ \A k \in Nat : Live(P, s, k) \in SUBSET (1..Len(P))
           /\ Entries(P, s) \in Seq(Nat)
           /\ End(P, s) \in Nat /\ End(P, s) >= s
           /\ End(P, s) = IF Above(P, s) = {} THEN s ELSE P[Latest(Above(P, s))].index
           /\ \A k \in s + 1..End(P, s) :
                 Term(P, s, k) = IF Live(P, s, k) = {} THEN 0 ELSE P[Latest(Live(P, s, k))].term
<1> DEFINE above == Above(P, s)
           last  == IF above = {} THEN 0 ELSE P[Latest(above)].index - s
           at(k) == Live(P, s, s + k)
           E     == [k \in 1..last |-> IF at(k) = {} THEN 0 ELSE P[Latest(at(k))].term]
<1>1. Len(P) \in Nat /\ above \in SUBSET (1..Len(P)) BY DEF Above, Positions
<1>2. \A k : Live(P, s, k) \in SUBSET (1..Len(P)) BY <1>1 DEF Live
<1>3. \A p \in 1..Len(P) : P[p] \in Record /\ P[p].index \in Nat /\ P[p].term \in Nat
  <2> TAKE p \in 1..Len(P)
  <2>1. P[p] \in Record OBVIOUS
  <2> QED BY <2>1 DEF Record
<1>4. last \in Nat
  <2>1. CASE above = {} BY <2>1
  <2>2. CASE above # {}
    <3>1. Latest(above) \in above BY <1>1, <2>2, LatestFacts
    <3>2. P[Latest(above)].index > s /\ P[Latest(above)].index \in Nat BY <1>1, <1>3, <3>1 DEF Above
    <3> QED BY <2>2, <3>2
  <2> QED BY <2>1, <2>2
<1>5. Entries(P, s) = E
  <2>1. \A k : at(k) = {p \in above : P[p].index = s + k /\ \A q \in above : q > p => P[q].index > s + k}
    BY DEF Live
  <2> QED BY <2>1 DEF Entries, Above
<1>6. \A k \in 1..last : E[k] \in Nat
  <2> TAKE k \in 1..last
  <2>1. CASE at(k) = {} BY <2>1
  <2>2. CASE at(k) # {}
    <3>1. Latest(at(k)) \in 1..Len(P) BY <1>1, <1>2, <2>2, LatestFacts
    <3> QED BY <1>3, <2>2, <3>1
  <2> QED BY <2>1, <2>2
<1>7. E \in Seq(Nat) /\ Len(E) = last
  <2>1. E \in [1..last -> Nat] BY <1>6
  <2> HIDE DEF E, last
  <2>2. E \in Seq(Nat) BY <1>4, <2>1
  <2> QED BY <1>4, <2>1, <2>2
<1>8. End(P, s) = s + last BY <1>5, <1>7 DEF End
<1>9. End(P, s) = IF above = {} THEN s ELSE P[Latest(above)].index
  <2>1. CASE above = {} BY <1>8, <2>1
  <2>2. CASE above # {}
    <3>1. Latest(above) \in 1..Len(P) BY <1>1, <2>2, LatestFacts
    <3>2. P[Latest(above)].index \in Nat BY <1>3, <3>1
    <3>3. last = P[Latest(above)].index - s BY <2>2
    <3> HIDE DEF last, above
    <3> QED BY <1>8, <2>2, <3>2, <3>3
  <2> QED BY <2>1, <2>2
<1>10. ASSUME NEW k \in s + 1..End(P, s)
       PROVE  Term(P, s, k) = IF Live(P, s, k) = {} THEN 0 ELSE P[Latest(Live(P, s, k))].term
  <2>1. k - s \in 1..last /\ s + (k - s) = k BY <1>4, <1>8
  <2>2. Term(P, s, k) = E[k - s] BY <1>5 DEF Term
  <2>3. at(k - s) = Live(P, s, k) BY <2>1
  <2> HIDE DEF last
  <2> QED BY <2>1, <2>2, <2>3
<1>11. End(P, s) \in Nat /\ End(P, s) >= s BY <1>4, <1>8
<1> QED BY <1>1, <1>2, <1>5, <1>7, <1>9, <1>10, <1>11

\* One more record: what is at the other positions stays.
LEMMA AppendFacts ==
    ASSUME NEW P \in Seq(Record), NEW e \in Record
    PROVE  LET P2 == Append(P, e)
           IN  /\ P2 \in Seq(Record) /\ Len(P2) = Len(P) + 1 /\ P2[Len(P) + 1] = e
               /\ \A p \in 1..Len(P) : P2[p] = P[p]
               /\ \A t : Positions(P2, t) =
                     Positions(P, t) \cup (IF e.type = t THEN {Len(P) + 1} ELSE {})
<1> DEFINE P2 == Append(P, e)
<1>1. P2 \in Seq(Record) /\ Len(P2) = Len(P) + 1 /\ P2[Len(P) + 1] = e OBVIOUS
<1>2. \A p \in 1..Len(P) : P2[p] = P[p] OBVIOUS
<1>3. Len(P) \in Nat OBVIOUS
<1> HIDE DEF P2
<1>4. \A t : Positions(P2, t) = Positions(P, t) \cup (IF e.type = t THEN {Len(P) + 1} ELSE {})
  <2> TAKE t
  <2>1. \A n : n \in Positions(P2, t) <=> n \in 1..Len(P) + 1 /\ P2[n].type = t BY <1>1 DEF Positions
  <2>2. \A n : n \in Positions(P, t) <=> n \in 1..Len(P) /\ P[n].type = t BY DEF Positions
  <2>3. \A n : n \in 1..Len(P) + 1 <=> n \in 1..Len(P) \/ n = Len(P) + 1 BY <1>3
  <2> QED BY <1>1, <1>2, <2>1, <2>2, <2>3
<1> QED BY <1>1, <1>2, <1>4 DEF P2

\* An entry above s displaces what stood from its index on.
LEMMA AppendEntryFacts ==
    ASSUME NEW P \in Seq(Record), NEW s \in Nat, NEW e \in Record, e.type = "entry", e.index > s
    PROVE  LET P2 == Append(P, e)
           IN  /\ End(P2, s) = e.index /\ Term(P2, s, e.index) = e.term
               /\ \A k \in s + 1..e.index - 1 : k <= End(P, s) => Term(P2, s, k) = Term(P, s, k)
<1> DEFINE P2 == Append(P, e)
           n  == Len(P) + 1
<1>1. /\ P2 \in Seq(Record) /\ Len(P2) = n /\ P2[n] = e /\ \A p \in 1..Len(P) : P2[p] = P[p]
      /\ \A t : Positions(P2, t) = Positions(P, t) \cup (IF e.type = t THEN {n} ELSE {})
  BY AppendFacts
<1>2. Len(P) \in Nat /\ n \in Nat OBVIOUS
<1>3. Positions(P, "entry") \in SUBSET (1..Len(P)) BY DEF Positions
<1> HIDE DEF P2
<1>4. Positions(P2, "entry") = Positions(P, "entry") \cup {n} BY <1>1
<1>5. Above(P2, s) = Above(P, s) \cup {n}
  <2>1. \A p \in Positions(P, "entry") : P2[p] = P[p] BY <1>1, <1>3
  <2> QED BY <1>1, <1>4, <2>1 DEF Above
<1>6. Above(P, s) \in SUBSET (1..Len(P)) BY <1>3 DEF Above
<1>7. Latest(Above(P2, s)) = n
  <2>1. Above(P2, s) \in SUBSET (1..n) /\ n \in Above(P2, s) BY <1>2, <1>5, <1>6
  <2>2. \A q \in Above(P2, s) : q <= n BY <1>2, <2>1
  <2> QED BY <1>2, <2>1, <2>2, LatestIs
<1>8. End(P2, s) = e.index
  <2>1. Above(P2, s) # {} BY <1>5
  <2> QED BY <1>1, <1>7, <2>1, EntriesFacts
<1>9. e.index \in Nat BY DEF Record
<1>10. Term(P2, s, e.index) = e.term
  <2>1. Live(P2, s, e.index) = {n}
    <3>1. n \in Live(P2, s, e.index) BY <1>1, <1>2, <1>5, <1>6 DEF Live
    <3>2. \A p \in Above(P, s) : p \notin Live(P2, s, e.index)
      <4> TAKE p \in Above(P, s)
      <4>1. n > p /\ n \in Above(P2, s) BY <1>2, <1>5, <1>6
      <4>2. ~(P2[n].index > e.index) BY <1>1, <1>9
      <4> QED BY <4>1, <4>2 DEF Live
    <3> QED BY <1>5, <3>1, <3>2 DEF Live
  <2>2. Latest({n}) = n
    <3>1. {n} \in SUBSET (1..n) /\ n \in {n} /\ \A q \in {n} : q <= n BY <1>2
    <3> QED BY <1>2, <3>1, LatestIs
  <2>3. e.index \in s + 1..End(P2, s) BY <1>8, <1>9
  <2>4. Term(P2, s, e.index) = P2[Latest(Live(P2, s, e.index))].term
    BY <1>1, <2>1, <2>3, EntriesFacts
  <2> QED BY <1>1, <2>1, <2>2, <2>4
<1>11. ASSUME NEW k \in s + 1..e.index - 1, k <= End(P, s)
       PROVE  Term(P2, s, k) = Term(P, s, k)
  <2>1. k \in Nat /\ k < e.index /\ k \in s + 1..End(P2, s) /\ k \in s + 1..End(P, s)
    <3>1. End(P, s) \in Nat BY EntriesFacts
    <3> QED BY <1>8, <1>9, <1>11, <3>1
  <2>2. Live(P2, s, k) = Live(P, s, k)
    <3>1. n \notin Live(P2, s, k) BY <1>1, <2>1 DEF Live
    <3>2. ASSUME NEW p \in Above(P, s)
          PROVE  p \in Live(P2, s, k) <=> p \in Live(P, s, k)
      <4>1. P2[p] = P[p] BY <1>1, <1>6
      <4>2. \A q \in Above(P, s) : P2[q] = P[q] BY <1>1, <1>6
      <4>3. P2[n].index > k BY <1>1, <1>9, <2>1
      <4> QED BY <1>5, <4>1, <4>2, <4>3 DEF Live
    <3> QED BY <1>5, <3>1, <3>2 DEF Live
  <2>3. CASE Live(P, s, k) = {} BY <1>1, <2>1, <2>2, <2>3, EntriesFacts, ZenonT(60)
  <2>4. CASE Live(P, s, k) # {}
    <3>1. Latest(Live(P, s, k)) \in Live(P, s, k)
      <4>1. Live(P, s, k) \in SUBSET (1..Len(P)) BY <1>6 DEF Live
      <4> QED BY <1>2, <2>4, <4>1, LatestFacts
    <3>2. P2[Latest(Live(P, s, k))] = P[Latest(Live(P, s, k))] BY <1>1, <1>6, <3>1 DEF Live
    <3>3. Term(P2, s, k) = P2[Latest(Live(P, s, k))].term BY <1>1, <2>1, <2>2, <2>4, EntriesFacts, ZenonT(60)
    <3>4. Term(P, s, k) = P[Latest(Live(P, s, k))].term BY <2>1, <2>4, EntriesFacts
    <3> QED BY <3>2, <3>3, <3>4
  <2> QED BY <2>3, <2>4
<1> QED BY <1>8, <1>10, <1>11 DEF P2

\* Only the entries matter, and where they are.
LEMMA SameEntries ==
    ASSUME NEW P \in Seq(Record), NEW s \in Nat, NEW P2 \in Seq(Record),
           Positions(P2, "entry") = Positions(P, "entry"),
           \A p \in Positions(P, "entry") : P2[p] = P[p]
    PROVE  Entries(P2, s) = Entries(P, s)
<1>2. Positions(P2, "entry") = Positions(P, "entry") OBVIOUS
<1>3. \A p \in Positions(P, "entry") : P2[p] = P[p] OBVIOUS
<1>4. Above(P2, s) = Above(P, s) BY <1>2, <1>3 DEF Above
<1>5. Above(P, s) \in SUBSET (1..Len(P)) BY DEF Above, Positions
<1>6. \A p \in Above(P, s) : P2[p] = P[p]
  <2>1. \A p \in Above(P, s) : p \in Positions(P, "entry") BY DEF Above
  <2> QED BY <1>3, <2>1
<1>7. \A k : Live(P2, s, k) = Live(P, s, k) BY <1>4, <1>6 DEF Live
<1>8. \A k : Live(P, s, k) # {} => Latest(Live(P, s, k)) \in Live(P, s, k)
  <2> TAKE k
  <2>1. Live(P, s, k) \in SUBSET (1..Len(P)) /\ Len(P) \in Nat BY <1>5 DEF Live
  <2> QED BY <2>1, LatestFacts
<1>9. \A k : Live(P, s, k) # {} => P2[Latest(Live(P, s, k))] = P[Latest(Live(P, s, k))]
  BY <1>6, <1>8 DEF Live
<1>10. Above(P, s) # {} => P2[Latest(Above(P, s))] = P[Latest(Above(P, s))]
  <2>1. Len(P) \in Nat OBVIOUS
  <2>2. Above(P, s) # {} => Latest(Above(P, s)) \in Above(P, s) BY <1>5, <2>1, LatestFacts
  <2> QED BY <1>6, <2>2
<1>11. ASSUME NEW Q \in {P, P2}
       PROVE  LET last == IF Above(Q, s) = {} THEN 0 ELSE Q[Latest(Above(Q, s))].index - s
              IN  Entries(Q, s) = [k \in 1..last |-> IF Live(Q, s, s + k) = {} THEN 0
                                                     ELSE Q[Latest(Live(Q, s, s + k))].term]
  BY DEF Entries, Above, Live
<1>12. (IF Above(P2, s) = {} THEN 0 ELSE P2[Latest(Above(P2, s))].index - s)
       = (IF Above(P, s) = {} THEN 0 ELSE P[Latest(Above(P, s))].index - s)
  BY <1>4, <1>10
<1>13. \A k : (IF Live(P2, s, k) = {} THEN 0 ELSE P2[Latest(Live(P2, s, k))].term)
              = (IF Live(P, s, k) = {} THEN 0 ELSE P[Latest(Live(P, s, k))].term)
  BY <1>7, <1>9
<1> DEFINE last1 == IF Above(P, s) = {} THEN 0 ELSE P[Latest(Above(P, s))].index - s
           last2 == IF Above(P2, s) = {} THEN 0 ELSE P2[Latest(Above(P2, s))].index - s
           f1(k) == IF Live(P, s, k) = {} THEN 0 ELSE P[Latest(Live(P, s, k))].term
           f2(k) == IF Live(P2, s, k) = {} THEN 0 ELSE P2[Latest(Live(P2, s, k))].term
<1>14. Entries(P, s) = [k \in 1..last1 |-> f1(s + k)] BY <1>11
<1>15. Entries(P2, s) = [k \in 1..last2 |-> f2(s + k)] BY <1>11
<1>16. last1 = last2 /\ \A k : f1(k) = f2(k) BY <1>12, <1>13
<1> HIDE DEF last1, last2, f1, f2
<1> QED BY <1>14, <1>15, <1>16

\* Other records are no entries.
LEMMA AppendOtherFacts ==
    ASSUME NEW P \in Seq(Record), NEW s \in Nat, NEW e \in Record, e.type # "entry"
    PROVE  Entries(Append(P, e), s) = Entries(P, s)
<1> DEFINE P2 == Append(P, e)
<1>1. /\ P2 \in Seq(Record) /\ \A p \in 1..Len(P) : P2[p] = P[p]
      /\ \A t : Positions(P2, t) = Positions(P, t) \cup (IF e.type = t THEN {Len(P) + 1} ELSE {})
  BY AppendFacts
<1> HIDE DEF P2
<1>2. Positions(P2, "entry") = Positions(P, "entry") BY <1>1
<1>3. \A p \in Positions(P, "entry") : P2[p] = P[p] BY <1>1 DEF Positions
<1>4. Entries(P2, s) = Entries(P, s) BY <1>1, <1>2, <1>3, SameEntries
<1> QED BY <1>4 DEF P2

\* The HardState that is read is the one saved last.
LEMMA LastStateFacts ==
    ASSUME NEW P \in Seq(Record), NEW e \in Record
    PROVE  /\ LastState(P) \in HardState
           /\ LastState(Append(P, e)) = IF e.type = "state" THEN e.hs ELSE LastState(P)
           /\ Positions(P, "state") = {} => LastState(P) = EmptyState
           /\ Positions(P, "state") # {} =>
                 \E p \in Positions(P, "state") : LastState(P) = P[p].hs
<1> DEFINE P2 == Append(P, e)
           n  == Len(P) + 1
<1>1. /\ \A p \in 1..Len(P) : P2[p] = P[p]
      /\ P2[n] = e
      /\ \A t : Positions(P2, t) = Positions(P, t) \cup (IF e.type = t THEN {n} ELSE {})
  BY AppendFacts
<1>2. Positions(P, "state") \in SUBSET (1..Len(P)) /\ Len(P) \in Nat BY DEF Positions
<1>3. Positions(P, "state") # {} => Latest(Positions(P, "state")) \in Positions(P, "state")
  BY <1>2, LatestFacts
<1> HIDE DEF P2
<1>4. LastState(P) \in HardState
  <2>1. CASE Positions(P, "state") = {} BY <2>1 DEF LastState, EmptyState, HardState
  <2>2. CASE Positions(P, "state") # {}
    <3>1. P[Latest(Positions(P, "state"))] \in Record BY <1>2, <1>3, <2>2
    <3> QED BY <2>2, <3>1 DEF LastState, Record
  <2> QED BY <2>1, <2>2
<1>5. CASE e.type = "state"
  <2>1. Positions(P2, "state") = Positions(P, "state") \cup {n} BY <1>1, <1>5
  <2>2. Positions(P2, "state") \in SUBSET (1..n) /\ Positions(P2, "state") # {} /\ n \in Nat
    BY <1>2, <2>1
  <2>3. Latest(Positions(P2, "state")) = n
    <3>1. n \in Positions(P2, "state") BY <2>1
    <3>2. \A q \in Positions(P2, "state") : q <= n BY <2>2
    <3> QED BY <2>2, <3>1, <3>2, LatestIs
  <2>4. LastState(P2) = e.hs BY <1>1, <2>2, <2>3 DEF LastState
  <2> QED BY <1>3, <1>4, <1>5, <2>4 DEF P2, LastState
<1>6. CASE e.type # "state"
  <2>1. Positions(P2, "state") = Positions(P, "state") BY <1>1, <1>6
  <2>2. Positions(P, "state") # {} =>
           P2[Latest(Positions(P, "state"))] = P[Latest(Positions(P, "state"))]
    BY <1>1, <1>2, <1>3
  <2>3. LastState(P2) = LastState(P) BY <2>1, <2>2 DEF LastState
  <2> QED BY <1>3, <1>4, <1>6, <2>3 DEF P2, LastState
<1> QED BY <1>5, <1>6

-----------------------------------------------------------------------------
(* What the records of a log file are to each other. *)

\* Every entry above s + 1 follows the entry before it, and what stands between the
\* two displaces neither.
Gapless(P, s) ==
    \A p \in 1..Len(P) : P[p].type = "entry" /\ P[p].index > s + 1 =>
        \E q \in 1..p - 1 :
            /\ P[q].type = "entry" /\ P[q].index = P[p].index - 1
            /\ \A r \in q + 1..p - 1 : P[r].type = "entry" /\ P[r].index > s => P[r].index >= P[p].index

\* A position of Above, spelled out
LEMMA AboveFacts ==
    ASSUME NEW P \in Seq(Record), NEW s \in Nat
    PROVE  /\ \A p : p \in Above(P, s) <=> p \in 1..Len(P) /\ P[p].type = "entry" /\ P[p].index > s
           /\ \A p \in 1..Len(P) : P[p].index \in Nat /\ P[p].term \in Nat
           /\ Len(P) \in Nat
<1>1. \A p \in 1..Len(P) : P[p].index \in Nat /\ P[p].term \in Nat
  <2> TAKE p \in 1..Len(P)
  <2>1. P[p] \in Record OBVIOUS
  <2> QED BY <2>1 DEF Record
<1>2. Len(P) \in Nat OBVIOUS
<1> QED BY <1>1, <1>2 DEF Above, Positions

\* Nothing is missing below the end: read_all finds every entry.
LEMMA GaplessLive ==
    ASSUME NEW P \in Seq(Record), NEW s \in Nat, Gapless(P, s)
    PROVE  \A k \in s + 1..End(P, s) : Live(P, s, k) # {}
<1> DEFINE S == {k \in 1..End(P, s) : s < k /\ Live(P, s, k) = {}}
<1>0. SUFFICES ASSUME S # {} PROVE FALSE
  <2>1. \A k \in s + 1..End(P, s) : k \in 1..End(P, s) /\ s < k
    <3>1. End(P, s) \in Nat BY EntriesFacts
    <3> QED BY <3>1
  <2> QED BY <2>1
<1>1. /\ End(P, s) \in Nat /\ Above(P, s) \in SUBSET (1..Len(P)) /\ Len(P) \in Nat
      /\ End(P, s) = IF Above(P, s) = {} THEN s ELSE P[Latest(Above(P, s))].index
  <2>1. Len(P) \in Nat OBVIOUS
  <2> QED BY <2>1, EntriesFacts
<1> DEFINE k == Latest(S)
<1>2. k \in S /\ \A q \in S : q <= k
  <2>1. S \in SUBSET (1..End(P, s)) OBVIOUS
  <2> HIDE DEF S
  <2> QED BY <1>0, <1>1, <2>1, LatestFacts
<1> HIDE DEF k
<1>3. k \in Nat /\ s < k /\ k <= End(P, s) /\ Live(P, s, k) = {} BY <1>1, <1>2
<1>4. \A j \in Nat : s < j /\ j <= End(P, s) /\ Live(P, s, j) = {} => j <= k
  <2> TAKE j \in Nat
  <2> HAVE s < j /\ j <= End(P, s) /\ Live(P, s, j) = {}
  <2>1. j \in 1..End(P, s) BY <1>1
  <2> QED BY <1>2, <2>1
<1> HIDE DEF S
<1>5. Above(P, s) # {} BY <1>1, <1>3
<1> DEFINE last == Latest(Above(P, s))
<1>6. last \in Above(P, s) /\ \A q \in Above(P, s) : q <= last BY <1>1, <1>5, LatestFacts
<1>7. P[last].index = End(P, s) BY <1>1, <1>5
<1> HIDE DEF last
<1>8. last \in Live(P, s, End(P, s))
  <2>1. \A q \in Above(P, s) : ~(q > last) BY <1>1, <1>6
  <2> QED BY <1>6, <1>7, <2>1 DEF Live
<1>9. k + 1 <= End(P, s)
  <2>1. k # End(P, s) BY <1>3, <1>8
  <2> QED BY <1>1, <1>3, <2>1
<1>10. Live(P, s, k + 1) # {}
  <2>1. ~(k + 1 <= k) /\ s < k + 1 /\ k + 1 \in Nat BY <1>3
  <2> QED BY <1>4, <1>9, <2>1
<1>11. PICK p \in Live(P, s, k + 1) : TRUE BY <1>10
<1>12. /\ p \in Above(P, s) /\ P[p].index = k + 1
       /\ \A q \in Above(P, s) : q > p => P[q].index > k + 1
  BY <1>11 DEF Live
<1>13. p \in 1..Len(P) /\ P[p].type = "entry" /\ P[p].index > s + 1
  BY <1>3, <1>12, AboveFacts
<1>14. PICK q \in 1..p - 1 :
          /\ P[q].type = "entry" /\ P[q].index = P[p].index - 1
          /\ \A r \in q + 1..p - 1 : P[r].type = "entry" /\ P[r].index > s => P[r].index >= P[p].index
  BY <1>13 DEF Gapless
<1>15. P[q].index = k /\ q \in Above(P, s)
  <2>1. q \in 1..Len(P) BY <1>1, <1>13
  <2>2. P[q].index = k BY <1>3, <1>12, <1>14
  <2> QED BY <1>3, <1>14, <2>1, <2>2, AboveFacts
<1>16. \A x \in Above(P, s) : x > q => P[x].index > k
  <2> TAKE x \in Above(P, s)
  <2> HAVE x > q
  <2>1. x \in 1..Len(P) /\ P[x].type = "entry" /\ P[x].index > s /\ P[x].index \in Nat BY AboveFacts
  <2>2. CASE x < p
    <3>1. x \in q + 1..p - 1 BY <1>1, <1>13, <2>1, <2>2
    <3>2. P[x].index >= P[p].index BY <1>14, <2>1, <3>1
    <3> QED BY <1>3, <1>12, <2>1, <3>2
  <2>3. CASE x = p BY <1>3, <1>12, <2>3
  <2>4. CASE x > p
    <3>1. P[x].index > k + 1 BY <1>12, <2>4
    <3> QED BY <1>3, <2>1, <3>1
  <2> QED BY <1>13, <2>1, <2>2, <2>3, <2>4
<1>17. q \in Live(P, s, k) BY <1>15, <1>16 DEF Live
<1> QED BY <1>3, <1>17

\* A later snapshot hides entries and leaves no gap.
LEMMA GaplessHigher ==
    ASSUME NEW P \in Seq(Record), NEW s \in Nat, NEW s2 \in Nat, s <= s2, Gapless(P, s)
    PROVE  Gapless(P, s2)
<1>1. \A p \in 1..Len(P) : P[p].index \in Nat BY AboveFacts
<1>2. ASSUME NEW p \in 1..Len(P), P[p].type = "entry", P[p].index > s2 + 1
      PROVE  \E q \in 1..p - 1 :
                /\ P[q].type = "entry" /\ P[q].index = P[p].index - 1
                /\ \A r \in q + 1..p - 1 : P[r].type = "entry" /\ P[r].index > s2 => P[r].index >= P[p].index
  <2>1. P[p].index > s + 1 BY <1>1, <1>2
  <2>2. PICK q \in 1..p - 1 :
           /\ P[q].type = "entry" /\ P[q].index = P[p].index - 1
           /\ \A r \in q + 1..p - 1 : P[r].type = "entry" /\ P[r].index > s => P[r].index >= P[p].index
    BY <1>2, <2>1 DEF Gapless
  <2>3. \A r \in q + 1..p - 1 : P[r].index > s2 => P[r].index > s
    <3> TAKE r \in q + 1..p - 1
    <3>1. r \in 1..Len(P) BY AboveFacts
    <3> QED BY <1>1, <3>1
  <2> QED BY <2>2, <2>3
<1> QED BY <1>2 DEF Gapless

\* Nor does losing the end of the file.
LEMMA GaplessPrefix ==
    ASSUME NEW P \in Seq(Record), NEW s \in Nat, NEW n \in 0..Len(P), Gapless(P, s)
    PROVE  Gapless(SubSeq(P, 1, n), s)
<1> DEFINE P2 == SubSeq(P, 1, n)
<1>1. Len(P) \in Nat OBVIOUS
<1>2. Len(P2) = n /\ \A p \in 1..n : P2[p] = P[p] BY <1>1
<1> HIDE DEF P2
<1>3. ASSUME NEW p \in 1..n, P[p].type = "entry", P[p].index > s + 1
      PROVE  \E q \in 1..p - 1 :
                /\ P2[q].type = "entry" /\ P2[q].index = P[p].index - 1
                /\ \A r \in q + 1..p - 1 : P2[r].type = "entry" /\ P2[r].index > s => P2[r].index >= P[p].index
  <2>1. p \in 1..Len(P) BY <1>1
  <2>2. PICK q \in 1..p - 1 :
           /\ P[q].type = "entry" /\ P[q].index = P[p].index - 1
           /\ \A r \in q + 1..p - 1 : P[r].type = "entry" /\ P[r].index > s => P[r].index >= P[p].index
    BY <1>3, <2>1 DEF Gapless
  <2>3. q \in 1..n /\ \A r \in q + 1..p - 1 : r \in 1..n BY <1>1
  <2> QED BY <1>2, <2>2, <2>3
<1>4. Gapless(P2, s) BY <1>2, <1>3 DEF Gapless
<1> QED BY <1>4 DEF P2

\* What save appends: an entry that follows what is read, or none.
LEMMA GaplessAppend ==
    ASSUME NEW P \in Seq(Record), NEW s \in Nat, NEW e \in Record, Gapless(P, s),
           e.type = "entry" => e.index <= s + 1 \/ e.index - 1 <= End(P, s)
    PROVE  Gapless(Append(P, e), s)
<1> DEFINE P2 == Append(P, e)
           n  == Len(P) + 1
<1>1. Len(P) \in Nat /\ n \in Nat OBVIOUS
<1>2. Len(P2) = n /\ P2[n] = e /\ \A p \in 1..Len(P) : P2[p] = P[p] BY AppendFacts
<1> HIDE DEF P2
<1>3. ASSUME NEW p \in 1..Len(P), P[p].type = "entry", P[p].index > s + 1
      PROVE  \E q \in 1..p - 1 :
                /\ P2[q].type = "entry" /\ P2[q].index = P2[p].index - 1
                /\ \A r \in q + 1..p - 1 : P2[r].type = "entry" /\ P2[r].index > s => P2[r].index >= P2[p].index
  <2>1. PICK q \in 1..p - 1 :
           /\ P[q].type = "entry" /\ P[q].index = P[p].index - 1
           /\ \A r \in q + 1..p - 1 : P[r].type = "entry" /\ P[r].index > s => P[r].index >= P[p].index
    BY <1>3 DEF Gapless
  <2>2. q \in 1..Len(P) /\ \A r \in q + 1..p - 1 : r \in 1..Len(P) BY <1>1
  <2> QED BY <1>2, <2>1, <2>2
<1>4. ASSUME e.type = "entry", e.index > s + 1
      PROVE  \E q \in 1..n - 1 :
                /\ P2[q].type = "entry" /\ P2[q].index = e.index - 1
                /\ \A r \in q + 1..n - 1 : P2[r].type = "entry" /\ P2[r].index > s => P2[r].index >= e.index
  <2>1. e.index \in Nat /\ End(P, s) \in Nat
    <3>1. e.index \in Nat BY DEF Record
    <3> QED BY <3>1, EntriesFacts
  <2>2. e.index - 1 \in s + 1..End(P, s) BY <1>4, <2>1
  <2>3. PICK q \in Live(P, s, e.index - 1) : TRUE BY <2>2, GaplessLive
  <2>4. /\ q \in Above(P, s) /\ P[q].index = e.index - 1
        /\ \A r \in Above(P, s) : r > q => P[r].index > e.index - 1
    BY <2>3 DEF Live
  <2>5. q \in 1..Len(P) /\ P[q].type = "entry" BY <2>4, AboveFacts
  <2>6. ASSUME NEW r \in q + 1..n - 1, P2[r].type = "entry", P2[r].index > s
        PROVE  P2[r].index >= e.index
    <3>1. r \in 1..Len(P) /\ r > q BY <1>1, <2>5
    <3>2. P2[r] = P[r] BY <1>2, <3>1
    <3>3. r \in Above(P, s) BY <2>6, <3>1, <3>2, AboveFacts
    <3>4. P[r].index > e.index - 1 /\ P[r].index \in Nat BY <2>4, <3>1, <3>3, AboveFacts
    <3> QED BY <2>1, <3>2, <3>4
  <2>7. q \in 1..n - 1 /\ P2[q] = P[q] BY <1>1, <1>2, <2>5
  <2> QED BY <2>4, <2>5, <2>6, <2>7
<1>5. ASSUME NEW p \in 1..n, P2[p].type = "entry", P2[p].index > s + 1
      PROVE  \E q \in 1..p - 1 :
                /\ P2[q].type = "entry" /\ P2[q].index = P2[p].index - 1
                /\ \A r \in q + 1..p - 1 : P2[r].type = "entry" /\ P2[r].index > s => P2[r].index >= P2[p].index
  <2>1. CASE p = n BY <1>2, <1>4, <1>5, <2>1
  <2>2. CASE p # n
    <3>1. p \in 1..Len(P) BY <1>1, <2>2
    <3>2. P2[p] = P[p] BY <1>2, <3>1
    <3> QED BY <1>3, <1>5, <3>1, <3>2
  <2> QED BY <2>1, <2>2
<1>6. Gapless(P2, s) BY <1>2, <1>5 DEF Gapless
<1> QED BY <1>6 DEF P2

\* What a later snapshot leaves of a log that reaches beyond it is read as before.
LEMMA EntriesHigher ==
    ASSUME NEW P \in Seq(Record), NEW s \in Nat, NEW s2 \in Nat, s <= s2, Gapless(P, s),
           s2 < End(P, s)
    PROVE  End(P, s2) = End(P, s) /\ \A k \in s2 + 1..End(P, s) : Term(P, s2, k) = Term(P, s, k)
<1> DEFINE last == Latest(Above(P, s))
<1>1. /\ Above(P, s) \in SUBSET (1..Len(P)) /\ Above(P, s2) \in SUBSET (1..Len(P))
      /\ Len(P) \in Nat /\ End(P, s) \in Nat /\ End(P, s2) \in Nat
      /\ End(P, s) = IF Above(P, s) = {} THEN s ELSE P[last].index
      /\ \A k \in Nat : Live(P, s, k) \in SUBSET (1..Len(P))
      /\ \A k \in Nat : Live(P, s2, k) \in SUBSET (1..Len(P))
  <2>1. /\ Above(P, s) \in SUBSET (1..Len(P)) /\ End(P, s) \in Nat
        /\ End(P, s) = IF Above(P, s) = {} THEN s ELSE P[last].index
        /\ \A k \in Nat : Live(P, s, k) \in SUBSET (1..Len(P))
    BY EntriesFacts
  <2>2. /\ Above(P, s2) \in SUBSET (1..Len(P)) /\ End(P, s2) \in Nat
        /\ \A k \in Nat : Live(P, s2, k) \in SUBSET (1..Len(P))
    BY EntriesFacts
  <2> QED BY <2>1, <2>2
<1>2. Above(P, s) # {} BY <1>1
<1>3. last \in Above(P, s) /\ \A q \in Above(P, s) : q <= last BY <1>1, <1>2, LatestFacts
<1>4. P[last].index = End(P, s) BY <1>1, <1>2
<1> HIDE DEF last
<1>5. \A p : p \in Above(P, s2) <=> p \in Above(P, s) /\ P[p].index > s2
  <2> TAKE p
  <2>1. p \in 1..Len(P) /\ P[p].index > s2 => P[p].index > s BY AboveFacts
  <2> QED BY <2>1, AboveFacts
<1>6. last \in Above(P, s2) BY <1>3, <1>4, <1>5
<1>7. Latest(Above(P, s2)) = last BY <1>1, <1>3, <1>5, <1>6, LatestIs
<1>8. End(P, s2) = End(P, s)
  <2>1. End(P, s2) = IF Above(P, s2) = {} THEN s2 ELSE P[Latest(Above(P, s2))].index BY EntriesFacts
  <2> QED BY <1>4, <1>6, <1>7, <2>1
<1>9. ASSUME NEW k \in s2 + 1..End(P, s)
      PROVE  Term(P, s2, k) = Term(P, s, k)
  <2> DEFINE p == Latest(Live(P, s, k))
  <2>1. k \in Nat /\ k \in s + 1..End(P, s) /\ k \in s2 + 1..End(P, s2) /\ s2 < k
    BY <1>1, <1>8
  <2>2. Live(P, s, k) # {} BY <2>1, GaplessLive
  <2>3. p \in Live(P, s, k) /\ \A q \in Live(P, s, k) : q <= p
    BY <1>1, <2>1, <2>2, LatestFacts
  <2>4. Term(P, s, k) = P[p].term BY <2>1, <2>2, EntriesFacts
  <2> HIDE DEF p
  <2>5. /\ p \in Above(P, s) /\ P[p].index = k
        /\ \A q \in Above(P, s) : q > p => P[q].index > k
    BY <2>3 DEF Live
  <2>6. p \in Live(P, s2, k) BY <1>5, <2>1, <2>5 DEF Live
  <2>7. ASSUME NEW q \in Live(P, s2, k) PROVE q <= p
    <3>1. q \in Above(P, s) /\ P[q].index = k BY <1>5 DEF Live
    <3>2. ~(q > p)
      <4>1. ~(k > k) BY <2>1
      <4> QED BY <2>5, <3>1, <4>1
    <3>3. q \in Nat /\ p \in Nat BY <1>1, <2>5, <3>1
    <3> QED BY <3>2, <3>3
  <2>8. Latest(Live(P, s2, k)) = p BY <1>1, <2>1, <2>6, <2>7, LatestIs
  <2>9. Term(P, s2, k) = P[Latest(Live(P, s2, k))].term BY <2>1, <2>6, EntriesFacts
  <2> QED BY <2>4, <2>8, <2>9
<1> QED BY <1>8, <1>9

-----------------------------------------------------------------------------
(* Parts of files. *)

\* Files of the same records in the same order are the same.
LEMMA SameRecords ==
    ASSUME NEW P \in Seq(Record), NEW Q \in Seq(Record), Len(P) = Len(Q),
           \A p \in 1..Len(P) : P[p] = Q[p]
    PROVE  P = Q
OBVIOUS

\* What Concat yields
LEMMA ConcatFacts ==
    ASSUME NEW P \in Seq(Record), NEW Q \in Seq(Record)
    PROVE  /\ P \o Q \in Seq(Record) /\ Len(P \o Q) = Len(P) + Len(Q)
           /\ \A p \in 1..Len(P) : (P \o Q)[p] = P[p]
           /\ \A p \in 1..Len(Q) : (P \o Q)[Len(P) + p] = Q[p]
OBVIOUS

\* Appending at the end of the last part
LEMMA ConcatAppend ==
    ASSUME NEW P \in Seq(Record), NEW Q \in Seq(Record), NEW e \in Record
    PROVE  P \o Append(Q, e) = Append(P \o Q, e)
<1> DEFINE A == P \o Append(Q, e)
           B == Append(P \o Q, e)
           D == P \o Q
           Q2 == Append(Q, e)
<1>1. Len(P) \in Nat /\ Len(Q) \in Nat OBVIOUS
<1>2. Q2 \in Seq(Record) /\ Len(Q2) = Len(Q) + 1 /\ Q2[Len(Q) + 1] = e /\ \A p \in 1..Len(Q) : Q2[p] = Q[p]
  OBVIOUS
<1>3. /\ D \in Seq(Record) /\ Len(D) = Len(P) + Len(Q)
      /\ \A p \in 1..Len(P) : D[p] = P[p]
      /\ \A p \in 1..Len(Q) : D[Len(P) + p] = Q[p]
  BY ConcatFacts
<1> HIDE DEF Q2
<1>4. /\ A \in Seq(Record) /\ Len(A) = Len(P) + Len(Q2)
      /\ \A p \in 1..Len(P) : A[p] = P[p]
      /\ \A p \in 1..Len(Q2) : A[Len(P) + p] = Q2[p]
  BY <1>2, ConcatFacts DEF Q2
<1> HIDE DEF D
<1>5. B \in Seq(Record) /\ Len(B) = Len(D) + 1 /\ B[Len(D) + 1] = e /\ \A p \in 1..Len(D) : B[p] = D[p]
  BY <1>3 DEF D
<1> HIDE DEF A, B
<1>6. Len(A) = Len(B) BY <1>1, <1>2, <1>3, <1>4, <1>5
<1>7. ASSUME NEW p \in 1..Len(A) PROVE A[p] = B[p]
  <2>1. CASE p \in 1..Len(P) BY <1>1, <1>3, <1>4, <1>5, <2>1
  <2>2. CASE p \notin 1..Len(P) /\ p # Len(A)
    <3> DEFINE q == p - Len(P)
    <3>0. Len(A) = Len(P) + Len(Q) + 1 /\ p \in 1..Len(A) BY <1>1, <1>2, <1>4
    <3>1. q \in 1..Len(Q) /\ p = Len(P) + q BY <1>1, <2>2, <3>0
    <3>2. q \in 1..Len(Q2) /\ p \in 1..Len(D) BY <1>1, <1>2, <1>3, <3>1
    <3> HIDE DEF q
    <3> QED BY <1>2, <1>3, <1>4, <1>5, <3>1, <3>2
  <2>3. CASE p = Len(A)
    <3>1. A[p] = Q2[Len(Q) + 1] BY <1>1, <1>2, <1>4, <2>3
    <3>2. p = Len(D) + 1 BY <1>1, <1>2, <1>3, <1>4, <2>3
    <3> QED BY <1>2, <1>5, <3>1, <3>2
  <2> QED BY <2>1, <2>2, <2>3
<1>8. A = B BY <1>4, <1>5, <1>6, <1>7, SameRecords
<1> QED BY <1>8 DEF A, B, D

\* The three places of a record, in any grouping
LEMMA ConcatThree ==
    ASSUME NEW P \in Seq(Record), NEW Q \in Seq(Record), NEW R \in Seq(Record)
    PROVE  /\ (P \o Q) \o R = P \o (Q \o R)
           /\ P \o <<>> = P /\ <<>> \o P = P /\ \A e \in Record : <<e>> \in Seq(Record) /\ P \o <<e>> = Append(P, e)
OBVIOUS

\* Parts of a file
LEMMA PrefixFacts ==
    ASSUME NEW P \in Seq(Record), NEW n \in 0..Len(P)
    PROVE  LET P2 == SubSeq(P, 1, n)
           IN  /\ P2 \in Seq(Record) /\ Len(P2) = n /\ \A p \in 1..n : P2[p] = P[p]
               /\ n = Len(P) => P2 = P
               /\ \A m \in 0..n : SubSeq(P2, 1, m) = SubSeq(P, 1, m)
<1> DEFINE P2 == SubSeq(P, 1, n)
<1>1. Len(P) \in Nat OBVIOUS
<1>2. P2 \in Seq(Record) /\ Len(P2) = n /\ \A p \in 1..n : P2[p] = P[p] BY <1>1
<1> HIDE DEF P2
<1>3. n = Len(P) => P2 = P BY <1>2, SameRecords
<1>4. ASSUME NEW m \in 0..n PROVE SubSeq(P2, 1, m) = SubSeq(P, 1, m)
  <2> DEFINE A == SubSeq(P2, 1, m)
             B == SubSeq(P, 1, m)
  <2>1. A \in Seq(Record) /\ Len(A) = m /\ \A p \in 1..m : A[p] = P2[p] BY <1>1, <1>2
  <2>2. B \in Seq(Record) /\ Len(B) = m /\ \A p \in 1..m : B[p] = P[p] BY <1>1
  <2>3. \A p \in 1..m : p \in 1..n BY <1>1
  <2> HIDE DEF A, B
  <2>4. A = B BY <1>2, <2>1, <2>2, <2>3, SameRecords
  <2> QED BY <2>4 DEF A, B
<1> QED BY <1>2, <1>3, <1>4 DEF P2

\* What stands before the end of a longer file
LEMMA ConcatPrefix ==
    ASSUME NEW P \in Seq(Record), NEW Q \in Seq(Record), NEW k \in 0..Len(Q)
    PROVE  /\ P \o SubSeq(Q, 1, k) = SubSeq(P \o Q, 1, Len(P) + k)
           /\ Len(P) + k \in 0..Len(P \o Q)
<1> DEFINE Q2 == SubSeq(Q, 1, k)
           D  == P \o Q
           A  == P \o Q2
           B  == SubSeq(D, 1, Len(P) + k)
<1>1. Len(P) \in Nat /\ Len(Q) \in Nat OBVIOUS
<1>2. Q2 \in Seq(Record) /\ Len(Q2) = k /\ \A p \in 1..k : Q2[p] = Q[p] BY PrefixFacts
<1>3. /\ D \in Seq(Record) /\ Len(D) = Len(P) + Len(Q)
      /\ \A p \in 1..Len(P) : D[p] = P[p]
      /\ \A p \in 1..Len(Q) : D[Len(P) + p] = Q[p]
  BY ConcatFacts
<1>4. Len(P) + k \in 0..Len(D) BY <1>1, <1>3
<1> HIDE DEF D, Q2
<1>5. B \in Seq(Record) /\ Len(B) = Len(P) + k /\ \A p \in 1..Len(P) + k : B[p] = D[p]
  BY <1>3, <1>4, PrefixFacts
<1>6. /\ A \in Seq(Record) /\ Len(A) = Len(P) + Len(Q2)
      /\ \A p \in 1..Len(P) : A[p] = P[p]
      /\ \A p \in 1..Len(Q2) : A[Len(P) + p] = Q2[p]
  BY <1>2, ConcatFacts
<1> HIDE DEF A, B
<1>7. ASSUME NEW p \in 1..Len(A) PROVE A[p] = B[p]
  <2>1. CASE p \in 1..Len(P) BY <1>1, <1>2, <1>3, <1>5, <1>6, <2>1
  <2>2. CASE p \notin 1..Len(P)
    <3> DEFINE q == p - Len(P)
    <3>1. q \in 1..k /\ p = Len(P) + q BY <1>1, <1>2, <1>6, <2>2
    <3>2. q \in 1..Len(Q) /\ p \in 1..Len(P) + k BY <1>1, <3>1
    <3> HIDE DEF q
    <3> QED BY <1>2, <1>3, <1>5, <1>6, <3>1, <3>2
  <2> QED BY <2>1, <2>2
<1>8. A = B BY <1>1, <1>2, <1>5, <1>6, <1>7, SameRecords
<1> QED BY <1>4, <1>8 DEF A, B, D, Q2

\* What stands before the record that is appended
LEMMA AppendPrefix ==
    ASSUME NEW P \in Seq(Record), NEW e \in Record, NEW n \in 0..Len(P)
    PROVE  SubSeq(Append(P, e), 1, n) = SubSeq(P, 1, n)
<1> DEFINE P2 == Append(P, e)
           A == SubSeq(P2, 1, n)
           B == SubSeq(P, 1, n)
<1>1. P2 \in Seq(Record) /\ Len(P2) = Len(P) + 1 /\ \A p \in 1..Len(P) : P2[p] = P[p] BY AppendFacts
<1>2. Len(P) \in Nat /\ n \in 0..Len(P) + 1 /\ \A p \in 1..n : p \in 1..Len(P) OBVIOUS
<1> HIDE DEF P2
<1>3. A \in Seq(Record) /\ Len(A) = n /\ \A p \in 1..n : A[p] = P2[p] BY <1>1, <1>2, PrefixFacts
<1>4. B \in Seq(Record) /\ Len(B) = n /\ \A p \in 1..n : B[p] = P[p] BY PrefixFacts
<1> HIDE DEF A, B
<1>5. A = B BY <1>1, <1>2, <1>3, <1>4, SameRecords
<1> QED BY <1>5 DEF A, B, P2

-----------------------------------------------------------------------------
(* Broken ends of files. *)

Intact(P) == \A p \in 1..Len(P) : P[p].type # "torn"

\* read_all stops at the first broken record.
LEMMA ReadableFacts ==
    ASSUME NEW P \in Seq(Record)
    PROVE  \E m \in 0..Len(P) :
              /\ Readable(P) = SubSeq(P, 1, m)
              /\ \A k \in 1..m : P[k].type # "torn"
              /\ m < Len(P) => P[m + 1].type = "torn"
<1> DEFINE S == {n \in 1..Len(P) : \A k \in 1..n : P[k].type # "torn"}
           m == IF S = {} THEN 0 ELSE Latest(S)
<1>1. Len(P) \in Nat /\ S \in SUBSET (1..Len(P)) OBVIOUS
<1>2. /\ \A n : n \in S => \A k \in 1..n : P[k].type # "torn"
      /\ \A n \in 1..Len(P) : (\A k \in 1..n : P[k].type # "torn") => n \in S
      /\ Readable(P) = SubSeq(P, 1, Cardinality(S))
  BY DEF Readable
<1> HIDE DEF S
<1>3. m \in 0..Len(P) /\ (\A n \in S : n <= m) /\ (m # 0 => m \in S)
  <2>1. CASE S = {} BY <1>1, <2>1
  <2>2. CASE S # {}
    <3>1. Latest(S) \in S /\ \A q \in S : q <= Latest(S) BY <1>1, <2>2, LatestFacts
    <3>2. m = Latest(S) BY <2>2
    <3> HIDE DEF m
    <3>3. m \in S /\ \A q \in S : q <= m BY <3>1, <3>2
    <3>4. m \in 1..Len(P) BY <1>1, <3>3
    <3> QED BY <1>1, <3>3, <3>4
  <2> QED BY <2>1, <2>2
<1> HIDE DEF m
<1>4. \A k \in 1..m : P[k].type # "torn" BY <1>2, <1>3
<1>5. S = 1..m
  <2>1. \A n \in 1..m : n \in 1..Len(P) /\ \A k \in 1..n : k \in 1..m BY <1>1, <1>3
  <2>2. \A n \in 1..m : n \in S BY <1>2, <1>4, <2>1
  <2>3. \A n \in S : n \in 1..m BY <1>1, <1>3
  <2> QED BY <2>2, <2>3
<1>6. Cardinality(S) = m
  <2>1. Cardinality(1..m) = IF 1 > m THEN 0 ELSE m - 1 + 1 BY <1>3, FS_Interval
  <2> QED BY <1>3, <1>5, <2>1
<1>7. ASSUME m < Len(P) PROVE P[m + 1].type = "torn"
  <2>1. m + 1 \in 1..Len(P) /\ m + 1 \notin S BY <1>1, <1>3, <1>7
  <2>2. PICK k \in 1..m + 1 : P[k].type = "torn" BY <1>2, <2>1
  <2>3. k = m + 1 BY <1>3, <1>4, <2>2
  <2> QED BY <2>2, <2>3
<1> QED BY <1>2, <1>3, <1>4, <1>6, <1>7

\* read_all reads an intact file whole, ...
LEMMA ReadableIntact ==
    ASSUME NEW P \in Seq(Record), Intact(P)
    PROVE  Readable(P) = P
<1>1. PICK m \in 0..Len(P) :
        /\ Readable(P) = SubSeq(P, 1, m)
        /\ m < Len(P) => P[m + 1].type = "torn"
  BY ReadableFacts
<1>2. Len(P) \in Nat OBVIOUS
<1>3. m = Len(P)
  <2> SUFFICES ASSUME m < Len(P) PROVE FALSE BY <1>2
  <2> DEFINE k == m + 1
  <2>1. k \in 1..Len(P) BY <1>2
  <2>2. P[k].type = "torn" BY <1>1
  <2> HIDE DEF k
  <2> QED BY <2>1, <2>2 DEF Intact
<1>4. SubSeq(P, 1, m) = P BY <1>3, PrefixFacts
<1> QED BY <1>1, <1>4

\* ... of a file with a broken end what stands before it, ...
LEMMA ReadableTorn ==
    ASSUME NEW P \in Seq(Record), Intact(P)
    PROVE  Readable(P \o <<TornRecord>>) = P
<1> DEFINE P2 == P \o <<TornRecord>>
<1>1. TornRecord \in Record BY DEF TornRecord, Record, EmptyState, HardState
<1>2. P2 = Append(P, TornRecord) BY <1>1, ConcatThree
<1>3. /\ P2 \in Seq(Record) /\ Len(P2) = Len(P) + 1 /\ P2[Len(P) + 1] = TornRecord
      /\ \A p \in 1..Len(P) : P2[p] = P[p]
  BY <1>1, <1>2, AppendFacts
<1>4. Len(P) \in Nat OBVIOUS
<1> HIDE DEF P2
<1>5. PICK m \in 0..Len(P2) :
        /\ Readable(P2) = SubSeq(P2, 1, m)
        /\ \A k \in 1..m : P2[k].type # "torn"
        /\ m < Len(P2) => P2[m + 1].type = "torn"
  BY <1>3, ReadableFacts
<1>6. m # Len(P) + 1
  <2> SUFFICES ASSUME m = Len(P) + 1 PROVE FALSE OBVIOUS
  <2>1. m \in 1..m BY <1>4
  <2>2. P2[m] = TornRecord BY <1>3
  <2> QED BY <1>5, <2>1, <2>2 DEF TornRecord
<1>7. m = Len(P)
  <2> SUFFICES ASSUME m < Len(P) PROVE FALSE BY <1>3, <1>4, <1>6
  <2> DEFINE k == m + 1
  <2>1. k \in 1..Len(P) /\ m < Len(P2) BY <1>3, <1>4
  <2>2. P2[k].type = "torn" BY <1>5, <2>1
  <2> HIDE DEF k
  <2> QED BY <1>3, <2>1, <2>2 DEF Intact
<1>8. SubSeq(P2, 1, m) = SubSeq(P, 1, m)
  <2>1. m \in 0..Len(P) BY <1>4, <1>7
  <2> QED BY <1>1, <1>2, <2>1, AppendPrefix
<1>9. SubSeq(P, 1, m) = P
  <2>1. Len(P) \in 0..Len(P) BY <1>4
  <2> QED BY <1>7, <2>1, PrefixFacts
<1> QED BY <1>5, <1>8, <1>9 DEF P2

\* ... and leaves a file that is intact.
LEMMA ReadableType ==
    ASSUME NEW P \in Seq(Record)
    PROVE  Readable(P) \in Seq(Record) /\ Intact(Readable(P)) /\ Readable(Readable(P)) = Readable(P)
<1>1. PICK m \in 0..Len(P) :
        /\ Readable(P) = SubSeq(P, 1, m)
        /\ \A k \in 1..m : P[k].type # "torn"
  BY ReadableFacts
<1> DEFINE R == Readable(P)
<1>2. R \in Seq(Record) /\ Len(R) = m /\ \A p \in 1..m : R[p] = P[p] BY <1>1, PrefixFacts
<1> HIDE DEF R
<1>3. Intact(R) BY <1>1, <1>2 DEF Intact
<1>4. Readable(R) = R BY <1>2, <1>3, ReadableIntact
<1> QED BY <1>2, <1>3, <1>4 DEF R

-----------------------------------------------------------------------------
(* Snapshot files. *)

\* Each name is there once, and whichever files can be read, one of them is the
\* newest (which load looks for).
Files(files) ==
    /\ \A f \in files : f \in SnapFile
    /\ \A f, g \in files : f.index = g.index /\ f.term = g.term => f = g
    /\ \A S \in SUBSET files : S # {} => \E f \in S : \A g \in S : g = f \/ Newer(f, g)

\* No file is newer than one that is newer than it.
LEMMA NewerFacts ==
    ASSUME NEW f \in SnapFile, NEW g \in SnapFile
    PROVE  /\ ~(Newer(f, g) /\ Newer(g, f))
           /\ Newer(f, g) \/ Newer(g, f) \/ (f.index = g.index /\ f.term = g.term)
           /\ \A h \in SnapFile : Newer(f, g) /\ Newer(g, h) => Newer(f, h)
<1>1. \A x \in SnapFile : x.index \in Nat /\ x.term \in Nat BY DEF SnapFile
<1>2. /\ f.index \in Nat /\ f.term \in Nat /\ g.index \in Nat /\ g.term \in Nat BY <1>1
<1>3. ASSUME NEW h \in SnapFile, Newer(f, g), Newer(g, h) PROVE Newer(f, h)
  <2>1. h.index \in Nat /\ h.term \in Nat BY <1>1
  <2> QED BY <1>2, <1>3, <2>1 DEF Newer
<1> QED BY <1>2, <1>3 DEF Newer

\* Fewer files
LEMMA FewerFiles ==
    ASSUME NEW files, Files(files), NEW fewer \in SUBSET files
    PROVE  Files(fewer)
BY DEF Files

\* A file that is written takes the place of one of its name.
LEMMA FileAdded ==
    ASSUME NEW files, Files(files), NEW i \in Nat, NEW t \in Nat, NEW b \in BOOLEAN
    PROVE  Files({f \in files : ~(f.index = i /\ f.term = t)} \cup {[index |-> i, term |-> t, whole |-> b]})
<1> DEFINE x == [index |-> i, term |-> t, whole |-> b]
           F == {f \in files : ~(f.index = i /\ f.term = t)}
<1>1. x \in SnapFile /\ x.index = i /\ x.term = t BY DEF SnapFile
<1>2. \A f \in F : f \in files /\ f \in SnapFile /\ ~(f.index = i /\ f.term = t) BY DEF Files
<1>3. Files(F) BY FewerFiles
<1> HIDE DEF F, x
<1>4. \A f \in F \cup {x} : f \in SnapFile BY <1>1, <1>2
<1>5. \A f, g \in F \cup {x} : f.index = g.index /\ f.term = g.term => f = g
  BY <1>1, <1>2, <1>3 DEF Files
<1>6. ASSUME NEW S \in SUBSET (F \cup {x}), S # {}
      PROVE  \E f \in S : \A g \in S : g = f \/ Newer(f, g)
  <2> DEFINE T == S \ {x}
  <2>1. CASE T = {}
    <3>1. S = {x} BY <1>6, <2>1
    <3> QED BY <3>1
  <2>2. CASE T # {}
    <3>1. T \in SUBSET F OBVIOUS
    <3>2. PICK f \in T : \A g \in T : g = f \/ Newer(f, g) BY <1>3, <2>2, <3>1 DEF Files
    <3>3. f \in S /\ f \in F /\ f \in SnapFile /\ \A g \in S : g \in T \/ g = x BY <1>2
    <3>4. CASE x \notin S \/ Newer(f, x) BY <3>2, <3>3, <3>4
    <3>5. CASE x \in S /\ ~Newer(f, x)
      <4>1. Newer(x, f) BY <1>1, <1>2, <3>3, <3>5, NewerFacts
      <4>2. \A g \in T : g = f \/ Newer(x, g)
        <5> TAKE g \in T
        <5>1. g \in SnapFile BY <1>2
        <5> QED BY <1>1, <3>2, <3>3, <4>1, <5>1, NewerFacts
      <4>3. \A g \in S : g = x \/ Newer(x, g) BY <3>3, <4>1, <4>2
      <4> QED BY <3>5, <4>3
    <3> QED BY <3>4, <3>5
  <2> QED BY <2>1, <2>2
<1>7. Files(F \cup {x}) BY <1>4, <1>5, <1>6 DEF Files
<1> QED BY <1>7 DEF F, x

\* Snapshotter::load finds the newest file that can be read, if there is one.
LEMMA LoadFacts ==
    ASSUME NEW files, Files(files)
    PROVE  LET s == load(files)
           IN  /\ s \in SnapFile
               /\ s \in files \/ (s.index = 0 /\ s.term = 0 /\ \A f \in files : ~f.whole)
               /\ s.whole
               /\ \A f \in files : f.whole => f = s \/ Newer(s, f)
<1> DEFINE whole == {f \in files : f.whole}
           none == [index |-> 0, term |-> 0, whole |-> TRUE]
           s == load(files)
<1>1. s = IF whole = {} THEN none ELSE CHOOSE f \in whole : \A g \in whole : g = f \/ Newer(f, g)
  BY DEF load
<1>2. none \in SnapFile /\ none.index = 0 /\ none.term = 0 /\ none.whole BY DEF SnapFile
<1>3. whole \in SUBSET files /\ \A f \in files : f.whole <=> f \in whole OBVIOUS
<1> HIDE DEF s, whole, none
<1>4. CASE whole = {}
  <2>1. s = none /\ \A f \in files : ~f.whole BY <1>1, <1>3, <1>4
  <2> QED BY <1>2, <2>1 DEF s
<1>5. CASE whole # {}
  <2>1. \E f \in whole : \A g \in whole : g = f \/ Newer(f, g) BY <1>3, <1>5 DEF Files
  <2>2. s = CHOOSE f \in whole : \A g \in whole : g = f \/ Newer(f, g) BY <1>1, <1>5
  <2>3. s \in whole /\ \A g \in whole : g = s \/ Newer(s, g) BY <2>1, <2>2
  <2>4. s \in files /\ s.whole /\ s \in SnapFile BY <1>3, <2>3 DEF Files
  <2> QED BY <1>3, <2>3, <2>4 DEF s
<1> QED BY <1>4, <1>5

\* The newest one is what load finds.
LEMMA LoadIs ==
    ASSUME NEW files, Files(files), NEW n \in files, n.whole,
           \A f \in files : f.whole => f = n \/ Newer(n, f)
    PROVE  load(files) = n
<1> DEFINE s == load(files)
<1>1. /\ s \in files \/ \A f \in files : ~f.whole
      /\ s.whole /\ \A f \in files : f.whole => f = s \/ Newer(s, f)
  BY LoadFacts
<1> HIDE DEF s
<1>2. s \in files BY <1>1
<1>3. s \in SnapFile /\ n \in SnapFile BY <1>2 DEF Files
<1>4. (n = s \/ Newer(s, n)) /\ (s = n \/ Newer(n, s)) BY <1>1, <1>2
<1>5. s = n BY <1>3, <1>4, NewerFacts
<1> QED BY <1>5 DEF s

\* What load finds depends on the files that can be read alone.
LEMMA LoadSame ==
    ASSUME NEW files, NEW others, \A f : f \in files /\ f.whole <=> f \in others /\ f.whole
    PROVE  load(files) = load(others)
<1> DEFINE pick(W) == IF W = {} THEN [index |-> 0, term |-> 0, whole |-> TRUE]
                      ELSE CHOOSE f \in W : \A g \in W : g = f \/ Newer(f, g)
           W1 == {f \in files : f.whole}
           W2 == {f \in others : f.whole}
<1>1. W1 = W2 OBVIOUS
<1>2. load(files) = pick(W1) /\ load(others) = pick(W2) BY DEF load
<1> HIDE DEF W1, W2
<1> QED BY <1>1, <1>2

-----------------------------------------------------------------------------
(* Types, and where RaftNode is. *)

Up == pc \in {"save", "snap_record", "snap_open", "snap_write", "publish", "idle"}
Writing == {"snap_record", "snap_open", "snap_write"}

\* TypeOK, with what it leaves open
Typed ==
    /\ dir \in {"none", "empty", "ready"} /\ wal \in WALType /\ Files(snaps)
    /\ raft \in RaftType /\ prev_hs \in HardState /\ pc \in Place
    /\ applied \in Nat /\ snapshot_index \in Nat /\ chosen \in Seq(Nat)
    /\ rd \in [hs : HardState, entries : Seq(Record), snap : Nat]
    /\ saving \in [index : Nat, term : Nat, install : BOOLEAN]
    /\ snapshot_index <= applied /\ applied <= raft.commit /\ raft.commit <= Len(raft.log)

\* What is still under way at each place of RaftNode
Staged ==
    /\ dir = "none" => pc = "down" /\ damage = {}
    /\ pc = "create" => dir = "empty"
    /\ dir = "empty" /\ pc # "create" => "create" \in damage
    /\ dir # "ready" => snaps = {} /\ chosen = <<>>
    /\ Up => dir = "ready"
    /\ pc \in Writing => /\ saving.index = raft.commit /\ saving.index > snapshot_index
                         /\ saving.term = raft.log[raft.commit]
                         /\ saving.install => saving.index = Len(raft.log)
    /\ pc \notin Writing => saving = NoSnapshot
    /\ pc = "save" => \/ rd.snap = 0
                      \/ /\ rd.snap = raft.commit /\ rd.snap = Len(raft.log)
                         /\ rd.entries = <<>> /\ rd.snap > snapshot_index
    /\ pc \in {"down", "create"} => /\ snapshot_index = 0 /\ applied = 0
                                    /\ wal.stdio = <<>> /\ wal.data_buffer = <<>>

\* The records of the model are records.
LEMMA SmallTypes ==
    /\ EmptyState \in HardState
    /\ NewRaft \in RaftType /\ NewRaft.commit = 0 /\ NewRaft.log = <<>> /\ Len(NewRaft.log) = 0
    /\ NoReady \in [hs : HardState, entries : Seq(Record), snap : Nat] /\ NoReady.snap = 0
    /\ NoSnapshot \in [index : Nat, term : Nat, install : BOOLEAN] /\ ~NoSnapshot.install
    /\ \A i \in Nat, t \in Nat : SnapshotRecord(i, t) \in Record /\ EntryRecord(i, t) \in Record
    /\ \A hs \in HardState : StateRecord(hs) \in Record
    /\ \A P \in Seq(Record) : OpenWAL(P) \in WALType
<1>1. EmptyState \in HardState BY DEF EmptyState, HardState
<1>2. ASSUME NEW e \in Seq(Nat), e = <<>>
      PROVE  [term |-> 0, vote |-> 0, commit |-> 0, log |-> e] \in RaftType
  BY DEF RaftType
<1>3. <<>> \in Seq(Nat) /\ <<>> \in Seq(Record) OBVIOUS
<1>4. NewRaft \in RaftType BY <1>2, <1>3 DEF NewRaft
<1>5. NewRaft.commit = 0 /\ NewRaft.log = <<>> /\ Len(NewRaft.log) = 0 BY DEF NewRaft
<1>6. ASSUME NEW e \in Seq(Record)
      PROVE  [hs |-> EmptyState, entries |-> e, snap |-> 0] \in [hs : HardState, entries : Seq(Record), snap : Nat]
  BY <1>1
<1>7. NoReady \in [hs : HardState, entries : Seq(Record), snap : Nat] /\ NoReady.snap = 0
  BY <1>3, <1>6 DEF NoReady
<1>8. NoSnapshot \in [index : Nat, term : Nat, install : BOOLEAN] /\ ~NoSnapshot.install BY DEF NoSnapshot
<1>9. ASSUME NEW i \in Nat, NEW t \in Nat
      PROVE  SnapshotRecord(i, t) \in Record /\ EntryRecord(i, t) \in Record
  BY <1>1 DEF SnapshotRecord, EntryRecord, Record
<1>10. ASSUME NEW hs \in HardState PROVE StateRecord(hs) \in Record BY DEF StateRecord, Record
<1>11. ASSUME NEW P \in Seq(Record) PROVE OpenWAL(P) \in WALType
  <2>1. ASSUME NEW e \in Seq(Record)
        PROVE  [file |-> P, stdio |-> e, data_buffer |-> e, state |-> EmptyState, file_size |-> 0] \in WALType
    BY <1>1 DEF WALType
  <2> QED BY <1>3, <2>1 DEF OpenWAL
<1> QED BY <1>1, <1>4, <1>5, <1>7, <1>8, <1>9, <1>10, <1>11

\* The fields of a WAL
LEMMA WALFields ==
    ASSUME NEW w \in WALType
    PROVE  /\ w.file \in Seq(Record) /\ w.stdio \in Seq(Record) /\ w.data_buffer \in Seq(Record)
           /\ w.state \in HardState /\ w.file_size \in Nat
BY DEF WALType

\* WAL::save, case by case: the entries are appended, then the HardState, and
\* both may wait in data_buffer or be handed on.
LEMMA SaveFacts ==
    ASSUME NEW w \in WALType, NEW hs \in HardState, NEW ents \in Seq(Record)
    PROVE  LET w2 == save(w, hs, ents)
               buf == IF hs = EmptyState THEN w.data_buffer \o ents
                      ELSE (w.data_buffer \o ents) \o <<StateRecord(hs)>>
           IN  /\ w2 \in WALType /\ w2.file = w.file
               /\ w2.state = IF hs = EmptyState THEN w.state ELSE hs
               /\ hs = EmptyState /\ ents = <<>> => w2 = w
               /\ hs # EmptyState \/ ents # <<>> =>
                     \/ w2.stdio = w.stdio \o buf /\ w2.data_buffer = <<>>
                     \/ /\ w2.stdio = w.stdio /\ w2.data_buffer = buf
                        /\ ents = <<>> /\ hs.vote = w.state.vote /\ hs.term = w.state.term
<1> DEFINE b1 == w.data_buffer \o ents
           b2 == b1 \o <<StateRecord(hs)>>
           w1 == [w EXCEPT !.data_buffer = b1]
           w2 == IF hs = EmptyState THEN w1 ELSE [w1 EXCEPT !.data_buffer = b2, !.state = hs]
           buf == IF hs = EmptyState THEN b1 ELSE b2
           st  == IF hs = EmptyState THEN w.state ELSE hs
           none == w.file \o <<>>
<1>1. /\ w.file \in Seq(Record) /\ w.stdio \in Seq(Record) /\ w.data_buffer \in Seq(Record)
      /\ w.state \in HardState /\ w.file_size \in Nat
  BY WALFields
<1>2. b1 \in Seq(Record) /\ <<StateRecord(hs)>> \in Seq(Record) BY <1>1, SmallTypes
<1>3. b2 \in Seq(Record) BY <1>2, ConcatFacts
<1>4. buf \in Seq(Record) /\ st \in HardState BY <1>1, <1>2, <1>3
<1>5. /\ w2 \in WALType /\ w2.file = w.file /\ w2.stdio = w.stdio /\ w2.data_buffer = buf
      /\ w2.state = st /\ w2.file_size = w.file_size
  <2> HIDE DEF b1, b2
  <2>1. CASE hs = EmptyState BY <1>2, <2>1 DEF WALType
  <2>2. CASE hs # EmptyState BY <1>2, <1>3, <2>2 DEF WALType
  <2> QED BY <2>1, <2>2
<1>6. save(w, hs, ents) =
         IF hs = EmptyState /\ ents = <<>> THEN w
         ELSE IF is_must_sync(hs, w.state, Len(ents)) \/ w.file_size >= SegmentSize THEN sync(w2) ELSE w2
  <2>1. append(w, ents) = w1 BY DEF append
  <2>2. [append(w1, <<StateRecord(hs)>>) EXCEPT !.state = hs] = [w1 EXCEPT !.data_buffer = b2, !.state = hs]
    <3>1. w1.data_buffer = b1 BY DEF WALType
    <3> HIDE DEF w1, b1
    <3> QED BY <3>1 DEF append
  <2> QED BY <2>1, <2>2 DEF save
<1> HIDE DEF w2, buf, st, b1, b2, w1
<1>7. /\ sync(w2) \in WALType /\ sync(w2).file = w.file /\ sync(w2).stdio = w.stdio \o buf
      /\ sync(w2).data_buffer = <<>> /\ sync(w2).state = st
  <2> DEFINE so == w.stdio \o buf
             fs == w.file_size + Len(buf)
             em == <<>>
  <2>1. so \in Seq(Record) BY <1>1, <1>4, ConcatFacts
  <2>2. fs \in Nat BY <1>1, <1>4
  <2>3. em \in Seq(Record) OBVIOUS
  <2>4. sync(w2) = [w2 EXCEPT !.stdio = so, !.data_buffer = em, !.file_size = fs] BY <1>5 DEF sync
  <2> HIDE DEF so, fs, em
  <2>5. /\ [w2 EXCEPT !.stdio = so, !.data_buffer = em, !.file_size = fs] \in WALType
        /\ [w2 EXCEPT !.stdio = so, !.data_buffer = em, !.file_size = fs].file = w.file
        /\ [w2 EXCEPT !.stdio = so, !.data_buffer = em, !.file_size = fs].stdio = so
        /\ [w2 EXCEPT !.stdio = so, !.data_buffer = em, !.file_size = fs].data_buffer = em
        /\ [w2 EXCEPT !.stdio = so, !.data_buffer = em, !.file_size = fs].state = st
    BY <1>5, <2>1, <2>2, <2>3 DEF WALType
  <2> QED BY <2>4, <2>5 DEF so, em
<1>8. ~is_must_sync(hs, w.state, Len(ents)) => ents = <<>> /\ hs.vote = w.state.vote /\ hs.term = w.state.term
  <2>1. Len(ents) = 0 => ents = <<>> OBVIOUS
  <2> QED BY <2>1 DEF is_must_sync
<1> DEFINE res == save(w, hs, ents)
<1>9. CASE hs = EmptyState /\ ents = <<>>
  <2>1. res = w BY <1>6, <1>9
  <2>2. st = w.state BY <1>9 DEF st
  <2> QED BY <1>9, <2>1, <2>2
<1>10. CASE ~(hs = EmptyState /\ ents = <<>>) /\ res = sync(w2)
  BY <1>7, <1>10 DEF st, buf, b1, b2
<1>11. CASE ~(hs = EmptyState /\ ents = <<>>) /\ res = w2 /\ ~is_must_sync(hs, w.state, Len(ents))
  BY <1>5, <1>8, <1>11 DEF st, buf, b1, b2
<1> QED BY <1>6, <1>9, <1>10, <1>11

\* WAL::save_snapshot hands everything on.
LEMMA SaveSnapshotFacts ==
    ASSUME NEW w \in WALType, NEW i \in Nat, NEW t \in Nat
    PROVE  LET w2 == save_snapshot(w, i, t)
           IN  /\ w2 \in WALType /\ w2.file = w.file /\ w2.state = w.state
               /\ w2.stdio = w.stdio \o (w.data_buffer \o <<SnapshotRecord(i, t)>>)
               /\ w2.data_buffer = <<>>
<1> DEFINE b  == w.data_buffer \o <<SnapshotRecord(i, t)>>
           so == w.stdio \o b
           fs == w.file_size + Len(b)
           em == <<>>
           w1 == [w EXCEPT !.data_buffer = b]
           w2 == [w EXCEPT !.stdio = so, !.data_buffer = em, !.file_size = fs]
<1>1. /\ w.file \in Seq(Record) /\ w.stdio \in Seq(Record) /\ w.data_buffer \in Seq(Record)
      /\ w.state \in HardState /\ w.file_size \in Nat
  BY WALFields
<1>2. <<SnapshotRecord(i, t)>> \in Seq(Record) BY SmallTypes
<1>3. b \in Seq(Record) BY <1>1, <1>2, ConcatFacts
<1>4. so \in Seq(Record) /\ fs \in Nat /\ em \in Seq(Record)
  <2> HIDE DEF b
  <2> QED BY <1>1, <1>3, ConcatFacts
<1>5. save_snapshot(w, i, t) = w2
  <2>1. append(w, <<SnapshotRecord(i, t)>>) = w1 BY DEF append
  <2>2. sync(w1) = w2
    <3> HIDE DEF b
    <3> QED BY DEF sync, WALType
  <2> QED BY <2>1, <2>2 DEF save_snapshot
<1>6. w2 \in WALType /\ w2.file = w.file /\ w2.state = w.state /\ w2.stdio = so /\ w2.data_buffer = em
  <2> HIDE DEF so, fs, em
  <2> QED BY <1>4 DEF WALType
<1> HIDE DEF w2
<1> QED BY <1>5, <1>6 DEF so, b, em

-----------------------------------------------------------------------------
(* Every step keeps types and stages. *)

\* The fields of Raft as Ready shows it
LEMMA RaftFields ==
    ASSUME NEW r \in RaftType
    PROVE  /\ r.term \in Nat /\ r.vote \in Nat /\ r.commit \in Nat /\ r.log \in Seq(Nat)
           /\ Len(r.log) \in Nat /\ hard_state(r) \in HardState
<1>1. r.term \in Nat /\ r.vote \in Nat /\ r.commit \in Nat /\ r.log \in Seq(Nat) BY DEF RaftType
<1>2. Len(r.log) \in Nat BY <1>1
<1>3. hard_state(r) \in HardState BY <1>1 DEF hard_state, HardState
<1> QED BY <1>1, <1>2, <1>3

\* MakeDirectory
LEMMA MakeDirectoryTyped ==
    ASSUME Typed, Staged, MakeDirectory
    PROVE  Typed' /\ Staged'
<1>1. /\ pc = "down" /\ dir = "none" /\ dir' = "empty" /\ pc' = "create"
      /\ UNCHANGED <<wal, snaps, raft, prev_hs, applied, snapshot_index, rd, saving, used, chosen, damage>>
  BY DEF MakeDirectory
<1>2. Typed' BY <1>1 DEF Typed, Place
<1>3. Staged' BY <1>1 DEF Staged, Up, Writing
<1> QED BY <1>2, <1>3

\* What a first start leaves
LEMMA CreateFacts ==
    ASSUME Typed, Staged, Create
    PROVE  /\ pc = "create" /\ dir = "empty" /\ dir' = "ready" /\ pc' = "save"
           /\ wal' = OpenWAL(create) /\ create \in Seq(Record)
           /\ raft'.term = 1 /\ raft'.vote = 0 /\ raft'.commit = 1 /\ raft'.log = <<1>> /\ raft' \in RaftType
           /\ rd'.hs = hard_state(raft') /\ rd'.entries = <<EntryRecord(1, 1)>> /\ rd'.snap = 0
           /\ rd' \in [hs : HardState, entries : Seq(Record), snap : Nat]
           /\ prev_hs' = EmptyState /\ chosen' = <<1>> /\ applied = 0 /\ snapshot_index = 0
           /\ UNCHANGED <<snaps, applied, snapshot_index, saving, used, damage>>
<1>1. /\ pc = "create" /\ dir' = "ready" /\ wal' = OpenWAL(create) /\ pc' = "save"
      /\ raft' = [term |-> 1, vote |-> 0, commit |-> 1, log |-> <<1>>]
      /\ prev_hs' = EmptyState /\ chosen' = <<1>>
      /\ rd' = [hs |-> hard_state(raft'), entries |-> <<EntryRecord(1, 1)>>, snap |-> 0]
      /\ UNCHANGED <<snaps, applied, snapshot_index, saving, used, damage>>
  BY DEF Create
<1>2. dir = "empty" /\ applied = 0 /\ snapshot_index = 0 BY <1>1 DEF Staged
<1>3. create \in Seq(Record) BY SmallTypes DEF create
<1>4. ASSUME NEW e \in Seq(Nat) PROVE [term |-> 1, vote |-> 0, commit |-> 1, log |-> e] \in RaftType
  BY DEF RaftType
<1>5. <<1>> \in Seq(Nat) OBVIOUS
<1>6. raft' \in RaftType BY <1>1, <1>4, <1>5
<1>7. raft'.term = 1 /\ raft'.vote = 0 /\ raft'.commit = 1 /\ raft'.log = <<1>> BY <1>1
<1>8. hard_state(raft') \in HardState BY <1>6, RaftFields
<1>9. ASSUME NEW e \in Seq(Record), NEW h \in HardState
      PROVE  [hs |-> h, entries |-> e, snap |-> 0] \in [hs : HardState, entries : Seq(Record), snap : Nat]
  OBVIOUS
<1>10. <<EntryRecord(1, 1)>> \in Seq(Record) BY SmallTypes
<1>11. rd' \in [hs : HardState, entries : Seq(Record), snap : Nat] BY <1>1, <1>8, <1>9, <1>10
<1>12. rd'.hs = hard_state(raft') /\ rd'.entries = <<EntryRecord(1, 1)>> /\ rd'.snap = 0 BY <1>1
<1> QED BY <1>1, <1>2, <1>3, <1>6, <1>7, <1>11, <1>12

\* Create
LEMMA CreateTyped ==
    ASSUME Typed, Staged, Create
    PROVE  Typed' /\ Staged'
<1>1. /\ pc = "create" /\ dir = "empty" /\ dir' = "ready" /\ pc' = "save"
      /\ wal' = OpenWAL(create) /\ create \in Seq(Record)
      /\ raft'.commit = 1 /\ raft'.log = <<1>> /\ raft' \in RaftType
      /\ rd'.snap = 0 /\ rd' \in [hs : HardState, entries : Seq(Record), snap : Nat]
      /\ prev_hs' = EmptyState /\ chosen' = <<1>> /\ applied = 0 /\ snapshot_index = 0
      /\ UNCHANGED <<snaps, applied, snapshot_index, saving, used, damage>>
  BY CreateFacts
<1>2. wal' \in WALType /\ prev_hs' \in HardState BY <1>1, SmallTypes
<1>3. chosen' \in Seq(Nat) /\ Len(raft'.log) = 1
  <2>1. <<1>> \in Seq(Nat) /\ Len(<<1>>) = 1 OBVIOUS
  <2> QED BY <1>1, <2>1
<1>4. Typed' BY <1>1, <1>2, <1>3 DEF Typed, Place
<1>5. Staged' BY <1>1 DEF Staged, Up, Writing
<1> QED BY <1>4, <1>5

\* What replay_WAL hands to a node that comes up
LEMMA ReplayFacts ==
    ASSUME NEW content \in Seq(Record), NEW files, Files(files)
    PROVE  LET r    == replay_WAL(content, files)
               s    == load(files)
               recs == Readable(content)
               hs   == LastState(recs)
               last == End(recs, s.index)
           IN  /\ r.snap = s.index /\ s.index \in Nat /\ s.term \in Nat
               /\ recs \in Seq(Record) /\ hs \in HardState /\ last \in Nat /\ s.index <= last
               /\ r.raft \in RaftType
               /\ r.raft.term = hs.term /\ r.raft.vote = hs.vote
               /\ r.raft.commit = IF hs = EmptyState THEN s.index ELSE hs.commit
               /\ Len(r.raft.log) = last
               /\ \A k \in 1..last : r.raft.log[k] = IF k <= s.index THEN s.term ELSE Term(recs, s.index, k)
               /\ r.fatal = "none" =>
                     /\ ~Mismatch(recs, s.index, s.term)
                     /\ \A k \in s.index + 1..last : Term(recs, s.index, k) # 0
                     /\ s.index <= r.raft.commit /\ r.raft.commit <= last
               /\ r.fatal # "none" => r.fatal \in {"mismatch", "hole", "range"}
               /\ r.fatal = "mismatch" => Mismatch(recs, s.index, s.term)
               /\ r.fatal = "hole" => \E k \in s.index + 1..last : Term(recs, s.index, k) = 0
               /\ r.fatal = "range" =>
                     hs # EmptyState /\ (hs.commit < s.index \/ hs.commit > last)
<1> DEFINE r    == replay_WAL(content, files)
           s    == load(files)
           recs == Readable(content)
           hs   == LastState(recs)
           ents == Entries(recs, s.index)
           last == End(recs, s.index)
           lg   == [k \in 1..last |-> IF k <= s.index THEN s.term ELSE ents[k - s.index]]
           cm   == IF hs = EmptyState THEN s.index ELSE hs.commit
           hole == \E k \in 1..Len(ents) : ents[k] = 0
           out  == hs # EmptyState /\ (hs.commit < s.index \/ hs.commit > last)
           bad  == Mismatch(recs, s.index, s.term)
<1>1. s.index \in Nat /\ s.term \in Nat
  <2>1. s \in SnapFile BY LoadFacts
  <2> HIDE DEF s
  <2> QED BY <2>1 DEF SnapFile
<1>2. recs \in Seq(Record) BY ReadableType
<1> HIDE DEF recs, s
<1>3. hs \in HardState /\ hs.term \in Nat /\ hs.vote \in Nat /\ hs.commit \in Nat
  <2>1. hs \in HardState
    <3>1. EntryRecord(0, 0) \in Record BY SmallTypes
    <3> QED BY <1>2, <3>1, LastStateFacts
  <2> HIDE DEF hs
  <2> QED BY <2>1 DEF HardState
<1>4. /\ ents \in Seq(Nat) /\ last \in Nat /\ last >= s.index /\ last = s.index + Len(ents)
      /\ Len(ents) \in Nat
  <2>1. ents \in Seq(Nat) /\ last \in Nat /\ last >= s.index BY <1>1, <1>2, EntriesFacts
  <2> QED BY <2>1 DEF End
<1>5. /\ r.snap = s.index
      /\ r.raft = [term |-> hs.term, vote |-> hs.vote, commit |-> cm, log |-> lg]
      /\ r.fatal = CASE bad -> "mismatch"
                     [] ~bad /\ hole -> "hole"
                     [] ~bad /\ (\A k \in 1..Len(ents) : ents[k] # 0) /\ out -> "range"
                     [] OTHER -> "none"
  BY DEF replay_WAL, s, recs, End
<1> HIDE DEF r, hs, last, ents
<1>6. lg \in Seq(Nat) /\ Len(lg) = last
  <2>1. \A k \in 1..last : (IF k <= s.index THEN s.term ELSE ents[k - s.index]) \in Nat
    <3> TAKE k \in 1..last
    <3>1. CASE k <= s.index BY <1>1, <3>1
    <3>2. CASE ~(k <= s.index)
      <4>1. k - s.index \in 1..Len(ents) BY <1>1, <1>4, <3>2
      <4> QED BY <1>4, <3>2, <4>1
    <3> QED BY <3>1, <3>2
  <2>2. lg \in [1..last -> Nat] BY <2>1
  <2>3. \A f \in [1..last -> Nat] : f \in Seq(Nat) /\ Len(f) = last BY <1>4, SMTT(30)
  <2> QED BY <2>2, <2>3
<1>7. cm \in Nat BY <1>1, <1>3
<1>8. /\ r.raft \in RaftType /\ r.raft.term = hs.term /\ r.raft.vote = hs.vote
      /\ r.raft.commit = cm /\ r.raft.log = lg
  <2> HIDE DEF lg, cm
  <2> QED BY <1>3, <1>5, <1>6, <1>7 DEF RaftType
<1>9. \A k \in 1..last : lg[k] = IF k <= s.index THEN s.term ELSE Term(recs, s.index, k)
  BY DEF Term, ents
<1>10. hole <=> \E k \in s.index + 1..last : Term(recs, s.index, k) = 0
  <2>1. ASSUME NEW k \in 1..Len(ents), ents[k] = 0
        PROVE  \E j \in s.index + 1..last : Term(recs, s.index, j) = 0
    <3> DEFINE j == s.index + k
    <3>1. j \in s.index + 1..last /\ j - s.index = k BY <1>1, <1>4, SMTT(30)
    <3>2. Term(recs, s.index, j) = 0 BY <2>1, <3>1 DEF Term, ents
    <3> HIDE DEF j
    <3> QED BY <3>1, <3>2
  <2>2. ASSUME NEW j \in s.index + 1..last, Term(recs, s.index, j) = 0
        PROVE  hole
    <3>1. j - s.index \in 1..Len(ents) BY <1>1, <1>4
    <3>2. ents[j - s.index] = 0 BY <2>2 DEF Term, ents
    <3> QED BY <3>1, <3>2
  <2> QED BY <2>1, <2>2
<1>11. /\ r.fatal \in {"mismatch", "hole", "range", "none"}
       /\ r.fatal = "mismatch" => bad
       /\ r.fatal = "hole" => hole
       /\ r.fatal = "range" => out
       /\ r.fatal = "none" => ~bad /\ ~hole /\ ~out
  <2>1. hole <=> ~(\A k \in 1..Len(ents) : ents[k] # 0) OBVIOUS
  <2> HIDE DEF bad, hole, out
  <2>2. CASE bad BY <1>5, <2>2
  <2>3. CASE ~bad /\ hole BY <1>5, <2>1, <2>3
  <2>4. CASE ~bad /\ ~hole /\ out BY <1>5, <2>1, <2>4
  <2>5. CASE ~bad /\ ~hole /\ ~out BY <1>5, <2>1, <2>5
  <2> QED BY <2>2, <2>3, <2>4, <2>5
<1>12. r.fatal = "none" => s.index <= cm /\ cm <= last
  <2>1. ASSUME r.fatal = "none" PROVE s.index <= cm /\ cm <= last
    <3>1. ~out BY <1>11, <2>1
    <3>2. CASE hs = EmptyState BY <1>1, <1>4, <3>2
    <3>3. CASE hs # EmptyState BY <1>1, <1>3, <1>4, <3>1, <3>3
    <3> QED BY <3>2, <3>3
  <2> QED BY <2>1
<1> HIDE DEF lg, hole
<1>13. /\ r.snap = s.index /\ s.index <= last
       /\ Len(r.raft.log) = last
       /\ r.fatal = "hole" => \E k \in s.index + 1..last : Term(recs, s.index, k) = 0
       /\ r.fatal = "none" => \A k \in s.index + 1..last : Term(recs, s.index, k) # 0
  BY <1>1, <1>4, <1>5, <1>6, <1>8, <1>10, <1>11
<1> QED BY <1>1, <1>2, <1>3, <1>4, <1>8, <1>9, <1>11, <1>12, <1>13 DEF r, s, recs, hs, last

\* A later start: dead, or up with what replay_WAL found
LEMMA StartFacts ==
    ASSUME Typed, Staged, Start
    PROVE  LET r == replay_WAL(wal.file, snaps)
           IN  /\ pc = "down" /\ dir # "none"
               /\ UNCHANGED <<dir, rd, saving, used, chosen, damage>>
               /\ \/ /\ dir = "empty" \/ r.fatal # "none"
                     /\ pc' = "dead" /\ UNCHANGED <<wal, snaps, raft, prev_hs, applied, snapshot_index>>
                  \/ /\ dir = "ready" /\ r.fatal = "none" /\ pc' = "idle"
                     /\ wal' \in WALType /\ wal'.file = Readable(wal.file)
                     /\ wal'.stdio = <<>> /\ wal'.data_buffer = <<>> /\ wal'.state = EmptyState
                     /\ snaps' \in SUBSET snaps /\ \A f \in snaps : f.whole => f \in snaps'
                     /\ raft' = r.raft
                     /\ prev_hs' = IF r.raft.log = <<>> THEN EmptyState ELSE hard_state(r.raft)
                     /\ applied' = r.snap /\ snapshot_index' = r.snap
<1> DEFINE r == replay_WAL(wal.file, snaps)
           up == /\ pc' = "idle" /\ wal' = Reopened(wal.file) /\ snaps' = snaps \ Broken(snaps)
                 /\ raft' = r.raft
                 /\ prev_hs' = IF r.raft.log = <<>> THEN EmptyState ELSE hard_state(r.raft)
                 /\ applied' = r.snap /\ snapshot_index' = r.snap
<1>1. /\ pc = "down" /\ dir # "none" /\ UNCHANGED <<dir, rd, saving, used, chosen, damage>>
      /\ IF dir = "empty" \/ r.fatal # "none"
         THEN pc' = "dead" /\ UNCHANGED <<wal, snaps, raft, prev_hs, applied, snapshot_index>>
         ELSE up
  BY DEF Start
<1>2. wal.file \in Seq(Record) /\ dir \in {"none", "empty", "ready"} BY WALFields DEF Typed
<1>3. /\ Reopened(wal.file) \in WALType /\ Reopened(wal.file).file = Readable(wal.file)
      /\ Reopened(wal.file).stdio = <<>> /\ Reopened(wal.file).data_buffer = <<>>
      /\ Reopened(wal.file).state = EmptyState
  <2> DEFINE good == Readable(wal.file)
             size == IF good = wal.file THEN 0 ELSE Len(good)
  <2>1. good \in Seq(Record) BY <1>2, ReadableType
  <2>2. size \in Nat BY <2>1
  <2>3. Reopened(wal.file) = [OpenWAL(good) EXCEPT !.file_size = size] BY DEF Reopened
  <2> HIDE DEF good, size
  <2>4. OpenWAL(good) \in WALType BY <2>1, SmallTypes
  <2>5. /\ OpenWAL(good).file = good /\ OpenWAL(good).stdio = <<>> /\ OpenWAL(good).data_buffer = <<>>
        /\ OpenWAL(good).state = EmptyState
    BY DEF OpenWAL
  <2>6. /\ Reopened(wal.file) \in WALType /\ Reopened(wal.file).file = good
        /\ Reopened(wal.file).stdio = <<>> /\ Reopened(wal.file).data_buffer = <<>>
        /\ Reopened(wal.file).state = EmptyState
    BY <2>2, <2>3, <2>4, <2>5 DEF WALType
  <2> QED BY <2>6 DEF good
<1>4. CASE dir = "empty" \/ r.fatal # "none"
  <2> HIDE DEF r, up
  <2>1. pc' = "dead" /\ UNCHANGED <<wal, snaps, raft, prev_hs, applied, snapshot_index>> BY <1>1, <1>4
  <2> QED BY <1>1, <1>4, <2>1 DEF r
<1>5. CASE ~(dir = "empty" \/ r.fatal # "none")
  <2>1. up
    <3> HIDE DEF r, up
    <3> QED BY <1>1, <1>5
  <2>2. dir = "ready" BY <1>1, <1>2, <1>5
  <2>3. snaps' \in SUBSET snaps /\ \A f \in snaps : f.whole => f \in snaps' BY <2>1 DEF Broken
  <2> HIDE DEF r
  <2> QED BY <1>1, <1>3, <1>5, <2>1, <2>2, <2>3 DEF r
<1> QED BY <1>4, <1>5

\* Start
LEMMA StartTyped ==
    ASSUME Typed, Staged, Start
    PROVE  Typed' /\ Staged'
<1> DEFINE r == replay_WAL(wal.file, snaps)
           s == load(snaps)
<1>1. /\ pc = "down" /\ dir # "none"
      /\ UNCHANGED <<dir, rd, saving, used, chosen, damage>>
      /\ \/ /\ dir = "empty" \/ r.fatal # "none"
            /\ pc' = "dead" /\ UNCHANGED <<wal, snaps, raft, prev_hs, applied, snapshot_index>>
         \/ /\ dir = "ready" /\ r.fatal = "none" /\ pc' = "idle"
            /\ wal' \in WALType
            /\ snaps' \in SUBSET snaps
            /\ raft' = r.raft
            /\ prev_hs' = IF r.raft.log = <<>> THEN EmptyState ELSE hard_state(r.raft)
            /\ applied' = r.snap /\ snapshot_index' = r.snap
  BY StartFacts
<1>2. wal.file \in Seq(Record) /\ Files(snaps) BY WALFields DEF Typed
<1>3. /\ r.snap = s.index /\ s.index \in Nat /\ r.raft \in RaftType
      /\ r.fatal = "none" => s.index <= r.raft.commit /\ r.raft.commit <= Len(r.raft.log)
  BY <1>2, ReplayFacts
<1>4. hard_state(r.raft) \in HardState /\ EmptyState \in HardState BY <1>3, RaftFields, SmallTypes
<1> HIDE DEF r, s
<1>5. CASE pc' = "dead" /\ UNCHANGED <<wal, snaps, raft, prev_hs, applied, snapshot_index>>
  <2>1. Typed' BY <1>1, <1>5 DEF Typed, Place
  <2>2. Staged' BY <1>1, <1>5 DEF Staged, Up, Writing
  <2> QED BY <2>1, <2>2
<1>6. CASE /\ dir = "ready" /\ r.fatal = "none" /\ pc' = "idle"
           /\ wal' \in WALType
           /\ snaps' \in SUBSET snaps
           /\ raft' = r.raft
           /\ prev_hs' = IF r.raft.log = <<>> THEN EmptyState ELSE hard_state(r.raft)
           /\ applied' = r.snap /\ snapshot_index' = r.snap
  <2>1. Files(snaps') BY <1>2, <1>6, FewerFiles
  <2>2. prev_hs' \in HardState BY <1>4, <1>6
  <2>3. applied' <= raft'.commit /\ raft'.commit <= Len(raft'.log) /\ snapshot_index' <= applied'
    BY <1>3, <1>6
  <2>4. Typed' BY <1>1, <1>3, <1>6, <2>1, <2>2, <2>3 DEF Typed, Place
  <2>5. Staged' BY <1>1, <1>6 DEF Staged, Up, Writing
  <2> QED BY <2>4, <2>5
<1> QED BY <1>1, <1>5, <1>6

\* An event, whatever it changes Raft to
LEMMA EventTyped ==
    ASSUME Typed, Staged, NEW r \in RaftType, NEW base \in Nat, NEW entries \in Seq(Record), NEW snap \in Nat,
           Event(r, base, entries, snap), raft.commit <= r.commit, r.commit <= Len(r.log),
           \/ snap = 0
           \/ snap = r.commit /\ snap = Len(r.log) /\ entries = <<>> /\ snap > raft.commit
    PROVE  Typed' /\ Staged'
<1> DEFINE hs  == IF hard_state(r) = prev_hs THEN EmptyState ELSE hard_state(r)
           new == SubSeq(r.log, Len(chosen) + 1, r.commit)
<1>1. /\ pc = "idle" /\ pc' = "save" /\ raft' = r /\ chosen' = chosen \o new
      /\ rd' = [hs |-> hs, entries |-> entries, snap |-> snap]
      /\ UNCHANGED <<dir, wal, snaps, prev_hs, applied, snapshot_index, saving, damage>>
  BY DEF Event
<1>2. /\ applied \in Nat /\ snapshot_index \in Nat /\ snapshot_index <= applied /\ applied <= raft.commit
      /\ chosen \in Seq(Nat) /\ raft \in RaftType /\ pc \in Place
  BY DEF Typed
<1>3. r.log \in Seq(Nat) /\ r.commit \in Nat /\ Len(r.log) \in Nat /\ raft.commit \in Nat /\ Len(chosen) \in Nat
  <2>1. Len(chosen) \in Nat BY <1>2
  <2> QED BY <1>2, <2>1, RaftFields
<1>4. new \in Seq(Nat)
  <2>1. \A k \in Len(chosen) + 1..r.commit : k \in 1..Len(r.log) BY <1>3
  <2> QED BY <1>3, <2>1, SMTT(30)
<1>5. chosen' \in Seq(Nat)
  <2> HIDE DEF new
  <2> QED BY <1>1, <1>2, <1>4
<1>6. hs \in HardState BY RaftFields, SmallTypes
<1> HIDE DEF hs, new
<1>7. /\ rd' \in [hs : HardState, entries : Seq(Record), snap : Nat]
      /\ rd'.snap = snap /\ rd'.entries = entries
  BY <1>1, <1>6
<1>8. applied' <= raft'.commit /\ raft'.commit <= Len(raft'.log) BY <1>1, <1>2, <1>3
<1>9. Typed' BY <1>1, <1>2, <1>5, <1>7, <1>8 DEF Typed, Place
<1>10. rd'.snap = 0 \/ (/\ rd'.snap = raft'.commit /\ rd'.snap = Len(raft'.log)
                        /\ rd'.entries = <<>> /\ rd'.snap > snapshot_index')
  BY <1>1, <1>2, <1>3, <1>7
<1>11. Staged' BY <1>1, <1>10 DEF Staged, Up, Writing
<1> QED BY <1>9, <1>11

\* A term or a vote never falls back.
Later(r, old) ==
    /\ r \in RaftType
    /\ r.log = old.log /\ r.commit = old.commit
    /\ r.term > old.term \/ (r.term = old.term /\ (r.vote = old.vote \/ old.vote = 0))

\* A higher term brings a vote of its own; log and commit index stay.
LEMMA TermsFacts ==
    ASSUME NEW old \in RaftType, NEW r \in Terms(old)
    PROVE  Later(r, old)
<1>1. CASE r = old BY <1>1 DEF Later
<1>2. CASE r # old
  <2>1. PICK t \in old.term + 1..MaxTerm, v \in Candidate \cup {0} : r = [old EXCEPT !.term = t, !.vote = v]
    BY <1>2 DEF Terms
  <2>2. MaxTerm \in Nat /\ v \in Nat /\ old.term \in Nat BY DiskAssumption, RaftFields
  <2>3. t \in Nat /\ t > old.term BY <2>2
  <2> QED BY <2>1, <2>2, <2>3 DEF RaftType, Later
<1> QED BY <1>1, <1>2

\* TermOrVote is an Event that changes neither log nor commit index.
LEMMA TermOrVoteFacts ==
    ASSUME Typed, TermOrVote
    PROVE  \E r : Later(r, raft) /\ Event(r, r.commit, <<>>, 0)
<1>1. raft \in RaftType BY DEF Typed
<1>2. PICK r \in Terms(raft) \cup {[raft EXCEPT !.vote = v] : v \in IF raft.vote = 0 THEN Candidate ELSE {}} :
         Event(r, r.commit, <<>>, 0)
  BY DEF TermOrVote
<1>3. CASE r \in Terms(raft) BY <1>1, <1>2, <1>3, TermsFacts
<1>4. CASE r \notin Terms(raft)
  <2>1. PICK v \in Candidate : raft.vote = 0 /\ r = [raft EXCEPT !.vote = v] BY <1>2, <1>4
  <2>2. v \in Nat BY DiskAssumption
  <2>3. Later(r, raft) BY <1>1, <2>1, <2>2 DEF RaftType, Later
  <2> QED BY <1>2, <2>3
<1> QED BY <1>3, <1>4

\* Raft becomes r2: an entry of term t after index `after', and commit index c.
Appends(r, after, c, t, r2) ==
    /\ Later(r, raft) /\ raft.commit <= after /\ after <= Len(raft.log)
    /\ raft.commit <= c /\ c <= after + 1 /\ t > 0 /\ TermAt(raft.log, after) <= t
    /\ Rising(raft.log, raft.commit, after)
    /\ r2.term = r.term /\ r2.vote = r.vote /\ r2.commit = c
    /\ Len(r2.log) = after + 1 /\ r2.log[after + 1] = t
    /\ \A k \in 1..after : r2.log[k] = raft.log[k]
    /\ Event(r2, raft.commit, <<EntryRecord(after + 1, t)>>, 0)

\* AppendEntry: what Raft's log becomes
LEMMA AppendEntryEvent ==
    ASSUME Typed, AppendEntry
    PROVE  \E r \in Terms(raft), after \in Nat, c \in Nat, t \in Nat, r2 \in RaftType :
              Appends(r, after, c, t, r2)
<1>1. raft \in RaftType BY DEF Typed
<1>2. PICK r \in Terms(raft), after \in raft.commit..Len(raft.log), c \in raft.commit..MaxIndex :
        \E t \in TermAt(r.log, after)..r.term :
            /\ t > 0 /\ after < MaxIndex /\ c <= after + 1
            /\ Rising(r.log, r.commit, after)
            /\ Event([r EXCEPT !.log = Append(SubSeq(@, 1, after), t), !.commit = c],
                     r.commit, <<EntryRecord(after + 1, t)>>, 0)
  BY DEF AppendEntry
<1>3. PICK t \in TermAt(r.log, after)..r.term :
            /\ t > 0 /\ c <= after + 1
            /\ Rising(r.log, r.commit, after)
            /\ Event([r EXCEPT !.log = Append(SubSeq(@, 1, after), t), !.commit = c],
                     r.commit, <<EntryRecord(after + 1, t)>>, 0)
  BY <1>2
<1>4. Later(r, raft) BY <1>1, TermsFacts
<1>5. r \in RaftType /\ r.log = raft.log /\ r.commit = raft.commit BY <1>4 DEF Later
<1>6. /\ raft.commit \in Nat /\ Len(raft.log) \in Nat /\ raft.log \in Seq(Nat) /\ r.term \in Nat
  BY <1>1, <1>5, RaftFields
<1>7. /\ after \in Nat /\ raft.commit <= after /\ after <= Len(raft.log)
      /\ c \in Nat /\ raft.commit <= c
  BY <1>6, DiskAssumption
<1>8. TermAt(raft.log, after) \in Nat
  <2>1. CASE after = 0 BY <2>1 DEF TermAt
  <2>2. CASE after # 0
    <3>1. after \in 1..Len(raft.log) BY <1>6, <1>7, <2>2
    <3> QED BY <1>6, <2>2, <3>1 DEF TermAt
  <2> QED BY <2>1, <2>2
<1>9. t \in Nat /\ TermAt(raft.log, after) <= t BY <1>5, <1>6, <1>8
<1> DEFINE lg == Append(SubSeq(r.log, 1, after), t)
           r2 == [r EXCEPT !.log = lg, !.commit = c]
<1>10. /\ lg \in Seq(Nat) /\ Len(lg) = after + 1 /\ lg[after + 1] = t
       /\ \A k \in 1..after : lg[k] = raft.log[k]
  <2> DEFINE p == SubSeq(raft.log, 1, after)
  <2>1. p \in Seq(Nat) /\ Len(p) = after /\ \A k \in 1..after : p[k] = raft.log[k] BY <1>6, <1>7, SMTT(30)
  <2>2. lg = Append(p, t) BY <1>5
  <2> HIDE DEF p, lg
  <2> QED BY <1>7, <1>9, <2>1, <2>2
<1>11. Event(r2, raft.commit, <<EntryRecord(after + 1, t)>>, 0) BY <1>3, <1>5
<1> HIDE DEF lg
<1>12. /\ r2 \in RaftType /\ r2.term = r.term /\ r2.vote = r.vote /\ r2.commit = c /\ r2.log = lg
  BY <1>5, <1>7, <1>10 DEF RaftType
<1>13. t > 0 /\ c <= after + 1 /\ Rising(raft.log, raft.commit, after) BY <1>3, <1>5
<1>14. /\ Later(r, raft) /\ raft.commit <= after /\ after <= Len(raft.log)
       /\ raft.commit <= c /\ c <= after + 1 /\ t > 0 /\ TermAt(raft.log, after) <= t
       /\ Rising(raft.log, raft.commit, after)
       /\ r2 \in RaftType /\ r2.term = r.term /\ r2.vote = r.vote /\ r2.commit = c
       /\ Len(r2.log) = after + 1 /\ r2.log[after + 1] = t
       /\ \A k \in 1..after : r2.log[k] = raft.log[k]
       /\ Event(r2, raft.commit, <<EntryRecord(after + 1, t)>>, 0)
  <2> HIDE DEF r2
  <2> QED BY <1>4, <1>7, <1>9, <1>10, <1>11, <1>12, <1>13
<1> HIDE DEF r2
<1>15. Appends(r, after, c, t, r2) BY <1>14 DEF Appends
<1> QED BY <1>7, <1>9, <1>12, <1>15

\* Commit raises the commit index inside the log.
LEMMA CommitEvent ==
    ASSUME Typed, Commit
    PROVE  \E c \in Nat :
              LET r2 == [raft EXCEPT !.commit = c]
              IN  /\ raft.commit < c /\ c <= Len(raft.log) /\ Rising(raft.log, raft.commit, c)
                  /\ r2 \in RaftType /\ r2.term = raft.term /\ r2.vote = raft.vote
                  /\ r2.commit = c /\ r2.log = raft.log
                  /\ Event(r2, raft.commit, <<>>, 0)
<1>1. raft \in RaftType BY DEF Typed
<1>2. PICK c \in raft.commit + 1..Len(raft.log) :
         Rising(raft.log, raft.commit, c) /\ Event([raft EXCEPT !.commit = c], raft.commit, <<>>, 0)
  BY DEF Commit
<1>3. raft.commit \in Nat /\ Len(raft.log) \in Nat BY <1>1, RaftFields
<1>4. c \in Nat /\ raft.commit < c /\ c <= Len(raft.log) BY <1>3
<1> DEFINE r2 == [raft EXCEPT !.commit = c]
<1>5. r2 \in RaftType /\ r2.term = raft.term /\ r2.vote = raft.vote /\ r2.commit = c /\ r2.log = raft.log
  BY <1>1, <1>4 DEF RaftType
<1>6. Event(r2, raft.commit, <<>>, 0) BY <1>2
<1>7. /\ raft.commit < c /\ c <= Len(raft.log) /\ Rising(raft.log, raft.commit, c)
      /\ r2 \in RaftType /\ r2.term = raft.term /\ r2.vote = raft.vote
      /\ r2.commit = c /\ r2.log = raft.log
      /\ Event(r2, raft.commit, <<>>, 0)
  <2> HIDE DEF r2
  <2> QED BY <1>2, <1>4, <1>5, <1>6
<1> QED BY <1>4, <1>7

\* ReceiveSnapshot leaves nothing of the log.
LEMMA ReceiveSnapshotEvent ==
    ASSUME Typed, ReceiveSnapshot
    PROVE  \E r \in Terms(raft), n \in Nat, t \in Nat :
              LET r2 == [r EXCEPT !.log = [k \in 1..n |-> t], !.commit = n]
              IN  /\ Later(r, raft) /\ raft.commit < n /\ t > 0
                  /\ n > Len(chosen) => t >= TermAt(chosen, Len(chosen))
                  /\ r2 \in RaftType /\ r2.term = r.term /\ r2.vote = r.vote /\ r2.commit = n
                  /\ Len(r2.log) = n /\ \A k \in 1..n : r2.log[k] = t
                  /\ Event(r2, n - 1, <<>>, n)
<1>1. raft \in RaftType BY DEF Typed
<1>2. PICK r \in Terms(raft), n \in raft.commit + 1..MaxIndex :
        \E t \in TermAt(r.log, r.commit)..r.term :
            /\ t > 0 /\ (n > Len(chosen) => t >= TermAt(chosen, Len(chosen)))
            /\ Event([r EXCEPT !.log = [k \in 1..n |-> t], !.commit = n], n - 1, <<>>, n)
  BY DEF ReceiveSnapshot
<1>3. PICK t \in TermAt(r.log, r.commit)..r.term :
            /\ t > 0 /\ (n > Len(chosen) => t >= TermAt(chosen, Len(chosen)))
            /\ Event([r EXCEPT !.log = [k \in 1..n |-> t], !.commit = n], n - 1, <<>>, n)
  BY <1>2
<1>4. Later(r, raft) BY <1>1, TermsFacts
<1>5. r \in RaftType /\ r.log = raft.log /\ r.commit = raft.commit BY <1>4 DEF Later
<1>6. raft.commit \in Nat /\ Len(raft.log) \in Nat /\ raft.log \in Seq(Nat) /\ r.term \in Nat /\ raft.commit <= Len(raft.log)
  BY <1>1, <1>5, RaftFields DEF Typed
<1>7. n \in Nat /\ raft.commit < n BY <1>6, DiskAssumption
<1>8. TermAt(raft.log, raft.commit) \in Nat
  <2>1. CASE raft.commit = 0 BY <2>1 DEF TermAt
  <2>2. CASE raft.commit # 0
    <3>1. raft.commit \in 1..Len(raft.log) BY <1>6, <2>2
    <3> QED BY <1>6, <2>2, <3>1, SMTT(30) DEF TermAt
  <2> QED BY <2>1, <2>2
<1>9. t \in Nat /\ t > 0 BY <1>3, <1>5, <1>6, <1>8
<1> DEFINE lg == [k \in 1..n |-> t]
           r2 == [r EXCEPT !.log = lg, !.commit = n]
<1>10. lg \in Seq(Nat) /\ Len(lg) = n /\ \A k \in 1..n : lg[k] = t
  <2>1. lg \in [1..n -> Nat] BY <1>9
  <2>2. \A f \in [1..n -> Nat] : f \in Seq(Nat) /\ Len(f) = n BY <1>7
  <2>3. \A k \in 1..n : lg[k] = t OBVIOUS
  <2> HIDE DEF lg
  <2> QED BY <2>1, <2>2, <2>3
<1>11. Event(r2, n - 1, <<>>, n) BY <1>3
<1> HIDE DEF lg
<1>12. /\ r2 \in RaftType /\ r2.term = r.term /\ r2.vote = r.vote /\ r2.commit = n /\ r2.log = lg
  BY <1>5, <1>7, <1>10 DEF RaftType
<1>13. /\ Later(r, raft) /\ raft.commit < n /\ t > 0
       /\ n > Len(chosen) => t >= TermAt(chosen, Len(chosen))
       /\ r2 \in RaftType /\ r2.term = r.term /\ r2.vote = r.vote /\ r2.commit = n
       /\ Len(r2.log) = n /\ \A k \in 1..n : r2.log[k] = t
       /\ Event(r2, n - 1, <<>>, n)
  <2> HIDE DEF r2
  <2> QED BY <1>3, <1>4, <1>7, <1>9, <1>10, <1>11, <1>12
<1> QED BY <1>7, <1>9, <1>13 DEF lg

\* The events
LEMMA EventsTyped ==
    ASSUME Typed, Staged, TermOrVote \/ AppendEntry \/ Commit \/ ReceiveSnapshot
    PROVE  Typed' /\ Staged'
<1>1. /\ raft \in RaftType /\ raft.commit \in Nat /\ Len(raft.log) \in Nat /\ raft.commit <= Len(raft.log)
  BY RaftFields DEF Typed
<1>2. <<>> \in Seq(Record) /\ 0 \in Nat OBVIOUS
<1>3. CASE TermOrVote
  <2>1. PICK r : Later(r, raft) /\ Event(r, r.commit, <<>>, 0) BY <1>3, TermOrVoteFacts
  <2>2. r \in RaftType /\ r.log = raft.log /\ r.commit = raft.commit BY <2>1 DEF Later
  <2>3. r.commit \in Nat /\ raft.commit <= r.commit /\ r.commit <= Len(r.log) BY <1>1, <2>2
  <2> QED BY <1>2, <2>1, <2>2, <2>3, EventTyped
<1>4. CASE AppendEntry
  <2>0. PICK r \in Terms(raft), after \in Nat, c \in Nat, t \in Nat, r2 \in RaftType :
           Appends(r, after, c, t, r2)
    BY <1>4, AppendEntryEvent
  <2>1. /\ raft.commit <= after
        /\ raft.commit <= c /\ c <= after + 1
        /\ r2.commit = c /\ Len(r2.log) = after + 1
        /\ Event(r2, raft.commit, <<EntryRecord(after + 1, t)>>, 0)
    BY <2>0 DEF Appends
  <2> DEFINE es == <<EntryRecord(after + 1, t)>>
  <2>2. /\ r2 \in RaftType /\ raft.commit <= r2.commit /\ r2.commit <= Len(r2.log)
        /\ Event(r2, raft.commit, es, 0)
    BY <2>1
  <2>3. es \in Seq(Record)
    <3>1. EntryRecord(after + 1, t) \in Record BY SmallTypes
    <3> QED BY <3>1
  <2> HIDE DEF es
  <2> QED BY <1>1, <1>2, <2>2, <2>3, EventTyped
<1>5. CASE Commit
  <2>1. PICK c \in Nat :
           LET r2 == [raft EXCEPT !.commit = c]
           IN  /\ raft.commit < c /\ c <= Len(raft.log)
               /\ r2 \in RaftType /\ r2.commit = c /\ r2.log = raft.log
               /\ Event(r2, raft.commit, <<>>, 0)
    BY <1>5, CommitEvent
  <2> DEFINE r2 == [raft EXCEPT !.commit = c]
  <2>2. /\ r2 \in RaftType /\ raft.commit <= r2.commit /\ r2.commit <= Len(r2.log)
        /\ Event(r2, raft.commit, <<>>, 0)
    BY <1>1, <2>1
  <2> HIDE DEF r2
  <2> QED BY <1>1, <1>2, <2>2, EventTyped
<1>6. CASE ReceiveSnapshot
  <2>1. PICK r \in Terms(raft), n \in Nat, t \in Nat :
           LET r2 == [r EXCEPT !.log = [k \in 1..n |-> t], !.commit = n]
           IN  /\ raft.commit < n
               /\ r2 \in RaftType /\ r2.commit = n /\ Len(r2.log) = n
               /\ Event(r2, n - 1, <<>>, n)
    BY <1>6, ReceiveSnapshotEvent, ZenonT(60)
  <2> DEFINE r2 == [r EXCEPT !.log = [k \in 1..n |-> t], !.commit = n]
  <2>2. /\ r2 \in RaftType /\ raft.commit <= r2.commit /\ r2.commit <= Len(r2.log)
        /\ n = r2.commit /\ n = Len(r2.log) /\ n > raft.commit /\ n - 1 \in Nat
        /\ Event(r2, n - 1, <<>>, n)
    BY <1>1, <2>1
  <2> HIDE DEF r2
  <2> QED BY <1>1, <1>2, <2>2, EventTyped
<1> QED BY <1>3, <1>4, <1>5, <1>6

\* Save
LEMMA SaveTyped ==
    ASSUME Typed, Staged, Save
    PROVE  Typed' /\ Staged'
<1>1. /\ pc = "save" /\ wal' = save(wal, rd.hs, rd.entries)
      /\ \/ /\ rd.snap > 0 /\ pc' = "snap_record"
            /\ saving' = [index |-> rd.snap, term |-> raft.log[rd.snap], install |-> TRUE]
         \/ rd.snap = 0 /\ pc' = "publish" /\ UNCHANGED saving
      /\ UNCHANGED <<dir, snaps, raft, prev_hs, applied, snapshot_index, rd, used, chosen, damage>>
  <2>1. rd.snap \in Nat BY DEF Typed
  <2> QED BY <2>1 DEF Save
<1>2. wal \in WALType /\ rd.hs \in HardState /\ rd.entries \in Seq(Record) /\ rd.snap \in Nat /\ raft \in RaftType
  BY DEF Typed
<1>3. wal' \in WALType BY <1>1, <1>2, SaveFacts
<1>4. CASE /\ rd.snap > 0 /\ pc' = "snap_record"
           /\ saving' = [index |-> rd.snap, term |-> raft.log[rd.snap], install |-> TRUE]
  <2>1. rd.snap = raft.commit /\ rd.snap = Len(raft.log) /\ rd.snap > snapshot_index
    BY <1>1, <1>4 DEF Staged
  <2>2. raft.log[rd.snap] \in Nat
    <3>1. raft.log \in Seq(Nat) BY <1>2, RaftFields
    <3>2. rd.snap \in 1..Len(raft.log) BY <1>2, <1>4, <2>1
    <3> QED BY <3>1, <3>2
  <2>3. /\ saving' \in [index : Nat, term : Nat, install : BOOLEAN]
        /\ saving'.index = rd.snap /\ saving'.term = raft.log[rd.snap]
    BY <1>2, <1>4, <2>2
  <2>4. Typed' BY <1>1, <1>3, <1>4, <2>3 DEF Typed, Place
  <2>5. Staged' BY <1>1, <1>4, <2>1, <2>3 DEF Staged, Up, Writing
  <2> QED BY <2>4, <2>5
<1>5. CASE rd.snap = 0 /\ pc' = "publish" /\ UNCHANGED saving
  <2>1. Typed' BY <1>1, <1>3, <1>5 DEF Typed, Place
  <2>2. Staged' BY <1>1, <1>5 DEF Staged, Up, Writing
  <2> QED BY <2>1, <2>2
<1> QED BY <1>1, <1>4, <1>5

\* SaveRecord
LEMMA SaveRecordTyped ==
    ASSUME Typed, Staged, SaveRecord
    PROVE  Typed' /\ Staged'
<1>1. /\ pc = "snap_record" /\ pc' = "snap_open"
      /\ wal' = save_snapshot(wal, saving.index, saving.term)
      /\ UNCHANGED <<dir, snaps, raft, prev_hs, applied, snapshot_index, rd, saving, used, chosen, damage>>
  BY DEF SaveRecord
<1>2. wal \in WALType /\ saving.index \in Nat /\ saving.term \in Nat BY DEF Typed
<1>3. wal' \in WALType BY <1>1, <1>2, SaveSnapshotFacts
<1>4. Typed' BY <1>1, <1>3 DEF Typed, Place
<1>5. Staged' BY <1>1 DEF Staged, Up, Writing
<1> QED BY <1>4, <1>5

\* OpenFile and WriteFile leave one file of the name.
LEMMA FileTyped ==
    ASSUME Typed, NEW b \in BOOLEAN
    PROVE  Files({f \in snaps : ~SameName(f)} \cup
                 {[index |-> saving.index, term |-> saving.term, whole |-> b]})
<1>1. saving.index \in Nat /\ saving.term \in Nat /\ Files(snaps) BY DEF Typed
<1>2. {f \in snaps : ~SameName(f)} = {f \in snaps : ~(f.index = saving.index /\ f.term = saving.term)}
  BY DEF SameName
<1> QED BY <1>1, <1>2, FileAdded

\* OpenFile
LEMMA OpenFileTyped ==
    ASSUME Typed, Staged, OpenFile
    PROVE  Typed' /\ Staged'
<1>1. /\ pc = "snap_open" /\ pc' = "snap_write"
      /\ snaps' = {f \in snaps : ~SameName(f)} \cup
                  {[index |-> saving.index, term |-> saving.term, whole |-> FALSE]}
      /\ UNCHANGED <<dir, wal, raft, prev_hs, applied, snapshot_index, rd, saving, used, chosen, damage>>
  BY DEF OpenFile
<1>2. Files(snaps') BY <1>1, FileTyped
<1>3. dir = "ready" BY <1>1 DEF Staged, Up
<1>4. Typed' BY <1>1, <1>2 DEF Typed, Place
<1>5. Staged' BY <1>1, <1>3 DEF Staged, Up, Writing
<1> QED BY <1>4, <1>5

\* WriteFile
LEMMA WriteFileTyped ==
    ASSUME Typed, Staged, WriteFile
    PROVE  Typed' /\ Staged'
<1>1. /\ pc = "snap_write"
      /\ snaps' = {f \in snaps : ~SameName(f)} \cup
                  {[index |-> saving.index, term |-> saving.term, whole |-> TRUE]}
      /\ snapshot_index' = saving.index /\ applied' = saving.index
      /\ pc' \in {"publish", "idle"} /\ prev_hs' \in {prev_hs, rd.hs} /\ saving' = NoSnapshot
      /\ UNCHANGED <<dir, wal, raft, rd, used, chosen, damage>>
  BY DEF WriteFile
<1>2. Files(snaps') BY <1>1, FileTyped
<1>3. dir = "ready" /\ saving.index = raft.commit BY <1>1 DEF Staged, Up, Writing
<1>4. raft.commit \in Nat
  <2>1. raft \in RaftType BY DEF Typed
  <2> QED BY <2>1, RaftFields
<1>5. prev_hs' \in HardState BY <1>1 DEF Typed
<1>6. Typed' BY <1>1, <1>2, <1>3, <1>4, <1>5, SmallTypes DEF Typed, Place
<1>7. Staged' BY <1>1, <1>3 DEF Staged, Up, Writing
<1> QED BY <1>6, <1>7

\* Publish
LEMMA PublishTyped ==
    ASSUME Typed, Staged, Publish
    PROVE  Typed' /\ Staged'
<1>1. /\ pc = "publish" /\ applied' = raft.commit
      /\ \/ /\ raft.commit - snapshot_index > SnapCount
            /\ saving' = [index |-> raft.commit, term |-> raft.log[raft.commit], install |-> FALSE]
            /\ pc' = "snap_record" /\ UNCHANGED prev_hs
         \/ pc' = "idle" /\ prev_hs' \in {prev_hs, rd.hs} /\ UNCHANGED saving
      /\ UNCHANGED <<dir, wal, snaps, raft, snapshot_index, rd, used, chosen, damage>>
  BY DEF Publish
<1>2. /\ raft.commit \in Nat /\ Len(raft.log) \in Nat /\ raft.log \in Seq(Nat) /\ snapshot_index \in Nat
      /\ snapshot_index <= raft.commit /\ raft.commit <= Len(raft.log) /\ rd.hs \in HardState /\ prev_hs \in HardState
  <2>1. raft \in RaftType BY DEF Typed
  <2>2. raft.commit \in Nat /\ Len(raft.log) \in Nat /\ raft.log \in Seq(Nat) BY <2>1, RaftFields
  <2> QED BY <2>2 DEF Typed
<1>3. CASE /\ raft.commit - snapshot_index > SnapCount
           /\ saving' = [index |-> raft.commit, term |-> raft.log[raft.commit], install |-> FALSE]
           /\ pc' = "snap_record" /\ UNCHANGED prev_hs
  <2>1. raft.commit > snapshot_index /\ raft.commit \in 1..Len(raft.log) BY <1>2, <1>3, DiskAssumption, SMTT(30)
  <2>2. raft.log[raft.commit] \in Nat BY <1>2, <2>1
  <2>3. /\ saving' \in [index : Nat, term : Nat, install : BOOLEAN]
        /\ saving'.index = raft.commit /\ saving'.term = raft.log[raft.commit]
    BY <1>2, <1>3, <2>2
  <2>4. Typed' BY <1>1, <1>2, <1>3, <2>3 DEF Typed, Place
  <2>5. Staged' BY <1>1, <1>3, <2>1, <2>3 DEF Staged, Up, Writing
  <2> QED BY <2>4, <2>5
<1>4. CASE pc' = "idle" /\ prev_hs' \in {prev_hs, rd.hs} /\ UNCHANGED saving
  <2>1. prev_hs' \in HardState BY <1>2, <1>4
  <2>2. Typed' BY <1>1, <1>2, <1>4, <2>1 DEF Typed, Place
  <2>3. Staged' BY <1>1, <1>4 DEF Staged, Up, Writing
  <2> QED BY <2>2, <2>3
<1> QED BY <1>1, <1>3, <1>4

\* Gone leaves a process that is down.
LEMMA GoneTyped ==
    ASSUME Typed, Staged, NEW content \in Seq(Record), Gone(content),
           dir = "none" => damage' = {},
           dir = "empty" => "create" \in damage'
    PROVE  Typed' /\ Staged'
<1>1. /\ wal' = OpenWAL(content) /\ pc' = "down" /\ raft' = NewRaft /\ prev_hs' = EmptyState
      /\ applied' = 0 /\ snapshot_index' = 0 /\ rd' = NoReady /\ saving' = NoSnapshot
      /\ UNCHANGED <<dir, snaps, chosen>>
  BY DEF Gone
<1>2. wal' \in WALType /\ wal'.stdio = <<>> /\ wal'.data_buffer = <<>>
  <2>1. OpenWAL(content).stdio = <<>> /\ OpenWAL(content).data_buffer = <<>> BY DEF OpenWAL
  <2> QED BY <1>1, <2>1, SmallTypes
<1>3. Typed' BY <1>1, <1>2, SmallTypes DEF Typed, Place
<1>4. Staged' BY <1>1, <1>2 DEF Staged, Up, Writing
<1> QED BY <1>3, <1>4

\* A kill leaves what the FILE's buffer had at its head.
LEMMA KilledType ==
    ASSUME NEW w \in WALType, NEW k \in 0..Len(w.stdio), NEW torn \in BOOLEAN
    PROVE  Killed(w, k, torn) \in Seq(Record)
<1>1. w.file \in Seq(Record) /\ w.stdio \in Seq(Record) BY WALFields
<1>2. SubSeq(w.stdio, 1, k) \in Seq(Record) BY <1>1, PrefixFacts
<1>3. w.file \o SubSeq(w.stdio, 1, k) \in Seq(Record) BY <1>1, <1>2, ConcatFacts
<1>4. TornRecord \in Record BY DEF TornRecord, Record, EmptyState, HardState
<1>5. \A e \in Seq(Record) : (w.file \o SubSeq(w.stdio, 1, k)) \o e \in Seq(Record) BY <1>3, ConcatFacts
<1>6. <<TornRecord>> \in Seq(Record) /\ <<>> \in Seq(Record) BY <1>4
<1> QED BY <1>5, <1>6 DEF Killed

\* Stop and Kill
LEMMA GoneTypes ==
    ASSUME Typed, Staged, Stop \/ Kill
    PROVE  Typed' /\ Staged'
<1>1. wal \in WALType BY DEF Typed
<1>2. wal.file \in Seq(Record) /\ wal.stdio \in Seq(Record) BY <1>1, WALFields
<1>3. CASE Stop
  <2>1. pc = "idle" /\ Gone(Closed(wal)) /\ damage' = damage BY <1>3 DEF Stop
  <2>2. Closed(wal) \in Seq(Record) BY <1>2, ConcatFacts DEF Closed
  <2>3. dir = "ready" BY <2>1 DEF Staged, Up
  <2> QED BY <2>1, <2>2, <2>3, GoneTyped
<1>4. CASE Kill
  <2>1. PICK k \in 0..Len(wal.stdio), torn \in BOOLEAN :
           /\ Gone(Killed(wal, k, torn))
           /\ damage' = damage \cup (IF k < Len(wal.stdio) THEN {"lost"} ELSE {})
                               \cup (IF saving.install THEN {"install"} ELSE {})
                               \cup (IF pc = "create" THEN {"create"} ELSE {})
    BY <1>4 DEF Kill
  <2>2. pc \notin {"down", "dead"} BY <1>4 DEF Kill
  <2>3. Killed(wal, k, torn) \in Seq(Record) BY <1>1, KilledType
  <2>4. dir # "none" BY <2>2 DEF Staged
  <2>5. dir = "empty" => "create" \in damage' BY <2>1 DEF Staged
  <2> QED BY <2>1, <2>3, <2>4, <2>5, GoneTyped
<1> QED BY <1>3, <1>4

-----------------------------------------------------------------------------
(* The type invariant. *)

\* The first state
LEMMA InitTyped ==
    ASSUME Init
    PROVE  Typed /\ Staged
<1>1. /\ dir = "none" /\ wal = OpenWAL(<<>>) /\ snaps = {}
      /\ raft = NewRaft /\ prev_hs = EmptyState /\ applied = 0 /\ snapshot_index = 0
      /\ rd = NoReady /\ saving = NoSnapshot /\ pc = "down" /\ chosen = <<>> /\ damage = {}
  BY DEF Init
<1>2. <<>> \in Seq(Record) /\ <<>> \in Seq(Nat) OBVIOUS
<1>3. wal \in WALType /\ wal.stdio = <<>> /\ wal.data_buffer = <<>>
  <2>1. OpenWAL(<<>>).stdio = <<>> /\ OpenWAL(<<>>).data_buffer = <<>> BY DEF OpenWAL
  <2> QED BY <1>1, <1>2, <2>1, SmallTypes
<1>4. Files(snaps) BY <1>1 DEF Files
<1>5. Typed BY <1>1, <1>2, <1>3, <1>4, SmallTypes DEF Typed, Place
<1>6. Staged BY <1>1, <1>3 DEF Staged, Up, Writing
<1> QED BY <1>5, <1>6

\* Every step
LEMMA NextTyped ==
    ASSUME Typed, Staged, [Next]_vars
    PROVE  Typed' /\ Staged'
<1>1. CASE MakeDirectory BY <1>1, MakeDirectoryTyped
<1>2. CASE Create BY <1>2, CreateTyped
<1>3. CASE Start BY <1>3, StartTyped
<1>4. CASE TermOrVote \/ AppendEntry \/ Commit \/ ReceiveSnapshot BY <1>4, EventsTyped
<1>5. CASE Save BY <1>5, SaveTyped
<1>6. CASE SaveRecord BY <1>6, SaveRecordTyped
<1>7. CASE OpenFile BY <1>7, OpenFileTyped
<1>8. CASE WriteFile BY <1>8, WriteFileTyped
<1>9. CASE Publish BY <1>9, PublishTyped
<1>10. CASE Stop \/ Kill BY <1>10, GoneTypes
<1>11. CASE UNCHANGED vars
  <2>1. Typed' BY <1>11 DEF Typed, vars
  <2>2. Staged' BY <1>11 DEF Staged, Up, vars
  <2> QED BY <2>1, <2>2
<1> QED BY <1>1, <1>2, <1>3, <1>4, <1>5, <1>6, <1>7, <1>8, <1>9, <1>10, <1>11 DEF Next

\* The node's state is well typed, and applied, committed and last index are in
\* order, wherever RaftNode is and whatever kills have left on its disk.
THEOREM DiskTypeCorrect == Spec => []TypeOK
<1>1. Init => Typed /\ Staged BY InitTyped
<1>2. Typed /\ Staged /\ [Next]_vars => (Typed /\ Staged)' BY NextTyped
<1>3. Typed => TypeOK BY DEF Typed, TypeOK, Files
<1> QED BY <1>1, <1>2, <1>3, PTL DEF Spec

-----------------------------------------------------------------------------
(* The disk and what Raft has told others. *)

\* The records of P are those of a log file: it begins with the record of create,
\* no entry is missing above s, HardStates are in order, and snapshot records are of
\* what the cluster has committed.
Written(P, s, ch) ==
    /\ Intact(P)
    /\ Len(P) >= 1 /\ P[1].type = "snapshot"
    /\ Gapless(P, s)
    /\ \A p \in 1..Len(P) : P[p].type = "entry" => P[p].term > 0
    /\ \A p \in 1..Len(P) : P[p].type = "snapshot" => P[p].index <= Len(ch) /\ P[p].term = TermAt(ch, P[p].index)
    /\ \A p \in 1..Len(P) : P[p].type = "state" =>
          /\ P[p].hs # EmptyState
          /\ \A q \in p..Len(P) : P[q].type = "state" => P[p].hs.commit <= P[q].hs.commit

\* The commit index that is read speaks of entries that are read, and that the
\* cluster has committed.
Agrees(P, s, ch) ==
    LET c == LastState(P).commit
    IN  c <= Len(ch) /\ \A k \in s + 1..c : k <= End(P, s) /\ Term(P, s, k) = ch[k]

\* What is read above s are the first n entries of the log, and possibly more.
Holds(P, s, log, n) == (n <= s \/ n <= End(P, s)) /\ \A k \in s + 1..n : Term(P, s, k) = log[k]

\* The HardState of a node that is started from P and snapshot s
StateOf(P, s) == IF LastState(P) = EmptyState THEN [term |-> 0, vote |-> 0, commit |-> s] ELSE LastState(P)

Rises(ch) == \A j \in 1..Len(ch) : \A i \in 1..j : ch[i] <= ch[j]

\* What the cluster has committed, and the snapshots of it
Committed ==
    /\ Rises(chosen)
    /\ \A f \in snaps : f.index <= Len(chosen) /\ f.term = TermAt(chosen, f.index)

\* What a process that is down has left
Left ==
    LET P == Readable(wal.file)
        s == load(snaps).index
    IN  /\ Written(P, s, chosen) /\ Agrees(P, s, chosen)
        /\ damage = {} => LastState(P) = EmptyState \/ s <= LastState(P).commit

\* What a running process has handed to the C library, and all it has saved
Handed  == wal.file \o wal.stdio
Content == Handed \o wal.data_buffer

Pending  == IF pc = "save" THEN rd.entries ELSE <<>>
Installs == saving.install \/ (pc = "save" /\ rd.snap > 0)

\* Whichever records a kill loses, the file that it leaves is good; only HardStates
\* wait in data_buffer.
OnDisk ==
    /\ Written(Content, snapshot_index, chosen) /\ Len(wal.file) >= 1
    /\ load(snaps).index = snapshot_index
    /\ ~saving.install =>
          \A n \in Len(wal.file)..Len(Content) : Agrees(SubSeq(Content, 1, n), snapshot_index, chosen)
    /\ \A p \in 1..Len(Content) : Content[p].type = "state" => Content[p].hs.commit <= raft.commit
    /\ \A p \in 1..Len(wal.data_buffer) : wal.data_buffer[p].type = "state"
    /\ pc \in {"snap_open", "snap_write"} => wal.data_buffer = <<>>

\* Raft's log is the snapshot and what is saved above it, up to the entry that is
\* about to be saved; as far as it is committed, it is what the cluster has committed.
InMemory ==
    /\ raft.commit <= Len(chosen)
    /\ \A k \in (IF Installs THEN raft.commit ELSE snapshot_index)..raft.commit :
          TermAt(raft.log, k) = TermAt(chosen, k)
    /\ ~Installs => Holds(Content, snapshot_index, raft.log, Len(raft.log) - Len(Pending))
    /\ \/ Pending = <<>>
       \/ /\ Pending = <<EntryRecord(Len(raft.log), raft.log[Len(raft.log)])>>
          /\ Len(raft.log) > snapshot_index /\ raft.log[Len(raft.log)] > 0
          /\ \A p \in 1..Len(Content) : Content[p].type = "state" => Content[p].hs.commit < Len(raft.log)

\* The HardState that was saved last is Raft's but for the one that is about to be
\* saved, and what a stop leaves has its term and vote.
HardStates ==
    /\ pc \in Writing => LastState(Content) # EmptyState
    /\ IF pc = "save" /\ rd.hs # EmptyState
       THEN \/ LastState(Content).term < raft.term
            \/ LastState(Content).term = raft.term /\ LastState(Content).vote \in {0, raft.vote}
       ELSE StateOf(Content, snapshot_index) = hard_state(raft)
    /\ pc = "save" /\ rd.snap > 0 => rd.hs # EmptyState
    /\ LastState(Handed).term = LastState(Content).term /\ LastState(Handed).vote = LastState(Content).vote
    /\ LastState(Handed) = EmptyState \/ snapshot_index <= LastState(Handed).commit
    /\ wal.state = EmptyState \/ (wal.state.term = LastState(Content).term /\ wal.state.vote = LastState(Content).vote)
    /\ pc # "idle" => /\ rd.hs = IF hard_state(raft) = prev_hs THEN EmptyState ELSE hard_state(raft)
                      /\ hard_state(raft) = EmptyState => prev_hs = EmptyState
    /\ pc = "idle" => prev_hs = hard_state(raft) \/ (raft.log = <<>> /\ prev_hs = EmptyState)

\* All of it, unless a kill has cut off the saving of a received snapshot
Kept ==
    "install" \notin damage =>
        /\ Committed
        /\ pc = "down" /\ dir = "ready" => Left
        /\ Up => OnDisk /\ InMemory /\ HardStates
        /\ pc = "dead" => damage # {}

-----------------------------------------------------------------------------
(* How the parts of the invariant change with their arguments. *)

\* What the cluster has committed only grows.
Grows(ch, ch2) ==
    /\ ch \in Seq(Nat) /\ ch2 \in Seq(Nat)
    /\ Len(ch) <= Len(ch2) /\ \A k \in 1..Len(ch) : ch2[k] = ch[k]

\* The fields of a record
LEMMA RecordFields ==
    ASSUME NEW P \in Seq(Record), NEW p \in 1..Len(P)
    PROVE  P[p] \in Record /\ P[p].index \in Nat /\ P[p].term \in Nat /\ P[p].hs \in HardState
<1>1. P[p] \in Record OBVIOUS
<1> QED BY <1>1 DEF Record

\* The fields of a HardState
LEMMA StateFields ==
    ASSUME NEW P \in Seq(Record)
    PROVE  /\ LastState(P) \in HardState /\ LastState(P).term \in Nat /\ LastState(P).vote \in Nat
           /\ LastState(P).commit \in Nat
<1>1. EntryRecord(0, 0) \in Record BY SmallTypes
<1>2. LastState(P) \in HardState BY <1>1, LastStateFacts
<1> QED BY <1>2 DEF HardState

\* What is chosen stays chosen.
LEMMA GrowsTermAt ==
    ASSUME NEW ch, NEW ch2, Grows(ch, ch2), NEW k \in 0..Len(ch)
    PROVE  TermAt(ch2, k) = TermAt(ch, k) /\ TermAt(ch, k) \in Nat
<1>1. CASE k = 0 BY <1>1 DEF TermAt
<1>2. CASE k # 0
  <2>1. k \in 1..Len(ch) /\ ch[k] \in Nat BY <1>2 DEF Grows
  <2> QED BY <1>2, <2>1 DEF TermAt, Grows
<1> QED BY <1>1, <1>2

\* A file's records stand, whatever else the cluster commits.
LEMMA WrittenGrows ==
    ASSUME NEW P \in Seq(Record), NEW s \in Nat, NEW ch, NEW ch2, Grows(ch, ch2), Written(P, s, ch)
    PROVE  Written(P, s, ch2)
<1>1. ASSUME NEW p \in 1..Len(P), P[p].type = "snapshot"
      PROVE  P[p].index <= Len(ch2) /\ P[p].term = TermAt(ch2, P[p].index)
  <2>1. P[p].index <= Len(ch) /\ P[p].term = TermAt(ch, P[p].index) BY <1>1 DEF Written
  <2>2. P[p].index \in Nat /\ Len(ch) \in Nat /\ Len(ch2) \in Nat /\ Len(ch) <= Len(ch2)
    <3>1. P[p].index \in Nat BY RecordFields
    <3> QED BY <3>1 DEF Grows
  <2>3. P[p].index \in 0..Len(ch) BY <2>1, <2>2
  <2>4. TermAt(ch2, P[p].index) = TermAt(ch, P[p].index) BY <2>3, GrowsTermAt
  <2> QED BY <2>1, <2>2, <2>4
<1> QED BY <1>1 DEF Written

\* So do the entries it has for committed.
LEMMA AgreesGrows ==
    ASSUME NEW P \in Seq(Record), NEW s \in Nat, NEW ch, NEW ch2, Grows(ch, ch2), Agrees(P, s, ch)
    PROVE  Agrees(P, s, ch2)
<1> DEFINE c == LastState(P).commit
<1>1. c \in Nat BY StateFields
<1>2. c <= Len(ch) /\ \A k \in s + 1..c : k <= End(P, s) /\ Term(P, s, k) = ch[k] BY DEF Agrees
<1>3. Len(ch) \in Nat /\ Len(ch2) \in Nat /\ Len(ch) <= Len(ch2) /\ \A k \in 1..Len(ch) : ch2[k] = ch[k]
  BY DEF Grows
<1> HIDE DEF c
<1>4. c <= Len(ch2) BY <1>1, <1>2, <1>3
<1>5. \A k \in s + 1..c : k \in 1..Len(ch) BY <1>1, <1>2, <1>3
<1>6. c <= Len(ch2) /\ \A k \in s + 1..c : k <= End(P, s) /\ Term(P, s, k) = ch2[k]
  BY <1>2, <1>3, <1>4, <1>5
<1> QED BY <1>6 DEF Agrees, c

\* A later snapshot leaves the records what they are.
LEMMA WrittenHigher ==
    ASSUME NEW P \in Seq(Record), NEW s \in Nat, NEW s2 \in Nat, s <= s2, NEW ch, Written(P, s, ch)
    PROVE  Written(P, s2, ch)
<1>1. Gapless(P, s2) BY GaplessHigher DEF Written
<1> QED BY <1>1 DEF Written

\* So does losing the end of the file.
LEMMA WrittenPrefix ==
    ASSUME NEW P \in Seq(Record), NEW s \in Nat, NEW ch, Written(P, s, ch), NEW n \in 1..Len(P)
    PROVE  Written(SubSeq(P, 1, n), s, ch)
<1> DEFINE P2 == SubSeq(P, 1, n)
<1>1. n \in 0..Len(P) /\ Len(P) \in Nat OBVIOUS
<1>2. P2 \in Seq(Record) /\ Len(P2) = n /\ \A p \in 1..n : P2[p] = P[p] BY <1>1, PrefixFacts
<1>3. Gapless(P2, s) BY <1>1, GaplessPrefix DEF Written
<1> HIDE DEF P2
<1>4. \A p \in 1..n : p \in 1..Len(P) /\ \A q \in p..n : q \in 1..n /\ q \in p..Len(P) BY <1>1
<1>5. Intact(P2) BY <1>2, <1>4 DEF Written, Intact
<1>6. Len(P2) >= 1 /\ P2[1].type = "snapshot" BY <1>2 DEF Written
<1>7. /\ \A p \in 1..Len(P2) : P2[p].type = "entry" => P2[p].term > 0
      /\ \A p \in 1..Len(P2) : P2[p].type = "snapshot" => P2[p].index <= Len(ch) /\ P2[p].term = TermAt(ch, P2[p].index)
  BY <1>2, <1>4 DEF Written
<1>8. ASSUME NEW p \in 1..Len(P2), P2[p].type = "state"
      PROVE  /\ P2[p].hs # EmptyState
             /\ \A q \in p..Len(P2) : P2[q].type = "state" => P2[p].hs.commit <= P2[q].hs.commit
  <2>1. p \in 1..Len(P) /\ P[p].type = "state" /\ P2[p] = P[p] BY <1>2, <1>4, <1>8
  <2>2. /\ P[p].hs # EmptyState
        /\ \A q \in p..Len(P) : P[q].type = "state" => P[p].hs.commit <= P[q].hs.commit
    BY <2>1 DEF Written
  <2>3. \A q \in p..Len(P2) : P2[q] = P[q] /\ q \in p..Len(P) BY <1>2, <1>4
  <2> QED BY <2>1, <2>2, <2>3
<1>9. Written(P2, s, ch) BY <1>3, <1>5, <1>6, <1>7, <1>8 DEF Written
<1> QED BY <1>9 DEF P2

\* What may be appended to a log file
Fits(P, s, ch, e) ==
    /\ e \in Record /\ e.type # "torn"
    /\ e.type = "entry" => e.term > 0 /\ (e.index <= s + 1 \/ e.index - 1 <= End(P, s))
    /\ e.type = "snapshot" => e.index <= Len(ch) /\ e.term = TermAt(ch, e.index)
    /\ e.type = "state" => /\ e.hs # EmptyState
                           /\ \A p \in 1..Len(P) : P[p].type = "state" => P[p].hs.commit <= e.hs.commit

\* A record that fits may be appended.
LEMMA WrittenAppend ==
    ASSUME NEW P \in Seq(Record), NEW s \in Nat, NEW ch, Written(P, s, ch), NEW e, Fits(P, s, ch, e)
    PROVE  Written(Append(P, e), s, ch)
<1> DEFINE P2 == Append(P, e)
           n  == Len(P) + 1
<1>1. e \in Record BY DEF Fits
<1>2. Len(P) \in Nat /\ n \in Nat OBVIOUS
<1>3. P2 \in Seq(Record) /\ Len(P2) = n /\ P2[n] = e /\ \A p \in 1..Len(P) : P2[p] = P[p]
  BY <1>1, AppendFacts
<1>4. Gapless(P2, s) BY <1>1, GaplessAppend DEF Written, Fits
<1> HIDE DEF P2
<1>5. \A p \in 1..n : p \in 1..Len(P) \/ p = n BY <1>2
<1>6. Intact(P2) BY <1>3, <1>5 DEF Written, Intact, Fits
<1>7. Len(P2) >= 1 /\ P2[1].type = "snapshot"
  <2>1. Len(P) >= 1 /\ P[1].type = "snapshot" BY DEF Written
  <2>2. 1 \in 1..Len(P) BY <1>2, <2>1
  <2> QED BY <1>2, <1>3, <2>1, <2>2
<1>8. \A p \in 1..Len(P2) : P2[p].type = "entry" => P2[p].term > 0 BY <1>3, <1>5 DEF Written, Fits
<1>9. \A p \in 1..Len(P2) : P2[p].type = "snapshot" => P2[p].index <= Len(ch) /\ P2[p].term = TermAt(ch, P2[p].index)
  BY <1>3, <1>5 DEF Written, Fits
<1>10. ASSUME NEW p \in 1..Len(P2), P2[p].type = "state"
       PROVE  /\ P2[p].hs # EmptyState
              /\ \A q \in p..Len(P2) : P2[q].type = "state" => P2[p].hs.commit <= P2[q].hs.commit
  <2>1. CASE p = n
    <3>1. \A q \in p..Len(P2) : q = n BY <1>2, <1>3, <2>1
    <3>2. e.hs # EmptyState BY <1>3, <1>10, <2>1 DEF Fits
    <3>3. e.hs.commit <= e.hs.commit
      <4>1. e.hs.commit \in Nat BY <1>1 DEF Record, HardState
      <4> QED BY <4>1
    <3> QED BY <1>3, <2>1, <3>1, <3>2, <3>3
  <2>2. CASE p \in 1..Len(P)
    <3>1. P2[p] = P[p] /\ P[p].type = "state" BY <1>3, <1>10, <2>2
    <3>2. /\ P[p].hs # EmptyState
          /\ \A q \in p..Len(P) : P[q].type = "state" => P[p].hs.commit <= P[q].hs.commit
      BY <2>2, <3>1 DEF Written
    <3>3. ASSUME NEW q \in p..Len(P2), P2[q].type = "state" PROVE P2[p].hs.commit <= P2[q].hs.commit
      <4>1. CASE q = n
        <5>1. e.type = "state" BY <1>3, <3>3, <4>1
        <5> QED BY <1>3, <2>2, <3>1, <4>1, <5>1 DEF Fits
      <4>2. CASE q # n
        <5>1. q \in p..Len(P) /\ q \in 1..Len(P) BY <1>2, <1>3, <2>2, <4>2
        <5> QED BY <1>3, <3>1, <3>2, <3>3, <5>1
      <4> QED BY <4>1, <4>2
    <3> QED BY <3>1, <3>2, <3>3
  <2> QED BY <1>3, <1>5, <2>1, <2>2
<1>11. Written(P2, s, ch) BY <1>4, <1>6, <1>7, <1>8, <1>9, <1>10 DEF Written
<1> QED BY <1>11 DEF P2

\* No snapshot record stands in the way of a start.
LEMMA WrittenMatches ==
    ASSUME NEW P \in Seq(Record), NEW s \in Nat, NEW ch, Written(P, s, ch)
    PROVE  ~Mismatch(P, s, TermAt(ch, s))
<1>1. Len(P) >= 1 /\ P[1].type = "snapshot" /\ Len(P) \in Nat BY DEF Written
<1>2. 1 \in Positions(P, "snapshot") BY <1>1 DEF Positions
<1>3. \A p \in Positions(P, "snapshot") : P[p].index = s => P[p].term = TermAt(ch, s)
  BY DEF Written, Positions
<1> QED BY <1>2, <1>3 DEF Mismatch

\* Nor is an entry missing.
LEMMA WrittenWhole ==
    ASSUME NEW P \in Seq(Record), NEW s \in Nat, NEW ch, Written(P, s, ch)
    PROVE  \A k \in s + 1..End(P, s) : Term(P, s, k) # 0
<1> TAKE k \in s + 1..End(P, s)
<1>1. End(P, s) \in Nat /\ Len(P) \in Nat /\ \A j \in Nat : Live(P, s, j) \in SUBSET (1..Len(P))
  <2>1. Len(P) \in Nat OBVIOUS
  <2> QED BY <2>1, EntriesFacts
<1>2. k \in Nat BY <1>1
<1>3. Live(P, s, k) # {} BY GaplessLive DEF Written
<1> DEFINE p == Latest(Live(P, s, k))
<1>4. p \in Live(P, s, k) BY <1>1, <1>2, <1>3, LatestFacts
<1>5. Term(P, s, k) = P[p].term BY <1>3, EntriesFacts
<1> HIDE DEF p
<1>6. p \in 1..Len(P) /\ P[p].type = "entry" BY <1>4, AboveFacts DEF Live
<1>7. P[p].term > 0 /\ P[p].term \in Nat BY <1>6, RecordFields DEF Written
<1> QED BY <1>5, <1>7

\* The HardStates of a file are in order.
LEMMA WrittenStates ==
    ASSUME NEW P \in Seq(Record), NEW s \in Nat, NEW ch, Written(P, s, ch)
    PROVE  /\ LastState(P) = EmptyState => \A p \in 1..Len(P) : P[p].type # "state"
           /\ \A p \in 1..Len(P) : P[p].type = "state" => P[p].hs.commit <= LastState(P).commit
<1> DEFINE S == Positions(P, "state")
           l == Latest(S)
<1>1. Len(P) \in Nat /\ S \in SUBSET (1..Len(P)) /\ \A p \in 1..Len(P) : p \in S <=> P[p].type = "state"
  BY DEF Positions
<1>2. LastState(P) = IF S = {} THEN EmptyState ELSE P[l].hs BY DEF LastState
<1>3. S # {} => l \in S /\ \A q \in S : q <= l
  <2> HIDE DEF S
  <2> QED BY <1>1, LatestFacts
<1> HIDE DEF S, l
<1>4. LastState(P) = EmptyState => S = {}
  <2> SUFFICES ASSUME S # {} PROVE LastState(P) # EmptyState OBVIOUS
  <2>1. l \in 1..Len(P) /\ P[l].type = "state" BY <1>1, <1>3
  <2> QED BY <1>2, <2>1 DEF Written
<1>5. ASSUME NEW p \in 1..Len(P), P[p].type = "state" PROVE P[p].hs.commit <= LastState(P).commit
  <2>1. p \in S BY <1>1, <1>5
  <2>2. l \in 1..Len(P) /\ P[l].type = "state" /\ p <= l BY <1>1, <1>3, <2>1
  <2>3. l \in p..Len(P) BY <2>2
  <2>4. P[p].hs.commit <= P[l].hs.commit BY <1>5, <2>2, <2>3 DEF Written
  <2> QED BY <1>2, <2>1, <2>4
<1> QED BY <1>1, <1>4, <1>5

\* A record that is no entry changes nothing of what is read.
LEMMA OtherRecord ==
    ASSUME NEW P \in Seq(Record), NEW s \in Nat, NEW e \in Record, e.type # "entry"
    PROVE  End(Append(P, e), s) = End(P, s) /\ \A k : Term(Append(P, e), s, k) = Term(P, s, k)
<1>1. Entries(Append(P, e), s) = Entries(P, s) BY AppendOtherFacts
<1> QED BY <1>1 DEF End, Term

\* Appending keeps Agrees: an entry above the commit index, ...
LEMMA AgreesEntry ==
    ASSUME NEW P \in Seq(Record), NEW s \in Nat, NEW ch, Agrees(P, s, ch),
           NEW e \in Record, e.type = "entry", e.index > s, LastState(P).commit < e.index
    PROVE  Agrees(Append(P, e), s, ch)
<1> DEFINE P2 == Append(P, e)
           c  == LastState(P).commit
<1>1. LastState(P2) = LastState(P) BY LastStateFacts
<1>2. End(P2, s) = e.index /\ \A k \in s + 1..e.index - 1 : k <= End(P, s) => Term(P2, s, k) = Term(P, s, k)
  BY AppendEntryFacts
<1>3. c \in Nat /\ e.index \in Nat /\ End(P, s) \in Nat
  <2>1. e.index \in Nat BY DEF Record
  <2> QED BY <2>1, StateFields, EntriesFacts
<1>4. c <= Len(ch) /\ \A k \in s + 1..c : k <= End(P, s) /\ Term(P, s, k) = ch[k] BY DEF Agrees
<1>5. c < e.index OBVIOUS
<1> HIDE DEF P2, c
<1>6. \A k \in s + 1..c : k \in s + 1..e.index - 1 /\ k <= e.index BY <1>3, <1>5
<1>7. c <= Len(ch) /\ \A k \in s + 1..c : k <= End(P2, s) /\ Term(P2, s, k) = ch[k]
  BY <1>2, <1>4, <1>6
<1> QED BY <1>1, <1>7 DEF Agrees, P2, c

\* ... a snapshot record, ...
LEMMA AgreesSnapshot ==
    ASSUME NEW P \in Seq(Record), NEW s \in Nat, NEW ch, Agrees(P, s, ch),
           NEW e \in Record, e.type = "snapshot"
    PROVE  Agrees(Append(P, e), s, ch)
<1>1. LastState(Append(P, e)) = LastState(P) BY LastStateFacts
<1>2. End(Append(P, e), s) = End(P, s) /\ \A k : Term(Append(P, e), s, k) = Term(P, s, k) BY OtherRecord
<1> QED BY <1>1, <1>2 DEF Agrees

\* ... and a HardState whose commit index speaks of what is read.
LEMMA AgreesState ==
    ASSUME NEW P \in Seq(Record), NEW s \in Nat, NEW ch, NEW hs \in HardState, NEW log, NEW n \in Nat,
           Holds(P, s, log, n), hs.commit <= n, hs.commit <= Len(ch),
           \A k \in s + 1..hs.commit : log[k] = ch[k]
    PROVE  Agrees(Append(P, StateRecord(hs)), s, ch)
<1> DEFINE e  == StateRecord(hs)
           P2 == Append(P, e)
           c  == hs.commit
<1>1. e \in Record /\ e.type = "state" /\ e.hs = hs BY SmallTypes DEF StateRecord
<1>2. LastState(P2) = hs
  <2> HIDE DEF e
  <2> QED BY <1>1, LastStateFacts
<1>3. End(P2, s) = End(P, s) /\ \A k : Term(P2, s, k) = Term(P, s, k)
  <2> HIDE DEF e
  <2> QED BY <1>1, OtherRecord
<1>4. c \in Nat /\ End(P, s) \in Nat
  <2>1. c \in Nat BY DEF HardState
  <2> QED BY <2>1, EntriesFacts
<1>5. (n <= s \/ n <= End(P, s)) /\ \A k \in s + 1..n : Term(P, s, k) = log[k] BY DEF Holds
<1>6. c <= n /\ c <= Len(ch) /\ \A k \in s + 1..c : log[k] = ch[k] OBVIOUS
<1> HIDE DEF P2, c
<1>7. \A k \in s + 1..c : k \in s + 1..n /\ k <= End(P, s) BY <1>4, <1>5, <1>6
<1>8. c <= Len(ch) /\ \A k \in s + 1..c : k <= End(P2, s) /\ Term(P2, s, k) = ch[k]
  BY <1>3, <1>5, <1>6, <1>7
<1> QED BY <1>2, <1>8 DEF Agrees, P2, c, e

\* What a kill can leave of a file with one more record
LEMMA AgreesPrefixes ==
    ASSUME NEW P \in Seq(Record), NEW s \in Nat, NEW ch, NEW e \in Record, NEW lo \in Nat,
           \A n \in lo..Len(P) : Agrees(SubSeq(P, 1, n), s, ch),
           Agrees(Append(P, e), s, ch)
    PROVE  \A n \in lo..Len(Append(P, e)) : Agrees(SubSeq(Append(P, e), 1, n), s, ch)
<1> DEFINE P2 == Append(P, e)
<1>1. P2 \in Seq(Record) /\ Len(P2) = Len(P) + 1 /\ Len(P) \in Nat
  <2>1. Len(P) \in Nat OBVIOUS
  <2> QED BY <2>1, AppendFacts
<1>2. SubSeq(P2, 1, Len(P2)) = P2
  <2> HIDE DEF P2
  <2>1. Len(P2) \in 0..Len(P2) BY <1>1
  <2> QED BY <1>1, <2>1, PrefixFacts
<1>3. \A n \in 0..Len(P) : SubSeq(P2, 1, n) = SubSeq(P, 1, n) BY AppendPrefix
<1>4. ASSUME NEW n \in lo..Len(P2) PROVE Agrees(SubSeq(P2, 1, n), s, ch)
  <2>1. CASE n = Len(P2)
    <3>1. SubSeq(P2, 1, n) = P2 BY <1>2, <2>1
    <3> QED BY <3>1
  <2>2. CASE n # Len(P2)
    <3> HIDE DEF P2
    <3>1. n \in lo..Len(P) /\ n \in 0..Len(P) BY <1>1, <2>2
    <3> QED BY <1>3, <3>1
  <2> QED BY <2>1, <2>2
<1> QED BY <1>4

\* The entry that Raft has last is read once it is saved.
LEMMA HoldsEntry ==
    ASSUME NEW P \in Seq(Record), NEW s \in Nat, NEW log, NEW n \in Nat, Holds(P, s, log, n),
           n + 1 > s, NEW t \in Nat, t = log[n + 1]
    PROVE  Holds(Append(P, EntryRecord(n + 1, t)), s, log, n + 1)
<1> DEFINE e  == EntryRecord(n + 1, t)
           P2 == Append(P, e)
<1>1. e \in Record /\ e.type = "entry" /\ e.index = n + 1 /\ e.term = t
  <2>1. e.type = "entry" /\ e.index = n + 1 /\ e.term = t BY DEF EntryRecord
  <2> QED BY <2>1, SmallTypes
<1> HIDE DEF e
<1>2. /\ End(P2, s) = e.index /\ Term(P2, s, e.index) = e.term
      /\ \A k \in s + 1..e.index - 1 : k <= End(P, s) => Term(P2, s, k) = Term(P, s, k)
  BY <1>1, AppendEntryFacts
<1> HIDE DEF P2
<1>3. (n <= s \/ n <= End(P, s)) /\ \A k \in s + 1..n : Term(P, s, k) = log[k] BY DEF Holds
<1>4. ASSUME NEW k \in s + 1..n + 1 PROVE Term(P2, s, k) = log[k]
  <2>1. CASE k = n + 1 BY <1>1, <1>2, <2>1
  <2>2. CASE k # n + 1
    <3>1. End(P, s) \in Nat BY EntriesFacts
    <3>2. k \in s + 1..n /\ k \in s + 1..e.index - 1 /\ k <= End(P, s) BY <1>1, <1>3, <2>2, <3>1
    <3> QED BY <1>2, <1>3, <3>2
  <2> QED BY <2>1, <2>2
<1>5. n + 1 <= End(P2, s) BY <1>1, <1>2
<1>6. Holds(P2, s, log, n + 1) BY <1>4, <1>5 DEF Holds
<1> QED BY <1>6 DEF P2, e

\* Other records change nothing of that.
LEMMA HoldsOther ==
    ASSUME NEW P \in Seq(Record), NEW s \in Nat, NEW log, NEW n, Holds(P, s, log, n),
           NEW e \in Record, e.type # "entry"
    PROVE  Holds(Append(P, e), s, log, n)
BY OtherRecord DEF Holds

\* Nor does a later snapshot.
LEMMA HoldsHigher ==
    ASSUME NEW P \in Seq(Record), NEW s \in Nat, NEW s2 \in Nat, s <= s2, Gapless(P, s),
           NEW log, NEW n \in Nat, Holds(P, s, log, n)
    PROVE  Holds(P, s2, log, n)
<1>1. End(P, s) \in Nat BY EntriesFacts
<1>2. (n <= s \/ n <= End(P, s)) /\ \A k \in s + 1..n : Term(P, s, k) = log[k] BY DEF Holds
<1>3. CASE n <= s2
  <2>1. \A k \in s2 + 1..n : FALSE BY <1>3
  <2> QED BY <1>3, <2>1 DEF Holds
<1>4. CASE ~(n <= s2)
  <2>1. n <= End(P, s) /\ s2 < End(P, s) BY <1>1, <1>2, <1>4
  <2>2. End(P, s2) = End(P, s) /\ \A k \in s2 + 1..End(P, s) : Term(P, s2, k) = Term(P, s, k)
    BY <2>1, EntriesHigher
  <2>3. \A k \in s2 + 1..n : k \in s2 + 1..End(P, s) /\ k \in s + 1..n BY <1>1, <2>1
  <2> QED BY <1>2, <2>1, <2>2, <2>3 DEF Holds
<1> QED BY <1>3, <1>4

-----------------------------------------------------------------------------
(* Events. *)

\* What an event adds to what the cluster has committed
LEMMA ChosenFacts ==
    ASSUME NEW ch \in Seq(Nat), NEW log \in Seq(Nat), NEW c \in 0..Len(log), NEW ch2,
           ch2 = ch \o SubSeq(log, Len(ch) + 1, c)
    PROVE  /\ Grows(ch, ch2) /\ c <= Len(ch2) /\ (Len(ch2) = Len(ch) \/ Len(ch2) = c)
           /\ \A k \in Len(ch) + 1..Len(ch2) : ch2[k] = log[k]
<1> DEFINE new == SubSeq(log, Len(ch) + 1, c)
           m   == IF c < Len(ch) + 1 THEN 0 ELSE c - Len(ch)
<1>1. Len(ch) \in Nat /\ Len(log) \in Nat /\ c \in Nat /\ c <= Len(log) OBVIOUS
<1>2. new \in Seq(Nat) /\ Len(new) = m /\ \A k \in 1..m : new[k] = log[Len(ch) + k]
  <2>1. \A k \in Len(ch) + 1..c : k \in 1..Len(log) BY <1>1
  <2>2. new \in Seq(Nat) BY <1>1, <2>1
  <2>3. Len(new) = m BY <1>1
  <2>4. \A k \in 1..m : new[k] = log[Len(ch) + k]
    <3> TAKE k \in 1..m
    <3>1. new[k] = log[Len(ch) + 1 + k - 1] BY <1>1, <2>3
    <3>2. Len(ch) + 1 + k - 1 = Len(ch) + k BY <1>1
    <3> QED BY <3>1, <3>2
  <2> QED BY <2>2, <2>3, <2>4
<1> HIDE DEF new
<1>3. /\ ch2 \in Seq(Nat) /\ Len(ch2) = Len(ch) + m
      /\ \A k \in 1..Len(ch) : ch2[k] = ch[k]
      /\ \A k \in 1..m : ch2[Len(ch) + k] = new[k]
  <2>1. ch2 = ch \o new BY DEF new
  <2>2. /\ ch \o new \in Seq(Nat) /\ Len(ch \o new) = Len(ch) + Len(new)
        /\ \A k \in 1..Len(ch) : (ch \o new)[k] = ch[k]
        /\ \A k \in 1..Len(new) : (ch \o new)[Len(ch) + k] = new[k]
    BY <1>2, SMTT(30)
  <2> QED BY <1>2, <2>1, <2>2
<1>4. m \in Nat /\ c <= Len(ch) + m /\ (m = 0 \/ Len(ch) + m = c) BY <1>1
<1> HIDE DEF m
<1>5. ASSUME NEW k \in Len(ch) + 1..Len(ch2) PROVE ch2[k] = log[k]
  <2> DEFINE j == k - Len(ch)
  <2>1. j \in 1..m /\ Len(ch) + j = k BY <1>1, <1>3, <1>4
  <2> HIDE DEF j
  <2> QED BY <1>2, <1>3, <2>1
<1>6. Len(ch) <= Len(ch2) /\ c <= Len(ch2) /\ (Len(ch2) = Len(ch) \/ Len(ch2) = c) BY <1>1, <1>3, <1>4
<1>7. Grows(ch, ch2) BY <1>3, <1>6 DEF Grows
<1> QED BY <1>5, <1>6, <1>7

\* An entry or two more, in order
LEMMA RisesOn ==
    ASSUME NEW ch, NEW ch2, Grows(ch, ch2), Rises(ch), NEW log, NEW lo \in 0..Len(ch),
           \A k \in Len(ch) + 1..Len(ch2) : ch2[k] = log[k],
           Rising(log, lo, Len(ch2)),
           Len(ch2) = Len(ch) \/ TermAt(log, Len(ch)) = TermAt(ch, Len(ch))
    PROVE  Rises(ch2)
<1>1. /\ Len(ch) \in Nat /\ Len(ch2) \in Nat /\ Len(ch) <= Len(ch2)
      /\ \A k \in 1..Len(ch) : ch2[k] = ch[k] /\ ch[k] \in Nat
      /\ \A k \in 1..Len(ch2) : ch2[k] \in Nat
  BY DEF Grows
<1> SUFFICES ASSUME NEW j \in 1..Len(ch2), NEW i \in 1..j PROVE ch2[i] <= ch2[j]
  BY DEF Rises
<1>2. i \in 1..Len(ch2) /\ i <= j /\ i \in Nat /\ j \in Nat BY <1>1
<1>3. CASE j <= Len(ch)
  <2>1. j \in 1..Len(ch) /\ i \in 1..Len(ch) BY <1>1, <1>2, <1>3
  <2> QED BY <1>1, <2>1 DEF Rises
<1>4. CASE j > Len(ch)
  <2>1. j \in Len(ch) + 1..Len(ch2) /\ j \in lo..Len(ch2) /\ j # 0 BY <1>1, <1>2, <1>4
  <2>2. ch2[j] = log[j] /\ TermAt(log, j) = log[j] BY <2>1 DEF TermAt
  <2>3. Len(ch2) # Len(ch) BY <1>1, <1>4
  <2>4. \A k \in lo..j : TermAt(log, k) <= ch2[j] BY <2>1, <2>2 DEF Rising
  <2>5. CASE i > Len(ch)
    <3>1. i \in Len(ch) + 1..Len(ch2) /\ i \in lo..j /\ i # 0 BY <1>1, <1>2, <2>5
    <3>2. TermAt(log, i) = ch2[i] BY <3>1 DEF TermAt
    <3> QED BY <2>4, <3>1, <3>2
  <2>6. CASE i <= Len(ch)
    <3>1. Len(ch) \in 1..Len(ch) /\ i \in 1..Len(ch) /\ Len(ch) # 0 BY <1>1, <1>2, <2>6
    <3>2. ch[i] <= ch[Len(ch)] BY <3>1 DEF Rises
    <3>3. TermAt(log, Len(ch)) = ch[Len(ch)] BY <2>3, <3>1 DEF TermAt
    <3>4. Len(ch) \in lo..j BY <1>1, <1>4, <3>1
    <3>5. ch[Len(ch)] <= ch2[j] BY <2>4, <3>3, <3>4
    <3>6. ch2[i] = ch[i] /\ ch[i] \in Nat /\ ch[Len(ch)] \in Nat /\ ch2[j] \in Nat BY <1>1, <3>1
    <3> QED BY <3>2, <3>5, <3>6
  <2> QED BY <1>1, <1>2, <2>5, <2>6
<1> QED BY <1>1, <1>2, <1>3, <1>4

\* The parts of the invariant while a process runs
LEMMA RunningFacts ==
    ASSUME Typed, Staged, Kept, Up, "install" \notin damage
    PROVE  /\ Committed /\ OnDisk /\ InMemory /\ HardStates
           /\ Content \in Seq(Record) /\ Handed \in Seq(Record)
           /\ wal.file \in Seq(Record) /\ wal.stdio \in Seq(Record) /\ wal.data_buffer \in Seq(Record)
           /\ snapshot_index \in Nat /\ chosen \in Seq(Nat) /\ Len(chosen) \in Nat
           /\ raft \in RaftType /\ raft.term \in Nat /\ raft.vote \in Nat /\ raft.commit \in Nat
           /\ raft.log \in Seq(Nat) /\ Len(raft.log) \in Nat
           /\ snapshot_index <= raft.commit /\ raft.commit <= Len(raft.log)
<1>1. Committed /\ OnDisk /\ InMemory /\ HardStates BY DEF Kept
<1>2. wal \in WALType /\ raft \in RaftType /\ applied \in Nat /\ snapshot_index \in Nat /\ chosen \in Seq(Nat)
  BY DEF Typed
<1>3. wal.file \in Seq(Record) /\ wal.stdio \in Seq(Record) /\ wal.data_buffer \in Seq(Record)
  BY <1>2, WALFields
<1>4. Handed \in Seq(Record) BY <1>3, ConcatFacts DEF Handed
<1>5. Content \in Seq(Record) BY <1>3, <1>4, ConcatFacts DEF Content
<1>6. /\ raft.term \in Nat /\ raft.vote \in Nat /\ raft.commit \in Nat
      /\ raft.log \in Seq(Nat) /\ Len(raft.log) \in Nat
  BY <1>2, RaftFields
<1>7. Len(chosen) \in Nat BY <1>2
<1>8. snapshot_index <= raft.commit /\ raft.commit <= Len(raft.log) BY <1>2, <1>6 DEF Typed
<1> QED BY <1>1, <1>2, <1>3, <1>4, <1>5, <1>6, <1>7, <1>8

\* No HardState of a file is ahead of what Raft has committed, nor of what it commits
\* later.
LEMMA StatesLater ==
    ASSUME NEW P \in Seq(Record), NEW c \in Nat, NEW c2 \in Nat,
           \A p \in 1..Len(P) : P[p].type = "state" => P[p].hs.commit <= c
    PROVE  /\ c <= c2 => \A p \in 1..Len(P) : P[p].type = "state" => P[p].hs.commit <= c2
           /\ c < c2 => \A p \in 1..Len(P) : P[p].type = "state" => P[p].hs.commit < c2
<1>1. ASSUME NEW p \in 1..Len(P), P[p].type = "state"
      PROVE  (c <= c2 => P[p].hs.commit <= c2) /\ (c < c2 => P[p].hs.commit < c2)
  <2> DEFINE h == P[p].hs.commit
  <2>1. h \in Nat
    <3>1. P[p].hs \in HardState BY RecordFields
    <3> QED BY <3>1 DEF HardState
  <2>2. h <= c BY <1>1
  <2> HIDE DEF h
  <2>3. (c <= c2 => h <= c2) /\ (c < c2 => h < c2) BY <2>1, <2>2
  <2> QED BY <2>3 DEF h
<1> QED BY <1>1

\* Raft's term and vote go on: a new term, or a vote where there was none.
GoesOn(r) == raft.term < r.term \/ (raft.term = r.term /\ raft.vote \in {0, r.vote})

\* Every event keeps what its own entries and commit index keep.
LEMMA EventKept ==
    ASSUME Typed, Staged, Kept, "install" \notin damage,
           NEW r \in RaftType, NEW base \in Nat, NEW entries \in Seq(Record), NEW snap \in Nat,
           Event(r, base, entries, snap), Typed', Staged',
           GoesOn(r), raft.commit <= r.commit, r.commit <= Len(r.log),
           snap > 0 => raft.commit < r.commit,
           Rises(chosen'),
           \A k \in (IF snap > 0 THEN r.commit ELSE snapshot_index)..r.commit :
               TermAt(r.log, k) = TermAt(chosen', k),
           snap = 0 => Holds(Content, snapshot_index, r.log, Len(r.log) - Len(entries)),
           \/ entries = <<>>
           \/ /\ entries = <<EntryRecord(Len(r.log), r.log[Len(r.log)])>>
              /\ Len(r.log) > snapshot_index /\ r.log[Len(r.log)] > 0
              /\ raft.commit < Len(r.log)
    PROVE  Kept'
<1> DEFINE hs == IF hard_state(r) = prev_hs THEN EmptyState ELSE hard_state(r)
<1>1. /\ pc = "idle" /\ pc' = "save" /\ raft' = r
      /\ chosen' = chosen \o SubSeq(r.log, Len(chosen) + 1, r.commit)
      /\ rd' = [hs |-> hs, entries |-> entries, snap |-> snap]
      /\ UNCHANGED <<dir, wal, snaps, prev_hs, applied, snapshot_index, saving, damage>>
  BY DEF Event
<1>2. Up BY <1>1 DEF Up
<1>3. /\ Committed /\ OnDisk /\ InMemory /\ HardStates
      /\ Content \in Seq(Record) /\ Handed \in Seq(Record)
      /\ snapshot_index \in Nat /\ chosen \in Seq(Nat) /\ Len(chosen) \in Nat
      /\ wal.file \in Seq(Record)
      /\ raft.term \in Nat /\ raft.vote \in Nat /\ raft.commit \in Nat /\ raft \in RaftType
      /\ snapshot_index <= raft.commit
  BY <1>2, RunningFacts
<1>4. /\ r.term \in Nat /\ r.vote \in Nat /\ r.commit \in Nat /\ r.log \in Seq(Nat) /\ Len(r.log) \in Nat
  BY RaftFields
<1>5. Grows(chosen, chosen') /\ r.commit <= Len(chosen') /\ Len(chosen') \in Nat
  <2>1. r.commit \in 0..Len(r.log) BY <1>4
  <2>2. Grows(chosen, chosen') /\ r.commit <= Len(chosen') BY <1>1, <1>3, <1>4, <2>1, ChosenFacts
  <2> QED BY <2>2 DEF Grows
<1>6. rd'.hs = hs /\ rd'.entries = entries /\ rd'.snap = snap BY <1>1
<1>7. Content' = Content /\ Handed' = Handed BY <1>1 DEF Content, Handed
<1>8. Pending' = entries /\ (Installs' <=> snap > 0) /\ ~saving.install /\ saving' = saving
  <2>1. saving = NoSnapshot BY <1>1 DEF Staged, Writing
  <2>2. ~saving.install BY <2>1, SmallTypes
  <2> QED BY <1>1, <1>6, <2>2 DEF Pending, Installs
<1>9. StateOf(Content, snapshot_index) = hard_state(raft)
  BY <1>1, <1>3 DEF HardStates
<1> HIDE DEF hs
<1>11. Committed'
  <2>1. ASSUME NEW f \in snaps PROVE f.index <= Len(chosen') /\ f.term = TermAt(chosen', f.index)
    <3>1. f.index <= Len(chosen) /\ f.term = TermAt(chosen, f.index) BY <1>3 DEF Committed
    <3>2. f.index \in Nat
      <4>1. f \in SnapFile BY DEF Typed, Files
      <4> QED BY <4>1 DEF SnapFile
    <3>3. Len(chosen) <= Len(chosen') BY <1>5 DEF Grows
    <3>4. f.index \in 0..Len(chosen) BY <1>3, <3>1, <3>2
    <3>5. TermAt(chosen', f.index) = TermAt(chosen, f.index) BY <1>5, <3>4, GrowsTermAt
    <3> QED BY <1>3, <1>5, <3>1, <3>2, <3>3, <3>5
  <2> QED BY <1>1, <2>1 DEF Committed
<1>12. OnDisk'
  <2>1. /\ Written(Content, snapshot_index, chosen) /\ Len(wal.file) >= 1
        /\ load(snaps).index = snapshot_index
        /\ \A n \in Len(wal.file)..Len(Content) : Agrees(SubSeq(Content, 1, n), snapshot_index, chosen)
        /\ \A p \in 1..Len(Content) : Content[p].type = "state" => Content[p].hs.commit <= raft.commit
        /\ \A p \in 1..Len(wal.data_buffer) : wal.data_buffer[p].type = "state"
    BY <1>3, <1>8 DEF OnDisk
  <2>2. Written(Content, snapshot_index, chosen') BY <1>3, <1>5, <2>1, WrittenGrows
  <2>3. \A n \in Len(wal.file)..Len(Content) : Agrees(SubSeq(Content, 1, n), snapshot_index, chosen')
    <3> TAKE n \in Len(wal.file)..Len(Content)
    <3>1. n \in 0..Len(Content)
      <4>1. Len(wal.file) \in Nat BY <1>3
      <4> QED BY <4>1
    <3>2. SubSeq(Content, 1, n) \in Seq(Record) BY <1>3, <3>1, PrefixFacts
    <3> QED BY <1>3, <1>5, <2>1, <3>2, AgreesGrows
  <2>4. \A p \in 1..Len(Content) : Content[p].type = "state" => Content[p].hs.commit <= r.commit
    BY <1>3, <1>4, <2>1, StatesLater
  <2> QED BY <1>1, <1>7, <2>1, <2>2, <2>3, <2>4 DEF OnDisk
<1>13. InMemory'
  <2>1. \/ entries = <<>>
        \/ /\ entries = <<EntryRecord(Len(r.log), r.log[Len(r.log)])>>
           /\ Len(r.log) > snapshot_index /\ r.log[Len(r.log)] > 0
           /\ \A p \in 1..Len(Content) : Content[p].type = "state" => Content[p].hs.commit < Len(r.log)
    <3>0. \A p \in 1..Len(Content) : Content[p].type = "state" => Content[p].hs.commit <= raft.commit
      BY <1>3 DEF OnDisk
    <3>1. raft.commit < Len(r.log) =>
             \A p \in 1..Len(Content) : Content[p].type = "state" => Content[p].hs.commit < Len(r.log)
      BY <1>3, <1>4, <3>0, StatesLater
    <3> QED BY <3>1
  <2>2. \A k \in (IF Installs' THEN r.commit ELSE snapshot_index)..r.commit : TermAt(r.log, k) = TermAt(chosen', k)
    BY <1>8
  <2>3. ~Installs' => Holds(Content, snapshot_index, r.log, Len(r.log) - Len(Pending'))
    <3>1. snap \in Nat OBVIOUS
    <3> QED BY <1>8, <3>1
  <2> QED BY <1>1, <1>5, <1>7, <1>8, <2>1, <2>2, <2>3 DEF InMemory
<1>14. HardStates'
  <2> DEFINE last == LastState(Content)
             hr   == hard_state(r)
  <2>1. last \in HardState /\ last.term \in Nat /\ last.vote \in Nat BY <1>3, StateFields
  <2>2. /\ LastState(Handed).term = last.term /\ LastState(Handed).vote = last.vote
        /\ LastState(Handed) = EmptyState \/ snapshot_index <= LastState(Handed).commit
        /\ wal.state = EmptyState \/ (wal.state.term = last.term /\ wal.state.vote = last.vote)
        /\ prev_hs = hard_state(raft) \/ prev_hs = EmptyState
    BY <1>1, <1>3 DEF HardStates
  <2>3. last.term = raft.term /\ last.vote = raft.vote
    <3>1. CASE last = EmptyState
      <4>1. hard_state(raft) = [term |-> 0, vote |-> 0, commit |-> snapshot_index] BY <1>9, <3>1 DEF StateOf
      <4> QED BY <3>1, <4>1 DEF hard_state, EmptyState
    <3>2. CASE last # EmptyState
      <4>1. hard_state(raft) = last BY <1>9, <3>2 DEF StateOf
      <4> QED BY <4>1 DEF hard_state
    <3> QED BY <3>1, <3>2
  <2>4. hs = EmptyState => hr = hard_state(raft)
    <3>1. CASE hr = EmptyState
      <4>1. r.term = 0 /\ r.vote = 0 /\ r.commit = 0 BY <3>1 DEF hard_state, EmptyState
      <4>2. raft.term = 0 /\ raft.vote = 0 /\ raft.commit = 0 BY <1>3, <4>1, SMTT(30) DEF GoesOn
      <4> QED BY <4>1, <4>2 DEF hard_state
    <3>2. CASE hr # EmptyState /\ hr = prev_hs BY <2>2, <3>2
    <3>3. CASE hr # EmptyState /\ hr # prev_hs BY <3>3 DEF hs
    <3> QED BY <3>1, <3>2, <3>3
  <2>5. snap > 0 => hs # EmptyState
    <3> SUFFICES ASSUME snap > 0, hs = EmptyState PROVE FALSE OBVIOUS
    <3>1. r.commit = raft.commit BY <2>4 DEF hard_state
    <3> QED BY <1>3, <3>1
  <2>6. last.term < r.term \/ (last.term = r.term /\ last.vote \in {0, r.vote}) BY <2>3 DEF GoesOn
  <2>7. IF hs # EmptyState
        THEN last.term < r.term \/ (last.term = r.term /\ last.vote \in {0, r.vote})
        ELSE StateOf(Content, snapshot_index) = hr
    BY <1>9, <2>4, <2>6
  <2>8. hs = IF hr = prev_hs THEN EmptyState ELSE hr BY DEF hs
  <2>9. hr = EmptyState => prev_hs = EmptyState
    <3> SUFFICES ASSUME hr = EmptyState PROVE prev_hs = EmptyState OBVIOUS
    <3>1. r.term = 0 /\ r.vote = 0 /\ r.commit = 0 BY DEF hard_state, EmptyState
    <3>2. raft.term = 0 /\ raft.vote = 0 /\ raft.commit = 0 BY <1>3, <3>1, SMTT(30) DEF GoesOn
    <3>3. hard_state(raft) = EmptyState BY <3>2 DEF hard_state, EmptyState
    <3> QED BY <2>2, <3>3
  <2> HIDE DEF hr
  <2> QED BY <1>1, <1>6, <1>7, <2>2, <2>5, <2>7, <2>8, <2>9 DEF HardStates, Writing, hr
<1> QED BY <1>1, <1>11, <1>12, <1>13, <1>14 DEF Kept

\* Nothing more is committed.
LEMMA RisesSame ==
    ASSUME NEW ch, NEW ch2, Grows(ch, ch2), Rises(ch), Len(ch2) = Len(ch)
    PROVE  Rises(ch2)
<1>1. /\ Len(ch) \in Nat /\ Len(ch2) = Len(ch) /\ \A k \in 1..Len(ch) : ch2[k] = ch[k]
  BY DEF Grows
<1> SUFFICES ASSUME NEW j \in 1..Len(ch2), NEW i \in 1..j PROVE ch2[i] <= ch2[j]
  BY DEF Rises
<1>2. j \in 1..Len(ch) /\ i \in 1..Len(ch) BY <1>1
<1>3. ch[i] <= ch[j] BY <1>2 DEF Rises
<1> QED BY <1>1, <1>2, <1>3

\* Entries c0 + 1..c of a log are committed.
Commits(ch, log, s, c0, c, ch2) ==
    /\ ch \in Seq(Nat) /\ log \in Seq(Nat) /\ s \in Nat /\ c0 \in Nat /\ c \in Nat
    /\ s <= c0 /\ c0 <= c /\ c <= Len(log) /\ c0 <= Len(ch) /\ Rises(ch)
    /\ \A k \in s..c0 : TermAt(log, k) = TermAt(ch, k)
    /\ \A k \in c0 + 1..c : k <= Len(ch) => log[k] = ch[k]
    /\ Rising(log, c0, c)
    /\ ch2 = ch \o SubSeq(log, Len(ch) + 1, c)

\* What the cluster has committed still rises, and is what the log has.
LEMMA ChosenLog ==
    ASSUME NEW ch, NEW log, NEW s, NEW c0, NEW c, NEW ch2, Commits(ch, log, s, c0, c, ch2)
    PROVE  Rises(ch2) /\ \A k \in s..c : TermAt(log, k) = TermAt(ch2, k)
<1> USE DEF Commits
<1>1. Len(ch) \in Nat /\ Len(log) \in Nat /\ c \in 0..Len(log) OBVIOUS
<1>0. ch \in Seq(Nat) /\ log \in Seq(Nat) /\ ch2 = ch \o SubSeq(log, Len(ch) + 1, c) OBVIOUS
<1>2. /\ Grows(ch, ch2) /\ c <= Len(ch2) /\ (Len(ch2) = Len(ch) \/ Len(ch2) = c)
      /\ \A k \in Len(ch) + 1..Len(ch2) : ch2[k] = log[k]
  <2>1. Grows(ch, ch2) BY ONLY <1>0, <1>1, ChosenFacts, ZenonT(60)
  <2>2. c <= Len(ch2) /\ (Len(ch2) = Len(ch) \/ Len(ch2) = c) BY ONLY <1>0, <1>1, ChosenFacts
  <2>3. \A k \in Len(ch) + 1..Len(ch2) : ch2[k] = log[k] BY ONLY <1>0, <1>1, ChosenFacts
  <2> QED BY <2>1, <2>2, <2>3
<1>3. Len(ch2) \in Nat /\ Len(ch) <= Len(ch2) /\ \A k \in 1..Len(ch) : ch2[k] = ch[k] BY <1>2 DEF Grows
<1>4. Rises(ch2)
  <2>1. CASE Len(ch2) = Len(ch) BY <1>2, <2>1, RisesSame
  <2>2. CASE Len(ch2) # Len(ch)
    <3>1. Len(ch2) = c /\ Len(ch) < c BY <1>1, <1>2, <1>3, <2>2
    <3>2. TermAt(log, Len(ch)) = TermAt(ch, Len(ch))
      <4>1. CASE Len(ch) = c0
        <5>1. c0 \in s..c0 OBVIOUS
        <5> QED BY <4>1, <5>1
      <4>2. CASE Len(ch) # c0
        <5>1. Len(ch) \in c0 + 1..c /\ Len(ch) # 0 /\ Len(ch) <= Len(ch) BY <1>1, <3>1, <4>2
        <5>2. log[Len(ch)] = ch[Len(ch)] BY <5>1
        <5> QED BY <5>1, <5>2 DEF TermAt
      <4> QED BY <4>1, <4>2
    <3>3. c0 \in 0..Len(ch) BY <1>1
    <3>4. Rising(log, c0, Len(ch2)) BY <3>1
    <3> QED BY <1>2, <3>2, <3>3, <3>4, RisesOn
  <2> QED BY <2>1, <2>2
<1>5. ASSUME NEW k \in s..c PROVE TermAt(log, k) = TermAt(ch2, k)
  <2>1. CASE k <= c0
    <3>1. k \in s..c0 /\ k \in 0..Len(ch) BY <1>1, <2>1
    <3> QED BY <1>2, <3>1, GrowsTermAt
  <2>2. CASE c0 < k /\ k <= Len(ch)
    <3>1. k \in c0 + 1..c /\ k \in 1..Len(ch) /\ k # 0 BY <1>1, <2>2
    <3>2. log[k] = ch[k] /\ ch2[k] = ch[k] BY <1>3, <3>1, <2>2
    <3> QED BY <3>1, <3>2 DEF TermAt
  <2>3. CASE c0 < k /\ Len(ch) < k
    <3>1. k \in Len(ch) + 1..Len(ch2) /\ k # 0 BY <1>1, <1>2, <1>3, <2>3
    <3>2. ch2[k] = log[k] BY <1>2, <3>1
    <3> QED BY <3>1, <3>2 DEF TermAt
  <2>4. k <= c0 \/ (c0 < k /\ k <= Len(ch)) \/ (c0 < k /\ Len(ch) < k) BY <1>1
  <2> QED BY <2>1, <2>2, <2>3, <2>4
<1> QED BY <1>4, <1>5

\* The term of an entry of a log
LEMMA TermAtType ==
    ASSUME NEW log \in Seq(Nat), NEW k \in 0..Len(log)
    PROVE  TermAt(log, k) \in Nat
<1>1. CASE k = 0 BY <1>1 DEF TermAt
<1>2. CASE k # 0
  <2>1. k \in 1..Len(log) BY <1>2
  <2> QED BY <1>2, <2>1 DEF TermAt
<1> QED BY <1>1, <1>2

\* A snapshot of entry n and term t is committed: the entries it stands for are of its
\* term.
Installed(ch, log, n, t, ch2) ==
    /\ ch \in Seq(Nat) /\ log \in Seq(Nat) /\ n \in Nat /\ n > 0 /\ Len(log) = n /\ t \in Nat
    /\ Rises(ch) /\ \A k \in 1..n : log[k] = t
    /\ n <= Len(ch) => log[n] = ch[n]
    /\ n > Len(ch) => t >= TermAt(ch, Len(ch))
    /\ ch2 = ch \o SubSeq(log, Len(ch) + 1, n)

\* What the cluster has committed still rises, and is what the snapshot is of.
LEMMA ChosenSnapshot ==
    ASSUME NEW ch, NEW log, NEW n, NEW t, NEW ch2, Installed(ch, log, n, t, ch2)
    PROVE  Rises(ch2) /\ TermAt(log, n) = TermAt(ch2, n)
<1> USE DEF Installed
<1>1. Len(ch) \in Nat /\ n \in 0..Len(log) OBVIOUS
<1>0. ch \in Seq(Nat) /\ log \in Seq(Nat) /\ ch2 = ch \o SubSeq(log, Len(ch) + 1, n) OBVIOUS
<1>2. /\ Grows(ch, ch2) /\ n <= Len(ch2) /\ (Len(ch2) = Len(ch) \/ Len(ch2) = n)
      /\ \A k \in Len(ch) + 1..Len(ch2) : ch2[k] = log[k]
  <2>1. Grows(ch, ch2) BY <1>1, ChosenFacts
  <2>2. n <= Len(ch2) /\ (Len(ch2) = Len(ch) \/ Len(ch2) = n) BY ONLY <1>0, <1>1, ChosenFacts
  <2>3. \A k \in Len(ch) + 1..Len(ch2) : ch2[k] = log[k] BY ONLY <1>0, <1>1, ChosenFacts
  <2> QED BY <2>1, <2>2, <2>3
<1>3. Len(ch2) \in Nat /\ Len(ch) <= Len(ch2) /\ \A k \in 1..Len(ch) : ch2[k] = ch[k] /\ ch[k] \in Nat
  BY <1>2 DEF Grows
<1>4. TermAt(log, n) = TermAt(ch2, n)
  <2>1. CASE n <= Len(ch)
    <3>1. n \in 1..Len(ch) BY <2>1
    <3> QED BY <1>3, <2>1, <3>1 DEF TermAt
  <2>2. CASE n > Len(ch)
    <3>1. n \in Len(ch) + 1..Len(ch2) BY <1>1, <1>2, <1>3, <2>2
    <3> QED BY <1>2, <3>1 DEF TermAt
  <2> QED BY <1>1, <2>1, <2>2
<1>5. Rises(ch2)
  <2>1. CASE Len(ch2) = Len(ch) BY <1>2, <2>1, RisesSame
  <2>2. CASE Len(ch2) # Len(ch)
    <3>1. Len(ch2) = n /\ n > Len(ch) BY <1>1, <1>2, <1>3, <2>2
    <3>2. \A k \in Len(ch) + 1..n : ch2[k] = t
      <4> TAKE k \in Len(ch) + 1..n
      <4>1. k \in 1..n BY <1>1
      <4> QED BY <1>2, <3>1, <4>1
    <3>3. \A k \in 1..Len(ch) : ch[k] <= t
      <4> TAKE k \in 1..Len(ch)
      <4>1. Len(ch) \in 1..Len(ch) /\ k \in 1..Len(ch) /\ Len(ch) # 0 BY <1>1
      <4>2. ch[k] <= ch[Len(ch)] BY <4>1 DEF Rises
      <4>3. ch[Len(ch)] <= t BY <3>1, <4>1 DEF TermAt
      <4> QED BY <1>3, <4>1, <4>2, <4>3
    <3> SUFFICES ASSUME NEW j \in 1..Len(ch2), NEW i \in 1..j PROVE ch2[i] <= ch2[j]
      BY DEF Rises
    <3>4. i \in 1..n /\ j \in 1..n BY <3>1
    <3>5. CASE j <= Len(ch)
      <4>1. j \in 1..Len(ch) /\ i \in 1..Len(ch) BY <3>5, <1>1
      <4>2. ch[i] <= ch[j] BY <4>1 DEF Rises
      <4> QED BY <1>3, <4>1, <4>2
    <3>6. CASE ~(j <= Len(ch))
      <4>1. j \in Len(ch) + 1..n BY <1>1, <3>4, <3>6
      <4>2. CASE i <= Len(ch)
        <5>1. i \in 1..Len(ch) BY <3>4, <4>2, <1>1
        <5> QED BY <1>3, <3>2, <3>3, <4>1, <5>1
      <4>3. CASE ~(i <= Len(ch))
        <5>1. i \in Len(ch) + 1..n BY <1>1, <3>4, <4>3
        <5> QED BY <3>2, <4>1, <5>1
      <4> QED BY <4>2, <4>3
    <3> QED BY <3>5, <3>6
  <2> QED BY <2>1, <2>2
<1> QED BY <1>4, <1>5

\* Between two events nothing is under way, and all of the log is saved.
LEMMA IdleFacts ==
    ASSUME Typed, Staged, Kept, pc = "idle", "install" \notin damage
    PROVE  /\ Rises(chosen) /\ raft.commit <= Len(chosen)
           /\ \A k \in snapshot_index..raft.commit : TermAt(raft.log, k) = TermAt(chosen, k)
           /\ Holds(Content, snapshot_index, raft.log, Len(raft.log))
           /\ saving = NoSnapshot /\ ~saving.install
           /\ StateOf(Content, snapshot_index) = hard_state(raft)
<1>1. Up BY DEF Up
<1>2. Committed /\ InMemory /\ HardStates /\ Len(raft.log) \in Nat BY <1>1, RunningFacts
<1>3. saving = NoSnapshot /\ ~saving.install
  <2>1. saving = NoSnapshot BY DEF Staged, Writing
  <2> QED BY <2>1, SmallTypes
<1>4. ~Installs /\ Pending = <<>> BY <1>3 DEF Installs, Pending
<1>5. Len(raft.log) - Len(Pending) = Len(raft.log) BY <1>2, <1>4
<1> QED BY <1>2, <1>3, <1>4, <1>5 DEF Committed, InMemory, HardStates

\* TermOrVote keeps the invariant.
LEMMA TermOrVoteKept ==
    ASSUME Typed, Staged, Kept, "install" \notin damage, TermOrVote, Typed', Staged'
    PROVE  Kept'
<1>1. PICK r : Later(r, raft) /\ Event(r, r.commit, <<>>, 0) BY TermOrVoteFacts
<1>2. r \in RaftType /\ r.log = raft.log /\ r.commit = raft.commit BY <1>1 DEF Later
<1>3. pc = "idle" /\ chosen' = chosen \o SubSeq(r.log, Len(chosen) + 1, r.commit) BY <1>1 DEF Event
<1>4. /\ snapshot_index \in Nat /\ chosen \in Seq(Nat) /\ raft.commit \in Nat
      /\ raft.log \in Seq(Nat) /\ Len(raft.log) \in Nat /\ raft.term \in Nat
      /\ snapshot_index <= raft.commit /\ raft.commit <= Len(raft.log)
  <2>1. Up BY <1>3 DEF Up
  <2> QED BY <2>1, RunningFacts
<1>5. /\ Rises(chosen) /\ raft.commit <= Len(chosen)
      /\ \A k \in snapshot_index..raft.commit : TermAt(raft.log, k) = TermAt(chosen, k)
      /\ Holds(Content, snapshot_index, raft.log, Len(raft.log))
  BY <1>3, IdleFacts
<1>6. Rising(raft.log, raft.commit, raft.commit)
  <2>1. raft.commit \in 0..Len(raft.log) BY <1>4
  <2>2. TermAt(raft.log, raft.commit) \in Nat BY <1>4, <2>1, TermAtType
  <2>3. \A j \in raft.commit..raft.commit : j = raft.commit /\ \A i \in raft.commit..j : i = raft.commit
    BY <1>4
  <2>4. TermAt(raft.log, raft.commit) <= TermAt(raft.log, raft.commit) BY <2>2
  <2> QED BY <2>3, <2>4 DEF Rising
<1>7. Rises(chosen') /\ \A k \in snapshot_index..r.commit : TermAt(r.log, k) = TermAt(chosen', k)
  <2> DEFINE ch  == chosen
             lg  == raft.log
             c   == raft.commit
             ch2 == chosen'
  <2>1. \A k \in c + 1..c : k <= Len(ch) => lg[k] = ch[k] BY <1>4
  <2>2. ch2 = ch \o SubSeq(lg, Len(ch) + 1, c) BY <1>2, <1>3
  <2>3. /\ ch \in Seq(Nat) /\ lg \in Seq(Nat) /\ c \in Nat /\ snapshot_index <= c /\ c <= c /\ c <= Len(lg)
        /\ c <= Len(ch) /\ Rises(ch) /\ \A k \in snapshot_index..c : TermAt(lg, k) = TermAt(ch, k)
        /\ Rising(lg, c, c)
    BY <1>4, <1>5, <1>6
  <2> HIDE DEF ch, lg, c, ch2
  <2>4. Commits(ch, lg, snapshot_index, c, c, ch2) BY <1>4, <2>1, <2>2, <2>3 DEF Commits
  <2>5. Rises(ch2) /\ \A k \in snapshot_index..c : TermAt(lg, k) = TermAt(ch2, k)
    BY <2>4, ChosenLog
  <2> QED BY <2>5, <1>2, <2>4 DEF lg, c, ch2
<1>8. GoesOn(r)
  <2>1. r.term \in Nat BY <1>2, RaftFields
  <2> QED BY <1>1, <1>4, <2>1 DEF Later, GoesOn
<1> DEFINE es == <<>>
<1>9. es \in Seq(Record) /\ Len(es) = 0 OBVIOUS
<1>10. Event(r, r.commit, es, 0) BY <1>1
<1> HIDE DEF es
<1>11. Holds(Content, snapshot_index, r.log, Len(r.log) - Len(es)) BY <1>2, <1>4, <1>5, <1>9
<1>12. /\ r.commit \in Nat /\ raft.commit <= r.commit /\ r.commit <= Len(r.log) /\ 0 \in Nat /\ ~(0 > 0)
  BY <1>2, <1>4
<1>13. es = <<>> BY DEF es
<1> QED BY <1>2, <1>7, <1>8, <1>9, <1>10, <1>11, <1>12, <1>13, EventKept

\* So does Commit.
LEMMA CommitKept ==
    ASSUME Typed, Staged, Kept, "install" \notin damage, Commit, Typed', Staged'
    PROVE  Kept'
<1>1. PICK c \in Nat :
         LET r2 == [raft EXCEPT !.commit = c]
         IN  /\ raft.commit < c /\ c <= Len(raft.log) /\ Rising(raft.log, raft.commit, c)
             /\ r2 \in RaftType /\ r2.term = raft.term /\ r2.vote = raft.vote
             /\ r2.commit = c /\ r2.log = raft.log
             /\ Event(r2, raft.commit, <<>>, 0)
  BY CommitEvent
<1> DEFINE r  == [raft EXCEPT !.commit = c]
           es == <<>>
<1>2. /\ raft.commit < c /\ c <= Len(raft.log) /\ Rising(raft.log, raft.commit, c)
      /\ r \in RaftType /\ r.term = raft.term /\ r.vote = raft.vote
      /\ r.commit = c /\ r.log = raft.log
      /\ Event(r, raft.commit, es, 0)
  BY <1>1
<1>9. es \in Seq(Record) /\ Len(es) = 0 /\ es = <<>> OBVIOUS
<1> HIDE DEF r, es
<1>3. /\ pc = "idle" /\ chosen' = chosen \o SubSeq(r.log, Len(chosen) + 1, r.commit)
      /\ \A k \in raft.commit + 1..r.commit : k <= Len(chosen) => r.log[k] = chosen[k]
  BY <1>2 DEF Event
<1>4. /\ snapshot_index \in Nat /\ chosen \in Seq(Nat) /\ raft.commit \in Nat
      /\ raft.log \in Seq(Nat) /\ Len(raft.log) \in Nat /\ raft.term \in Nat
      /\ snapshot_index <= raft.commit /\ raft.commit <= Len(raft.log)
  <2>1. Up BY <1>3 DEF Up
  <2> QED BY <2>1, RunningFacts
<1>5. /\ Rises(chosen) /\ raft.commit <= Len(chosen)
      /\ \A k \in snapshot_index..raft.commit : TermAt(raft.log, k) = TermAt(chosen, k)
      /\ Holds(Content, snapshot_index, raft.log, Len(raft.log))
  BY <1>3, IdleFacts
<1>7. Rises(chosen') /\ \A k \in snapshot_index..r.commit : TermAt(r.log, k) = TermAt(chosen', k)
  <2> DEFINE ch  == chosen
             lg  == raft.log
             c0  == raft.commit
             ch2 == chosen'
  <2>1. \A k \in c0 + 1..c : k <= Len(ch) => lg[k] = ch[k] BY <1>2, <1>3
  <2>2. ch2 = ch \o SubSeq(lg, Len(ch) + 1, c) BY <1>2, <1>3
  <2>3. /\ ch \in Seq(Nat) /\ lg \in Seq(Nat) /\ c0 \in Nat /\ snapshot_index <= c0 /\ c0 <= c /\ c <= Len(lg)
        /\ c0 <= Len(ch) /\ Rises(ch) /\ \A k \in snapshot_index..c0 : TermAt(lg, k) = TermAt(ch, k)
        /\ Rising(lg, c0, c)
    BY <1>2, <1>4, <1>5
  <2> HIDE DEF ch, lg, c0, ch2
  <2>4. Commits(ch, lg, snapshot_index, c0, c, ch2) BY <1>4, <2>1, <2>2, <2>3 DEF Commits
  <2>5. Rises(ch2) /\ \A k \in snapshot_index..c : TermAt(lg, k) = TermAt(ch2, k)
    BY <2>4, ChosenLog
  <2> QED BY <2>5, <1>2, <2>4 DEF lg, ch2
<1>8. GoesOn(r) BY <1>2 DEF GoesOn
<1>11. Holds(Content, snapshot_index, r.log, Len(r.log) - Len(es)) BY <1>2, <1>4, <1>5, <1>9
<1>12. raft.commit <= r.commit /\ r.commit <= Len(r.log) /\ 0 \in Nat /\ ~(0 > 0) BY <1>2, <1>4
<1> QED BY <1>2, <1>4, <1>7, <1>8, <1>9, <1>11, <1>12, EventKept

\* AppendEntry keeps the invariant: the entry follows what stays of the log.
LEMMA AppendEntryKept ==
    ASSUME Typed, Staged, Kept, "install" \notin damage, AppendEntry, Typed', Staged'
    PROVE  Kept'
<1>1. PICK r0 \in Terms(raft), after \in Nat, c \in Nat, t \in Nat, r \in RaftType :
         Appends(r0, after, c, t, r)
  BY AppendEntryEvent
<1> DEFINE es == <<EntryRecord(after + 1, t)>>
<1>2. /\ Later(r0, raft) /\ raft.commit <= after /\ after <= Len(raft.log)
      /\ raft.commit <= c /\ c <= after + 1 /\ t > 0 /\ TermAt(raft.log, after) <= t
      /\ Rising(raft.log, raft.commit, after)
      /\ r.term = r0.term /\ r.vote = r0.vote /\ r.commit = c
      /\ Len(r.log) = after + 1 /\ r.log[after + 1] = t
      /\ \A k \in 1..after : r.log[k] = raft.log[k]
      /\ Event(r, raft.commit, es, 0)
  BY <1>1 DEF Appends
<1>9. es \in Seq(Record) /\ Len(es) = 1 /\ es = <<EntryRecord(Len(r.log), r.log[Len(r.log)])>>
  <2>1. EntryRecord(after + 1, t) \in Record BY SmallTypes
  <2> QED BY <1>2, <2>1
<1> HIDE DEF es
<1>3. /\ pc = "idle" /\ chosen' = chosen \o SubSeq(r.log, Len(chosen) + 1, r.commit)
      /\ \A k \in raft.commit + 1..r.commit : k <= Len(chosen) => r.log[k] = chosen[k]
  BY <1>2 DEF Event
<1>4. /\ snapshot_index \in Nat /\ chosen \in Seq(Nat) /\ raft.commit \in Nat
      /\ raft.log \in Seq(Nat) /\ Len(raft.log) \in Nat /\ raft.term \in Nat
      /\ snapshot_index <= raft.commit /\ raft.commit <= Len(raft.log)
      /\ Content \in Seq(Record)
  <2>1. Up BY <1>3 DEF Up
  <2> QED BY <2>1, RunningFacts
<1>5. /\ Rises(chosen) /\ raft.commit <= Len(chosen)
      /\ \A k \in snapshot_index..raft.commit : TermAt(raft.log, k) = TermAt(chosen, k)
      /\ Holds(Content, snapshot_index, raft.log, Len(raft.log))
  BY <1>3, IdleFacts
<1>6. r.log \in Seq(Nat) /\ \A k \in 0..after : TermAt(r.log, k) = TermAt(raft.log, k)
  <2>1. \A k \in 0..after : k # 0 => k \in 1..after OBVIOUS
  <2> QED BY <1>2, <2>1, RaftFields DEF TermAt
<1>7. Rising(r.log, raft.commit, c)
  <2> SUFFICES ASSUME NEW j \in raft.commit..c, NEW i \in raft.commit..j
               PROVE  TermAt(r.log, i) <= TermAt(r.log, j)
    BY DEF Rising
  <2>1. j \in Nat /\ i \in Nat /\ i <= j /\ j <= after + 1 /\ raft.commit <= i BY <1>2, <1>4
  <2>2. CASE j <= after
    <3>1. j \in raft.commit..after /\ j \in 0..after /\ i \in 0..after BY <1>4, <2>1, <2>2
    <3> QED BY <1>2, <1>6, <3>1 DEF Rising
  <2>3. CASE ~(j <= after)
    <3>1. j = after + 1 /\ j # 0 BY <2>1, <2>3
    <3>2. TermAt(r.log, j) = t BY <1>2, <3>1 DEF TermAt
    <3>3. CASE i = j BY <3>2, <3>3
    <3>4. CASE i # j
      <4>1. after \in raft.commit..after /\ i \in raft.commit..after /\ i \in 0..after
        BY <1>2, <1>4, <2>1, <3>1, <3>4
      <4>2. TermAt(raft.log, i) <= TermAt(raft.log, after) BY <1>2, <4>1 DEF Rising
      <4>3. TermAt(raft.log, i) \in Nat /\ TermAt(raft.log, after) \in Nat
        <5>1. i \in 0..Len(raft.log) /\ after \in 0..Len(raft.log) BY <1>2, <1>4, <4>1
        <5> QED BY <1>4, <5>1, TermAtType
      <4> QED BY <1>2, <1>6, <3>2, <4>1, <4>2, <4>3
    <3> QED BY <3>3, <3>4
  <2> QED BY <2>2, <2>3
<1>8. Rises(chosen') /\ \A k \in snapshot_index..r.commit : TermAt(r.log, k) = TermAt(chosen', k)
  <2>1. \A k \in snapshot_index..raft.commit : TermAt(r.log, k) = TermAt(chosen, k)
    <3> TAKE k \in snapshot_index..raft.commit
    <3>1. k \in 0..after BY <1>2, <1>4
    <3> QED BY <1>5, <1>6, <3>1
  <2>2. c <= Len(r.log) BY <1>2
  <2>3. Commits(chosen, r.log, snapshot_index, raft.commit, c, chosen')
    BY <1>2, <1>3, <1>4, <1>5, <1>6, <1>7, <2>1, <2>2 DEF Commits
  <2> QED BY <1>2, <2>3, ChosenLog
<1>10. GoesOn(r)
  <2>1. r.term \in Nat BY RaftFields
  <2> QED BY <1>2, <1>4, <2>1 DEF Later, GoesOn
<1>11. Holds(Content, snapshot_index, r.log, Len(r.log) - Len(es))
  <2>1. Len(r.log) - Len(es) = after BY <1>2, <1>9
  <2>2. End(Content, snapshot_index) \in Nat BY <1>4, EntriesFacts
  <2>3. after <= snapshot_index \/ after <= End(Content, snapshot_index)
    BY <1>2, <1>4, <1>5, <2>2 DEF Holds
  <2>4. \A k \in snapshot_index + 1..after : Term(Content, snapshot_index, k) = r.log[k]
    <3> TAKE k \in snapshot_index + 1..after
    <3>1. k \in 1..after /\ k \in snapshot_index + 1..Len(raft.log) BY <1>2, <1>4
    <3> QED BY <1>2, <1>5, <3>1 DEF Holds
  <2>5. Holds(Content, snapshot_index, r.log, after) BY <2>3, <2>4 DEF Holds
  <2> QED BY <2>1, <2>5
<1>12. /\ raft.commit <= r.commit /\ r.commit <= Len(r.log) /\ 0 \in Nat /\ ~(0 > 0)
       /\ Len(r.log) > snapshot_index /\ r.log[Len(r.log)] > 0 /\ raft.commit < Len(r.log)
  BY <1>2, <1>4
<1> QED BY <1>2, <1>4, <1>8, <1>9, <1>10, <1>11, <1>12, EventKept

\* ReceiveSnapshot keeps it: nothing of the log is claimed until the snapshot is saved.
LEMMA ReceiveSnapshotKept ==
    ASSUME Typed, Staged, Kept, "install" \notin damage, ReceiveSnapshot, Typed', Staged'
    PROVE  Kept'
<1>1. PICK r0 \in Terms(raft), n \in Nat, t \in Nat :
         LET r2 == [r0 EXCEPT !.log = [k \in 1..n |-> t], !.commit = n]
         IN  /\ Later(r0, raft) /\ raft.commit < n /\ t > 0
             /\ n > Len(chosen) => t >= TermAt(chosen, Len(chosen))
             /\ r2 \in RaftType /\ r2.term = r0.term /\ r2.vote = r0.vote /\ r2.commit = n
             /\ Len(r2.log) = n /\ \A k \in 1..n : r2.log[k] = t
             /\ Event(r2, n - 1, <<>>, n)
  BY ReceiveSnapshotEvent
<1> DEFINE r  == [r0 EXCEPT !.log = [k \in 1..n |-> t], !.commit = n]
           es == <<>>
<1>2. /\ Later(r0, raft) /\ raft.commit < n /\ t > 0
      /\ n > Len(chosen) => t >= TermAt(chosen, Len(chosen))
      /\ r \in RaftType /\ r.term = r0.term /\ r.vote = r0.vote /\ r.commit = n
      /\ Len(r.log) = n /\ \A k \in 1..n : r.log[k] = t
      /\ Event(r, n - 1, es, n)
  BY <1>1
<1>9. es \in Seq(Record) /\ Len(es) = 0 /\ es = <<>> OBVIOUS
<1> HIDE DEF r, es
<1>3. /\ pc = "idle" /\ chosen' = chosen \o SubSeq(r.log, Len(chosen) + 1, n)
      /\ \A k \in n - 1 + 1..n : k <= Len(chosen) => r.log[k] = chosen[k]
  BY <1>2 DEF Event
<1>4. /\ chosen \in Seq(Nat) /\ raft.commit \in Nat /\ raft.term \in Nat /\ Rises(chosen)
  <2>1. Up BY <1>3 DEF Up
  <2> QED BY <1>3, <2>1, RunningFacts, IdleFacts
<1>5. Rises(chosen') /\ TermAt(r.log, n) = TermAt(chosen', n)
  <2>1. r.log \in Seq(Nat) BY <1>2, RaftFields
  <2>2. n <= Len(chosen) => r.log[n] = chosen[n]
    <3>1. n \in n - 1 + 1..n OBVIOUS
    <3> QED BY <1>3, <3>1
  <2>3. n > 0 BY <1>2, <1>4
  <2>4. Installed(chosen, r.log, n, t, chosen') BY <1>2, <1>3, <1>4, <2>1, <2>2, <2>3 DEF Installed
  <2> QED BY <2>4, ChosenSnapshot
<1>6. GoesOn(r)
  <2>1. r.term \in Nat BY <1>2, RaftFields
  <2> QED BY <1>2, <1>4, <2>1 DEF Later, GoesOn
<1>7. /\ raft.commit <= r.commit /\ r.commit <= Len(r.log) /\ n > 0 /\ raft.commit < r.commit /\ n - 1 \in Nat
      /\ n # 0
  BY <1>2, <1>4
<1>8. \A k \in (IF n > 0 THEN r.commit ELSE snapshot_index)..r.commit : TermAt(r.log, k) = TermAt(chosen', k)
  BY <1>2, <1>5, <1>7
<1> QED BY <1>2, <1>5, <1>6, <1>7, <1>8, <1>9, EventKept

\* The events
LEMMA EventsKept ==
    ASSUME Typed, Staged, Kept, TermOrVote \/ AppendEntry \/ Commit \/ ReceiveSnapshot, Typed', Staged'
    PROVE  Kept'
<1>1. CASE "install" \notin damage
  BY <1>1, TermOrVoteKept, AppendEntryKept, CommitKept, ReceiveSnapshotKept
<1>2. CASE "install" \in damage
  <2>1. damage' = damage
    <3>1. CASE TermOrVote BY <3>1 DEF TermOrVote, Event
    <3>2. CASE AppendEntry
      <4>1. PICK r0 \in Terms(raft), after \in Nat, c \in Nat, t \in Nat, r \in RaftType :
               Appends(r0, after, c, t, r)
        BY <3>2, AppendEntryEvent
      <4> QED BY <4>1 DEF Appends, Event
    <3>3. CASE Commit BY <3>3 DEF Commit, Event
    <3>4. CASE ReceiveSnapshot
      <4>1. PICK r0 \in Terms(raft), n \in Nat, t \in Nat :
               Event([r0 EXCEPT !.log = [k \in 1..n |-> t], !.commit = n], n - 1, <<>>, n)
        BY <3>4, ReceiveSnapshotEvent, ZenonT(60)
      <4> QED BY <4>1 DEF Event
    <3> QED BY <3>1, <3>2, <3>3, <3>4
  <2> QED BY <1>2, <2>1 DEF Kept
<1> QED BY <1>1, <1>2

-----------------------------------------------------------------------------
(* Starting and ending. *)

\* MakeDirectory
LEMMA MakeDirectoryKept ==
    ASSUME Typed, Staged, Kept, MakeDirectory
    PROVE  Kept'
<1>1. /\ pc' = "create" /\ UNCHANGED <<snaps, chosen, damage>> BY DEF MakeDirectory
<1> QED BY <1>1 DEF Kept, Committed, Up

\* The file that create leaves
LEMMA CreatedFile ==
    ASSUME NEW ch \in Seq(Nat)
    PROVE  /\ create \in Seq(Record) /\ Len(create) = 1 /\ create[1] = SnapshotRecord(0, 0)
           /\ \A p \in 1..Len(create) : create[p].type = "snapshot"
           /\ LastState(create) = EmptyState
           /\ Written(create, 0, ch) /\ Agrees(create, 0, ch)
<1>1. create \in Seq(Record) /\ Len(create) = 1 /\ create[1] = SnapshotRecord(0, 0)
  <2>1. SnapshotRecord(0, 0) \in Record BY SmallTypes
  <2> QED BY <2>1 DEF create
<1>2. \A p \in 1..Len(create) : p = 1 BY <1>1
<1>3. create[1].type = "snapshot" /\ create[1].index = 0 /\ create[1].term = 0
  BY <1>1 DEF SnapshotRecord
<1>4. \A p \in 1..Len(create) : create[p].type = "snapshot" BY <1>2, <1>3
<1>5. LastState(create) = EmptyState
  <2>1. Positions(create, "state") = {} BY <1>4 DEF Positions
  <2> QED BY <2>1 DEF LastState
<1>6. TermAt(ch, 0) = 0 /\ Len(ch) \in Nat BY DEF TermAt
<1> DEFINE P == create
<1> HIDE DEF P
<1>7. Written(create, 0, ch)
  <2>1. Intact(create) BY <1>4 DEF Intact
  <2>2. Gapless(create, 0) BY <1>4 DEF Gapless
  <2>3. \A p \in 1..Len(create) : create[p].index <= Len(ch) /\ create[p].term = TermAt(ch, create[p].index)
    BY <1>2, <1>3, <1>6
  <2> QED BY <1>1, <1>3, <1>4, <2>1, <2>2, <2>3 DEF Written
<1>8. Agrees(create, 0, ch)
  <2>1. LastState(create).commit = 0 BY <1>5 DEF EmptyState
  <2>2. \A k \in 0 + 1..0 : FALSE OBVIOUS
  <2> QED BY <1>6, <2>1, <2>2 DEF Agrees
<1> QED BY <1>1, <1>4, <1>5, <1>7, <1>8

\* Create
LEMMA CreateKept ==
    ASSUME Typed, Staged, Kept, Create
    PROVE  Kept'
<1>1. /\ pc = "create" /\ dir = "empty" /\ dir' = "ready" /\ pc' = "save"
      /\ wal' = OpenWAL(create)
      /\ raft'.term = 1 /\ raft'.vote = 0 /\ raft'.commit = 1 /\ raft'.log = <<1>> /\ raft' \in RaftType
      /\ rd'.hs = hard_state(raft') /\ rd'.entries = <<EntryRecord(1, 1)>> /\ rd'.snap = 0
      /\ prev_hs' = EmptyState /\ chosen' = <<1>> /\ snapshot_index = 0
      /\ UNCHANGED <<snaps, applied, snapshot_index, saving, used, damage>>
  BY CreateFacts
<1>2. snaps = {} /\ saving = NoSnapshot BY <1>1 DEF Staged, Writing
<1>3. chosen' \in Seq(Nat) /\ Len(chosen') = 1 /\ chosen'[1] = 1 BY <1>1
<1>4. /\ create \in Seq(Record) /\ Len(create) = 1
      /\ \A p \in 1..Len(create) : create[p].type = "snapshot"
      /\ LastState(create) = EmptyState
      /\ Written(create, 0, chosen') /\ Agrees(create, 0, chosen')
  BY <1>3, CreatedFile
<1>5. /\ wal'.file = create /\ wal'.stdio = <<>> /\ wal'.data_buffer = <<>> /\ wal'.state = EmptyState
  BY <1>1 DEF OpenWAL
<1>6. Handed' = create /\ Content' = create BY <1>4, <1>5, ConcatThree DEF Handed, Content
<1>7. Pending' = <<EntryRecord(1, 1)>> /\ ~Installs' /\ ~saving'.install /\ Len(Pending') = 1
  BY <1>1, <1>2, SmallTypes DEF Pending, Installs
<1>8. Committed'
  <2>1. Rises(chosen')
    <3>1. \A j \in 1..1 : j = 1 /\ \A i \in 1..j : i = 1 OBVIOUS
    <3> QED BY <1>3, <3>1 DEF Rises
  <2> QED BY <1>1, <1>2, <2>1 DEF Committed
<1>9. OnDisk'
  <2>1. load(snaps).index = 0 BY <1>2 DEF load
  <2>2. \A n \in 1..1 : SubSeq(create, 1, n) = create
    <3>1. 1 \in 0..Len(create) BY <1>4
    <3>2. SubSeq(create, 1, 1) = create BY <1>4, <3>1, PrefixFacts
    <3> QED BY <3>2
  <2>3. wal'.data_buffer = <<>> /\ \A p \in 1..Len(wal'.data_buffer) : FALSE BY <1>5
  <2>4. \A p \in 1..Len(create) : create[p].type # "state" BY <1>4
  <2>5. \A n \in Len(create)..Len(create) : Agrees(SubSeq(create, 1, n), 0, chosen') BY <1>4, <2>2
  <2>6. Len(create) >= 1 BY <1>4
  <2> QED BY <1>1, <1>4, <1>5, <1>6, <2>1, <2>3, <2>4, <2>5, <2>6 DEF OnDisk
<1>10. InMemory'
  <2>1. Len(raft'.log) = 1 /\ raft'.log[1] = 1 BY <1>1
  <2>2. Holds(create, 0, raft'.log, 0)
    <3>1. \A k \in 0 + 1..0 : FALSE OBVIOUS
    <3> QED BY <3>1 DEF Holds
  <2>3. Holds(create, 0, raft'.log, Len(raft'.log) - Len(Pending')) BY <1>7, <2>1, <2>2
  <2>4. raft'.log = chosen' BY <1>1
  <2>5. \A p \in 1..Len(create) : create[p].type # "state" BY <1>4
  <2>6. Pending' = <<EntryRecord(Len(raft'.log), raft'.log[Len(raft'.log)])>> /\ raft'.log[Len(raft'.log)] > 0
        /\ Len(raft'.log) > 0
    BY <1>7, <2>1
  <2> QED BY <1>1, <1>3, <1>6, <1>7, <2>3, <2>4, <2>5, <2>6 DEF InMemory
<1>11. HardStates'
  <2>1. hard_state(raft') # EmptyState /\ rd'.hs # EmptyState BY <1>1 DEF hard_state, EmptyState
  <2>2. LastState(create).term < raft'.term BY <1>1, <1>4 DEF EmptyState
  <2> QED BY <1>1, <1>4, <1>5, <1>6, <2>1, <2>2 DEF HardStates, Writing
<1> QED BY <1>1, <1>8, <1>9, <1>10, <1>11 DEF Kept

\* What a running process leaves when records at the end are lost
LEMMA PartLeft ==
    ASSUME Typed, Staged, Kept, Up, "install" \notin damage, ~saving.install,
           NEW n \in Len(wal.file)..Len(Content)
    PROVE  LET P == SubSeq(Content, 1, n)
           IN  /\ P \in Seq(Record) /\ Intact(P)
               /\ Written(P, snapshot_index, chosen) /\ Agrees(P, snapshot_index, chosen)
<1>1. /\ OnDisk /\ Content \in Seq(Record) /\ snapshot_index \in Nat /\ wal.file \in Seq(Record)
  BY RunningFacts
<1>2. Len(wal.file) >= 1 /\ Len(wal.file) \in Nat /\ Len(Content) \in Nat BY <1>1 DEF OnDisk
<1>3. n \in 1..Len(Content) /\ n \in 0..Len(Content) BY <1>2
<1>4. SubSeq(Content, 1, n) \in Seq(Record) BY <1>1, <1>3, PrefixFacts
<1>5. Agrees(SubSeq(Content, 1, n), snapshot_index, chosen) BY <1>1 DEF OnDisk
<1>6. Written(SubSeq(Content, 1, n), snapshot_index, chosen) BY <1>1, <1>3, WrittenPrefix DEF OnDisk
<1> QED BY <1>4, <1>5, <1>6 DEF Written

\* What a process that is gone leaves
LEMMA GoneLeft ==
    ASSUME Typed, Staged, Kept, NEW content, Gone(content), "install" \notin damage,
           Up, ~saving.install, damage \subseteq damage',
           NEW n \in Len(wal.file)..Len(Content), Readable(content) = SubSeq(Content, 1, n),
           damage' = {} => SubSeq(Content, 1, n) = Handed
    PROVE  Kept'
<1> DEFINE P == SubSeq(Content, 1, n)
<1>1. /\ P \in Seq(Record) /\ Written(P, snapshot_index, chosen) /\ Agrees(P, snapshot_index, chosen)
  BY PartLeft
<1>2. Committed /\ OnDisk /\ HardStates BY RunningFacts
<1>3. /\ wal' = OpenWAL(content) /\ pc' = "down" /\ UNCHANGED <<dir, snaps, chosen>> BY DEF Gone
<1>4. wal'.file = content BY <1>3 DEF OpenWAL
<1>5. load(snaps).index = snapshot_index BY <1>2 DEF OnDisk
<1>6. damage' = {} => LastState(P) = EmptyState \/ snapshot_index <= LastState(P).commit
  BY <1>2 DEF HardStates
<1>7. Readable(wal'.file) = P BY <1>4
<1> HIDE DEF P
<1>8. Left' BY <1>1, <1>3, <1>5, <1>6, <1>7 DEF Left
<1>9. Committed' BY <1>2, <1>3 DEF Committed
<1> QED BY <1>3, <1>8, <1>9 DEF Kept, Up

\* What has been handed on is the head of what has been saved.
LEMMA HandedFacts ==
    ASSUME NEW k \in Nat, k <= Len(wal.stdio), wal \in WALType
    PROVE  /\ Len(wal.file) + k \in Len(wal.file)..Len(Content)
           /\ wal.file \o SubSeq(wal.stdio, 1, k) = SubSeq(Content, 1, Len(wal.file) + k)
           /\ k = Len(wal.stdio) => SubSeq(Content, 1, Len(wal.file) + k) = Handed
<1> DEFINE F == wal.file
           S == wal.stdio
           D == wal.data_buffer
           n == Len(F) + k
<1>1. F \in Seq(Record) /\ S \in Seq(Record) /\ D \in Seq(Record) BY WALFields
<1>2. k \in 0..Len(S) OBVIOUS
<1>3. Handed = F \o S /\ Content = Handed \o D BY DEF Handed, Content
<1> HIDE DEF F, S, D
<1>4. Handed \in Seq(Record) /\ Len(Handed) = Len(F) + Len(S) BY <1>1, <1>3, ConcatFacts
<1>5. Len(Content) = Len(Handed) + Len(D) BY <1>1, <1>3, <1>4, ConcatFacts
<1>6. Len(F) \in Nat /\ Len(S) \in Nat /\ Len(D) \in Nat BY <1>1
<1>7. n \in Nat /\ n <= Len(Handed) /\ n \in 0..Len(Handed) /\ n \in Len(F)..Len(Content)
  BY <1>2, <1>4, <1>5, <1>6
<1>8. F \o SubSeq(S, 1, k) = SubSeq(Handed, 1, n) BY <1>1, <1>2, <1>3, ConcatPrefix
<1> DEFINE H == Handed
           C == Content
<1>9. SubSeq(H, 1, n) = SubSeq(C, 1, n)
  <2>1. H \in Seq(Record) /\ C = H \o D /\ Len(H) \in Nat BY <1>3, <1>4
  <2>2. n \in 0..Len(H) /\ Len(H) \in 0..Len(H) BY <1>7, <2>1
  <2> HIDE DEF H, C, n
  <2>3. C \in Seq(Record) /\ Len(C) = Len(H) + Len(D) /\ \A p \in 1..Len(H) : C[p] = H[p]
    BY <1>1, <2>1, ConcatFacts
  <2>4. n \in 0..Len(C) BY <1>6, <2>1, <2>2, <2>3
  <2>5. SubSeq(H, 1, n) \in Seq(Record) /\ Len(SubSeq(H, 1, n)) = n /\ \A p \in 1..n : SubSeq(H, 1, n)[p] = H[p]
    BY <2>1, <2>2, PrefixFacts
  <2>6. SubSeq(C, 1, n) \in Seq(Record) /\ Len(SubSeq(C, 1, n)) = n /\ \A p \in 1..n : SubSeq(C, 1, n)[p] = C[p]
    BY <2>3, <2>4, PrefixFacts
  <2>7. \A p \in 1..n : p \in 1..Len(H) BY <2>1, <2>2
  <2> DEFINE h == SubSeq(H, 1, n)
             c == SubSeq(C, 1, n)
  <2>8. h \in Seq(Record) /\ c \in Seq(Record) /\ Len(h) = Len(c) /\ \A p \in 1..Len(h) : h[p] = c[p]
    BY <2>3, <2>5, <2>6, <2>7
  <2> HIDE DEF h, c
  <2>9. h = c BY <2>8, SameRecords
  <2> QED BY <2>9 DEF h, c
<1>10. k = Len(S) => SubSeq(H, 1, n) = H
  <2>1. H \in Seq(Record) /\ n \in 0..Len(H) /\ (k = Len(S) => n = Len(H)) BY <1>4, <1>6, <1>7
  <2> HIDE DEF H, n
  <2> QED BY <2>1, PrefixFacts
<1> QED BY <1>7, <1>8, <1>9, <1>10 DEF F, S

\* Stop
LEMMA StopKept ==
    ASSUME Typed, Staged, Kept, Stop
    PROVE  Kept'
<1>1. pc = "idle" /\ Gone(Closed(wal)) /\ damage' = damage BY DEF Stop
<1>2. CASE "install" \in damage BY <1>1, <1>2 DEF Kept
<1>3. CASE "install" \notin damage
  <2>1. Up BY <1>1 DEF Up
  <2>2. ~saving.install BY <1>1, <1>3, IdleFacts
  <2>3. wal \in WALType /\ wal.stdio \in Seq(Record) BY WALFields DEF Typed
  <2> DEFINE k == Len(wal.stdio)
             n == Len(wal.file) + k
  <2>4. k \in Nat /\ k <= Len(wal.stdio) BY <2>3
  <2>5. n \in Len(wal.file)..Len(Content) /\ SubSeq(Content, 1, n) = Handed BY <2>3, <2>4, HandedFacts
  <2>6. Closed(wal) = Handed BY DEF Closed, Handed
  <2> HIDE DEF n
  <2>7. Handed \in Seq(Record) /\ Intact(Handed)
    <3>1. LET P == SubSeq(Content, 1, n) IN P \in Seq(Record) /\ Intact(P) BY <1>3, <2>1, <2>2, <2>5, PartLeft
    <3> QED BY <2>5, <3>1
  <2>8. Readable(Closed(wal)) = SubSeq(Content, 1, n) BY <2>5, <2>6, <2>7, ReadableIntact
  <2> QED BY <1>1, <1>3, <2>1, <2>2, <2>5, <2>8, GoneLeft
<1> QED BY <1>2, <1>3

\* Kill
LEMMA KillKept ==
    ASSUME Typed, Staged, Kept, Kill
    PROVE  Kept'
<1>1. PICK k \in 0..Len(wal.stdio), torn \in BOOLEAN :
         /\ Gone(Killed(wal, k, torn))
         /\ damage' = damage \cup (IF k < Len(wal.stdio) THEN {"lost"} ELSE {})
                             \cup (IF saving.install THEN {"install"} ELSE {})
                             \cup (IF pc = "create" THEN {"create"} ELSE {})
  BY DEF Kill
<1>2. pc \notin {"down", "dead"} /\ damage \subseteq damage' /\ (saving.install => "install" \in damage')
  BY <1>1 DEF Kill
<1>3. CASE "install" \in damage' BY <1>3 DEF Kept
<1>4. CASE "install" \notin damage' /\ pc = "create"
  <2>1. /\ pc' = "down" /\ UNCHANGED <<dir, snaps, chosen>> BY <1>1 DEF Gone
  <2>2. dir' = "empty" BY <1>4, <2>1 DEF Staged
  <2>3. Committed BY <1>2, <1>4 DEF Kept
  <2> QED BY <2>1, <2>2, <2>3 DEF Kept, Committed, Up
<1>5. CASE "install" \notin damage' /\ pc # "create"
  <2>1. Up /\ ~saving.install /\ "install" \notin damage
    <3>1. pc \in Place BY DEF Typed
    <3> QED BY <1>2, <1>5, <3>1 DEF Place, Up
  <2>2. wal \in WALType /\ wal.stdio \in Seq(Record) /\ wal.file \in Seq(Record) BY WALFields DEF Typed
  <2>3. k \in Nat /\ k <= Len(wal.stdio) /\ Len(wal.stdio) \in Nat BY <2>2
  <2> DEFINE n == Len(wal.file) + k
             P == SubSeq(Content, 1, n)
  <2>4. /\ n \in Len(wal.file)..Len(Content) /\ wal.file \o SubSeq(wal.stdio, 1, k) = P
        /\ k = Len(wal.stdio) => P = Handed
    BY <2>2, <2>3, HandedFacts
  <2>5. P \in Seq(Record) /\ Intact(P)
    <3> HIDE DEF n
    <3> QED BY <2>1, <2>4, PartLeft
  <2>6. Killed(wal, k, torn) = P \o (IF torn THEN <<TornRecord>> ELSE <<>>) BY <2>4 DEF Killed
  <2>7. Readable(Killed(wal, k, torn)) = P
    <3> HIDE DEF P
    <3>1. CASE torn BY <2>5, <2>6, <3>1, ReadableTorn
    <3>2. CASE ~torn
      <4>1. P \o <<>> = P BY <2>5
      <4> QED BY <2>5, <2>6, <3>2, <4>1, ReadableIntact
    <3> QED BY <3>1, <3>2
  <2>8. damage' = {} => k = Len(wal.stdio)
    <3> SUFFICES ASSUME damage' = {}, k # Len(wal.stdio) PROVE FALSE OBVIOUS
    <3>1. k < Len(wal.stdio) BY <2>3
    <3>2. "lost" \in damage' BY <1>1, <3>1
    <3> QED BY <3>2
  <2>9. damage' = {} => P = Handed BY <2>4, <2>8
  <2> DEFINE content == Killed(wal, k, torn)
  <2>10. Gone(content) /\ Readable(content) = P BY <1>1, <2>7
  <2> HIDE DEF content, n
  <2> QED BY <1>2, <2>1, <2>4, <2>9, <2>10, GoneLeft
<1> QED BY <1>3, <1>4, <1>5

\* The snapshot that load finds is of what the cluster has committed.
LEMMA LoadCommitted ==
    ASSUME Typed, Committed
    PROVE  LET s == load(snaps)
           IN  s.index \in Nat /\ s.index <= Len(chosen) /\ s.term = TermAt(chosen, s.index)
<1> DEFINE s == load(snaps)
<1>1. Files(snaps) /\ Len(chosen) \in Nat
  <2>1. chosen \in Seq(Nat) BY DEF Typed
  <2> QED BY <2>1 DEF Typed
<1>2. s \in SnapFile /\ (s \in snaps \/ (s.index = 0 /\ s.term = 0)) BY <1>1, LoadFacts
<1> HIDE DEF s
<1>3. s.index \in Nat BY <1>2 DEF SnapFile
<1>4. CASE s \in snaps BY <1>3, <1>4 DEF Committed, s
<1>5. CASE s.index = 0 /\ s.term = 0 BY <1>1, <1>3, <1>5 DEF TermAt, s
<1> QED BY <1>2, <1>4, <1>5

\* What is left lets the process start, unless records were lost.
LEMMA LeftStarts ==
    ASSUME Typed, Staged, Committed, Left
    PROVE  LET r == replay_WAL(wal.file, snaps)
           IN  r.fatal \in {"none", "range"} /\ (r.fatal = "range" => damage # {})
<1> DEFINE r    == replay_WAL(wal.file, snaps)
           s    == load(snaps)
           P    == Readable(wal.file)
           hs   == LastState(P)
           last == End(P, s.index)
<1>1. wal.file \in Seq(Record) /\ Files(snaps) BY WALFields DEF Typed
<1>2. /\ s.index \in Nat /\ P \in Seq(Record) /\ hs \in HardState /\ last \in Nat /\ s.index <= last
      /\ r.fatal # "none" => r.fatal \in {"mismatch", "hole", "range"}
      /\ r.fatal = "mismatch" => Mismatch(P, s.index, s.term)
      /\ r.fatal = "hole" => \E k \in s.index + 1..last : Term(P, s.index, k) = 0
      /\ r.fatal = "range" => hs # EmptyState /\ (hs.commit < s.index \/ hs.commit > last)
  BY <1>1, ReplayFacts
<1>3. s.term = TermAt(chosen, s.index) BY LoadCommitted
<1>4. /\ Written(P, s.index, chosen) /\ Agrees(P, s.index, chosen)
      /\ damage = {} => hs = EmptyState \/ s.index <= hs.commit
  BY DEF Left
<1> HIDE DEF r, s, P
<1>5. r.fatal # "mismatch" BY <1>2, <1>3, <1>4, WrittenMatches
<1>6. r.fatal # "hole" BY <1>2, <1>4, WrittenWhole
<1>7. hs.commit <= last
  <2>1. hs.commit \in Nat BY <1>2, StateFields
  <2>2. \A k \in s.index + 1..hs.commit : k <= last BY <1>4 DEF Agrees
  <2> DEFINE c == hs.commit
  <2>3. c \in Nat /\ \A k \in s.index + 1..c : k <= last BY <2>1, <2>2
  <2> HIDE DEF c, last, hs
  <2>4. c <= last
    <3>1. CASE c <= s.index BY <1>2, <2>3, <3>1
    <3>2. CASE ~(c <= s.index)
      <4>1. c \in s.index + 1..c BY <1>2, <2>3, <3>2
      <4> QED BY <2>3, <4>1
    <3> QED BY <3>1, <3>2
  <2> QED BY <2>4 DEF c
<1>8. r.fatal = "range" => damage # {}
  <2> SUFFICES ASSUME r.fatal = "range", damage = {} PROVE FALSE OBVIOUS
  <2>1. hs # EmptyState /\ (hs.commit < s.index \/ hs.commit > last) BY <1>2
  <2>2. s.index <= hs.commit BY <1>4, <2>1
  <2>3. hs.commit \in Nat BY <1>2, StateFields
  <2> DEFINE c == hs.commit
  <2>4. c \in Nat /\ c <= last /\ s.index <= c /\ (c < s.index \/ c > last) BY <1>7, <2>1, <2>2, <2>3
  <2> HIDE DEF c, last
  <2> QED BY <1>2, <2>4
<1> QED BY <1>2, <1>5, <1>6, <1>8 DEF r

\* What a start makes of a good file: Raft's log and HardState are those that are read.
LEMMA StartedFacts ==
    ASSUME Typed, Staged, Committed, Left, replay_WAL(wal.file, snaps).fatal = "none"
    PROVE  LET r  == replay_WAL(wal.file, snaps).raft
               s  == load(snaps).index
               P  == Readable(wal.file)
           IN  /\ r.commit <= Len(chosen)
               /\ \A k \in s..r.commit : TermAt(r.log, k) = TermAt(chosen, k)
               /\ Holds(P, s, r.log, Len(r.log))
               /\ StateOf(P, s) = hard_state(r)
               /\ \A p \in 1..Len(P) : P[p].type = "state" => P[p].hs.commit <= r.commit
               /\ LastState(P) = EmptyState \/ s <= LastState(P).commit
<1> DEFINE r    == replay_WAL(wal.file, snaps).raft
           s    == load(snaps).index
           t    == load(snaps).term
           P    == Readable(wal.file)
           hs   == LastState(P)
           last == End(P, s)
<1>1. wal.file \in Seq(Record) /\ Files(snaps) /\ chosen \in Seq(Nat) BY WALFields DEF Typed
<1>2. /\ s \in Nat /\ P \in Seq(Record) /\ hs \in HardState /\ last \in Nat /\ s <= last
      /\ r \in RaftType /\ r.term = hs.term /\ r.vote = hs.vote
      /\ r.commit = IF hs = EmptyState THEN s ELSE hs.commit
      /\ Len(r.log) = last
      /\ \A k \in 1..last : r.log[k] = IF k <= s THEN t ELSE Term(P, s, k)
      /\ s <= r.commit /\ r.commit <= last
  BY <1>1, ReplayFacts
<1>3. s <= Len(chosen) /\ t = TermAt(chosen, s) BY LoadCommitted
<1>4. Written(P, s, chosen) /\ Agrees(P, s, chosen) BY DEF Left
<1> HIDE DEF r, s, t, P
<1>5. hs.commit \in Nat /\ r.commit \in Nat /\ Len(chosen) \in Nat
  <2>1. Len(chosen) \in Nat BY <1>1
  <2> QED BY <1>2, <2>1, StateFields, RaftFields
<1> DEFINE c  == hs.commit
           cm == r.commit
<1>6. /\ c \in Nat /\ cm \in Nat /\ (hs = EmptyState => cm = s) /\ (hs # EmptyState => cm = c)
      /\ c <= Len(chosen) /\ (\A k \in s + 1..c : k <= last /\ Term(P, s, k) = chosen[k])
      /\ s <= cm /\ cm <= last
  BY <1>2, <1>4, <1>5 DEF Agrees
<1>7. StateOf(P, s) = hard_state(r)
  <2>1. CASE hs = EmptyState
    <3>1. r.term = 0 /\ r.vote = 0 /\ r.commit = s BY <1>2, <2>1 DEF EmptyState
    <3> QED BY <2>1, <3>1 DEF StateOf, hard_state
  <2>2. CASE hs # EmptyState
    <3>1. r.term = hs.term /\ r.vote = hs.vote /\ r.commit = hs.commit BY <1>2, <2>2
    <3>2. StateOf(P, s) = hs BY <2>2 DEF StateOf
    <3>3. hs = [term |-> hs.term, vote |-> hs.vote, commit |-> hs.commit]
      <4>1. hs \in HardState BY <1>2
      <4> HIDE DEF hs
      <4> QED BY <4>1 DEF HardState
    <3> QED BY <3>1, <3>2, <3>3 DEF hard_state
  <2> QED BY <2>1, <2>2
<1>8. \A p \in 1..Len(P) : P[p].type = "state" => P[p].hs.commit <= r.commit
  <2>1. hs = EmptyState => \A p \in 1..Len(P) : P[p].type # "state" BY <1>2, <1>4, WrittenStates
  <2>2. \A p \in 1..Len(P) : P[p].type = "state" => P[p].hs.commit <= hs.commit BY <1>2, <1>4, WrittenStates
  <2>3. hs # EmptyState => r.commit = hs.commit BY <1>2
  <2> HIDE DEF hs
  <2> QED BY <2>1, <2>2, <2>3
<1>9. hs = EmptyState \/ s <= hs.commit BY <1>2
<1> HIDE DEF c, cm, hs, last
<1>10. cm <= Len(chosen)
  <2>1. cm = s \/ cm = c BY <1>6
  <2> QED BY <1>3, <1>6, <2>1
<1>11. ASSUME NEW k \in s..cm PROVE TermAt(r.log, k) = TermAt(chosen, k)
  <2>1. k \in Nat /\ k <= last /\ s <= k /\ k <= cm BY <1>2, <1>6
  <2>2. CASE k = 0 BY <2>2 DEF TermAt
  <2>3. CASE k # 0 /\ k = s
    <3>1. k \in 1..last /\ k <= s BY <2>1, <2>3
    <3>2. r.log[k] = t BY <1>2, <3>1
    <3> QED BY <1>3, <2>3, <3>2 DEF TermAt
  <2>4. CASE k # 0 /\ k # s
    <3>1. k \in 1..last /\ ~(k <= s) BY <1>2, <2>1, <2>4
    <3>2. r.log[k] = Term(P, s, k) BY <1>2, <3>1
    <3>3. hs # EmptyState
      <4>1. cm # s BY <1>2, <1>6, <2>1, <3>1
      <4> QED BY <1>6, <4>1
    <3>4. k \in s + 1..c BY <1>2, <1>6, <2>1, <3>1, <3>3
    <3> QED BY <1>6, <2>4, <3>2, <3>4 DEF TermAt
  <2> QED BY <2>2, <2>3, <2>4
<1>12. Holds(P, s, r.log, Len(r.log))
  <2>1. \A k \in s + 1..last : k \in 1..last /\ ~(k <= s) BY <1>2
  <2>2. \A k \in s + 1..last : Term(P, s, k) = r.log[k] BY <1>2, <2>1
  <2> QED BY <1>2, <2>2 DEF Holds, last
<1> QED BY <1>7, <1>8, <1>9, <1>10, <1>11, <1>12 DEF cm, r, s, P, hs

\* Start
LEMMA StartKept ==
    ASSUME Typed, Staged, Kept, Start, Typed'
    PROVE  Kept'
<1> DEFINE r == replay_WAL(wal.file, snaps)
           s == load(snaps).index
           P == Readable(wal.file)
<1>1. /\ pc = "down" /\ dir # "none"
      /\ UNCHANGED <<dir, rd, saving, used, chosen, damage>>
      /\ \/ /\ dir = "empty" \/ r.fatal # "none"
            /\ pc' = "dead" /\ UNCHANGED <<wal, snaps, raft, prev_hs, applied, snapshot_index>>
         \/ /\ dir = "ready" /\ r.fatal = "none" /\ pc' = "idle"
            /\ wal' \in WALType /\ wal'.file = P
            /\ wal'.stdio = <<>> /\ wal'.data_buffer = <<>> /\ wal'.state = EmptyState
            /\ snaps' \in SUBSET snaps /\ \A f \in snaps : f.whole => f \in snaps'
            /\ raft' = r.raft
            /\ prev_hs' = IF r.raft.log = <<>> THEN EmptyState ELSE hard_state(r.raft)
            /\ applied' = r.snap /\ snapshot_index' = r.snap
  BY StartFacts
<1> SUFFICES ASSUME "install" \notin damage PROVE Kept' BY <1>1 DEF Kept
<1>2. Committed /\ (dir = "ready" => Left) BY <1>1 DEF Kept
<1>3. dir \in {"none", "empty", "ready"} BY DEF Typed
<1>4. CASE /\ dir = "empty" \/ r.fatal # "none"
           /\ pc' = "dead" /\ UNCHANGED <<wal, snaps, raft, prev_hs, applied, snapshot_index>>
  <2>1. damage # {}
    <3>1. CASE dir = "empty" BY <1>1, <3>1 DEF Staged
    <3>2. CASE dir = "ready"
      <4>1. r.fatal # "none" BY <1>4, <3>2
      <4> QED BY <1>2, <3>2, <4>1, LeftStarts
    <3> QED BY <1>1, <1>3, <3>1, <3>2
  <2> QED BY <1>1, <1>2, <1>4, <2>1 DEF Kept, Committed, Up
<1>5. CASE /\ dir = "ready" /\ r.fatal = "none" /\ pc' = "idle"
           /\ wal' \in WALType /\ wal'.file = P
           /\ wal'.stdio = <<>> /\ wal'.data_buffer = <<>> /\ wal'.state = EmptyState
           /\ snaps' \in SUBSET snaps /\ \A f \in snaps : f.whole => f \in snaps'
           /\ raft' = r.raft
           /\ prev_hs' = IF r.raft.log = <<>> THEN EmptyState ELSE hard_state(r.raft)
           /\ applied' = r.snap /\ snapshot_index' = r.snap
  <2>1. /\ raft'.commit <= Len(chosen)
        /\ \A k \in s..raft'.commit : TermAt(raft'.log, k) = TermAt(chosen, k)
        /\ Holds(P, s, raft'.log, Len(raft'.log))
        /\ StateOf(P, s) = hard_state(raft')
        /\ \A p \in 1..Len(P) : P[p].type = "state" => P[p].hs.commit <= raft'.commit
        /\ LastState(P) = EmptyState \/ s <= LastState(P).commit
    BY <1>2, <1>5, StartedFacts
  <2>2. wal.file \in Seq(Record) /\ Files(snaps) BY WALFields DEF Typed
  <2>3. r.snap = s /\ s \in Nat /\ P \in Seq(Record) BY <2>2, ReplayFacts
  <2>4. Written(P, s, chosen) /\ Agrees(P, s, chosen) BY <1>2, <1>5 DEF Left
  <2>5. load(snaps').index = s
    <3>1. \A f : f \in snaps /\ f.whole <=> f \in snaps' /\ f.whole BY <1>5
    <3>2. load(snaps) = load(snaps') BY <3>1, LoadSame
    <3> QED BY <3>2
  <2>6. saving' = saving /\ saving = NoSnapshot /\ ~saving.install
    <3>1. saving = NoSnapshot BY <1>1 DEF Staged, Writing
    <3> QED BY <1>1, <3>1, SmallTypes
  <2> HIDE DEF r, s, P
  <2>7. Handed' = P /\ Content' = P BY <1>5, <2>3, ConcatThree DEF Handed, Content
  <2>8. Committed' BY <1>1, <1>2, <1>5 DEF Committed
  <2>9. OnDisk'
    <3>1. \A n \in Len(P)..Len(P) : Agrees(SubSeq(P, 1, n), s, chosen)
      <4>1. Len(P) \in 0..Len(P) /\ \A n \in Len(P)..Len(P) : n = Len(P) BY <2>3
      <4>2. SubSeq(P, 1, Len(P)) = P BY <2>3, <4>1, PrefixFacts
      <4> QED BY <2>4, <4>1, <4>2
    <3>2. Len(P) >= 1 BY <2>4 DEF Written
    <3>3. \A p \in 1..Len(wal'.data_buffer) : FALSE BY <1>5
    <3> QED BY <1>1, <1>5, <2>1, <2>3, <2>4, <2>5, <2>7, <3>1, <3>2, <3>3 DEF OnDisk
  <2>10. InMemory'
    <3>1. ~Installs' /\ Pending' = <<>> BY <1>5, <2>6 DEF Installs, Pending
    <3>2. Len(raft'.log) - Len(Pending') = Len(raft'.log)
      <4>1. Len(raft'.log) \in Nat
        <5>1. raft' \in RaftType BY DEF Typed
        <5> QED BY <5>1, RaftFields
      <4> QED BY <3>1, <4>1
    <3> QED BY <1>1, <1>5, <2>1, <2>3, <2>7, <3>1, <3>2 DEF InMemory
  <2>11. HardStates'
    <3>1. prev_hs' = hard_state(raft') \/ (raft'.log = <<>> /\ prev_hs' = EmptyState) BY <1>5
    <3> QED BY <1>1, <1>5, <2>1, <2>3, <2>7, <3>1 DEF HardStates, Writing
  <2> QED BY <1>1, <1>5, <2>8, <2>9, <2>10, <2>11 DEF Kept
<1> QED BY <1>1, <1>4, <1>5

-----------------------------------------------------------------------------
(* Handling a Ready. *)

\* How far prev_hs lags, and what becomes of it when the Ready ends
LEMMA ReadyEnds ==
    ASSUME NEW h, NEW prev, NEW rhs, rhs = IF h = prev THEN EmptyState ELSE h,
           h = EmptyState => prev = EmptyState
    PROVE  (IF rhs = EmptyState THEN prev ELSE rhs) = h
<1>1. CASE h = prev BY <1>1
<1>2. CASE h # prev BY <1>2
<1> QED BY <1>1, <1>2

\* Publish
LEMMA PublishKept ==
    ASSUME Typed, Staged, Kept, "install" \notin damage, Publish
    PROVE  Kept'
<1>1. /\ pc = "publish"
      /\ \/ /\ raft.commit - snapshot_index > SnapCount
            /\ saving' = [index |-> raft.commit, term |-> raft.log[raft.commit], install |-> FALSE]
            /\ pc' = "snap_record" /\ UNCHANGED prev_hs
         \/ /\ pc' = "idle" /\ prev_hs' = (IF rd.hs = EmptyState THEN prev_hs ELSE rd.hs)
            /\ UNCHANGED saving
      /\ UNCHANGED <<dir, wal, snaps, raft, snapshot_index, rd, used, chosen, damage>>
  BY DEF Publish
<1>2. Up BY <1>1 DEF Up
<1>3. /\ Committed /\ OnDisk /\ InMemory /\ HardStates
      /\ snapshot_index \in Nat /\ raft.commit \in Nat
  BY <1>2, RunningFacts
<1>4. ~saving.install /\ ~saving'.install
  <2>1. saving = NoSnapshot BY <1>1 DEF Staged, Writing
  <2>2. ~saving.install BY <2>1, SmallTypes
  <2> QED BY <1>1, <2>2
<1>5. Content' = Content /\ Handed' = Handed BY <1>1 DEF Content, Handed
<1>6. ~Installs /\ ~Installs' /\ Pending = <<>> /\ Pending' = <<>>
  BY <1>1, <1>4 DEF Installs, Pending
<1>7. Committed' BY <1>1, <1>3 DEF Committed
<1>8. OnDisk' BY <1>1, <1>3, <1>4, <1>5 DEF OnDisk
<1>9. InMemory' BY <1>1, <1>3, <1>5, <1>6 DEF InMemory
<1>10. HardStates'
  <2>1. /\ StateOf(Content, snapshot_index) = hard_state(raft)
        /\ LastState(Handed).term = LastState(Content).term /\ LastState(Handed).vote = LastState(Content).vote
        /\ LastState(Handed) = EmptyState \/ snapshot_index <= LastState(Handed).commit
        /\ wal.state = EmptyState \/ (wal.state.term = LastState(Content).term /\ wal.state.vote = LastState(Content).vote)
        /\ rd.hs = IF hard_state(raft) = prev_hs THEN EmptyState ELSE hard_state(raft)
        /\ hard_state(raft) = EmptyState => prev_hs = EmptyState
    BY <1>1, <1>3 DEF HardStates
  <2>2. CASE /\ raft.commit - snapshot_index > SnapCount
             /\ saving' = [index |-> raft.commit, term |-> raft.log[raft.commit], install |-> FALSE]
             /\ pc' = "snap_record" /\ UNCHANGED prev_hs
    <3>1. LastState(Content) # EmptyState
      <4> SUFFICES ASSUME LastState(Content) = EmptyState PROVE FALSE OBVIOUS
      <4>1. hard_state(raft) = [term |-> 0, vote |-> 0, commit |-> snapshot_index] BY <2>1 DEF StateOf
      <4>2. raft.commit = snapshot_index BY <4>1 DEF hard_state
      <4> QED BY <1>3, <2>2, <4>2, DiskAssumption
    <3> QED BY <1>1, <1>5, <2>1, <2>2, <3>1 DEF HardStates
  <2>3. CASE /\ pc' = "idle" /\ prev_hs' = (IF rd.hs = EmptyState THEN prev_hs ELSE rd.hs)
             /\ UNCHANGED saving
    <3>1. prev_hs' = hard_state(raft) BY <2>1, <2>3, ReadyEnds
    <3> QED BY <1>1, <1>5, <2>1, <2>3, <3>1 DEF HardStates, Writing
  <2> QED BY <1>1, <2>2, <2>3
<1> QED BY <1>1, <1>7, <1>8, <1>9, <1>10 DEF Kept

\* The snapshot that is saved is newer than the last, and of what the cluster has
\* committed.
LEMMA SavingFacts ==
    ASSUME Typed, Staged, Kept, "install" \notin damage, pc \in Writing
    PROVE  /\ saving.index = raft.commit /\ snapshot_index < raft.commit /\ raft.commit <= Len(chosen)
           /\ saving.term = TermAt(chosen, raft.commit) /\ TermAt(raft.log, raft.commit) = TermAt(chosen, raft.commit)
           /\ saving.index \in Nat /\ saving.term \in Nat
           /\ \A f \in SnapFile : f.index = saving.index /\ f.term = saving.term =>
                 Newer(f, load(snaps))
<1>1. Up BY DEF Writing, Up
<1>2. /\ Committed /\ OnDisk /\ InMemory
      /\ snapshot_index \in Nat /\ raft.commit \in Nat /\ chosen \in Seq(Nat) /\ Len(chosen) \in Nat
  BY <1>1, RunningFacts
<1>3. saving.index = raft.commit /\ snapshot_index < raft.commit /\ saving.term = raft.log[raft.commit]
  BY <1>2 DEF Staged
<1>4. saving.index \in Nat /\ saving.term \in Nat BY DEF Typed
<1>5. raft.commit <= Len(chosen) /\ TermAt(raft.log, raft.commit) = TermAt(chosen, raft.commit)
  <2>1. /\ raft.commit <= Len(chosen)
        /\ \A k \in (IF Installs THEN raft.commit ELSE snapshot_index)..raft.commit :
              TermAt(raft.log, k) = TermAt(chosen, k)
    BY <1>2 DEF InMemory
  <2>2. raft.commit \in (IF Installs THEN raft.commit ELSE snapshot_index)..raft.commit BY <1>2, <1>3
  <2> QED BY <2>1, <2>2
<1>6. saving.term = TermAt(raft.log, raft.commit)
  <2>1. raft.commit # 0 BY <1>2, <1>3
  <2> QED BY <1>3, <2>1 DEF TermAt
<1> DEFINE s == load(snaps)
<1>7. s.index = snapshot_index /\ s.term = TermAt(chosen, s.index) BY <1>2, LoadCommitted DEF OnDisk
<1>8. s.term <= saving.term
  <2> HIDE DEF s
  <2>1. CASE s.index = 0
    <3>1. s.term = 0 BY <1>7, <2>1 DEF TermAt
    <3> QED BY <1>4, <3>1
  <2>2. CASE s.index # 0
    <3>1. raft.commit \in 1..Len(chosen) /\ snapshot_index \in 1..raft.commit BY <1>2, <1>3, <1>5, <1>7, <2>2
    <3>2. chosen[snapshot_index] <= chosen[raft.commit] BY <1>2, <3>1 DEF Committed, Rises
    <3>3. s.term = chosen[snapshot_index] BY <1>7, <2>2 DEF TermAt
    <3>4. saving.term = chosen[raft.commit] BY <1>5, <1>6, <3>1 DEF TermAt
    <3> QED BY <3>2, <3>3, <3>4
  <2> QED BY <2>1, <2>2
<1>9. ASSUME NEW f \in SnapFile, f.index = saving.index, f.term = saving.term PROVE Newer(f, s)
  <2>1. s.term \in Nat
    <3>1. Files(snaps) BY DEF Typed
    <3>2. s \in SnapFile BY <3>1, LoadFacts
    <3> HIDE DEF s
    <3> QED BY <3>2 DEF SnapFile
  <2> HIDE DEF s
  <2>2. f.index > s.index BY <1>2, <1>3, <1>7, <1>9
  <2>3. f.term > s.term \/ f.term = s.term BY <1>4, <1>8, <1>9, <2>1
  <2> QED BY <2>2, <2>3 DEF Newer
<1> QED BY <1>3, <1>4, <1>5, <1>6, <1>9

\* OpenFile
LEMMA OpenFileKept ==
    ASSUME Typed, Staged, Kept, "install" \notin damage, OpenFile
    PROVE  Kept'
<1> DEFINE new == [index |-> saving.index, term |-> saving.term, whole |-> FALSE]
<1>1. /\ pc = "snap_open" /\ pc' = "snap_write"
      /\ snaps' = {f \in snaps : ~SameName(f)} \cup {new}
      /\ UNCHANGED <<dir, wal, raft, prev_hs, applied, snapshot_index, rd, saving, used, chosen, damage>>
  BY DEF OpenFile
<1>2. Up /\ pc \in Writing BY <1>1 DEF Up, Writing
<1>3. Committed /\ OnDisk /\ InMemory /\ HardStates BY <1>2, RunningFacts
<1>4. /\ saving.index = raft.commit /\ raft.commit <= Len(chosen) /\ saving.term = TermAt(chosen, raft.commit)
      /\ saving.index \in Nat /\ saving.term \in Nat
      /\ \A f \in SnapFile : f.index = saving.index /\ f.term = saving.term => Newer(f, load(snaps))
  BY <1>2, SavingFacts
<1>5. new.index = saving.index /\ new.term = saving.term /\ ~new.whole OBVIOUS
<1> HIDE DEF new
<1>6. Committed'
  <2>1. \A f \in snaps' : f.index <= Len(chosen) /\ f.term = TermAt(chosen, f.index)
    BY <1>1, <1>3, <1>4, <1>5 DEF Committed
  <2> QED BY <1>1, <1>3, <2>1 DEF Committed
<1>7. load(snaps') = load(snaps)
  <2>1. ASSUME NEW f \in snaps, f.whole PROVE ~SameName(f)
    <3> SUFFICES ASSUME SameName(f) PROVE FALSE OBVIOUS
    <3>1. Files(snaps) BY DEF Typed
    <3>2. f \in SnapFile /\ load(snaps) \in SnapFile BY <3>1, LoadFacts DEF Files
    <3>3. Newer(f, load(snaps)) BY <1>4, <3>2 DEF SameName
    <3>4. f = load(snaps) \/ Newer(load(snaps), f) BY <2>1, <3>1, LoadFacts
    <3> QED BY <3>2, <3>3, <3>4, NewerFacts
  <2>2. \A f : f \in snaps /\ f.whole <=> f \in snaps' /\ f.whole BY <1>1, <1>5, <2>1
  <2>3. load(snaps) = load(snaps') BY <2>2, LoadSame
  <2> QED BY <2>3
<1>8. Content' = Content /\ Handed' = Handed BY <1>1 DEF Content, Handed
<1>9. (Installs' <=> Installs) /\ Pending' = Pending BY <1>1 DEF Installs, Pending
<1>10. OnDisk' BY <1>1, <1>3, <1>7, <1>8 DEF OnDisk
<1>11. InMemory' BY <1>1, <1>3, <1>8, <1>9 DEF InMemory
<1>12. HardStates' BY <1>1, <1>2, <1>3, <1>8 DEF HardStates, Writing
<1> QED BY <1>1, <1>6, <1>10, <1>11, <1>12 DEF Kept

\* The last HardState of a file is no further than its HardStates are.
LEMMA LastStateBelow ==
    ASSUME NEW P \in Seq(Record), NEW c \in Nat,
           \A p \in 1..Len(P) : P[p].type = "state" => P[p].hs.commit <= c
    PROVE  \A n \in 0..Len(P) : LastState(SubSeq(P, 1, n)).commit <= c
<1> TAKE n \in 0..Len(P)
<1> DEFINE Q == SubSeq(P, 1, n)
<1>1. Q \in Seq(Record) /\ Len(Q) = n /\ \A p \in 1..n : Q[p] = P[p] BY PrefixFacts
<1> HIDE DEF Q
<1>2. EntryRecord(0, 0) \in Record BY SmallTypes
<1>3. /\ Positions(Q, "state") = {} => LastState(Q) = EmptyState
      /\ Positions(Q, "state") # {} => \E p \in Positions(Q, "state") : LastState(Q) = Q[p].hs
  BY <1>1, <1>2, LastStateFacts
<1>4. CASE Positions(Q, "state") = {}
  <2>1. LastState(Q).commit = 0 BY <1>3, <1>4 DEF EmptyState
  <2> QED BY <2>1 DEF Q
<1>5. CASE Positions(Q, "state") # {}
  <2>1. PICK p \in Positions(Q, "state") : LastState(Q) = Q[p].hs BY <1>3, <1>5
  <2>2. p \in 1..n /\ Q[p].type = "state" BY <1>1 DEF Positions
  <2>3. p \in 1..Len(P) /\ Q[p] = P[p] BY <1>1, <2>2
  <2>4. P[p].hs.commit <= c BY <2>2, <2>3
  <2> QED BY <2>1, <2>3, <2>4 DEF Q
<1> QED BY <1>4, <1>5

\* A commit index that the snapshot covers speaks of no entry of the file.
LEMMA AgreesBelow ==
    ASSUME NEW P \in Seq(Record), NEW s \in Nat, NEW ch \in Seq(Nat), s <= Len(ch), LastState(P).commit <= s
    PROVE  Agrees(P, s, ch)
<1> DEFINE c == LastState(P).commit
<1>1. c \in Nat /\ Len(ch) \in Nat
  <2>1. Len(ch) \in Nat OBVIOUS
  <2> QED BY <2>1, StateFields
<1>2. c <= s OBVIOUS
<1> HIDE DEF c
<1>3. c <= Len(ch) /\ \A k \in s + 1..c : FALSE BY <1>1, <1>2
<1> QED BY <1>3 DEF Agrees, c

\* WriteFile
LEMMA WriteFileKept ==
    ASSUME Typed, Staged, Kept, "install" \notin damage, WriteFile
    PROVE  Kept'
<1> DEFINE new == [index |-> saving.index, term |-> saving.term, whole |-> TRUE]
           s2  == raft.commit
<1>1. /\ pc = "snap_write"
      /\ snaps' = {f \in snaps : ~SameName(f)} \cup {new}
      /\ snapshot_index' = saving.index
      /\ pc' = (IF saving.install THEN "publish" ELSE "idle")
      /\ prev_hs' = (IF saving.install \/ rd.hs = EmptyState THEN prev_hs ELSE rd.hs)
      /\ saving' = NoSnapshot
      /\ UNCHANGED <<dir, wal, raft, rd, used, chosen, damage>>
  BY DEF WriteFile
<1>2. Up /\ pc \in Writing BY <1>1 DEF Up, Writing
<1>3. /\ Committed /\ OnDisk /\ InMemory /\ HardStates
      /\ snapshot_index \in Nat /\ raft.commit \in Nat /\ Content \in Seq(Record) /\ Handed \in Seq(Record)
      /\ chosen \in Seq(Nat) /\ raft.log \in Seq(Nat) /\ Len(raft.log) \in Nat
  BY <1>2, RunningFacts
<1>4. /\ saving.index = raft.commit /\ snapshot_index < raft.commit /\ raft.commit <= Len(chosen)
      /\ saving.term = TermAt(chosen, raft.commit) /\ TermAt(raft.log, raft.commit) = TermAt(chosen, raft.commit)
      /\ saving.index \in Nat /\ saving.term \in Nat
      /\ \A f \in SnapFile : f.index = saving.index /\ f.term = saving.term => Newer(f, load(snaps))
  BY <1>2, SavingFacts
<1>5. new \in SnapFile /\ new.index = saving.index /\ new.term = saving.term /\ new.whole
  BY <1>4 DEF SnapFile
<1> HIDE DEF new
<1>6. pc' \in {"publish", "idle"} /\ saving' = NoSnapshot /\ ~saving'.install BY <1>1, SmallTypes
<1>7. Committed'
  <2>1. \A f \in snaps' : f.index <= Len(chosen) /\ f.term = TermAt(chosen, f.index)
    BY <1>1, <1>3, <1>4, <1>5 DEF Committed
  <2> QED BY <1>1, <1>3, <2>1 DEF Committed
<1>8. load(snaps') = new
  <2>1. Files(snaps) BY DEF Typed
  <2>2. Files(snaps')
    <3>1. snaps' = {f \in snaps : ~SameName(f)} \cup
                   {[index |-> saving.index, term |-> saving.term, whole |-> TRUE]}
      BY <1>1 DEF new
    <3> QED BY <3>1, FileTyped
  <2>3. new \in snaps' BY <1>1
  <2>4. ASSUME NEW f \in snaps', f.whole PROVE f = new \/ Newer(new, f)
    <3> SUFFICES ASSUME f # new PROVE Newer(new, f) OBVIOUS
    <3>1. f \in snaps BY <1>1
    <3>2. f \in SnapFile /\ load(snaps) \in SnapFile BY <2>1, <3>1, LoadFacts DEF Files
    <3>3. f = load(snaps) \/ Newer(load(snaps), f) BY <2>1, <2>4, <3>1, LoadFacts
    <3>4. Newer(new, load(snaps)) BY <1>4, <1>5
    <3> QED BY <1>5, <3>2, <3>3, <3>4, NewerFacts
  <2> QED BY <1>5, <2>2, <2>3, <2>4, LoadIs
<1>9. Content' = Content /\ Handed' = Handed BY <1>1 DEF Content, Handed
<1>10. Pending' = <<>> /\ ~Installs' /\ Len(raft.log) - Len(Pending') = Len(raft.log) /\ Pending = <<>>
  <2>1. Pending' = <<>> /\ ~Installs' /\ Pending = <<>> BY <1>1, <1>6 DEF Installs, Pending
  <2> QED BY <1>3, <2>1
<1>11. snapshot_index' = s2 /\ snapshot_index <= s2 /\ s2 \in Nat /\ s2 <= Len(chosen) BY <1>1, <1>3, <1>4
<1>12. /\ Written(Content, snapshot_index, chosen) /\ Len(wal.file) >= 1
       /\ \A p \in 1..Len(Content) : Content[p].type = "state" => Content[p].hs.commit <= raft.commit
       /\ wal.data_buffer = <<>>
  BY <1>1, <1>3 DEF OnDisk
<1>13. OnDisk'
  <2>1. Written(Content, s2, chosen) BY <1>3, <1>11, <1>12, WrittenHigher
  <2>2. ASSUME NEW n \in Len(wal.file)..Len(Content) PROVE Agrees(SubSeq(Content, 1, n), s2, chosen)
    <3>1. wal.file \in Seq(Record) BY WALFields DEF Typed
    <3>2. Len(wal.file) \in Nat /\ Len(Content) \in Nat BY <1>3, <3>1
    <3>3. n \in 0..Len(Content) BY <3>2
    <3>4. LastState(SubSeq(Content, 1, n)).commit <= s2 BY <1>3, <1>12, <3>3, LastStateBelow
    <3>5. SubSeq(Content, 1, n) \in Seq(Record) BY <1>3, <3>3, PrefixFacts
    <3> QED BY <1>3, <1>11, <3>4, <3>5, AgreesBelow
  <2>3. load(snaps').index = s2 BY <1>4, <1>5, <1>8
  <2>4. \A p \in 1..Len(wal.data_buffer) : wal.data_buffer[p].type = "state" BY <1>3 DEF OnDisk
  <2> QED BY <1>1, <1>6, <1>9, <1>11, <1>12, <2>1, <2>2, <2>3, <2>4 DEF OnDisk
<1>14. InMemory'
  <2>1. Holds(Content, s2, raft.log, Len(raft.log))
    <3>1. CASE saving.install
      <4>1. s2 = Len(raft.log) BY <1>2, <1>4, <3>1 DEF Staged
      <4>2. \A k \in s2 + 1..Len(raft.log) : FALSE BY <1>3, <4>1
      <4> QED BY <1>3, <4>1, <4>2 DEF Holds
    <3>2. CASE ~saving.install
      <4>1. ~Installs BY <1>1, <3>2 DEF Installs
      <4>2. Len(raft.log) - Len(Pending) = Len(raft.log) BY <1>3, <1>10
      <4>3. Holds(Content, snapshot_index, raft.log, Len(raft.log)) BY <1>3, <4>1, <4>2 DEF InMemory
      <4> QED BY <1>3, <1>11, <1>12, <4>3, HoldsHigher DEF Written
    <3> QED BY <3>1, <3>2
  <2>2. \A k \in s2..raft.commit : TermAt(raft.log, k) = TermAt(chosen, k)
    <3>1. \A k \in s2..raft.commit : k = raft.commit BY <1>3
    <3> QED BY <1>4, <3>1
  <2> QED BY <1>1, <1>4, <1>9, <1>10, <1>11, <2>1, <2>2 DEF InMemory
<1>15. HardStates'
  <2>1. /\ LastState(Content) # EmptyState
        /\ StateOf(Content, snapshot_index) = hard_state(raft)
        /\ wal.state = EmptyState \/ (wal.state.term = LastState(Content).term /\ wal.state.vote = LastState(Content).vote)
        /\ rd.hs = IF hard_state(raft) = prev_hs THEN EmptyState ELSE hard_state(raft)
        /\ hard_state(raft) = EmptyState => prev_hs = EmptyState
    BY <1>1, <1>2, <1>3 DEF HardStates
  <2>2. LastState(Content) = hard_state(raft) BY <2>1 DEF StateOf
  <2>3. StateOf(Content, s2) = hard_state(raft) BY <2>1, <2>2 DEF StateOf
  <2>4. Handed = Content BY <1>3, <1>12 DEF Content
  <2>5. s2 <= LastState(Content).commit BY <1>11, <2>2 DEF hard_state
  <2>6. pc' = "idle" => prev_hs' = hard_state(raft)
    <3> SUFFICES ASSUME pc' = "idle" PROVE prev_hs' = hard_state(raft) OBVIOUS
    <3>1. ~saving.install BY <1>1
    <3>2. prev_hs' = IF rd.hs = EmptyState THEN prev_hs ELSE rd.hs BY <1>1, <3>1
    <3> QED BY <2>1, <3>2, ReadyEnds
  <2>7. pc' # "idle" => prev_hs' = prev_hs BY <1>1
  <2> HIDE DEF s2
  <2> QED BY <1>1, <1>6, <1>9, <1>11, <2>1, <2>3, <2>4, <2>5, <2>6, <2>7 DEF HardStates, Writing
<1> QED BY <1>1, <1>6, <1>7, <1>13, <1>14, <1>15 DEF Kept

\* a is P, followed by Q.
Joins(P, Q, a) == P \in Seq(Record) /\ Q \in Seq(Record) /\ a = P \o Q

\* The parts of a file may be joined in any order.
LEMMA JoinsAssoc ==
    ASSUME NEW P, NEW Q, NEW R, NEW a, NEW b, NEW c, NEW d,
           Joins(P, Q, a), Joins(Q, R, b), Joins(a, R, c), Joins(P, b, d)
    PROVE  c = d
BY SMTT(30) DEF Joins

\* Records X are appended to data_buffer, and that to stdio.
Saves(X, buf, out) == X \in Seq(Record) /\ buf = wal.data_buffer \o X /\ out = wal.stdio \o buf

\* Whether it waits or is handed on, X joins what was there.
LEMMA SavesFacts ==
    ASSUME wal \in WALType, NEW X, NEW buf, NEW out, Saves(X, buf, out)
    PROVE  /\ wal.file \o out = Content \o X /\ Handed \o buf = Content \o X
           /\ buf \in Seq(Record) /\ out \in Seq(Record)
<1> DEFINE F  == wal.file
           S  == wal.stdio
           D  == wal.data_buffer
           H  == Handed
           P  == Content
           c1 == P \o X
           c2 == H \o buf
           c3 == F \o out
<1>1. F \in Seq(Record) /\ S \in Seq(Record) /\ D \in Seq(Record) /\ X \in Seq(Record)
  BY WALFields DEF Saves
<1>2. H = F \o S /\ P = H \o D /\ buf = D \o X /\ out = S \o buf BY DEF Saves, Handed, Content
<1> HIDE DEF F, S, D, H, P
<1>3. H \in Seq(Record) /\ buf \in Seq(Record)
  <2>1. F \o S \in Seq(Record) /\ D \o X \in Seq(Record) BY <1>1, ConcatFacts
  <2> QED BY <1>2, <2>1
<1>4. P \in Seq(Record) /\ out \in Seq(Record)
  <2>1. H \o D \in Seq(Record) /\ S \o buf \in Seq(Record) BY <1>1, <1>3, ConcatFacts
  <2> QED BY <1>2, <2>1
<1>5. /\ Joins(F, S, H) /\ Joins(D, X, buf) /\ Joins(S, buf, out) /\ Joins(H, D, P)
      /\ Joins(P, X, c1) /\ Joins(H, buf, c2) /\ Joins(F, out, c3)
  BY <1>1, <1>2, <1>3, <1>4 DEF Joins
<1> HIDE DEF c1, c2, c3
<1>6. c1 = c2 BY <1>5, JoinsAssoc
<1>7. c2 = c3 BY <1>5, JoinsAssoc
<1> QED BY <1>3, <1>4, <1>6, <1>7 DEF F, H, P, c1, c2, c3

\* A process has saved at least what its file holds.
LEMMA WholeFile ==
    ASSUME Typed
    PROVE  Len(wal.file) <= Len(Content)
<1>1. wal \in WALType /\ wal.file \in Seq(Record) /\ wal.stdio \in Seq(Record) BY WALFields DEF Typed
<1>2. 0 \in Nat /\ 0 <= Len(wal.stdio) /\ Len(wal.file) \in Nat BY <1>1
<1>3. Len(wal.file) + 0 \in Len(wal.file)..Len(Content) BY <1>1, <1>2, HandedFacts
<1> QED BY <1>2, <1>3

\* SaveRecord
LEMMA SaveRecordKept ==
    ASSUME Typed, Staged, Kept, "install" \notin damage, SaveRecord
    PROVE  Kept'
<1> DEFINE e  == SnapshotRecord(saving.index, saving.term)
           P  == Content
           P2 == Append(P, e)
           s  == snapshot_index
<1>1. /\ pc = "snap_record" /\ pc' = "snap_open"
      /\ wal' = save_snapshot(wal, saving.index, saving.term)
      /\ UNCHANGED <<dir, snaps, raft, prev_hs, applied, snapshot_index, rd, saving, used, chosen, damage>>
  BY DEF SaveRecord
<1>2. Up /\ pc \in Writing BY <1>1 DEF Up, Writing
<1>3. /\ Committed /\ OnDisk /\ InMemory /\ HardStates
      /\ wal.file \in Seq(Record) /\ wal.stdio \in Seq(Record) /\ wal.data_buffer \in Seq(Record)
      /\ s \in Nat /\ raft.commit \in Nat /\ P \in Seq(Record) /\ Handed \in Seq(Record)
      /\ chosen \in Seq(Nat) /\ Len(raft.log) \in Nat
  BY <1>2, RunningFacts
<1>4. /\ saving.index = raft.commit /\ s < raft.commit /\ raft.commit <= Len(chosen)
      /\ saving.term = TermAt(chosen, raft.commit)
      /\ saving.index \in Nat /\ saving.term \in Nat
  BY <1>2, SavingFacts
<1>5. e \in Record /\ e.type = "snapshot" /\ e.index = saving.index /\ e.term = saving.term
  BY <1>4, SmallTypes DEF SnapshotRecord
<1>6. /\ wal'.file = wal.file /\ wal'.state = wal.state /\ wal'.data_buffer = <<>>
      /\ wal'.stdio = wal.stdio \o (wal.data_buffer \o <<e>>)
  <2>1. wal \in WALType BY DEF Typed
  <2> QED BY <1>1, <1>4, <2>1, SaveSnapshotFacts
<1> HIDE DEF e
<1>7. Handed' = P2 /\ Content' = P2 /\ P2 \in Seq(Record)
  <2>1. <<e>> \in Seq(Record) /\ P \o <<e>> = P2 BY <1>3, <1>5, ConcatThree
  <2>2. Handed' = wal.file \o (wal.stdio \o (wal.data_buffer \o <<e>>)) BY <1>6 DEF Handed
  <2>3. Handed' = P \o <<e>>
    <3> DEFINE X   == <<e>>
               buf == wal.data_buffer \o X
    <3>1. wal \in WALType BY DEF Typed
    <3>2. Saves(X, buf, wal'.stdio) BY <1>6, <2>1 DEF Saves
    <3>3. Handed' = wal.file \o wal'.stdio BY <1>6 DEF Handed
    <3> HIDE DEF X, buf
    <3>4. wal.file \o wal'.stdio = Content \o X BY <3>1, <3>2, SavesFacts
    <3> QED BY <3>3, <3>4 DEF X
  <2>4. P2 \in Seq(Record) BY <1>3, <1>5, AppendFacts
  <2>5. Content' = Handed' \o <<>> BY <1>6 DEF Content
  <2>6. Handed' = P2 BY <2>1, <2>3
  <2> HIDE DEF P2
  <2> QED BY <2>4, <2>5, <2>6, ConcatThree
<1> HIDE DEF P, s
<1>8. /\ Written(P, s, chosen) /\ Len(wal.file) >= 1 /\ load(snaps).index = s
      /\ ~saving.install => \A n \in Len(wal.file)..Len(P) : Agrees(SubSeq(P, 1, n), s, chosen)
      /\ \A p \in 1..Len(P) : P[p].type = "state" => P[p].hs.commit <= raft.commit
  BY <1>3 DEF OnDisk, P, s
<1>9. LastState(P2) = LastState(P) /\ Len(P2) = Len(P) + 1 /\ Len(P) \in Nat /\ Len(wal.file) \in Nat
  <2>1. Len(P) \in Nat /\ Len(wal.file) \in Nat BY <1>3
  <2> QED BY <1>3, <1>5, <2>1, LastStateFacts, AppendFacts
<1>10. OnDisk'
  <2>1. Written(P2, s, chosen)
    <3>1. Fits(P, s, chosen, e) BY <1>4, <1>5 DEF Fits
    <3> QED BY <1>3, <1>8, <3>1, WrittenAppend
  <2>2. ~saving.install => \A n \in Len(wal.file)..Len(P2) : Agrees(SubSeq(P2, 1, n), s, chosen)
    <3> SUFFICES ASSUME ~saving.install
                 PROVE  \A n \in Len(wal.file)..Len(P2) : Agrees(SubSeq(P2, 1, n), s, chosen)
      OBVIOUS
    <3>1. \A n \in Len(wal.file)..Len(P) : Agrees(SubSeq(P, 1, n), s, chosen) BY <1>8
    <3>2. Agrees(P, s, chosen)
      <4>1. Len(P) \in Len(wal.file)..Len(P)
        <5>1. Len(wal.file) <= Len(P) BY WholeFile DEF P
        <5> QED BY <1>9, <5>1
      <4>2. SubSeq(P, 1, Len(P)) = P
        <5>1. Len(P) \in 0..Len(P) BY <1>9
        <5> QED BY <1>3, <5>1, PrefixFacts
      <4> QED BY <3>1, <4>1, <4>2
    <3>3. Agrees(P2, s, chosen) BY <1>3, <1>5, <3>2, AgreesSnapshot
    <3> QED BY <1>3, <1>5, <1>9, <3>1, <3>3, AgreesPrefixes
  <2>3. \A p \in 1..Len(P2) : P2[p].type = "state" => P2[p].hs.commit <= raft.commit
    <3>1. P2[Len(P) + 1] = e /\ \A p \in 1..Len(P) : P2[p] = P[p] BY <1>3, <1>5, AppendFacts
    <3>2. \A p \in 1..Len(P2) : p \in 1..Len(P) \/ p = Len(P) + 1 BY <1>9
    <3> HIDE DEF P2
    <3> QED BY <1>5, <1>8, <3>1, <3>2
  <2>4. \A p \in 1..Len(wal'.data_buffer) : FALSE BY <1>6
  <2> HIDE DEF P2
  <2> QED BY <1>1, <1>6, <1>7, <1>8, <2>1, <2>2, <2>3, <2>4 DEF OnDisk, s
<1>11. InMemory'
  <2>1. Pending = <<>> /\ Pending' = <<>> /\ (Installs' <=> Installs) BY <1>1 DEF Pending, Installs
  <2>2. ~Installs => Holds(P2, s, raft.log, Len(raft.log) - Len(Pending'))
    <3>1. ~Installs => Holds(P, s, raft.log, Len(raft.log) - Len(Pending)) BY <1>3 DEF InMemory, P, s
    <3> QED BY <1>3, <1>5, <2>1, <3>1, HoldsOther
  <2> HIDE DEF P2
  <2> QED BY <1>1, <1>3, <1>7, <2>1, <2>2 DEF InMemory, s
<1>12. HardStates'
  <2>1. /\ LastState(P) # EmptyState
        /\ StateOf(P, s) = hard_state(raft)
        /\ wal.state = EmptyState \/ (wal.state.term = LastState(P).term /\ wal.state.vote = LastState(P).vote)
        /\ rd.hs = IF hard_state(raft) = prev_hs THEN EmptyState ELSE hard_state(raft)
        /\ hard_state(raft) = EmptyState => prev_hs = EmptyState
    BY <1>1, <1>2, <1>3 DEF HardStates, P, s
  <2>2. s <= LastState(P).commit
    <3>1. LastState(P).commit = raft.commit BY <2>1 DEF StateOf, hard_state
    <3> QED BY <1>3, <1>4, <3>1 DEF s
  <2>3. StateOf(P2, s) = hard_state(raft) BY <1>9, <2>1 DEF StateOf
  <2> HIDE DEF P2
  <2> QED BY <1>1, <1>6, <1>7, <1>9, <2>1, <2>2, <2>3 DEF HardStates, s
<1>13. Committed' BY <1>1, <1>3 DEF Committed
<1> QED BY <1>1, <1>10, <1>11, <1>12, <1>13 DEF Kept

\* The file with the records that save appends
WithEntries(P, ents) == IF ents = <<>> THEN P ELSE Append(P, ents[1])
WithState(P, hs) == IF hs = EmptyState THEN P ELSE Append(P, StateRecord(hs))

\* X are the records of at most one entry, e, and of a HardState.
Adds(X, ents, e, hs) ==
    /\ e \in Record /\ ents \in {<<>>, <<e>>} /\ hs \in HardState
    /\ X = IF hs = EmptyState THEN ents ELSE ents \o <<StateRecord(hs)>>

\* They are appended one after the other.
LEMMA WithFacts ==
    ASSUME NEW P \in Seq(Record), NEW hs, NEW e, NEW ents, NEW X, Adds(X, ents, e, hs)
    PROVE  /\ P \o X = WithState(WithEntries(P, ents), hs) /\ X \in Seq(Record)
           /\ WithEntries(P, ents) \in Seq(Record)
<1> DEFINE st == StateRecord(hs)
           P1 == WithEntries(P, ents)
           one == <<e>>
<1>0. /\ e \in Record /\ ents \in {<<>>, <<e>>} /\ hs \in HardState
      /\ X = IF hs = EmptyState THEN ents ELSE ents \o <<StateRecord(hs)>>
  BY DEF Adds
<1>1. st \in Record BY <1>0, SmallTypes
<1>2. one \in Seq(Record) /\ P \o one = Append(P, e) /\ P \o <<>> = P BY <1>0, ConcatThree
<1> HIDE DEF st
<1>3. P1 = P \o ents /\ P1 \in Seq(Record) /\ ents \in Seq(Record)
  <2>1. CASE ents = <<>> BY <1>2, <2>1 DEF WithEntries
  <2>2. CASE ents # <<>>
    <3>1. ents = one /\ ents[1] = e BY <1>0, <2>2
    <3>2. Append(P, e) \in Seq(Record) BY <1>0, AppendFacts
    <3> QED BY <1>2, <2>2, <3>1, <3>2 DEF WithEntries
  <2> QED BY <2>1, <2>2
<1> HIDE DEF P1, one
<1>4. CASE hs = EmptyState BY <1>0, <1>3, <1>4 DEF WithState, P1
<1>5. CASE hs # EmptyState
  <2>1. ents \o <<st>> = Append(ents, st) BY <1>1, <1>3, ConcatThree
  <2>2. X = Append(ents, st) BY <1>0, <1>5, <2>1 DEF st
  <2>3. P \o Append(ents, st) = Append(P \o ents, st) BY <1>1, <1>3, ConcatAppend
  <2>4. P \o X = Append(P1, st) BY <1>3, <2>2, <2>3
  <2>5. X \in Seq(Record) BY <1>1, <1>3, <2>2, AppendFacts
  <2> QED BY <1>3, <1>5, <2>4, <2>5 DEF WithState, P1, st
<1> QED BY <1>4, <1>5

\* What Save makes of the file and the buffers
LEMMA SaveEffect ==
    ASSUME Typed, wal' = save(wal, rd.hs, rd.entries), NEW e \in Record, rd.entries \in {<<>>, <<e>>}
    PROVE  /\ Content' = WithState(WithEntries(Content, rd.entries), rd.hs)
           /\ wal'.file = wal.file /\ wal'.state = IF rd.hs = EmptyState THEN wal.state ELSE rd.hs
           /\ \/ rd.hs = EmptyState /\ rd.entries = <<>> /\ wal' = wal
              \/ Handed' = Content' /\ wal'.data_buffer = <<>>
              \/ /\ Handed' = Handed /\ rd.entries = <<>> /\ rd.hs # EmptyState
                 /\ wal'.data_buffer = Append(wal.data_buffer, StateRecord(rd.hs))
                 /\ rd.hs.vote = wal.state.vote /\ rd.hs.term = wal.state.term
<1> DEFINE hs   == rd.hs
           ents == rd.entries
           D    == wal.data_buffer
           st   == StateRecord(hs)
           X    == IF hs = EmptyState THEN ents ELSE ents \o <<st>>
           buf  == D \o X
           out  == wal.stdio \o buf
           C2   == WithState(WithEntries(Content, ents), hs)
<1>1. wal \in WALType /\ hs \in HardState /\ ents \in Seq(Record) /\ ents \in {<<>>, <<e>>} BY DEF Typed
<1>2. D \in Seq(Record) /\ wal.file \in Seq(Record) /\ wal.stdio \in Seq(Record) BY <1>1, WALFields
<1>3. st \in Record /\ <<st>> \in Seq(Record) BY <1>1, SmallTypes
<1>4. Content \in Seq(Record) /\ Handed \in Seq(Record)
  <2>1. Handed \in Seq(Record) BY <1>2, ConcatFacts DEF Handed
  <2> QED BY <1>2, <2>1, ConcatFacts DEF Content
<1>5. Content \o X = C2 /\ X \in Seq(Record)
  <2> DEFINE P == Content
  <2>1. P \in Seq(Record) /\ Adds(X, ents, e, hs) BY <1>1, <1>4 DEF Adds
  <2> HIDE DEF P, X, hs, ents
  <2>2. P \o X = WithState(WithEntries(P, ents), hs) /\ X \in Seq(Record) BY <2>1, WithFacts
  <2> QED BY <2>2 DEF P
<1>6. buf = IF hs = EmptyState THEN D \o ents ELSE (D \o ents) \o <<st>>
  <2> HIDE DEF D, ents, st, hs
  <2>1. (D \o ents) \o <<st>> = D \o (ents \o <<st>>) BY <1>1, <1>2, <1>3, ConcatThree
  <2> QED BY <2>1
<1>7. /\ wal'.file = wal.file /\ wal'.state = (IF hs = EmptyState THEN wal.state ELSE hs)
      /\ hs = EmptyState /\ ents = <<>> => wal' = wal
      /\ hs # EmptyState \/ ents # <<>> =>
            \/ wal'.stdio = out /\ wal'.data_buffer = <<>>
            \/ /\ wal'.stdio = wal.stdio /\ wal'.data_buffer = buf
               /\ ents = <<>> /\ hs.vote = wal.state.vote /\ hs.term = wal.state.term
  <2> DEFINE b == IF hs = EmptyState THEN D \o ents ELSE (D \o ents) \o <<st>>
  <2>1. /\ wal'.file = wal.file /\ wal'.state = (IF hs = EmptyState THEN wal.state ELSE hs)
        /\ hs = EmptyState /\ ents = <<>> => wal' = wal
        /\ hs # EmptyState \/ ents # <<>> =>
              \/ wal'.stdio = wal.stdio \o b /\ wal'.data_buffer = <<>>
              \/ /\ wal'.stdio = wal.stdio /\ wal'.data_buffer = b
                 /\ ents = <<>> /\ hs.vote = wal.state.vote /\ hs.term = wal.state.term
    BY <1>1, SaveFacts, ZenonT(60)
  <2>2. buf = b BY <1>6
  <2> HIDE DEF b, buf
  <2> QED BY <2>1, <2>2
<1>8. Saves(X, buf, out) BY <1>5 DEF Saves
<1>9. wal.file \o out = C2 /\ Handed \o buf = C2
  <2> HIDE DEF X, buf, out, C2
  <2> QED BY <1>1, <1>5, <1>8, SavesFacts
<1>10. CASE hs = EmptyState /\ ents = <<>>
  <2>1. wal' = wal BY <1>7, <1>10
  <2>2. Content' = Content BY <2>1 DEF Content, Handed
  <2>3. C2 = Content BY <1>10 DEF WithState, WithEntries
  <2> QED BY <1>7, <1>10, <2>1, <2>2, <2>3
<1>11. CASE wal'.stdio = out /\ wal'.data_buffer = <<>>
  <2>1. Handed' = wal.file \o out BY <1>7, <1>11 DEF Handed
  <2>2. Handed' = C2 /\ C2 \in Seq(Record)
    <3>1. out \in Seq(Record) BY <1>1, <1>8, SavesFacts
    <3> HIDE DEF out, C2
    <3>2. wal.file \o out \in Seq(Record) BY <1>2, <3>1, ConcatFacts
    <3> QED BY <1>9, <2>1, <3>2
  <2>3. Content' = Handed' \o <<>> BY <1>11 DEF Content
  <2> HIDE DEF C2, out
  <2>4. Content' = C2 BY <2>2, <2>3, ConcatThree
  <2> QED BY <1>7, <1>11, <2>2, <2>4 DEF C2
<1>12. CASE /\ hs # EmptyState \/ ents # <<>>
            /\ wal'.stdio = wal.stdio /\ wal'.data_buffer = buf
            /\ ents = <<>> /\ hs.vote = wal.state.vote /\ hs.term = wal.state.term
  <2>1. Handed' = Handed BY <1>7, <1>12 DEF Handed
  <2>2. Content' = C2
    <3> HIDE DEF buf, C2
    <3>1. Content' = Handed \o buf BY <1>12, <2>1 DEF Content
    <3> QED BY <1>9, <3>1
  <2>3. hs # EmptyState BY <1>12
  <2>4. buf = Append(D, st)
    <3>1. X = <<>> \o <<st>> BY <1>12, <2>3
    <3>2. <<>> \o <<st>> = <<st>> BY <1>3
    <3>3. X = <<st>> BY <3>1, <3>2
    <3> HIDE DEF D, X, st
    <3> QED BY <1>2, <1>3, <3>3, ConcatThree
  <2> HIDE DEF buf, C2, X
  <2> QED BY <1>7, <1>12, <2>1, <2>2, <2>3, <2>4 DEF C2
<1> HIDE DEF out, buf, X, C2
<1> QED BY <1>7, <1>10, <1>11, <1>12

\* The file and the buffers with the entry of the Ready
LEMMA SaveEntry ==
    ASSUME Typed, Staged, Kept, "install" \notin damage, pc = "save"
    PROVE  LET C1 == WithEntries(Content, rd.entries)
               L  == Len(raft.log)
               s  == snapshot_index
           IN  /\ rd.entries = <<>> \/ rd.entries = <<EntryRecord(L, raft.log[L])>>
               /\ EntryRecord(L, raft.log[L]) \in Record \/ rd.entries = <<>>
               /\ C1 \in Seq(Record) /\ Written(C1, s, chosen) /\ LastState(C1) = LastState(Content)
               /\ \A n \in Len(wal.file)..Len(C1) : Agrees(SubSeq(C1, 1, n), s, chosen)
               /\ rd.snap = 0 => Holds(C1, s, raft.log, L)
               /\ \A p \in 1..Len(C1) : C1[p].type = "state" => C1[p].hs.commit <= raft.commit
<1> DEFINE P == Content
           s == snapshot_index
           L == Len(raft.log)
           t == raft.log[L]
           e == EntryRecord(L, t)
           ents == rd.entries
           C1 == WithEntries(P, ents)
<1>1. Up BY DEF Up
<1>2. /\ OnDisk /\ InMemory /\ P \in Seq(Record) /\ s \in Nat /\ chosen \in Seq(Nat)
      /\ raft.log \in Seq(Nat) /\ L \in Nat /\ wal.file \in Seq(Record) /\ Len(wal.file) \in Nat
  BY <1>1, RunningFacts
<1>3. Pending = ents /\ ~saving.install /\ (Installs <=> rd.snap > 0) /\ (rd.snap > 0 => ents = <<>>)
  <2>1. ~saving.install BY DEF Staged, Writing, NoSnapshot
  <2>2. rd.snap \in Nat BY DEF Typed
  <2> QED BY <2>1, <2>2 DEF Pending, Installs, Staged
<1>4. /\ Written(P, s, chosen)
      /\ \A n \in Len(wal.file)..Len(P) : Agrees(SubSeq(P, 1, n), s, chosen)
      /\ \A p \in 1..Len(P) : P[p].type = "state" => P[p].hs.commit <= raft.commit
  BY <1>2, <1>3 DEF OnDisk
<1>5. /\ rd.snap = 0 => Holds(P, s, raft.log, L - Len(ents))
      /\ \/ ents = <<>>
         \/ /\ ents = <<e>> /\ L > s /\ t > 0
            /\ \A p \in 1..Len(P) : P[p].type = "state" => P[p].hs.commit < L
  <2>1. /\ ~Installs => Holds(P, s, raft.log, L - Len(Pending))
        /\ \/ Pending = <<>>
           \/ /\ Pending = <<e>> /\ L > s /\ t > 0
              /\ \A p \in 1..Len(P) : P[p].type = "state" => P[p].hs.commit < L
    BY <1>2 DEF InMemory
  <2>2. rd.snap = 0 => ~Installs BY <1>3
  <2> HIDE DEF P, ents, e, t, L
  <2> QED BY <1>3, <2>1, <2>2
<1>6. CASE ents = <<>>
  <2>1. C1 = P BY <1>6 DEF WithEntries
  <2>2. L - Len(ents) = L BY <1>2, <1>6
  <2> HIDE DEF P, C1, ents
  <2> QED BY <1>2, <1>4, <1>5, <1>6, <2>1, <2>2 DEF C1, P, ents
<1>7. CASE /\ ents = <<e>> /\ L > s /\ t > 0
           /\ \A p \in 1..Len(P) : P[p].type = "state" => P[p].hs.commit < L
  <2> DEFINE n == L - 1
  <2>1. n \in Nat /\ n + 1 = L /\ L \in 1..Len(raft.log) /\ t \in Nat BY <1>2, <1>7
  <2>2. C1 = Append(P, e) /\ Len(ents) = 1 /\ ents # <<>> BY <1>7 DEF WithEntries
  <2>3. e \in Record /\ e.type = "entry" /\ e.index = L /\ e.term = t
    <3>1. e \in Record BY <1>2, <2>1, SmallTypes
    <3> QED BY <3>1 DEF EntryRecord
  <2>4. rd.snap = 0 /\ Holds(P, s, raft.log, n)
    <3>1. rd.snap \in Nat BY DEF Typed
    <3>2. rd.snap = 0 BY <1>3, <2>2, <3>1
    <3> QED BY <1>5, <2>2, <3>2
  <2>5. Len(wal.file) <= Len(P) BY WholeFile
  <2> HIDE DEF P, C1, ents, e, t, L, s
  <2>6. C1 \in Seq(Record) /\ LastState(C1) = LastState(P)
    <3>1. Append(P, e) \in Seq(Record) BY <1>2, <2>3, AppendFacts
    <3>2. LastState(Append(P, e)) = LastState(P) BY <1>2, <2>3, LastStateFacts
    <3> QED BY <2>2, <3>1, <3>2
  <2>7. Written(C1, s, chosen)
    <3>1. e.index <= s + 1 \/ e.index - 1 <= End(P, s) BY <1>2, <2>1, <2>3, <2>4 DEF Holds
    <3>2. Fits(P, s, chosen, e) BY <1>7, <2>3, <3>1 DEF Fits
    <3> QED BY <1>2, <1>4, <2>2, <3>2, WrittenAppend
  <2>8. \A m \in Len(wal.file)..Len(C1) : Agrees(SubSeq(C1, 1, m), s, chosen)
    <3>1. Len(P) \in Nat BY <1>2
    <3>2. Len(P) \in Len(wal.file)..Len(P) BY <1>2, <2>5, <3>1
    <3>3. Len(P) \in 0..Len(P) BY <3>1
    <3>4. SubSeq(P, 1, Len(P)) = P BY <1>2, <3>3, PrefixFacts
    <3>5. Agrees(P, s, chosen) BY <1>4, <3>2, <3>4
    <3>6. LastState(P).commit < L
      <4>1. \A p \in 1..Len(P) : P[p].type = "state" => P[p].hs.commit <= n
        <5> TAKE p \in 1..Len(P)
        <5> HAVE P[p].type = "state"
        <5>1. P[p].hs.commit < L BY <1>7
        <5>2. P[p].hs \in HardState BY <1>2, RecordFields
        <5>3. P[p].hs.commit \in Nat BY <5>2 DEF HardState
        <5> QED BY <1>2, <5>1, <5>3
      <4>2. LastState(SubSeq(P, 1, Len(P))).commit <= n BY <1>2, <2>1, <3>3, <4>1, LastStateBelow
      <4>3. LastState(P).commit \in Nat BY <1>2, StateFields
      <4>4. LastState(P).commit <= L - 1 BY <3>4, <4>2
      <4> QED BY <1>2, <4>3, <4>4
    <3>7. Agrees(Append(P, e), s, chosen) BY <1>2, <1>7, <2>3, <3>5, <3>6, AgreesEntry
    <3>8. \A m \in Len(wal.file)..Len(Append(P, e)) : Agrees(SubSeq(Append(P, e), 1, m), s, chosen)
      BY <1>2, <1>4, <2>3, <3>7, AgreesPrefixes
    <3> QED BY <2>2, <3>8
  <2>9. Holds(C1, s, raft.log, L)
    <3>1. Holds(Append(P, EntryRecord(n + 1, t)), s, raft.log, n + 1)
      <4>1. n + 1 > s /\ t = raft.log[n + 1] BY <1>7, <2>1 DEF t
      <4> QED BY <1>2, <2>1, <2>4, <4>1, HoldsEntry
    <3>2. EntryRecord(n + 1, t) = e BY <2>1 DEF e
    <3> QED BY <2>1, <2>2, <3>1, <3>2
  <2>10. \A p \in 1..Len(C1) : C1[p].type = "state" => C1[p].hs.commit <= raft.commit
    <3>1. Len(C1) = Len(P) + 1 /\ C1[Len(P) + 1] = e /\ \A p \in 1..Len(P) : C1[p] = P[p]
      BY <1>2, <2>2, <2>3, AppendFacts
    <3>2. Len(P) \in Nat BY <1>2
    <3>3. \A p \in 1..Len(C1) : p \in 1..Len(P) \/ p = Len(P) + 1 BY <3>1, <3>2
    <3> QED BY <1>4, <2>3, <3>1, <3>3
  <2> QED BY <1>7, <2>3, <2>6, <2>7, <2>8, <2>9, <2>10 DEF C1, P, ents, e, t, L, s
<1> QED BY <1>5, <1>6, <1>7

\* The file and the buffers with the HardState of the Ready as well
LEMMA SaveState ==
    ASSUME Typed, Staged, Kept, "install" \notin damage, pc = "save"
    PROVE  LET C2 == WithState(WithEntries(Content, rd.entries), rd.hs)
               s  == snapshot_index
           IN  /\ C2 \in Seq(Record) /\ Written(C2, s, chosen)
               /\ LastState(C2) = IF rd.hs = EmptyState THEN LastState(Content) ELSE rd.hs
               /\ rd.hs # EmptyState => rd.hs = hard_state(raft)
               /\ rd.snap = 0 => /\ \A n \in Len(wal.file)..Len(C2) : Agrees(SubSeq(C2, 1, n), s, chosen)
                                 /\ Holds(C2, s, raft.log, Len(raft.log))
               /\ \A p \in 1..Len(C2) : C2[p].type = "state" => C2[p].hs.commit <= raft.commit
<1> DEFINE P  == Content
           s  == snapshot_index
           L  == Len(raft.log)
           hs == rd.hs
           e  == StateRecord(hs)
           C1 == WithEntries(P, rd.entries)
           C2 == WithState(C1, hs)
<1>1. Up BY DEF Up
<1>2. /\ InMemory /\ HardStates /\ P \in Seq(Record) /\ s \in Nat /\ chosen \in Seq(Nat)
      /\ raft.log \in Seq(Nat) /\ L \in Nat /\ wal.file \in Seq(Record) /\ Len(wal.file) \in Nat
      /\ raft.commit \in Nat /\ s <= raft.commit /\ raft.commit <= L
  BY <1>1, RunningFacts
<1>3. /\ C1 \in Seq(Record) /\ Written(C1, s, chosen) /\ LastState(C1) = LastState(P)
      /\ \A n \in Len(wal.file)..Len(C1) : Agrees(SubSeq(C1, 1, n), s, chosen)
      /\ rd.snap = 0 => Holds(C1, s, raft.log, L)
      /\ \A p \in 1..Len(C1) : C1[p].type = "state" => C1[p].hs.commit <= raft.commit
  BY SaveEntry
<1>4. hs # EmptyState => hs = hard_state(raft)
  <2>1. hs = IF hard_state(raft) = prev_hs THEN EmptyState ELSE hard_state(raft) BY <1>2 DEF HardStates
  <2> QED BY <2>1
<1>5. CASE hs = EmptyState
  <2>1. C2 = C1 BY <1>5 DEF WithState
  <2> HIDE DEF P, C1, C2, hs
  <2> QED BY <1>3, <1>4, <1>5, <2>1 DEF C2, C1, P, hs
<1>6. CASE hs # EmptyState
  <2>1. C2 = Append(C1, e) BY <1>6 DEF WithState
  <2>2. hs \in HardState /\ e \in Record /\ e.type = "state" /\ e.hs = hs
    <3>1. hs \in HardState BY DEF Typed
    <3>2. e \in Record BY <3>1, SmallTypes
    <3> QED BY <3>1, <3>2 DEF StateRecord
  <2>3. hs = hard_state(raft) /\ hs.commit = raft.commit BY <1>4, <1>6 DEF hard_state
  <2> HIDE DEF P, C1, C2, hs, e, s, L
  <2>4. C2 \in Seq(Record)
    <3>1. Append(C1, e) \in Seq(Record) BY <1>3, <2>2, AppendFacts
    <3> QED BY <2>1, <3>1
  <2>5. LastState(C2) = hs
    <3>1. LastState(Append(C1, e)) = e.hs BY <1>3, <2>2, LastStateFacts
    <3> QED BY <2>1, <2>2, <3>1
  <2>6. Written(C2, s, chosen)
    <3>1. Fits(C1, s, chosen, e) BY <1>3, <1>6, <2>2, <2>3 DEF Fits
    <3> QED BY <1>2, <1>3, <2>1, <3>1, WrittenAppend
  <2>7. rd.snap = 0 => Holds(C2, s, raft.log, L)
    <3> SUFFICES ASSUME rd.snap = 0 PROVE Holds(C2, s, raft.log, L) OBVIOUS
    <3>1. Holds(Append(C1, e), s, raft.log, L) BY <1>2, <1>3, <2>2, HoldsOther
    <3> QED BY <2>1, <3>1
  <2>8. rd.snap = 0 => \A n \in Len(wal.file)..Len(C2) : Agrees(SubSeq(C2, 1, n), s, chosen)
    <3> SUFFICES ASSUME rd.snap = 0
                 PROVE  \A n \in Len(wal.file)..Len(C2) : Agrees(SubSeq(C2, 1, n), s, chosen)
      OBVIOUS
    <3>1. ~Installs
      <4>1. ~saving.install BY DEF Staged, Writing, NoSnapshot
      <4> QED BY <4>1 DEF Installs
    <3>2. /\ raft.commit <= Len(chosen)
          /\ \A k \in s..raft.commit : TermAt(raft.log, k) = TermAt(chosen, k)
      BY <1>2, <3>1 DEF InMemory, s
    <3>3. \A k \in s + 1..hs.commit : raft.log[k] = chosen[k]
      <4> TAKE k \in s + 1..hs.commit
      <4>1. k \in s..raft.commit /\ k # 0 BY <1>2, <2>3
      <4>2. TermAt(raft.log, k) = TermAt(chosen, k) BY <3>2, <4>1
      <4> QED BY <4>1, <4>2 DEF TermAt
    <3>4. Holds(C1, s, raft.log, L) BY <1>3
    <3>5. hs.commit <= L /\ hs.commit <= Len(chosen) BY <1>2, <2>3, <3>2
    <3>6. Agrees(Append(C1, StateRecord(hs)), s, chosen)
      BY <1>2, <1>3, <2>2, <3>3, <3>4, <3>5, AgreesState
    <3>7. Agrees(Append(C1, e), s, chosen) BY <3>6 DEF e
    <3>8. \A n \in Len(wal.file)..Len(Append(C1, e)) : Agrees(SubSeq(Append(C1, e), 1, n), s, chosen)
      BY <1>2, <1>3, <2>2, <3>7, AgreesPrefixes
    <3> QED BY <2>1, <3>8
  <2>9. \A p \in 1..Len(C2) : C2[p].type = "state" => C2[p].hs.commit <= raft.commit
    <3>1. Len(C2) = Len(C1) + 1 /\ C2[Len(C1) + 1] = e /\ \A p \in 1..Len(C1) : C2[p] = C1[p]
      BY <1>3, <2>1, <2>2, AppendFacts
    <3>2. Len(C1) \in Nat BY <1>3
    <3>3. \A p \in 1..Len(C2) : p \in 1..Len(C1) \/ p = Len(C1) + 1 BY <3>1, <3>2
    <3>4. raft.commit <= raft.commit BY <1>2
    <3> QED BY <1>3, <2>2, <2>3, <3>1, <3>3, <3>4
  <2> QED BY <1>6, <2>3, <2>4, <2>5, <2>6, <2>7, <2>8, <2>9 DEF C2, C1, P, s, L, hs
<1> QED BY <1>5, <1>6

\* wal_->save
LEMMA SaveKept ==
    ASSUME Typed, Staged, Kept, "install" \notin damage, Save
    PROVE  Kept'
<1> DEFINE P  == Content
           s  == snapshot_index
           L  == Len(raft.log)
           hs == rd.hs
           C2 == WithState(WithEntries(P, rd.entries), hs)
<1>1. /\ pc = "save" /\ wal' = save(wal, hs, rd.entries)
      /\ UNCHANGED <<dir, snaps, raft, prev_hs, applied, snapshot_index, rd, used, chosen, damage>>
      /\ rd.snap > 0 => pc' = "snap_record" /\ saving'.install
      /\ ~(rd.snap > 0) => pc' = "publish" /\ saving' = saving
  BY DEF Save
<1>2. Up BY <1>1 DEF Up
<1>3. /\ Committed /\ OnDisk /\ InMemory /\ HardStates
      /\ s \in Nat /\ raft.commit \in Nat /\ P \in Seq(Record) /\ Handed \in Seq(Record)
      /\ L \in Nat /\ s <= raft.commit /\ raft.term \in Nat /\ raft.vote \in Nat
      /\ wal.data_buffer \in Seq(Record)
  BY <1>2, RunningFacts
<1>4. /\ C2 \in Seq(Record) /\ Written(C2, s, chosen)
      /\ LastState(C2) = IF hs = EmptyState THEN LastState(P) ELSE hs
      /\ hs # EmptyState => hs = hard_state(raft)
      /\ rd.snap = 0 => /\ \A n \in Len(wal.file)..Len(C2) : Agrees(SubSeq(C2, 1, n), s, chosen)
                        /\ Holds(C2, s, raft.log, L)
      /\ \A p \in 1..Len(C2) : C2[p].type = "state" => C2[p].hs.commit <= raft.commit
  BY <1>1, SaveState
<1>5. /\ Content' = C2 /\ wal'.file = wal.file /\ wal'.state = IF hs = EmptyState THEN wal.state ELSE hs
      /\ \/ hs = EmptyState /\ rd.entries = <<>> /\ wal' = wal
         \/ Handed' = Content' /\ wal'.data_buffer = <<>>
         \/ /\ Handed' = Handed /\ rd.entries = <<>> /\ hs # EmptyState
            /\ wal'.data_buffer = Append(wal.data_buffer, StateRecord(hs))
            /\ hs.vote = wal.state.vote /\ hs.term = wal.state.term
  <2>1. \E e \in Record : rd.entries \in {<<>>, <<e>>}
    <3>1. /\ rd.entries = <<>> \/ rd.entries = <<EntryRecord(L, raft.log[L])>>
          /\ EntryRecord(L, raft.log[L]) \in Record \/ rd.entries = <<>>
      BY <1>1, SaveEntry
    <3>2. StateRecord(EmptyState) \in Record BY SmallTypes
    <3> QED BY <3>1, <3>2
  <2>2. PICK e \in Record : rd.entries \in {<<>>, <<e>>} BY <2>1
  <2> QED BY <1>1, <2>2, SaveEffect
<1>6. /\ ~saving.install /\ rd.snap \in Nat /\ hs \in HardState
      /\ (Installs <=> rd.snap > 0) /\ (saving'.install <=> rd.snap > 0) /\ (Installs' <=> rd.snap > 0)
      /\ Pending' = <<>> /\ pc' \in {"snap_record", "publish"}
  <2>1. ~saving.install BY <1>1 DEF Staged, Writing, NoSnapshot
  <2>2. rd.snap \in Nat /\ hs \in HardState BY DEF Typed
  <2>3. pc' \in {"snap_record", "publish"} /\ (saving'.install <=> rd.snap > 0) BY <1>1, <2>1
  <2> QED BY <1>1, <2>1, <2>2, <2>3 DEF Pending, Installs
<1> HIDE DEF C2, P, hs
<1>7. OnDisk'
  <2>1. Len(wal.file) >= 1 /\ load(snaps).index = s
        /\ \A p \in 1..Len(wal.data_buffer) : wal.data_buffer[p].type = "state"
    BY <1>3 DEF OnDisk
  <2>2. ~saving'.install => \A n \in Len(wal.file)..Len(C2) : Agrees(SubSeq(C2, 1, n), s, chosen)
    BY <1>4, <1>6
  <2>3. \A p \in 1..Len(wal'.data_buffer) : wal'.data_buffer[p].type = "state"
    <3>1. CASE wal' = wal BY <2>1, <3>1
    <3>2. CASE wal'.data_buffer = <<>> BY <3>2
    <3>3. CASE wal'.data_buffer = Append(wal.data_buffer, StateRecord(hs))
      <4> DEFINE D == wal.data_buffer
                 e == StateRecord(hs)
                 D2 == Append(D, e)
      <4>1. e \in Record /\ e.type = "state"
        <5>1. e \in Record BY <1>6, SmallTypes
        <5> QED BY <5>1 DEF StateRecord
      <4>2. \A p \in 1..Len(D) : D[p].type = "state" BY <2>1
      <4>3. D \in Seq(Record) /\ Len(D) \in Nat BY <1>3
      <4> HIDE DEF D, e, D2
      <4>4. Len(D2) = Len(D) + 1 /\ D2[Len(D) + 1] = e /\ \A p \in 1..Len(D) : D2[p] = D[p]
        BY <4>1, <4>3, AppendFacts DEF D2
      <4>5. \A p \in 1..Len(D2) : p \in 1..Len(D) \/ p = Len(D) + 1 BY <4>3, <4>4
      <4>6. \A p \in 1..Len(D2) : D2[p].type = "state" BY <4>1, <4>2, <4>4, <4>5
      <4> QED BY <3>3, <4>6 DEF D2, D, e
    <3> QED BY <1>5, <3>1, <3>2, <3>3
  <2>4. pc' \notin {"snap_open", "snap_write"} BY <1>6
  <2> HIDE DEF s
  <2>5. snapshot_index' = s /\ chosen' = chosen /\ raft' = raft /\ load(snaps') = load(snaps) BY <1>1 DEF s
  <2> QED BY <1>4, <1>5, <2>1, <2>2, <2>3, <2>4, <2>5 DEF OnDisk
<1>8. InMemory'
  <2>1. /\ raft.commit <= Len(chosen)
        /\ \A k \in (IF Installs THEN raft.commit ELSE s)..raft.commit : TermAt(raft.log, k) = TermAt(chosen, k)
    BY <1>3 DEF InMemory
  <2>2. ~Installs' => Holds(C2, s, raft.log, L - Len(Pending'))
    <3> SUFFICES ASSUME ~Installs' PROVE Holds(C2, s, raft.log, L - Len(Pending')) OBVIOUS
    <3>1. L - Len(Pending') = L BY <1>3, <1>6
    <3>2. rd.snap = 0 BY <1>6
    <3> QED BY <1>4, <3>1, <3>2
  <2>3. Installs' <=> Installs BY <1>6
  <2> HIDE DEF s
  <2>4. snapshot_index' = s /\ chosen' = chosen /\ raft' = raft /\ Content' = C2 /\ Pending' = <<>>
    BY <1>1, <1>5, <1>6 DEF s
  <2> QED BY <2>1, <2>2, <2>3, <2>4 DEF InMemory, L
<1>9. HardStates'
  <2>1. /\ hs # EmptyState => \/ LastState(P).term < raft.term
                              \/ LastState(P).term = raft.term /\ LastState(P).vote \in {0, raft.vote}
        /\ hs = EmptyState => StateOf(P, s) = hard_state(raft)
        /\ rd.snap > 0 => hs # EmptyState
        /\ LastState(Handed).term = LastState(P).term /\ LastState(Handed).vote = LastState(P).vote
        /\ LastState(Handed) = EmptyState \/ s <= LastState(Handed).commit
        /\ wal.state = EmptyState \/ (wal.state.term = LastState(P).term /\ wal.state.vote = LastState(P).vote)
        /\ rd.hs = IF hard_state(raft) = prev_hs THEN EmptyState ELSE hard_state(raft)
        /\ hard_state(raft) = EmptyState => prev_hs = EmptyState
    BY <1>1, <1>3 DEF HardStates, P, hs
  <2>2. /\ hard_state(raft).term = raft.term /\ hard_state(raft).vote = raft.vote
        /\ hard_state(raft).commit = raft.commit
    BY DEF hard_state
  <2>3. LastState(P).term \in Nat /\ LastState(P).vote \in Nat BY <1>3, StateFields
  <2>4. EmptyState.term = 0 /\ EmptyState.vote = 0 BY DEF EmptyState
  <2>5. StateOf(C2, s) = hard_state(raft)
    <3>1. CASE hs = EmptyState
      <4>1. LastState(C2) = LastState(P) BY <1>4, <3>1
      <4> QED BY <2>1, <3>1, <4>1 DEF StateOf
    <3>2. CASE hs # EmptyState
      <4>1. LastState(C2) = hs BY <1>4, <3>2
      <4> QED BY <1>4, <3>2, <4>1 DEF StateOf
    <3> QED BY <3>1, <3>2
  <2>6. LastState(Handed').term = LastState(C2).term /\ LastState(Handed').vote = LastState(C2).vote
    <3>1. CASE hs = EmptyState /\ wal' = wal
      <4>1. Handed' = Handed BY <3>1 DEF Handed
      <4>2. LastState(C2) = LastState(P) BY <1>4, <3>1
      <4> QED BY <2>1, <4>1, <4>2
    <3>2. CASE Handed' = Content' BY <1>5, <3>2
    <3>3. CASE Handed' = Handed /\ hs # EmptyState /\ hs.vote = wal.state.vote /\ hs.term = wal.state.term
      <4>1. LastState(C2) = hs BY <1>4, <3>3
      <4>2. hs.term = raft.term /\ hs.vote = raft.vote BY <1>4, <2>2, <3>3
      <4>3. LastState(P).term = hs.term /\ LastState(P).vote = hs.vote
        <5>1. CASE wal.state = EmptyState
          <6>1. raft.term = 0 /\ raft.vote = 0 BY <2>4, <3>3, <4>2, <5>1
          <6>2. ~(LastState(P).term < 0) BY <2>3
          <6>3. LastState(P).term = 0 /\ LastState(P).vote = 0 BY <2>1, <3>3, <6>1, <6>2
          <6> QED BY <4>2, <6>1, <6>3
        <5>2. CASE wal.state.term = LastState(P).term /\ wal.state.vote = LastState(P).vote
          BY <3>3, <5>2
        <5> QED BY <2>1, <5>1, <5>2
      <4>4. LastState(Handed') = LastState(Handed) BY <3>3
      <4> QED BY <2>1, <4>1, <4>3, <4>4
    <3> QED BY <1>5, <3>1, <3>2, <3>3
  <2>7. LastState(Handed') = EmptyState \/ s <= LastState(Handed').commit
    <3>1. CASE wal' = wal
      <4>1. Handed' = Handed BY <3>1 DEF Handed
      <4> QED BY <2>1, <4>1
    <3>2. CASE Handed' = Content'
      <4>1. LastState(C2) = EmptyState \/ LastState(C2) = hard_state(raft) BY <2>5 DEF StateOf
      <4> QED BY <1>3, <1>5, <2>2, <3>2, <4>1
    <3>3. CASE Handed' = Handed BY <2>1, <3>3
    <3> QED BY <1>5, <3>1, <3>2, <3>3
  <2>8. wal'.state = EmptyState \/ (wal'.state.term = LastState(C2).term /\ wal'.state.vote = LastState(C2).vote)
    <3>1. CASE hs = EmptyState
      <4>1. LastState(C2) = LastState(P) /\ wal'.state = wal.state BY <1>4, <1>5, <3>1
      <4> QED BY <2>1, <4>1
    <3>2. CASE hs # EmptyState
      <4>1. LastState(C2) = hs /\ wal'.state = hs BY <1>4, <1>5, <3>2
      <4> QED BY <4>1
    <3> QED BY <3>1, <3>2
  <2>9. pc' \in Writing => LastState(C2) # EmptyState
    <3>1. pc' \in Writing => rd.snap > 0 BY <1>1 DEF Writing
    <3> QED BY <1>4, <2>1, <3>1
  <2>10. pc' # "save" /\ pc' # "idle" BY <1>6
  <2> HIDE DEF s
  <2>11. snapshot_index' = s /\ raft' = raft /\ rd' = rd /\ prev_hs' = prev_hs /\ Content' = C2
    BY <1>1, <1>5 DEF s
  <2> QED BY <2>1, <2>5, <2>6, <2>7, <2>8, <2>9, <2>10, <2>11 DEF HardStates
<1>10. Committed' BY <1>1, <1>3 DEF Committed
<1>11. pc' # "down" /\ pc' # "dead" BY <1>6
<1> QED BY <1>7, <1>8, <1>9, <1>10, <1>11 DEF Kept

-----------------------------------------------------------------------------
(* The invariant, and what it says of a node. *)

\* A node that has not run
LEMMA InitKept ==
    ASSUME Init
    PROVE  Kept
<1>1. pc = "down" /\ dir = "none" /\ snaps = {} /\ chosen = <<>> BY DEF Init
<1>2. Committed
  <2>1. Len(chosen) = 0 BY <1>1
  <2> QED BY <1>1, <2>1 DEF Committed, Rises
<1> QED BY <1>1, <1>2 DEF Kept, Up

\* What no action touches
LEMMA StutterKept ==
    ASSUME Kept, UNCHANGED vars
    PROVE  Kept'
<1>1. /\ UNCHANGED <<dir, wal, snaps, raft, prev_hs, applied, snapshot_index, rd, saving>>
      /\ UNCHANGED <<pc, chosen, damage>>
  BY DEF vars
<1>2. (Committed <=> Committed') /\ (Left <=> Left') /\ (Up <=> Up')
  BY <1>1 DEF Committed, Left, Up
<1>3. Content' = Content /\ Handed' = Handed /\ Pending' = Pending /\ (Installs' <=> Installs)
  BY <1>1 DEF Content, Handed, Pending, Installs
<1>4. OnDisk <=> OnDisk' BY <1>1, <1>3 DEF OnDisk
<1>5. InMemory <=> InMemory' BY <1>1, <1>3 DEF InMemory
<1>6. HardStates <=> HardStates' BY <1>1, <1>3 DEF HardStates
<1> QED BY <1>1, <1>2, <1>4, <1>5, <1>6 DEF Kept

\* Every step keeps it.
LEMMA NextKept ==
    ASSUME Typed, Staged, Kept, [Next]_vars, Typed', Staged'
    PROVE  Kept'
<1>1. CASE MakeDirectory BY <1>1, MakeDirectoryKept
<1>2. CASE Create BY <1>2, CreateKept
<1>3. CASE Start BY <1>3, StartKept
<1>4. CASE TermOrVote \/ AppendEntry \/ Commit \/ ReceiveSnapshot BY <1>4, EventsKept
<1>5. CASE Save \/ SaveRecord \/ OpenFile \/ WriteFile \/ Publish
  <2>1. damage' = damage BY <1>5 DEF Save, SaveRecord, OpenFile, WriteFile, Publish
  <2>2. CASE "install" \in damage BY <2>1, <2>2 DEF Kept
  <2>3. CASE "install" \notin damage
    BY <1>5, <2>3, SaveKept, SaveRecordKept, OpenFileKept, WriteFileKept, PublishKept
  <2> QED BY <2>2, <2>3
<1>6. CASE Stop BY <1>6, StopKept
<1>7. CASE Kill BY <1>7, KillKept
<1>8. CASE UNCHANGED vars BY <1>8, StutterKept
<1> QED BY <1>1, <1>2, <1>3, <1>4, <1>5, <1>6, <1>7, <1>8 DEF Next

\* The inductive invariant
DiskInv == Typed /\ Staged /\ Kept

\* What a node has in memory, in its buffers and on disk speaks of the same terms,
\* votes and entries, as long as no kill has cut off the saving of a received
\* snapshot (save, save_snap, replay_WAL).
THEOREM DiskInvariant == Spec => []DiskInv
<1>1. Init => DiskInv BY InitTyped, InitKept DEF DiskInv
<1>2. DiskInv /\ [Next]_vars => DiskInv'
  <2> SUFFICES ASSUME DiskInv, [Next]_vars PROVE DiskInv' OBVIOUS
  <2>1. Typed /\ Staged /\ Kept BY DEF DiskInv
  <2>2. Typed' /\ Staged' BY <2>1, NextTyped
  <2>3. Kept' BY <2>1, <2>2, NextKept
  <2> QED BY <2>2, <2>3 DEF DiskInv
<1> QED BY <1>1, <1>2, PTL DEF Spec

\* A node that cannot start again has been killed where the saves are not ordered
\* (replay_WAL, load_state): no stop, and no other kill, leaves such a disk.
THEOREM DeadNodeLost == Spec => []DeathNeedsALoss
<1>1. DiskInv => DeathNeedsALoss
  <2> SUFFICES ASSUME DiskInv, pc = "dead", damage = {} PROVE FALSE BY DEF DeathNeedsALoss
  <2>1. Kept BY DEF DiskInv
  <2> QED BY <2>1 DEF Kept
<1> QED BY <1>1, DiskInvariant, PTL

\* No restart meets a missing entry, or a snapshot record of another term
\* (handle_record_wal_record, load).
THEOREM EntriesWhole == Spec => []NoHoles
<1>1. DiskInv => NoHoles
  <2> SUFFICES ASSUME DiskInv, pc = "down", dir = "ready", "install" \notin damage
               PROVE  replay_WAL(wal.file, snaps).fatal \notin {"hole", "mismatch"}
    BY DEF NoHoles
  <2>1. Typed /\ Staged /\ Committed /\ Left BY DEF DiskInv, Kept
  <2>2. replay_WAL(wal.file, snaps).fatal \in {"none", "range"} BY <2>1, LeftStarts
  <2> QED BY <2>2
<1> QED BY <1>1, DiskInvariant, PTL

\* What a node holds for committed is what the cluster has committed, whatever its
\* kills have lost (save writes a HardState behind the entries it commits).
THEOREM CommittedReal == Spec => []CommittedIsChosen
<1>1. DiskInv => CommittedIsChosen
  <2> SUFFICES ASSUME DiskInv, pc = "idle", "install" \notin damage, NEW k \in applied + 1..raft.commit
               PROVE  raft.log[k] = chosen[k]
    BY DEF CommittedIsChosen
  <2>1. Typed /\ Staged /\ Kept BY DEF DiskInv
  <2>2. \A j \in snapshot_index..raft.commit : TermAt(raft.log, j) = TermAt(chosen, j) BY <2>1, IdleFacts
  <2>3. /\ snapshot_index \in Nat /\ applied \in Nat /\ raft.commit \in Nat /\ snapshot_index <= applied
    BY <2>1, RaftFields DEF Typed
  <2>4. k \in snapshot_index..raft.commit /\ k # 0 BY <2>3
  <2>5. TermAt(raft.log, k) = TermAt(chosen, k) BY <2>2, <2>4
  <2> QED BY <2>4, <2>5 DEF TermAt
<1> QED BY <1>1, DiskInvariant, PTL

\* HardStates at the end of a log change none of its entries.
LEMMA StatesBehind ==
    ASSUME NEW P \in Seq(Record), NEW Q \in Seq(Record), NEW s \in Nat,
           \A p \in 1..Len(Q) : Q[p].type = "state"
    PROVE  End(P \o Q, s) = End(P, s) /\ \A k : Term(P \o Q, s, k) = Term(P, s, k)
<1> DEFINE R == P \o Q
<1>1. /\ R \in Seq(Record) /\ Len(R) = Len(P) + Len(Q)
      /\ \A p \in 1..Len(P) : R[p] = P[p]
      /\ \A p \in 1..Len(Q) : R[Len(P) + p] = Q[p]
  BY ConcatFacts
<1>2. Len(P) \in Nat /\ Len(Q) \in Nat OBVIOUS
<1> HIDE DEF R
<1>3. \A p \in 1..Len(R) : p \in 1..Len(P) \/ R[p].type = "state"
  <2> TAKE p \in 1..Len(R)
  <2>1. CASE p > Len(P)
    <3>1. p - Len(P) \in 1..Len(Q) /\ Len(P) + (p - Len(P)) = p BY <1>1, <1>2, <2>1
    <3> QED BY <1>1, <3>1
  <2> QED BY <1>2, <2>1
<1>4. \A p \in 1..Len(P) : p \in 1..Len(R) BY <1>1, <1>2
<1>5. Positions(R, "entry") = Positions(P, "entry")
  <2>1. \A p : p \in Positions(R, "entry") <=> p \in 1..Len(R) /\ R[p].type = "entry" BY DEF Positions
  <2>2. \A p : p \in Positions(P, "entry") <=> p \in 1..Len(P) /\ P[p].type = "entry" BY DEF Positions
  <2>3. \A p \in 1..Len(P) : R[p] = P[p] BY <1>1
  <2>4. \A p : p \in Positions(R, "entry") => p \in Positions(P, "entry") BY <1>3, <2>1, <2>2, <2>3
  <2>5. \A p : p \in Positions(P, "entry") => p \in Positions(R, "entry") BY <1>4, <2>1, <2>2, <2>3
  <2> QED BY <2>4, <2>5
<1>6. \A p \in Positions(P, "entry") : R[p] = P[p] BY <1>1 DEF Positions
<1>7. Entries(R, s) = Entries(P, s) BY <1>1, <1>5, <1>6, SameEntries
<1> QED BY <1>7 DEF End, Term, R

\* What a stopped process leaves is read as what Raft had.
LEMMA StoppedCovers ==
    ASSUME Typed, Staged, Kept, pc = "idle", "install" \notin damage
    PROVE  Covers(replay_WAL(Closed(wal), snaps), raft)
<1> DEFINE H == Handed
           D == wal.data_buffer
           s == snapshot_index
           l == load(snaps)
           L == Len(raft.log)
           r == replay_WAL(H, snaps)
<1>1. Up BY DEF Up
<1>2. /\ OnDisk /\ HardStates /\ Committed /\ H \in Seq(Record) /\ D \in Seq(Record)
      /\ s \in Nat /\ L \in Nat /\ chosen \in Seq(Nat) /\ Content \in Seq(Record)
      /\ wal.file \in Seq(Record) /\ wal.stdio \in Seq(Record)
  BY <1>1, RunningFacts
<1>3. /\ ~saving.install /\ Holds(Content, s, raft.log, L) /\ StateOf(Content, s) = hard_state(raft)
  BY IdleFacts
<1>4. l.index = s /\ s <= Len(chosen) /\ l.term = TermAt(chosen, s)
  <2>1. l.index = s BY <1>2 DEF OnDisk
  <2>2. l.index <= Len(chosen) /\ l.term = TermAt(chosen, l.index) BY <1>2, LoadCommitted
  <2> QED BY <2>1, <2>2
<1>5. Intact(H) /\ Written(H, s, chosen) /\ Agrees(H, s, chosen)
  <2> DEFINE n == Len(wal.file) + Len(wal.stdio)
  <2>1. wal \in WALType /\ Len(wal.stdio) \in Nat /\ Len(wal.stdio) <= Len(wal.stdio) BY <1>2 DEF Typed
  <2>2. n \in Len(wal.file)..Len(Content) /\ SubSeq(Content, 1, n) = H BY <2>1, HandedFacts
  <2> HIDE DEF n, H
  <2>3. /\ Intact(SubSeq(Content, 1, n)) /\ Written(SubSeq(Content, 1, n), s, chosen)
        /\ Agrees(SubSeq(Content, 1, n), s, chosen)
    BY <1>1, <1>3, <2>2, PartLeft
  <2> QED BY <2>2, <2>3
<1>6. Closed(wal) = H /\ Files(snaps) BY DEF Closed, Handed, Typed
<1>7. End(H, s) = End(Content, s) /\ \A k : Term(H, s, k) = Term(Content, s, k)
  <2>1. \A p \in 1..Len(D) : D[p].type = "state" BY <1>2 DEF OnDisk
  <2>2. Content = H \o D BY DEF Content
  <2> HIDE DEF H, D
  <2>3. End(H \o D, s) = End(H, s) /\ \A k : Term(H \o D, s, k) = Term(H, s, k)
    BY <1>2, <2>1, StatesBehind
  <2> QED BY <2>2, <2>3
<1>8. /\ LastState(H).term = raft.term /\ LastState(H).vote = raft.vote
      /\ LastState(H) = EmptyState \/ s <= LastState(H).commit
  <2>1. /\ LastState(H).term = LastState(Content).term /\ LastState(H).vote = LastState(Content).vote
        /\ LastState(H) = EmptyState \/ s <= LastState(H).commit
    BY <1>2 DEF HardStates
  <2>2. LastState(Content).term = raft.term /\ LastState(Content).vote = raft.vote
    BY <1>3 DEF StateOf, hard_state, EmptyState
  <2> QED BY <2>1, <2>2
<1>9. Readable(H) = H BY <1>2, <1>5, ReadableIntact
<1> HIDE DEF H, D, s, L, l, r
<1>10. /\ r.snap = s /\ r.raft.term = LastState(H).term /\ r.raft.vote = LastState(H).vote
       /\ Len(r.raft.log) = End(H, s) /\ End(H, s) \in Nat /\ s <= End(H, s)
       /\ \A k \in 1..End(H, s) : r.raft.log[k] = IF k <= s THEN l.term ELSE Term(H, s, k)
       /\ r.fatal # "none" => r.fatal \in {"mismatch", "hole", "range"}
       /\ r.fatal = "mismatch" => Mismatch(H, s, l.term)
       /\ r.fatal = "hole" => \E k \in s + 1..End(H, s) : Term(H, s, k) = 0
       /\ r.fatal = "range" => LastState(H) # EmptyState /\ (LastState(H).commit < s \/ LastState(H).commit > End(H, s))
  <2>1. /\ r.snap = s /\ r.raft.term = LastState(H).term /\ r.raft.vote = LastState(H).vote
        /\ Len(r.raft.log) = End(H, s) /\ End(H, s) \in Nat /\ s <= End(H, s)
    BY <1>2, <1>4, <1>6, <1>9, ReplayFacts DEF r, l
  <2>2. \A k \in 1..End(H, s) : r.raft.log[k] = IF k <= s THEN l.term ELSE Term(H, s, k)
    BY <1>2, <1>4, <1>6, <1>9, ReplayFacts DEF r, l
  <2>3. /\ r.fatal # "none" => r.fatal \in {"mismatch", "hole", "range"}
        /\ r.fatal = "mismatch" => Mismatch(H, s, l.term)
    BY <1>2, <1>4, <1>6, <1>9, ReplayFacts DEF r, l
  <2>4. r.fatal = "hole" => \E k \in s + 1..End(H, s) : Term(H, s, k) = 0
    BY <1>2, <1>4, <1>6, <1>9, ReplayFacts DEF r, l
  <2>5. r.fatal = "range" => LastState(H) # EmptyState /\ (LastState(H).commit < s \/ LastState(H).commit > End(H, s))
    BY <1>2, <1>4, <1>6, <1>9, ReplayFacts DEF r, l
  <2> QED BY <2>1, <2>2, <2>3, <2>4, <2>5
<1>11. r.fatal = "none"
  <2>1. r.fatal # "mismatch" BY <1>2, <1>4, <1>5, <1>10, WrittenMatches
  <2>2. r.fatal # "hole" BY <1>2, <1>5, <1>10, WrittenWhole
  <2>3. LastState(H).commit \in Nat BY <1>2, StateFields
  <2>4. LastState(H).commit <= End(H, s)
    <3>1. CASE LastState(H).commit <= s BY <1>2, <1>10, <2>3, <3>1
    <3>2. CASE LastState(H).commit > s
      <4>1. LastState(H).commit \in s + 1..LastState(H).commit BY <1>2, <2>3, <3>2
      <4> QED BY <1>5, <4>1 DEF Agrees
    <3> QED BY <1>2, <2>3, <3>1, <3>2
  <2>5. r.fatal # "range" BY <1>2, <1>8, <1>10, <2>3, <2>4
  <2> QED BY <1>10, <2>1, <2>2, <2>5
<1>12. L <= s \/ L <= End(H, s) BY <1>3, <1>7 DEF Holds
<1>13. Len(r.raft.log) >= L BY <1>2, <1>10, <1>12
<1>14. \A k \in r.snap + 1..L : r.raft.log[k] = raft.log[k]
  <2> TAKE k \in r.snap + 1..L
  <2>1. k \in s + 1..L /\ k \in 1..End(H, s) /\ ~(k <= s) BY <1>2, <1>10, <1>12
  <2>2. r.raft.log[k] = Term(H, s, k) BY <1>10, <2>1
  <2>3. Term(Content, s, k) = raft.log[k] BY <1>3, <2>1 DEF Holds
  <2> QED BY <1>7, <2>2, <2>3
<1>15. Covers(r, raft) BY <1>8, <1>10, <1>11, <1>13, <1>14 DEF Covers, L
<1> QED BY <1>6, <1>15 DEF r

\* A process that is stopped between two events comes up again with the term, the
\* vote and the entries it has told others of (is_must_sync, save_snapshot, read_all).
THEOREM StoppedKeepsPromises == Spec => []StopKeepsPromises
<1>1. DiskInv => StopKeepsPromises BY StoppedCovers DEF DiskInv, StopKeepsPromises
<1> QED BY <1>1, DiskInvariant, PTL
=============================================================================
