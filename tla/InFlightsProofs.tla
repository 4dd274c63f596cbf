--------------------------- MODULE InFlightsProofs ---------------------------
(***************************************************************************)
(* For every window size and every sequence of calls, the ring of class    *)
(* InFlights stays inside its buffer and behaves as a bounded queue.       *)
(***************************************************************************)
EXTENDS InFlights, FiniteSetTheorems, SequenceTheorems, TLAPS

\* What free_to stops at is how many leading messages an index covers.
LEMMA CoveredIs ==
    ASSUME NEW fl \in Seq(Nat), NEW to \in Nat, NEW i \in 0..Len(fl),
           \A j \in 1..i : fl[j] <= to,
           i < Len(fl) => to < fl[i + 1]
    PROVE  Covered(fl, to) = i
<1>1. {k \in 1..Len(fl) : \A j \in 1..k : fl[j] <= to} = 1..i
  <2>1. Len(fl) \in Nat /\ \A j \in 1..Len(fl) : fl[j] \in Nat
    OBVIOUS
  <2>2. ASSUME NEW k \in 1..Len(fl), \A j \in 1..k : fl[j] <= to
        PROVE  k <= i
    <3>1. SUFFICES ASSUME k > i
                   PROVE  FALSE
      BY <2>1
    <3>2. i + 1 \in 1..k /\ i < Len(fl) /\ i + 1 \in 1..Len(fl)
      BY <2>1, <3>1
    <3>3. fl[i + 1] <= to /\ to < fl[i + 1] /\ fl[i + 1] \in Nat
      BY <2>1, <2>2, <3>2
    <3>4. QED
      BY <3>3
  <2>3. QED
    BY <2>1, <2>2
<1>2. Cardinality(1..i) = i
  BY FS_Interval
<1>3. QED
  BY <1>1, <1>2 DEF Covered

\* A grown buffer keeps its contents and has room for the slot to be written.
LEMMA GrownIs ==
    ASSUME RingInv, count # MaxInflight
    PROVE  /\ Grown(Slot(count)) \in Seq(Nat)
           /\ Len(buffer) <= Len(Grown(Slot(count)))
           /\ Slot(count) \in 0..Len(Grown(Slot(count))) - 1
           /\ Len(Grown(Slot(count))) <= MaxInflight
           /\ start + count + 1 <= Len(Grown(Slot(count)))
                \/ Len(Grown(Slot(count))) = MaxInflight
           /\ \A s \in 1..Len(buffer) : Grown(Slot(count))[s] = buffer[s]
<1> DEFINE n == Len(buffer)
           new_size == IF n = 0 THEN 1 ELSE IF 2 * n > MaxInflight THEN MaxInflight ELSE 2 * n
<1>1. /\ n \in Nat /\ start \in Nat /\ count \in Nat /\ MaxInflight \in Nat \ {0}
      /\ n <= MaxInflight /\ start < MaxInflight /\ count < MaxInflight
      /\ start + count <= n \/ n = MaxInflight
      /\ buffer \in Seq(Nat)
  BY MaxInflightAssumption DEF RingInv, TypeOK, InBounds
<1>2. Slot(count) \in Nat /\ Slot(count) <= n /\ Slot(count) < MaxInflight
  BY <1>1 DEF Slot
<1>3. CASE Slot(count) < n
  <2>1. Grown(Slot(count)) = buffer
    BY <1>1, <1>2, <1>3 DEF Grown
  <2>2. start + count + 1 <= n \/ n = MaxInflight
    BY <1>1, <1>3 DEF Slot
  <2>3. QED
    BY <1>1, <1>2, <1>3, <2>1, <2>2
<1>4. CASE Slot(count) = n
  <2>1. Grown(Slot(count)) = resize(buffer, new_size)
    BY <1>1, <1>4 DEF Grown
  <2>2. new_size \in Nat /\ n < new_size /\ new_size <= MaxInflight
    BY <1>1, <1>2, <1>4
  <2> HIDE DEF new_size
  <2>3. /\ resize(buffer, new_size) \in Seq(Nat)
        /\ Len(resize(buffer, new_size)) = new_size
        /\ \A s \in 1..n : resize(buffer, new_size)[s] = buffer[s]
    BY <1>1, <2>2 DEF resize
  <2>4. start + count = n
    BY <1>1, <1>2, <1>4, <2>2 DEF Slot
  <2>5. QED
    BY <1>1, <1>2, <1>4, <2>1, <2>2, <2>3, <2>4
<1>5. QED
  BY <1>1, <1>2, <1>3, <1>4

\* The slots of the window are slots of the buffer.
LEMMA SlotIs ==
    ASSUME RingInv, NEW k \in 0..count - 1
    PROVE  /\ Slot(k) \in 0..Len(buffer) - 1
           /\ At(k) \in Nat
           /\ count < MaxInflight => Slot(k) # Slot(count)
<1>1. /\ Len(buffer) \in Nat /\ start \in Nat /\ count \in Nat /\ MaxInflight \in Nat \ {0}
      /\ start < MaxInflight /\ count <= MaxInflight
      /\ start + count <= Len(buffer) \/ Len(buffer) = MaxInflight
      /\ buffer \in Seq(Nat)
  BY MaxInflightAssumption DEF RingInv, TypeOK, InBounds
<1>2. Slot(k) \in 0..Len(buffer) - 1
  BY <1>1 DEF Slot
<1>3. At(k) \in Nat
  BY <1>1, <1>2 DEF At
<1>4. count < MaxInflight => Slot(k) # Slot(count)
  BY <1>1 DEF Slot
<1>5. QED
  BY <1>2, <1>3, <1>4

\* The window is a sequence of the messages that are counted.
LEMMA ContentsIs ==
    ASSUME RingInv
    PROVE  /\ Contents \in Seq(Nat)
           /\ Len(Contents) = count
           /\ \A k \in 1..count : Contents[k] = At(k - 1)
<1>1. count \in Nat
  BY DEF RingInv, TypeOK
<1>2. \A k \in 1..count : At(k - 1) \in Nat
  BY <1>1, SlotIs
<1>3. QED
  BY <1>1, <1>2 DEF Contents

-----------------------------------------------------------------------------
\* add keeps the ring inside its buffer and appends to the queue.
LEMMA AddStep ==
    ASSUME RingInv, NEW inflight \in Index, add(inflight)
    PROVE  RingInv' /\ Queue!Add(inflight)
<1> DEFINE g == Grown(Slot(count))
<1>1. /\ Len(buffer) \in Nat /\ start \in Nat /\ count \in Nat /\ MaxInflight \in Nat \ {0}
      /\ start < MaxInflight /\ count < MaxInflight /\ inflight \in Nat
      /\ buffer \in Seq(Nat)
  BY MaxInflightAssumption, IndexAssumption DEF RingInv, TypeOK, InBounds, add
<1>2. /\ g \in Seq(Nat) /\ Len(buffer) <= Len(g)
      /\ Slot(count) \in 0..Len(g) - 1 /\ Len(g) <= MaxInflight
      /\ start + count + 1 <= Len(g) \/ Len(g) = MaxInflight
      /\ \A s \in 1..Len(buffer) : g[s] = buffer[s]
  BY GrownIs DEF add
<1>3. start' = start /\ count' = count + 1 /\ buffer' = [g EXCEPT ![Slot(count) + 1] = inflight]
  BY DEF add
<1> HIDE DEF g
<1> DEFINE w == Slot(count) + 1
<1>2a. /\ Len(g) \in Nat /\ Len(buffer) <= Len(g)
       /\ Slot(count) \in 0..Len(g) - 1 /\ Len(g) <= MaxInflight
       /\ start + count + 1 <= Len(g) \/ Len(g) = MaxInflight
  BY <1>2
<1>4. /\ buffer' \in Seq(Nat) /\ Len(buffer') = Len(g)
      /\ \A s \in 1..Len(g) : buffer'[s] = IF s = w THEN inflight ELSE g[s]
  <2>1. w \in 1..Len(g) /\ DOMAIN g = 1..Len(g) /\ Len(g) \in Nat
    BY <1>1, <1>2
  <2>2. \A s \in 1..Len(g) : g[s] \in Nat
    BY <1>2
  <2>3. buffer' = [s \in 1..Len(g) |-> IF s = w THEN inflight ELSE g[s]]
    <3> HIDE DEF w
    <3>1. buffer' = [g EXCEPT ![w] = inflight]
      BY <1>3 DEF w
    <3>2. g = [s \in 1..Len(g) |-> g[s]]
      BY <1>2, <2>1
    <3>3. QED
      BY <2>1, <3>1, <3>2
  <2> HIDE DEF w
  <2>4. QED
    BY <1>1, <2>1, <2>2, <2>3
<1>5. RingInv'
  <2>1. count' \in 0..MaxInflight /\ start' \in Nat
    BY <1>1, <1>3
  <2>2. Len(buffer') <= MaxInflight /\ start' < MaxInflight
    BY <1>1, <1>2, <1>3, <1>4
  <2>3. start' + count' <= Len(buffer') \/ Len(buffer') = MaxInflight
    <3>1. Len(buffer') = Len(g) /\ start' = start /\ count' = count + 1
      BY <1>3, <1>4
    <3>2. QED
      BY <1>1, <1>2a, <3>1
  <2>4. QED
    BY <1>4, <2>1, <2>2, <2>3 DEF RingInv, TypeOK, InBounds
<1>6. \A k \in 0..count : Slot(k)' = Slot(k)
  BY <1>3 DEF Slot
<1>7. \A k \in 0..count - 1 : At(k)' = At(k)
  <2>1. TAKE k \in 0..count - 1
  <2>2. Slot(k) \in 0..Len(buffer) - 1 /\ Slot(k) # Slot(count)
    BY <1>1, SlotIs
  <2>3. Slot(k)' = Slot(k)
    BY <1>1, <1>6
  <2>4. buffer'[Slot(k) + 1] = buffer[Slot(k) + 1]
    <3>1. /\ Slot(k) + 1 \in 1..Len(buffer) /\ Slot(k) + 1 \in 1..Len(g)
          /\ Slot(k) + 1 # w
      BY <1>1, <1>2a, <2>2, SMTT(30)
    <3> HIDE DEF w
    <3>2. QED
      BY <1>2, <1>4, <3>1
  <2>5. QED
    BY <2>3, <2>4 DEF At
<1>8. \A k \in {count} : At(k)' = inflight
  <2>1. TAKE k \in {count}
  <2>2. w \in 1..Len(g) /\ Slot(k) + 1 = w
    BY <1>1, <1>2
  <2>3. buffer'[w] = inflight
    BY <1>4, <2>2
  <2>4. Slot(k)' = Slot(k)
    BY <1>1, <1>6
  <2>5. QED
    BY <2>2, <2>3, <2>4 DEF At
<1>9. /\ Contents \in Seq(Nat) /\ Len(Contents) = count
      /\ \A k \in 1..count : Contents[k] = At(k - 1)
  BY ContentsIs
<1>10. Contents' = [k \in 1..count + 1 |-> At(k - 1)']
  BY <1>3 DEF Contents
<1>11. Contents' = Append(Contents, inflight)
  <2>1. /\ Append(Contents, inflight) \in Seq(Nat)
        /\ Len(Append(Contents, inflight)) = count + 1
        /\ \A k \in 1..count + 1 :
              Append(Contents, inflight)[k] = IF k = count + 1 THEN inflight ELSE Contents[k]
    BY <1>1, <1>9, AppendProperties
  <2>2. \A k \in 1..count + 1 :
          At(k - 1)' = IF k = count + 1 THEN inflight ELSE Contents[k]
    BY <1>1, <1>7, <1>8, <1>9
  <2>3. \A k \in 1..count : Contents[k] \in Nat
    BY <1>9
  <2>4. Contents' \in Seq(Nat) /\ Len(Contents') = count + 1
    <3>1. \A k \in 1..count + 1 : At(k - 1)' \in Nat
      <4>1. TAKE k \in 1..count + 1
      <4>2. CASE k = count + 1
        BY <1>1, <2>2, <4>2
      <4>3. CASE k # count + 1
        <5>1. k \in 1..count /\ At(k - 1)' = Contents[k]
          BY <1>1, <2>2, <4>3
        <5>2. QED
          BY <2>3, <5>1
      <4>4. QED
        BY <4>2, <4>3
    <3>2. QED
      BY <1>1, <1>10, <3>1
  <2>5. \A k \in 1..count + 1 : Contents'[k] = Append(Contents, inflight)[k]
    BY <1>1, <1>10, <2>1, <2>2
  <2>6. QED
    BY <2>1, <2>4, <2>5, SeqEqual
<1>12. QED
  BY <1>1, <1>5, <1>9, <1>11 DEF Queue!Add, Queue!is_full

\* free_to keeps the ring inside its buffer and takes the covered messages off
\* the queue.
LEMMA FreeStep ==
    ASSUME RingInv, NEW to \in Nat, ring_free_to(to)
    PROVE  RingInv' /\ Queue!FreeTo(to)
<1>1. /\ Len(buffer) \in Nat /\ start \in Nat /\ count \in Nat /\ MaxInflight \in Nat \ {0}
      /\ start < MaxInflight /\ count <= MaxInflight /\ Len(buffer) <= MaxInflight
      /\ start + count <= Len(buffer) \/ Len(buffer) = MaxInflight
      /\ buffer \in Seq(Nat)
  BY MaxInflightAssumption DEF RingInv, TypeOK, InBounds
<1>2. PICK i \in 0..count :
        /\ Frees(i, to)
        /\ count' = count - i
        /\ start' = IF i = 0 THEN start ELSE IF i = count THEN 0 ELSE Slot(i)
        /\ buffer' = buffer
  BY DEF ring_free_to
<1>3. RingInv'
  BY <1>1, <1>2 DEF RingInv, TypeOK, InBounds, Slot
<1>4. /\ Contents \in Seq(Nat) /\ Len(Contents) = count
      /\ \A k \in 1..count : Contents[k] = At(k - 1)
  BY ContentsIs
<1>5. Covered(Contents, to) = i
  <2>1. \A j \in 1..i : Contents[j] <= to
    BY <1>1, <1>2, <1>4 DEF Frees
  <2>2. i < count => to < Contents[i + 1]
    <3>1. SUFFICES ASSUME i < count
                   PROVE  to < Contents[i + 1]
      OBVIOUS
    <3>2. i + 1 \in 1..count /\ (i + 1) - 1 = i
      BY <1>1, <3>1
    <3>3. QED
      BY <1>2, <1>4, <3>1, <3>2 DEF Frees
  <2>3. QED
    BY <1>1, <1>2, <1>4, <2>1, <2>2, CoveredIs
<1>6. \A k \in 0..count - i - 1 : At(k)' = At(i + k)
  <2>1. TAKE k \in 0..count - i - 1
  <2>2. i # count
    BY <1>1
  <2>3. Slot(k)' = Slot(i + k)
    BY <1>1, <1>2, <2>2 DEF Slot
  <2>4. QED
    BY <1>2, <2>3 DEF At
<1>7. Contents' = [k \in 1..count - i |-> At(k - 1)']
  BY <1>2 DEF Contents
<1>8. \A k \in 1..count - i : At(k - 1)' = Contents[i + k]
  <2>1. TAKE k \in 1..count - i
  <2>2. k - 1 \in 0..count - i - 1 /\ i + k \in 1..count /\ i + (k - 1) = (i + k) - 1
    BY <1>1
  <2>3. QED
    BY <1>4, <1>6, <2>2
<1>9. Contents' = SubSeq(Contents, i + 1, Len(Contents))
  <2>1. SubSeq(Contents, i + 1, count) = [k \in 1..count - i |-> Contents[i + k]]
    BY <1>1, <1>4
  <2>2. QED
    BY <1>4, <1>7, <1>8, <2>1
<1>10. QED
  <2>1. Queue!Covered(Contents, to) = Covered(Contents, to)
    BY Zenon DEF Queue!Covered, Covered, Queue!Cardinality, Cardinality
  <2>2. QED
    BY <1>3, <1>5, <1>9, <2>1 DEF Queue!FreeTo, Queue!free_to

-----------------------------------------------------------------------------
\* The ring, as the code's calls move it, never leaves its buffer: neither the
\* growth in add nor the wrap-around in free_to goes wrong for any window size.
THEOREM RingStaysInBounds == Spec => []RingInv
<1>1. Init => RingInv
  BY MaxInflightAssumption DEF Init, RingInv, TypeOK, InBounds
<1>2. RingInv /\ [Next]_vars => RingInv'
  <2>1. SUFFICES ASSUME RingInv, [Next]_vars
                 PROVE  RingInv'
    OBVIOUS
  <2>2. CASE \E inflight \in Index : add(inflight)
    BY <2>1, <2>2, AddStep
  <2>3. CASE \E to \in Index : ring_free_to(to)
    BY <2>1, <2>3, FreeStep, IndexAssumption
  <2>4. CASE ring_free_first_one
    <3>1. At(0) \in Nat
      BY <2>1, <2>4, SlotIs, MaxInflightAssumption DEF ring_free_first_one
    <3>2. QED
      BY <2>1, <2>4, <3>1, FreeStep DEF ring_free_first_one
  <2>5. CASE ring_reset
    BY <2>1, <2>5, MaxInflightAssumption DEF RingInv, TypeOK, InBounds, ring_reset
  <2>6. CASE UNCHANGED vars
    BY <2>1, <2>6 DEF RingInv, TypeOK, InBounds, vars
  <2>7. QED
    BY <2>1, <2>2, <2>3, <2>4, <2>5, <2>6 DEF Next
<1>3. QED
  BY <1>1, <1>2, PTL DEF Spec

\* The ring implements the queue that Progress and Raft are modelled with.
THEOREM RingImplementsQueue == Spec => RingIsAQueue
<1>1. Init => Queue!Init
  BY DEF Init, Queue!Init, Contents
<1>2. RingInv /\ [Next]_vars => [Queue!Next]_Contents
  <2>1. SUFFICES ASSUME RingInv, [Next]_vars
                 PROVE  Queue!Next \/ UNCHANGED Contents
    OBVIOUS
  <2>2. CASE \E inflight \in Index : add(inflight)
    BY <2>1, <2>2, AddStep DEF Queue!Next
  <2>3. CASE \E to \in Index : ring_free_to(to)
    BY <2>1, <2>3, FreeStep, IndexAssumption DEF Queue!Next
  <2>4. CASE ring_free_first_one
    <3>1. At(0) \in Nat
      BY <2>1, <2>4, SlotIs, MaxInflightAssumption DEF ring_free_first_one
    <3>2. Len(Contents) = MaxInflight /\ Contents[1] = At(0)
      BY <2>1, <2>4, ContentsIs, MaxInflightAssumption DEF ring_free_first_one
    <3>3. Queue!FreeTo(At(0))
      BY <2>1, <2>4, <3>1, FreeStep DEF ring_free_first_one
    <3>4. QED
      BY <3>2, <3>3 DEF Queue!Next, Queue!FreeFirstOne, Queue!free_first_one,
                        Queue!FreeTo, Queue!is_full
  <2>5. CASE ring_reset
    BY <2>5 DEF ring_reset, Contents, Queue!Next, Queue!Reset
  <2>6. CASE UNCHANGED vars
    BY <2>6 DEF vars, Contents, At, Slot
  <2>7. QED
    BY <2>1, <2>2, <2>3, <2>4, <2>5, <2>6 DEF Next
<1>3. QED
  BY <1>1, <1>2, RingStaysInBounds, PTL DEF Spec, RingIsAQueue, Queue!Spec
=============================================================================
