--------------------------- MODULE TransportProofs ---------------------------
(*****************************************************************************)
(* Proofs about Transport: what arrives is what was sent, once and in order, *)
(* for buffers, messages, ticks and breaks of any number, and with that the  *)
(* network that Raft assumes.                                                *)
(*                                                                           *)
(* A message's data is at one place at a time: posted, unsent in the buffer, *)
(* in the stream of one connection, received.  The invariant says that along *)
(* this way messages stand in the order they were sent.                      *)
(*****************************************************************************)
EXTENDS Transport, SequenceTheorems, TLAPS

-----------------------------------------------------------------------------
(* The inductive invariant. *)

\* What the system has not taken from the buffer yet
Unsent(s) == IF s = NoSession THEN <<>> ELSE SubSeq(s.buffer, s.taken + 1, Len(s.buffer))

\* The unit that makes a receiver hand over a message
Data(u) == u.part = "data" /\ u.m \in Message

\* The messages whose data is in a sequence of units
Carried(us) == {us[i].m : i \in {k \in DOMAIN us : Data(us[k])}}

\* The messages received over connection c
Arrived(rs, c) == {rs[i].m : i \in {k \in DOMAIN rs : rs[k].conn = c /\ rs[k].m \in Message}}

Below(S, T) == \A a \in S, b \in T : a < b

\* Units stand in the order of their messages.
Sorted(us) == \A i, j \in DOMAIN us : i < j /\ Data(us[i]) /\ Data(us[j]) => us[i].m < us[j].m

\* Meta and data take turns.
Alternates(us) == \A i \in DOMAIN us : i + 1 \in DOMAIN us => us[i].part # us[i + 1].part

\* The buffer of a session: its indexes, and no write before it is connected
Buffered(s) ==
    /\ s \in SessionType
    /\ s.reader + Len(s.buffer) <= s.size
    /\ s.taken <= s.writing /\ s.writing <= Len(s.buffer)
    /\ ~s.connected => s.writing = 0

\* What waits to be written is frames, of which the first may have lost its meta.
Whole(us) ==
    /\ Alternates(us)
    /\ us # <<>> => us[Len(us)].part = "data"
    /\ \A i \in DOMAIN us : us[i].m # Junk

\* Every message on its way stands behind those sent after it.
InLine(po, un, cs, rs) ==
    /\ \A i, j \in DOMAIN po : i < j => po[i] < po[j]
    /\ Sorted(un) /\ \A c \in DOMAIN cs : Sorted(cs[c].stream)
    /\ Below(Carried(un), ToSet(po))
    /\ \A c \in DOMAIN cs : /\ Below(Carried(cs[c].stream), ToSet(po))
                            /\ Below(Carried(cs[c].stream), Carried(un))
                            /\ Below(Arrived(rs, c), Carried(cs[c].stream))
                            /\ Below(Arrived(rs, c), ToSet(po))
    /\ \A c, d \in DOMAIN cs : c < d => Below(Carried(cs[c].stream), Carried(cs[d].stream))
    /\ Below(Arrived(rs, Len(cs)), Carried(un))
    /\ \A i, j \in DOMAIN rs :
          i < j /\ rs[i].conn = rs[j].conn /\ rs[i].m \in Message /\ rs[j].m \in Message
          => rs[i].m < rs[j].m

\* Nothing is on its way or received that has not been sent.
Known(po, un, cs, rs, n) ==
    /\ ToSet(po) \subseteq 1..n /\ Carried(un) \subseteq 1..n
    /\ \A c \in DOMAIN cs : Carried(cs[c].stream) \subseteq 1..n
    /\ \A i \in DOMAIN rs : rs[i].m \in Message => rs[i].m <= n

\* The part that a connection carries next
Expected(cn) ==
    IF cn.stream = <<>> THEN cn.awaits
    ELSE IF cn.stream[Len(cn.stream)].part = "meta" THEN "data" ELSE "meta"

\* The ServerSession finds what it expects.
Readable(cn) ==
    cn.awaits # "none" =>
        /\ Alternates(cn.stream)
        /\ cn.stream # <<>> => cn.stream[1].part = cn.awaits
        /\ \A i \in DOMAIN cn.stream : cn.stream[i].m # Junk

\* What is written next goes on where the stream ends.
Continues(cn, un) ==
    cn.open /\ cn.awaits # "none" =>
        IF un = <<>> THEN Expected(cn) = "meta" ELSE un[1].part = Expected(cn)

Clean(s, un, cs) ==
    /\ \A c \in DOMAIN cs : Readable(cs[c])
    /\ s # NoSession => Continues(cs[Len(cs)], un)

\* Messages that are still on their way to a receiver
Flying(po, un, cs) ==
    {m \in Message :
        \/ m \in ToSet(po)
        \/ m \in Carried(un)
        \/ \E c \in DOMAIN cs : cs[c].awaits # "none" /\ m \in Carried(cs[c].stream)}

\* Nothing is lost.
Complete(po, un, cs, rs, n) ==
    /\ \A c \in DOMAIN cs : cs[c].open /\ cs[c].awaits # "none"
    /\ \A m \in 1..n : m \in Flying(po, un, cs) \/ \E i \in DOMAIN rs : rs[i].m = m

Types ==
    /\ posted \in Seq(Message) /\ conns \in Seq(ConnType) /\ sent \in 0..MaxMessages
    /\ received \in Seq([m : Message \cup {Junk}, conn : Nat])
    /\ \A i \in DOMAIN received : received[i].conn \in 1..Len(conns)
    /\ used \in [ticks : Nat, breaks : Nat] /\ grown \in BOOLEAN
    /\ session # NoSession => Buffered(session) /\ Len(conns) > 0 /\ (session.dangling => grown)

TransportInv ==
    /\ Types
    /\ Whole(Unsent(session))
    /\ InLine(posted, Unsent(session), conns, received)
    /\ Known(posted, Unsent(session), conns, received, sent)
    /\ ~grown => /\ Clean(session, Unsent(session), conns)
                 /\ \A i \in DOMAIN received : received[i].m # Junk
                 /\ used.breaks = 0 =>
                        Complete(posted, Unsent(session), conns, received, sent)

-----------------------------------------------------------------------------
(* Sequences of units. *)

\* A sequence with one more element.
LEMMA AppendIs ==
    ASSUME NEW S, NEW s \in Seq(S), NEW x \in S
    PROVE  /\ Append(s, x) \in Seq(S) /\ Len(Append(s, x)) = Len(s) + 1
           /\ Append(s, x)[Len(s) + 1] = x
           /\ DOMAIN Append(s, x) = DOMAIN s \cup {Len(s) + 1}
           /\ Len(s) + 1 \notin DOMAIN s /\ Len(s) \in Nat
           /\ \A i \in DOMAIN s : Append(s, x)[i] = s[i] /\ i < Len(s) + 1
OBVIOUS

\* A sequence without its first element.
LEMMA TailIs ==
    ASSUME NEW S, NEW s \in Seq(S), s # <<>>
    PROVE  /\ Tail(s) \in Seq(S) /\ Head(s) \in S /\ Head(s) = s[1] /\ 1 \in DOMAIN s
           /\ Len(Tail(s)) = Len(s) - 1 /\ Len(s) \in Nat /\ Len(s) > 0
           /\ DOMAIN Tail(s) = 1..(Len(s) - 1)
           /\ \A i \in DOMAIN Tail(s) : i + 1 \in DOMAIN s /\ Tail(s)[i] = s[i + 1] /\ 1 < i + 1
           /\ \A i \in DOMAIN s : i = 1 \/ (i - 1 \in DOMAIN Tail(s) /\ Tail(s)[i - 1] = s[i])
OBVIOUS

\* A beginning of a sequence.
LEMMA PrefixIs ==
    ASSUME NEW S, NEW s \in Seq(S), NEW k \in 0..Len(s)
    PROVE  /\ SubSeq(s, 1, k) \in Seq(S) /\ Len(SubSeq(s, 1, k)) = k
           /\ \A i \in DOMAIN SubSeq(s, 1, k) : i \in DOMAIN s /\ SubSeq(s, 1, k)[i] = s[i]
           /\ DOMAIN SubSeq(s, 1, k) = 1..k
OBVIOUS

\* The messages of a sequence with one more unit.
LEMMA CarriedAppend ==
    ASSUME NEW us \in Seq(Unit), NEW u \in Unit
    PROVE  Carried(Append(us, u)) = IF Data(u) THEN Carried(us) \cup {u.m} ELSE Carried(us)
<1> DEFINE t == Append(us, u)
<1>1. /\ t[Len(us) + 1] = u /\ DOMAIN t = DOMAIN us \cup {Len(us) + 1}
      /\ \A i \in DOMAIN us : t[i] = us[i]
      BY AppendIs
<1> HIDE DEF t
<1>2. ASSUME NEW x PROVE x \in Carried(t) <=> x \in Carried(us) \/ (Data(u) /\ x = u.m)
      BY <1>1 DEF Carried
<1> QED BY <1>2 DEF t

\* ... and of one without its first.
LEMMA CarriedTail ==
    ASSUME NEW us \in Seq(Unit), us # <<>>
    PROVE  /\ Carried(us) = IF Data(Head(us)) THEN Carried(Tail(us)) \cup {Head(us).m}
                            ELSE Carried(Tail(us))
           /\ Sorted(us) /\ Data(Head(us)) => Below({Head(us).m}, Carried(Tail(us)))
<1> DEFINE t == Tail(us)
           h == Head(us)
<1>1. /\ h = us[1] /\ 1 \in DOMAIN us
      /\ \A i \in DOMAIN t : i + 1 \in DOMAIN us /\ t[i] = us[i + 1] /\ 1 < i + 1
      /\ \A i \in DOMAIN us : i = 1 \/ (i - 1 \in DOMAIN t /\ t[i - 1] = us[i])
      BY TailIs
<1> HIDE DEF t, h
<1>2. ASSUME NEW x PROVE x \in Carried(us) <=> x \in Carried(t) \/ (Data(h) /\ x = h.m)
  <2>1. ASSUME x \in Carried(t) PROVE x \in Carried(us) BY <1>1, <2>1 DEF Carried
  <2>2. ASSUME Data(h), x = h.m PROVE x \in Carried(us) BY <1>1, <2>2 DEF Carried
  <2>3. ASSUME x \in Carried(us) PROVE x \in Carried(t) \/ (Data(h) /\ x = h.m)
    <3>1. PICK i \in DOMAIN us : Data(us[i]) /\ x = us[i].m BY <2>3 DEF Carried
    <3>2. CASE i = 1 BY <3>1, <3>2, <1>1
    <3>3. CASE i - 1 \in DOMAIN t /\ t[i - 1] = us[i] BY <3>1, <3>3 DEF Carried
    <3> QED BY <3>2, <3>3, <1>1
  <2> QED BY <2>1, <2>2, <2>3
<1>3. ASSUME Sorted(us), Data(h) PROVE Below({h.m}, Carried(t))
      BY <1>1, <1>3 DEF Below, Carried, Sorted
<1> QED BY <1>2, <1>3 DEF t, h

\* The order of a sequence with one more unit, of one without its first, and of
\* a beginning.
LEMMA SortedAppend ==
    ASSUME NEW us \in Seq(Unit), NEW u \in Unit, Sorted(us),
           Data(u) => Below(Carried(us), {u.m})
    PROVE  Sorted(Append(us, u))
<1> DEFINE t == Append(us, u)
<1>1. /\ t[Len(us) + 1] = u /\ DOMAIN t = DOMAIN us \cup {Len(us) + 1}
      /\ \A i \in DOMAIN us : t[i] = us[i] /\ i < Len(us) + 1
      /\ Len(us) \in Nat /\ DOMAIN us \subseteq Nat
      BY AppendIs
<1> HIDE DEF t
<1> SUFFICES ASSUME NEW i \in DOMAIN t, NEW j \in DOMAIN t, i < j, Data(t[i]), Data(t[j])
             PROVE  t[i].m < t[j].m
    BY DEF Sorted, t
<1>2. CASE j \in DOMAIN us
  <2>1. i \in DOMAIN us BY <1>1, <1>2
  <2> QED BY <2>1, <1>1, <1>2 DEF Sorted
<1>3. CASE j = Len(us) + 1
  <2>1. i \in DOMAIN us BY <1>1, <1>3
  <2>2. t[i].m \in Carried(us) BY <2>1, <1>1 DEF Carried
  <2> QED BY <2>2, <1>1, <1>3 DEF Below
<1> QED BY <1>1, <1>2, <1>3

\* Order without the first unit.
LEMMA SortedTail ==
    ASSUME NEW us \in Seq(Unit), us # <<>>, Sorted(us)
    PROVE  Sorted(Tail(us))
<1> DEFINE t == Tail(us)
<1>1. /\ \A i \in DOMAIN t : i + 1 \in DOMAIN us /\ t[i] = us[i + 1]
      /\ DOMAIN t \subseteq Nat
      BY TailIs
<1> HIDE DEF t
<1>2. \A i, j \in DOMAIN t : i < j => i + 1 < j + 1 BY <1>1
<1>3. Sorted(t) BY <1>1, <1>2 DEF Sorted
<1> QED BY <1>3 DEF t

\* A prefix keeps order and turns.
LEMMA PrefixOrder ==
    ASSUME NEW us \in Seq(Unit), NEW k \in 0..Len(us)
    PROVE  /\ Carried(SubSeq(us, 1, k)) \subseteq Carried(us)
           /\ Sorted(us) => Sorted(SubSeq(us, 1, k))
           /\ Alternates(us) => Alternates(SubSeq(us, 1, k))
<1> DEFINE t == SubSeq(us, 1, k)
<1>1. \A i \in DOMAIN t : i \in DOMAIN us /\ t[i] = us[i] BY PrefixIs
<1> HIDE DEF t
<1>2. Carried(t) \subseteq Carried(us) BY <1>1 DEF Carried
<1>3. Sorted(us) => Sorted(t) BY <1>1 DEF Sorted
<1>4. Alternates(us) => Alternates(t) BY <1>1 DEF Alternates
<1> QED BY <1>2, <1>3, <1>4 DEF t

\* Turns go on if the next unit is of the other part.
LEMMA AlternatesAppend ==
    ASSUME NEW us \in Seq(Unit), NEW u \in Unit, Alternates(us),
           us # <<>> => us[Len(us)].part # u.part
    PROVE  Alternates(Append(us, u))
<1> DEFINE t == Append(us, u)
           n == Len(us)
<1>1. /\ t[n + 1] = u /\ DOMAIN t = DOMAIN us \cup {n + 1}
      /\ \A i \in DOMAIN us : t[i] = us[i] /\ i < n + 1
      /\ n \in Nat /\ DOMAIN us = 1..n
      BY AppendIs
<1>2. n # 0 => us[n].part # u.part OBVIOUS
<1> HIDE DEF t, n
<1> SUFFICES ASSUME NEW i \in DOMAIN t, i + 1 \in DOMAIN t PROVE t[i].part # t[i + 1].part
    BY DEF Alternates, t
<1>3. CASE i + 1 \in DOMAIN us
  <2>1. i \in DOMAIN us BY <1>1, <1>3
  <2> QED BY <2>1, <1>1, <1>3 DEF Alternates
<1>4. CASE i + 1 = n + 1
  <2>1. i = n /\ n \in DOMAIN us /\ n # 0 BY <1>1, <1>4
  <2> QED BY <2>1, <1>1, <1>2
<1> QED BY <1>1, <1>3, <1>4

\* Turns without the first unit.
LEMMA AlternatesTail ==
    ASSUME NEW us \in Seq(Unit), us # <<>>, Alternates(us)
    PROVE  /\ Alternates(Tail(us))
           /\ Tail(us) # <<>> => /\ Tail(us)[1].part # Head(us).part
                                 /\ Tail(us)[Len(Tail(us))] = us[Len(us)]
           /\ Tail(us) = <<>> => us[Len(us)] = Head(us)
<1> DEFINE t == Tail(us)
<1>1. /\ t \in Seq(Unit) /\ Head(us) = us[1] /\ 1 \in DOMAIN us
      /\ Len(t) = Len(us) - 1 /\ Len(us) \in Nat /\ Len(us) > 0 /\ DOMAIN t = 1..(Len(us) - 1)
      /\ \A i \in DOMAIN t : i + 1 \in DOMAIN us /\ t[i] = us[i + 1]
      BY TailIs
<1> HIDE DEF t
<1>2. Alternates(t)
  <2>1. \A i \in DOMAIN t : i + 1 \in DOMAIN us /\ t[i] = us[i + 1] BY <1>1
  <2> SUFFICES ASSUME NEW i \in DOMAIN t, i + 1 \in DOMAIN t PROVE t[i].part # t[i + 1].part
      BY DEF Alternates
  <2>2. us[i + 1].part # us[(i + 1) + 1].part BY <2>1 DEF Alternates
  <2> QED BY <2>1, <2>2
<1>3. ASSUME t # <<>> PROVE t[1].part # Head(us).part /\ t[Len(t)] = us[Len(us)]
  <2>1. Len(t) # 0 BY <1>1, <1>3
  <2>2. 1 \in DOMAIN t /\ Len(t) \in DOMAIN t /\ Len(t) + 1 = Len(us) BY <2>1, <1>1
  <2>3. us[1].part # us[1 + 1].part BY <2>2, <1>1 DEF Alternates
  <2>4. t[1] = us[1 + 1] BY <2>2, <1>1
  <2>5. t[Len(t)] = us[Len(t) + 1] BY <2>2, <1>1
  <2> QED BY <2>2, <2>3, <2>4, <2>5, <1>1
<1>4. ASSUME t = <<>> PROVE us[Len(us)] = Head(us)
  <2>1. Len(t) = 0 BY <1>4
  <2>2. Len(us) = 1 BY <2>1, <1>1
  <2> QED BY <2>2, <1>1
<1> QED BY <1>2, <1>3, <1>4 DEF t

-----------------------------------------------------------------------------
(* The session: what its operations leave to be written. *)

\* A session is not the absence of one.
LEMMA IsSession == ASSUME NEW s \in SessionType PROVE s # NoSession
<1>1. DOMAIN NoSession = {"size"} BY DEF NoSession
<1>2. "buffer" \in DOMAIN s BY DEF SessionType
<1> QED BY <1>1, <1>2

\* The fields of a session.
LEMMA SessionFields ==
    ASSUME NEW s, Buffered(s)
    PROVE  /\ s \in SessionType /\ s # NoSession
           /\ s.connected \in BOOLEAN /\ s.buffer \in Seq(Unit) /\ s.reader \in Nat
           /\ s.size \in Nat /\ s.writing \in Nat /\ s.taken \in Nat /\ s.dangling \in BOOLEAN
           /\ Len(s.buffer) \in Nat
           /\ s.reader + Len(s.buffer) <= s.size
           /\ s.taken <= s.writing /\ s.writing <= Len(s.buffer)
           /\ ~s.connected => s.writing = 0
<1>1. s \in SessionType BY DEF Buffered
<1>2. s.buffer \in Seq(Unit) BY <1>1 DEF SessionType
<1>3. Len(s.buffer) \in Nat BY <1>2
<1> QED BY <1>1, <1>2, <1>3, IsSession DEF Buffered, SessionType

\* The end of a buffer behind the first k units.
LEMMA SuffixIs ==
    ASSUME NEW b \in Seq(Unit), NEW k \in 0..Len(b)
    PROVE  /\ SubSeq(b, k + 1, Len(b)) \in Seq(Unit)
           /\ Len(SubSeq(b, k + 1, Len(b))) = Len(b) - k
           /\ \A i \in 1..(Len(b) - k) : SubSeq(b, k + 1, Len(b))[i] = b[k + i]
           /\ DOMAIN SubSeq(b, k + 1, Len(b)) = 1..(Len(b) - k)
OBVIOUS

\* What is unsent of a session.
LEMMA UnsentIs ==
    ASSUME NEW s, Buffered(s)
    PROVE  /\ Unsent(s) = SubSeq(s.buffer, s.taken + 1, Len(s.buffer))
           /\ Unsent(s) \in Seq(Unit)
           /\ Len(Unsent(s)) = Len(s.buffer) - s.taken
           /\ DOMAIN Unsent(s) = 1..(Len(s.buffer) - s.taken)
           /\ \A i \in 1..(Len(s.buffer) - s.taken) : Unsent(s)[i] = s.buffer[s.taken + i]
<1> DEFINE b == s.buffer
           k == s.taken
<1>1. b \in Seq(Unit) /\ k \in 0..Len(b) /\ s # NoSession
  <2>1. /\ s # NoSession /\ s.buffer \in Seq(Unit) /\ s.taken \in Nat /\ s.writing \in Nat
        /\ Len(s.buffer) \in Nat /\ s.taken <= s.writing /\ s.writing <= Len(s.buffer)
        BY SessionFields
  <2> QED BY <2>1
<1>2. Unsent(s) = SubSeq(b, k + 1, Len(b)) BY <1>1 DEF Unsent
<1> HIDE DEF b, k
<1> QED BY <1>1, <1>2, SuffixIs DEF b, k

\* Cutting a buffer that has grown by one unit is growing the cut.
LEMMA SuffixAppend ==
    ASSUME NEW b \in Seq(Unit), NEW k \in 0..Len(b), NEW u \in Unit
    PROVE  SubSeq(Append(b, u), k + 1, Len(Append(b, u))) = Append(SubSeq(b, k + 1, Len(b)), u)
<1> DEFINE c == Append(b, u)
           x == SubSeq(c, k + 1, Len(c))
           y == Append(SubSeq(b, k + 1, Len(b)), u)
<1>1. c \in Seq(Unit) /\ Len(c) = Len(b) + 1 /\ k \in 0..Len(c) OBVIOUS
<1>2. x \in Seq(Unit) /\ Len(x) = Len(b) + 1 - k BY <1>1
<1>3. y \in Seq(Unit) /\ Len(y) = Len(b) - k + 1 OBVIOUS
<1>4. ASSUME NEW i \in 1..Len(x) PROVE x[i] = y[i]
  <2>1. x[i] = c[k + i] BY <1>1, <1>2
  <2>2. CASE i = Len(b) - k + 1
    <3>1. k + i = Len(b) + 1 BY <2>2
    <3>2. c[k + i] = u BY <3>1
    <3>3. y[i] = u BY <2>2
    <3> QED BY <2>1, <3>2, <3>3
  <2>3. CASE i # Len(b) - k + 1
    <3>1. i \in 1..(Len(b) - k) /\ k + i \in 1..Len(b) BY <2>3, <1>2
    <3>2. c[k + i] = b[k + i] BY <3>1
    <3>3. y[i] = b[k + i] BY <3>1, SMTT(30)
    <3> QED BY <2>1, <3>2, <3>3
  <2> QED BY <2>2, <2>3
<1>5. Len(x) = Len(y) BY <1>2, <1>3
<1> HIDE DEF x, y, c
<1>6. x = y BY <1>2, <1>3, <1>4, <1>5, SeqEqual
<1> QED BY <1>6 DEF x, y, c

\* ByteBuffer::put: the buffer has room for the unit, behind what it held.
LEMMA PutEffect ==
    ASSUME NEW s, Buffered(s), NEW u \in Unit
    PROVE  /\ Buffered(put(s, u)) /\ put(s, u).buffer = Append(s.buffer, u)
           /\ put(s, u).taken = s.taken /\ put(s, u).writing = s.writing
           /\ put(s, u).connected = s.connected
           /\ Unsent(put(s, u)) = Append(Unsent(s), u)
<1>0. /\ s \in SessionType
      /\ s.connected \in BOOLEAN /\ s.buffer \in Seq(Unit) /\ s.reader \in Nat
      /\ s.size \in Nat /\ s.writing \in Nat /\ s.taken \in Nat /\ s.dangling \in BOOLEAN
      /\ Len(s.buffer) \in Nat
      /\ s.reader + Len(s.buffer) <= s.size
      /\ s.taken <= s.writing /\ s.writing <= Len(s.buffer)
      /\ ~s.connected => s.writing = 0
      BY SessionFields
<1> DEFINE full == s.size - (s.reader + Len(s.buffer)) < 1
           b == Append(s.buffer, u)
           z == IF full THEN 2 * s.size + 1 ELSE s.size
           d == s.dangling \/ (full /\ s.taken < s.writing)
           t == [s EXCEPT !.buffer = b, !.size = z, !.dangling = d]
<1>1. put(s, u) = t BY DEF put
<1>2. b \in Seq(Unit) /\ Len(b) = Len(s.buffer) + 1 BY <1>0
<1>3. z \in Nat /\ s.reader + (Len(s.buffer) + 1) <= z BY <1>0, SMTT(30)
<1>4. d \in BOOLEAN BY <1>0
<1> HIDE DEF b, z, d
<1>5. /\ t \in SessionType /\ t.buffer = b /\ t.size = z /\ t.reader = s.reader
      /\ t.taken = s.taken /\ t.writing = s.writing /\ t.connected = s.connected
      BY <1>0, <1>2, <1>3, <1>4 DEF SessionType
<1> HIDE DEF t
<1>6. Buffered(t)
  <2>1. t.reader + Len(t.buffer) <= t.size BY <1>2, <1>3, <1>5
  <2>2. t.writing <= Len(t.buffer) BY <1>0, <1>2, <1>5
  <2> QED BY <2>1, <2>2, <1>0, <1>5 DEF Buffered
<1>7. Unsent(t) = Append(Unsent(s), u)
  <2>1. Unsent(t) = SubSeq(t.buffer, t.taken + 1, Len(t.buffer)) BY <1>6, UnsentIs
  <2>2. Unsent(s) = SubSeq(s.buffer, s.taken + 1, Len(s.buffer)) BY UnsentIs
  <2>3. s.taken \in 0..Len(s.buffer) BY <1>0
  <2>4. SubSeq(b, s.taken + 1, Len(b)) = Append(SubSeq(s.buffer, s.taken + 1, Len(s.buffer)), u)
        BY <2>3, <1>0, SuffixAppend DEF b
  <2> QED BY <2>1, <2>2, <2>4, <1>5
<1> QED BY <1>1, <1>5, <1>6, <1>7 DEF b

\* start_write: all of the buffer is to be written, from its first unit.
LEMMA StartWriteEffect ==
    ASSUME NEW s \in SessionType, s.reader + Len(s.buffer) <= s.size, s.connected
    PROVE  /\ Buffered(start_write(s)) /\ Unsent(start_write(s)) = s.buffer
           /\ start_write(s).dangling => s.dangling
<1> DEFINE t == start_write(s)
           b == s.buffer
<1>0. /\ b \in Seq(Unit) /\ s.reader \in Nat /\ s.size \in Nat /\ s.dangling \in BOOLEAN
      BY DEF SessionType
<1>1. Len(b) \in Nat BY <1>0
<1>2. /\ t \in SessionType /\ t.buffer = b /\ t.reader = s.reader /\ t.size = s.size
      /\ t.taken = 0 /\ t.writing = Len(b) /\ t.connected = s.connected
      /\ t.dangling => s.dangling
  <2>1. CASE b = <<>>
    <3>1. t = [s EXCEPT !.writing = 0, !.taken = 0] BY <2>1 DEF start_write
    <3>2. Len(b) = 0 BY <2>1
    <3> HIDE DEF t
    <3> QED BY <3>1, <3>2 DEF SessionType
  <2>2. CASE b # <<>>
    <3>1. t = [s EXCEPT !.writing = Len(b), !.taken = 0, !.dangling = FALSE]
          BY <2>2 DEF start_write
    <3> HIDE DEF t, b
    <3>2. /\ t \in SessionType /\ t.buffer = s.buffer /\ t.reader = s.reader /\ t.size = s.size
          /\ t.taken = 0 /\ t.writing = Len(b) /\ t.connected = s.connected
          /\ t.dangling = FALSE
          BY <3>1, <1>1 DEF SessionType
    <3> QED BY <3>2 DEF b
  <2> QED BY <2>1, <2>2
<1> HIDE DEF t
<1>3. Buffered(t) BY <1>1, <1>2 DEF Buffered, b
<1>4. Unsent(t) = SubSeq(t.buffer, t.taken + 1, Len(t.buffer)) BY <1>3, UnsentIs
<1>5. Unsent(t) = SubSeq(b, 1, Len(b)) BY <1>2, <1>4
<1>6. SubSeq(b, 1, Len(b)) = b
  <2> HIDE DEF b
  <2>1. SubSeq(b, 1, Len(b)) \in Seq(Unit) /\ Len(SubSeq(b, 1, Len(b))) = Len(b) BY <1>0
  <2>2. \A i \in 1..Len(b) : SubSeq(b, 1, Len(b))[i] = b[i] BY <1>0
  <2> QED BY <2>1, <2>2, <1>0, SeqEqual
<1> QED BY <1>2, <1>3, <1>5, <1>6 DEF t, b

\* A frame: its TransportMeta and its data
Framing(us, m) == Append(Append(us, [part |-> "meta", m |-> m]), [part |-> "data", m |-> m])

\* ClientSession::send puts a frame behind what is unsent.
LEMMA SendEffect ==
    ASSUME NEW s, Buffered(s), NEW m \in Message \cup {Debug}
    PROVE  Buffered(send(s, m)) /\ Unsent(send(s, m)) = Framing(Unsent(s), m)
<1> DEFINE u == [part |-> "meta", m |-> m]
           v == [part |-> "data", m |-> m]
           s0 == put(s, u)
           s1 == put(s0, v)
<1>1. u \in Unit /\ v \in Unit BY DEF Unit
<1> HIDE DEF u, v
<1>2. /\ Buffered(s0) /\ s0.buffer = Append(s.buffer, u) /\ s0.taken = s.taken
      /\ s0.connected = s.connected /\ Unsent(s0) = Append(Unsent(s), u)
      BY <1>1, PutEffect
<1> HIDE DEF s0
<1>3. /\ Buffered(s1) /\ s1.buffer = Append(s0.buffer, v) /\ s1.taken = s0.taken
      /\ s1.connected = s0.connected /\ Unsent(s1) = Append(Unsent(s0), v)
      BY <1>1, <1>2, PutEffect
<1> HIDE DEF s1
<1>4. Unsent(s1) = Framing(Unsent(s), m) BY <1>2, <1>3 DEF Framing, u, v
<1>5. send(s, m) = IF s.connected /\ s.buffer = <<>> THEN start_write(s1) ELSE s1
      BY DEF send, s1, s0, u, v
<1>6. CASE ~(s.connected /\ s.buffer = <<>>) BY <1>3, <1>4, <1>5, <1>6
<1>7. CASE s.connected /\ s.buffer = <<>>
  <2>1. /\ s1 \in SessionType /\ s1.reader + Len(s1.buffer) <= s1.size /\ s1.connected
        BY <1>2, <1>3, <1>7 DEF Buffered
  <2>2. Buffered(start_write(s1)) /\ Unsent(start_write(s1)) = s1.buffer
        BY <2>1, StartWriteEffect
  <2>3. s.taken = 0
    <3>1. /\ s.taken \in Nat /\ s.writing \in Nat /\ s.taken <= s.writing
          /\ s.writing <= Len(s.buffer)
          BY SessionFields
    <3>2. Len(s.buffer) = 0 BY <1>7
    <3> QED BY <3>1, <3>2
  <2>4. Unsent(s) = <<>>
    <3>1. Len(Unsent(s)) = Len(s.buffer) - s.taken /\ Unsent(s) \in Seq(Unit) BY UnsentIs
    <3>2. Len(s.buffer) = 0 BY <1>7
    <3>3. Len(Unsent(s)) = 0 BY <3>1, <3>2, <2>3
    <3> QED BY <3>1, <3>3
  <2>5. s1.buffer = Framing(Unsent(s), m) BY <2>4, <1>2, <1>3, <1>7 DEF Framing, u, v
  <2> QED BY <2>2, <2>5, <1>5, <1>7
<1> QED BY <1>6, <1>7

\* A session starts empty.
LEMMA NewSessionEffect == Buffered(NewSession) /\ Unsent(NewSession) = <<>>
<1>1. NewSession \in SessionType /\ NewSession.buffer = <<>> /\ NewSession.taken = 0
      BY TransportAssumption DEF NewSession, SessionType
<1>2. Buffered(NewSession) BY <1>1, TransportAssumption DEF Buffered, NewSession
<1>3. Len(Unsent(NewSession)) = 0 /\ Unsent(NewSession) \in Seq(Unit)
  <2>1. /\ Len(Unsent(NewSession)) = Len(NewSession.buffer) - NewSession.taken
        /\ Unsent(NewSession) \in Seq(Unit)
        BY <1>2, UnsentIs
  <2> QED BY <2>1, <1>1
<1> QED BY <1>2, <1>3

\* The connect handler: nothing has been taken before.
LEMMA ConnectEffect ==
    ASSUME NEW s, Buffered(s), ~s.connected
    PROVE  LET t == start_write([s EXCEPT !.connected = TRUE])
           IN  Buffered(t) /\ Unsent(t) = Unsent(s) /\ (t.dangling => s.dangling)
<1> DEFINE r == [s EXCEPT !.connected = TRUE]
<1>0. /\ s \in SessionType /\ s.buffer \in Seq(Unit) /\ s.taken \in Nat /\ s.writing \in Nat
      /\ s.reader + Len(s.buffer) <= s.size /\ s.taken <= s.writing /\ s.writing = 0
      BY SessionFields
<1>1. /\ r \in SessionType /\ r.reader = s.reader /\ r.buffer = s.buffer /\ r.size = s.size
      /\ r.connected /\ r.dangling = s.dangling
      BY <1>0 DEF SessionType
<1> HIDE DEF r
<1>2. r.reader + Len(r.buffer) <= r.size BY <1>0, <1>1
<1>3. /\ Buffered(start_write(r)) /\ Unsent(start_write(r)) = r.buffer
      /\ start_write(r).dangling => r.dangling
      BY <1>1, <1>2, StartWriteEffect
<1>4. s.taken = 0 BY <1>0
<1>5. Unsent(s) = SubSeq(s.buffer, 1, Len(s.buffer))
  <2>1. Unsent(s) = SubSeq(s.buffer, s.taken + 1, Len(s.buffer)) BY UnsentIs
  <2> QED BY <2>1, <1>4
<1>6. SubSeq(s.buffer, 1, Len(s.buffer)) = s.buffer
  <2> DEFINE b == s.buffer
  <2>0. b \in Seq(Unit) BY <1>0
  <2> HIDE DEF b
  <2>1. SubSeq(b, 1, Len(b)) \in Seq(Unit) /\ Len(SubSeq(b, 1, Len(b))) = Len(b) BY <2>0
  <2>2. \A i \in 1..Len(b) : SubSeq(b, 1, Len(b))[i] = b[i] BY <2>0
  <2>3. SubSeq(b, 1, Len(b)) = b BY <2>0, <2>1, <2>2, SeqEqual
  <2> QED BY <2>3 DEF b
<1> QED BY <1>1, <1>3, <1>5, <1>6 DEF r

\* The write handler: what was written is passed over, the rest is written next.
LEMMA WriteDoneEffect ==
    ASSUME NEW s, Buffered(s), s.writing > 0, s.taken = s.writing
    PROVE  LET t == start_write(read_bytes(s, s.writing))
           IN  Buffered(t) /\ Unsent(t) = Unsent(s) /\ (t.dangling => s.dangling)
<1> DEFINE n == s.writing
           b == SubSeq(s.buffer, n + 1, Len(s.buffer))
           d == IF n = Len(s.buffer) THEN 0 ELSE s.reader + n
           r == [s EXCEPT !.buffer = b, !.reader = d]
<1>0. /\ s \in SessionType /\ s.buffer \in Seq(Unit) /\ n \in Nat /\ s.reader \in Nat
      /\ s.size \in Nat /\ Len(s.buffer) \in Nat /\ s.reader + Len(s.buffer) <= s.size
      /\ n <= Len(s.buffer) /\ (~s.connected => s.writing = 0) /\ s.connected \in BOOLEAN
      BY SessionFields
<1>1. read_bytes(s, s.writing) = r BY DEF read_bytes
<1>2. b \in Seq(Unit) /\ Len(b) = Len(s.buffer) - n
  <2>1. n \in 0..Len(s.buffer) BY <1>0
  <2> QED BY <1>0, <2>1, SuffixIs
<1>3. d \in Nat /\ d + (Len(s.buffer) - n) <= s.size
  <2> HIDE DEF n
  <2> QED BY <1>0
<1>4. s.connected BY <1>0
<1>5. Unsent(s) = b
  <2>1. Unsent(s) = SubSeq(s.buffer, s.taken + 1, Len(s.buffer)) BY UnsentIs
  <2> QED BY <2>1
<1> HIDE DEF b, d
<1>6. /\ r \in SessionType /\ r.reader = d /\ r.buffer = b /\ r.size = s.size
      /\ r.connected = s.connected /\ r.dangling = s.dangling
      BY <1>0, <1>2, <1>3 DEF SessionType
<1> HIDE DEF r, n
<1>7. r.reader + Len(r.buffer) <= r.size BY <1>2, <1>3, <1>6
<1>8. /\ Buffered(start_write(r)) /\ Unsent(start_write(r)) = r.buffer
      /\ start_write(r).dangling => r.dangling
      BY <1>4, <1>6, <1>7, StartWriteEffect
<1> QED BY <1>1, <1>5, <1>6, <1>8

\* The system takes a unit: the first that is unsent.
LEMMA WriteEffect ==
    ASSUME NEW s, Buffered(s), s.taken < s.writing
    PROVE  LET t == [s EXCEPT !.taken = @ + 1]
           IN  /\ Buffered(t) /\ t.dangling = s.dangling /\ Unsent(s) # <<>>
               /\ s.buffer[s.taken + 1] = Head(Unsent(s)) /\ Unsent(t) = Tail(Unsent(s))
<1> DEFINE k == s.taken
           t == [s EXCEPT !.taken = k + 1]
<1>0. /\ s \in SessionType /\ s.buffer \in Seq(Unit) /\ s.writing \in Nat /\ k \in Nat
      /\ Len(s.buffer) \in Nat /\ s.reader + Len(s.buffer) <= s.size
      /\ s.writing <= Len(s.buffer) /\ (~s.connected => s.writing = 0)
      BY SessionFields
<1>1. /\ k + 1 \in Nat /\ k + 1 <= s.writing /\ k + 1 <= Len(s.buffer) /\ Len(s.buffer) - k > 0
      /\ 1 \in 1..(Len(s.buffer) - k)
  <2> HIDE DEF k
  <2>1. k < s.writing BY DEF k
  <2> QED BY <1>0, <2>1
<1>2. /\ t \in SessionType /\ t.taken = k + 1 /\ t.buffer = s.buffer /\ t.writing = s.writing
      /\ t.reader = s.reader /\ t.size = s.size /\ t.connected = s.connected
      /\ t.dangling = s.dangling
  <2> HIDE DEF k
  <2> QED BY <1>0, <1>1 DEF SessionType
<1>t. t = [s EXCEPT !.taken = @ + 1] OBVIOUS
<1> HIDE DEF t
<1>3. Buffered(t) BY <1>0, <1>1, <1>2 DEF Buffered
<1> DEFINE x == Unsent(s)
           y == Unsent(t)
<1>4. /\ x \in Seq(Unit) /\ Len(x) = Len(s.buffer) - k
      /\ \A i \in 1..(Len(s.buffer) - k) : x[i] = s.buffer[k + i]
      BY UnsentIs
<1>5. /\ y \in Seq(Unit) /\ Len(y) = Len(s.buffer) - (k + 1)
      /\ \A i \in 1..(Len(s.buffer) - (k + 1)) : y[i] = s.buffer[(k + 1) + i]
  <2>1. /\ y \in Seq(Unit) /\ Len(y) = Len(t.buffer) - t.taken
        /\ \A i \in 1..(Len(t.buffer) - t.taken) : y[i] = t.buffer[t.taken + i]
        BY <1>3, UnsentIs
  <2> QED BY <2>1, <1>2
<1> HIDE DEF x, y, k
<1> DEFINE n == Len(s.buffer)
<1>6. n \in Nat /\ n - k > 0 /\ Len(x) = n - k /\ Len(y) = n - (k + 1) /\ k \in Nat
      BY <1>0, <1>1, <1>4, <1>5
<1> HIDE DEF n
<1>7. x # <<>> BY <1>4, <1>6
<1>8. /\ Tail(x) \in Seq(Unit) /\ Len(Tail(x)) = Len(x) - 1 /\ Head(x) = x[1]
      /\ \A i \in 1..(Len(x) - 1) : Tail(x)[i] = x[i + 1]
      BY <1>4, <1>7
<1>9. ASSUME NEW i \in 1..Len(y) PROVE y[i] = Tail(x)[i]
  <2>1. i \in 1..(n - (k + 1)) /\ i + 1 \in 1..(n - k) /\ i \in 1..(Len(x) - 1)
        /\ (k + 1) + i = k + (i + 1)
        BY <1>6
  <2>2. y[i] = s.buffer[(k + 1) + i] BY <2>1, <1>5 DEF n
  <2>3. x[i + 1] = s.buffer[k + (i + 1)] BY <2>1, <1>4 DEF n
  <2>4. Tail(x)[i] = x[i + 1] BY <2>1, <1>8
  <2> QED BY <2>1, <2>2, <2>3, <2>4
<1>10. Len(y) = Len(Tail(x)) BY <1>6, <1>8
<1>11. y = Tail(x) BY <1>5, <1>8, <1>9, <1>10, SeqEqual
<1>12. s.buffer[k + 1] = Head(x) BY <1>1, <1>4, <1>8
<1> QED BY <1>t, <1>2, <1>3, <1>7, <1>11, <1>12 DEF x, y, k

-----------------------------------------------------------------------------
(* What is on its way. *)

\* The data of a message is in a sequence of units.
LEMMA CarriedIs ==
    ASSUME NEW us \in Seq(Unit), NEW m \in Message
    PROVE  m \in Carried(us) <=> \E k \in DOMAIN us : us[k] = [part |-> "data", m |-> m]
<1>1. \A k \in DOMAIN us : us[k] \in Unit OBVIOUS
<1>2. \A k \in DOMAIN us : us[k].part = "data" /\ us[k].m = m <=> us[k] = [part |-> "data", m |-> m]
      BY <1>1 DEF Unit
<1> QED BY <1>2 DEF Carried, Data

\* The fields of a connection.
LEMMA ConnFields ==
    ASSUME NEW cs \in Seq(ConnType), NEW c \in DOMAIN cs
    PROVE  /\ cs[c] \in ConnType /\ cs[c].stream \in Seq(Unit) /\ cs[c].open \in BOOLEAN
           /\ cs[c].awaits \in {"meta", "data", "none"}
<1>1. cs[c] \in ConnType OBVIOUS
<1> QED BY <1>1 DEF ConnType

\* InTransit, in terms of what is posted, unsent and in the streams.
LEMMA InTransitIs ==
    ASSUME Types
    PROVE  InTransit = Flying(posted, Unsent(session), conns)
<1>1. ASSUME NEW m \in Message, session # NoSession
      PROVE  (\E k \in session.taken + 1..Len(session.buffer) :
                  session.buffer[k] = [part |-> "data", m |-> m]) <=> m \in Carried(Unsent(session))
  <2> DEFINE s == session
             x == Unsent(s)
             b == s.buffer
             t == s.taken
             d == [part |-> "data", m |-> m]
  <2>1. Buffered(s) BY <1>1 DEF Types
  <2>2. /\ x \in Seq(Unit) /\ DOMAIN x = 1..(Len(b) - t)
        /\ \A i \in 1..(Len(b) - t) : x[i] = b[t + i]
        BY <2>1, UnsentIs
  <2>3. t \in Nat /\ Len(b) \in Nat BY <2>1, SessionFields
  <2> HIDE DEF x, b, t, d
  <2>4. m \in Carried(x) <=> \E k \in DOMAIN x : x[k] = d BY <2>2, CarriedIs DEF d
  <2>5. ASSUME NEW k \in t + 1..Len(b), b[k] = d PROVE \E i \in DOMAIN x : x[i] = d
    <3>1. k - t \in 1..(Len(b) - t) /\ t + (k - t) = k BY <2>3
    <3>2. x[k - t] = b[t + (k - t)] BY <3>1, <2>2
    <3> QED BY <3>1, <3>2, <2>2, <2>5
  <2>6. ASSUME NEW i \in DOMAIN x, x[i] = d PROVE \E k \in t + 1..Len(b) : b[k] = d
    <3>1. i \in 1..(Len(b) - t) BY <2>2
    <3>2. t + i \in t + 1..Len(b) BY <3>1, <2>3
    <3>3. x[i] = b[t + i] BY <3>1, <2>2
    <3> QED BY <3>2, <3>3, <2>6
  <2> QED BY <2>4, <2>5, <2>6 DEF x, b, t, d
<1>2. ASSUME session = NoSession PROVE Carried(Unsent(session)) = {} BY <1>2 DEF Unsent, Carried
<1>3. DOMAIN conns = 1..Current /\ conns \in Seq(ConnType) BY DEF Current, Types
<1>4. ASSUME NEW m \in Message, NEW c \in DOMAIN conns
      PROVE  [part |-> "data", m |-> m] \in ToSet(conns[c].stream) <=> m \in Carried(conns[c].stream)
  <2>1. conns[c].stream \in Seq(Unit) BY <1>3, ConnFields
  <2> QED BY <2>1, CarriedIs DEF ToSet
<1>5. ASSUME NEW m \in Message PROVE m \in InTransit <=> m \in Flying(posted, Unsent(session), conns)
  <2>1. (session # NoSession /\ \E k \in session.taken + 1..Len(session.buffer) :
                                   session.buffer[k] = [part |-> "data", m |-> m])
        <=> m \in Carried(Unsent(session))
        BY <1>1, <1>2
  <2>2. (\E c \in 1..Current :
             conns[c].awaits # "none" /\ [part |-> "data", m |-> m] \in ToSet(conns[c].stream))
        <=> (\E c \in DOMAIN conns : conns[c].awaits # "none" /\ m \in Carried(conns[c].stream))
        BY <1>3, <1>4
  <2> QED BY <2>1, <2>2 DEF InTransit, Flying
<1> QED BY <1>5 DEF InTransit, Flying

\* The messages of a frame, and its order.
LEMMA FramingIs ==
    ASSUME NEW us \in Seq(Unit), NEW m \in Message \cup {Debug}
    PROVE  /\ Framing(us, m) \in Seq(Unit)
           /\ Carried(Framing(us, m)) = IF m = Debug THEN Carried(us) ELSE Carried(us) \cup {m}
           /\ Sorted(us) /\ (m # Debug => Below(Carried(us), {m})) => Sorted(Framing(us, m))
           /\ Whole(us) => Whole(Framing(us, m))
           /\ Framing(us, m) # <<>>
           /\ Framing(us, m)[1].part = IF us = <<>> THEN "meta" ELSE us[1].part
<1> DEFINE u == [part |-> "meta", m |-> m]
           v == [part |-> "data", m |-> m]
           t == Append(us, u)
           w == Append(t, v)
<1>0. Debug \notin Message /\ Junk \notin Message /\ Debug # Junk BY DEF Debug, Message, Junk
<1>1. /\ u \in Unit /\ v \in Unit /\ ~Data(u) /\ u.part = "meta" /\ v.part = "data"
      /\ u.m = m /\ v.m = m /\ m # Junk
      BY <1>0 DEF Unit, Data
<1>2. Data(v) <=> m # Debug BY <1>0 DEF Data
<1> HIDE DEF u, v
<1>3. /\ t \in Seq(Unit) /\ Len(t) = Len(us) + 1 /\ t[Len(us) + 1] = u
      /\ DOMAIN t = DOMAIN us \cup {Len(us) + 1} /\ \A i \in DOMAIN us : t[i] = us[i]
      BY <1>1, AppendIs
<1>4. Carried(t) = Carried(us) BY <1>1, CarriedAppend
<1>5. Sorted(us) => Sorted(t) BY <1>1, SortedAppend
<1>6. ASSUME Whole(us) PROVE Alternates(t)
  <2>1. us # <<>> => us[Len(us)].part # u.part BY <1>1, <1>6 DEF Whole
  <2> QED BY <2>1, <1>1, <1>6, AlternatesAppend DEF Whole
<1>7. t[Len(t)] = u /\ t # <<>> BY <1>3
<1>t. t[1] = (IF us = <<>> THEN u ELSE us[1]) /\ 1 \in DOMAIN t
  <2>1. CASE us = <<>>
    <3>1. Len(us) + 1 = 1 BY <2>1
    <3> QED BY <2>1, <3>1, <1>3
  <2>2. CASE us # <<>>
    <3>1. 1 \in DOMAIN us BY <2>2
    <3> QED BY <2>2, <3>1, <1>3
  <2> QED BY <2>1, <2>2
<1> HIDE DEF t
<1>8. /\ w \in Seq(Unit) /\ Len(w) = Len(t) + 1 /\ w[Len(t) + 1] = v
      /\ DOMAIN w = DOMAIN t \cup {Len(t) + 1} /\ \A i \in DOMAIN t : w[i] = t[i]
      BY <1>1, <1>3, AppendIs
<1>9. Carried(w) = IF m = Debug THEN Carried(us) ELSE Carried(us) \cup {m}
      BY <1>1, <1>2, <1>3, <1>4, CarriedAppend
<1>10. ASSUME Sorted(us), m # Debug => Below(Carried(us), {m}) PROVE Sorted(w)
       BY <1>1, <1>2, <1>3, <1>4, <1>5, <1>10, SortedAppend
<1>11. ASSUME Whole(us) PROVE Whole(w)
  <2>1. Alternates(w)
    <3>1. t[Len(t)].part # v.part BY <1>1, <1>7
    <3> QED BY <3>1, <1>1, <1>3, <1>6, <1>11, AlternatesAppend
  <2>2. w[Len(w)].part = "data" BY <1>1, <1>8
  <2>3. \A i \in DOMAIN w : w[i].m # Junk BY <1>1, <1>3, <1>8, <1>11 DEF Whole
  <2> QED BY <2>1, <2>2, <2>3 DEF Whole
<1>12. w # <<>> BY <1>8
<1>13. w[1].part = IF us = <<>> THEN "meta" ELSE us[1].part BY <1>1, <1>t, <1>8
<1>14. Framing(us, m) = w BY DEF Framing, t, u, v
<1> HIDE DEF w
<1> QED BY <1>8, <1>9, <1>10, <1>11, <1>12, <1>13, <1>14

-----------------------------------------------------------------------------
(* How the steps keep messages in line. *)

\* Send: the new message is behind all others.
LEMMA LineSend ==
    ASSUME NEW po \in Seq(Message), NEW un, NEW cs, NEW n \in Nat, n + 1 \in Message,
           NEW rs, InLine(po, un, cs, rs), Known(po, un, cs, rs, n),
           \A i \in DOMAIN rs : rs[i].conn \in DOMAIN cs
    PROVE  InLine(Append(po, n + 1), un, cs, rs) /\ Known(Append(po, n + 1), un, cs, rs, n + 1)
<1> DEFINE q == Append(po, n + 1)
<1>1. /\ DOMAIN q = DOMAIN po \cup {Len(po) + 1} /\ q[Len(po) + 1] = n + 1
      /\ \A i \in DOMAIN po : q[i] = po[i] /\ i < Len(po) + 1
      /\ Len(po) \in Nat /\ DOMAIN po \subseteq Nat
      BY AppendIs
<1>2. ToSet(q) = ToSet(po) \cup {n + 1} BY <1>1 DEF ToSet
<1> HIDE DEF q
<1>3. \A i \in DOMAIN po : po[i] \in ToSet(po) BY DEF ToSet
<1>4. \A x \in 1..n : x < n + 1 /\ x \in 1..(n + 1) OBVIOUS
<1>5. \A i, j \in DOMAIN q : i < j => q[i] < q[j]
  <2> SUFFICES ASSUME NEW i \in DOMAIN q, NEW j \in DOMAIN q, i < j PROVE q[i] < q[j] OBVIOUS
  <2>1. i \in DOMAIN po BY <1>1
  <2>2. CASE j \in DOMAIN po BY <2>1, <2>2, <1>1 DEF InLine
  <2>3. CASE j = Len(po) + 1 BY <2>1, <2>3, <1>1, <1>3, <1>4 DEF Known
  <2> QED BY <2>2, <2>3, <1>1
<1>6. Below(Carried(un), ToSet(q)) BY <1>2, <1>4 DEF InLine, Known, Below
<1>7. ASSUME NEW c \in DOMAIN cs
      PROVE  Below(Carried(cs[c].stream), ToSet(q)) /\ Below(Arrived(rs, c), ToSet(q))
  <2>1. Carried(cs[c].stream) \subseteq 1..n BY DEF Known
  <2>2. \A x \in Arrived(rs, c) : x \in 1..n
        BY DEF Known, Arrived, Message
  <2> QED BY <2>1, <2>2, <1>2, <1>4 DEF InLine, Below
<1>8. InLine(q, un, cs, rs) BY <1>5, <1>6, <1>7 DEF InLine
<1>9. Known(q, un, cs, rs, n + 1)
  <2>1. \A i \in DOMAIN rs : rs[i].m \in Message => rs[i].m <= n + 1
    <3>1. \A x \in Message : x <= n => x <= n + 1 BY DEF Message
    <3> QED BY <3>1 DEF Known
  <2> QED BY <2>1, <1>2, <1>4 DEF Known
<1> QED BY <1>8, <1>9 DEF q

\* A frame joins what is unsent: the oldest of the posted messages ...
LEMMA LineFrame ==
    ASSUME NEW po \in Seq(Message), po # <<>>, NEW un \in Seq(Unit), NEW cs, NEW n \in Nat,
           NEW rs, InLine(po, un, cs, rs), Known(po, un, cs, rs, n), Len(cs) \in DOMAIN cs
    PROVE  LET un2 == Framing(un, Head(po))
           IN  InLine(Tail(po), un2, cs, rs) /\ Known(Tail(po), un2, cs, rs, n)
<1> DEFINE q == Tail(po)
           m == Head(po)
           un2 == Framing(un, m)
<1>1. /\ q \in Seq(Message) /\ m \in Message /\ m = po[1] /\ 1 \in DOMAIN po
      /\ \A i \in DOMAIN q : i + 1 \in DOMAIN po /\ q[i] = po[i + 1] /\ 1 < i + 1
      /\ DOMAIN q \subseteq Nat
      BY TailIs
<1>2. ToSet(q) \subseteq ToSet(po) /\ m \in ToSet(po) BY <1>1 DEF ToSet
<1>3. \A i \in DOMAIN q : m < q[i] BY <1>1 DEF InLine
<1>4. Below({m}, ToSet(q)) BY <1>3 DEF Below, ToSet
<1>5. m # Debug BY <1>1 DEF Message, Debug
<1> HIDE DEF q, m
<1>6. /\ Carried(un2) = Carried(un) \cup {m}
      /\ Sorted(un) /\ Below(Carried(un), {m}) => Sorted(un2)
      BY <1>1, <1>5, FramingIs
<1> HIDE DEF un2
<1>7. Below(Carried(un), {m}) BY <1>2 DEF InLine, Below
<1>8. Sorted(un2) BY <1>6, <1>7 DEF InLine
<1>9. \A i, j \in DOMAIN q : i < j => q[i] < q[j]
  <2>1. \A i, j \in DOMAIN q : i < j => i + 1 < j + 1 BY <1>1
  <2> QED BY <2>1, <1>1 DEF InLine
<1>10. Below(Carried(un2), ToSet(q)) BY <1>2, <1>4, <1>6 DEF InLine, Below
<1>11. ASSUME NEW c \in DOMAIN cs
       PROVE  /\ Below(Carried(cs[c].stream), ToSet(q)) /\ Below(Arrived(rs, c), ToSet(q))
              /\ Below(Carried(cs[c].stream), Carried(un2))
       BY <1>2, <1>6 DEF InLine, Below
<1>12. Below(Arrived(rs, Len(cs)), Carried(un2)) BY <1>2, <1>6 DEF InLine, Below
<1>13. InLine(q, un2, cs, rs) BY <1>8, <1>9, <1>10, <1>11, <1>12 DEF InLine
<1>14. Known(q, un2, cs, rs, n) BY <1>2, <1>6 DEF Known
<1> QED BY <1>13, <1>14 DEF q, un2, m

\* ... or a DebugMessage.
LEMMA LineDebug ==
    ASSUME NEW po, NEW un \in Seq(Unit), NEW cs, NEW n, NEW rs,
           InLine(po, un, cs, rs), Known(po, un, cs, rs, n)
    PROVE  InLine(po, Framing(un, Debug), cs, rs) /\ Known(po, Framing(un, Debug), cs, rs, n)
<1> DEFINE un2 == Framing(un, Debug)
<1>1. /\ Carried(un2) = Carried(un) /\ (Sorted(un) => Sorted(un2)) BY FramingIs
<1> HIDE DEF un2
<1>2. InLine(po, un2, cs, rs) BY <1>1 DEF InLine
<1>3. Known(po, un2, cs, rs, n) BY <1>1 DEF Known
<1> QED BY <1>2, <1>3 DEF un2

\* A new connection carries nothing.
LEMMA LineConnect ==
    ASSUME NEW po, NEW cs \in Seq(ConnType), NEW n, NEW rs,
           InLine(po, <<>>, cs, rs), Known(po, <<>>, cs, rs, n),
           \A i \in DOMAIN rs : rs[i].conn \in 1..Len(cs),
           NEW cn \in ConnType, cn.stream = <<>>
    PROVE  InLine(po, <<>>, Append(cs, cn), rs) /\ Known(po, <<>>, Append(cs, cn), rs, n)
<1> DEFINE ds == Append(cs, cn)
<1>1. /\ ds[Len(cs) + 1] = cn /\ DOMAIN ds = DOMAIN cs \cup {Len(cs) + 1} /\ Len(cs) \in Nat
      /\ \A i \in DOMAIN cs : ds[i] = cs[i] /\ i < Len(cs) + 1
      /\ Len(ds) = Len(cs) + 1 /\ DOMAIN cs = 1..Len(cs)
      BY AppendIs
<1> HIDE DEF ds
<1>2. Carried(<<>>) = {} /\ Sorted(<<>>) BY DEF Carried, Sorted
<1>3. Arrived(rs, Len(cs) + 1) = {}
  <2>1. \A i \in DOMAIN rs : rs[i].conn # Len(cs) + 1 BY <1>1
  <2> QED BY <2>1 DEF Arrived
<1>4. \A c \in DOMAIN ds : Sorted(ds[c].stream) BY <1>1, <1>2 DEF InLine
<1>5. ASSUME NEW c \in DOMAIN ds
      PROVE  /\ Below(Carried(ds[c].stream), ToSet(po)) /\ Below(Carried(ds[c].stream), {})
             /\ Below(Arrived(rs, c), Carried(ds[c].stream)) /\ Below(Arrived(rs, c), ToSet(po))
  <2>1. CASE c \in DOMAIN cs BY <2>1, <1>1 DEF InLine, Below
  <2>2. CASE c = Len(cs) + 1 BY <2>2, <1>1, <1>2, <1>3 DEF Below
  <2> QED BY <2>1, <2>2, <1>1
<1>6. ASSUME NEW c \in DOMAIN ds, NEW d \in DOMAIN ds, c < d
      PROVE  Below(Carried(ds[c].stream), Carried(ds[d].stream))
  <2>1. CASE d = Len(cs) + 1 BY <2>1, <1>1, <1>2 DEF Below
  <2>2. CASE d \in DOMAIN cs
    <3>1. c \in DOMAIN cs BY <2>2, <1>1, <1>6
    <3> QED BY <2>2, <3>1, <1>1, <1>6 DEF InLine
  <2> QED BY <2>1, <2>2, <1>1
<1>7. Below(Arrived(rs, Len(ds)), Carried(<<>>)) BY <1>2 DEF Below
<1>8. InLine(po, <<>>, ds, rs) BY <1>2, <1>4, <1>5, <1>6, <1>7 DEF InLine
<1>9. Known(po, <<>>, ds, rs, n) BY <1>1, <1>2 DEF Known
<1> QED BY <1>8, <1>9 DEF ds

\* cs2 is cs but for connection c.
Elsewhere(cs, cs2, c) ==
    /\ DOMAIN cs2 = DOMAIN cs /\ Len(cs2) = Len(cs)
    /\ \A d \in DOMAIN cs : d # c => cs2[d] = cs[d]

\* A buffer is thrown away, a stream loses units.
LEMMA LineLose ==
    ASSUME NEW po, NEW un, NEW un2, NEW cs, NEW cs2, NEW c \in DOMAIN cs, NEW n, NEW rs,
           InLine(po, un, cs, rs), Known(po, un, cs, rs, n),
           Sorted(un2), Carried(un2) \subseteq Carried(un), Elsewhere(cs, cs2, c),
           Sorted(cs2[c].stream), Carried(cs2[c].stream) \subseteq Carried(cs[c].stream)
    PROVE  InLine(po, un2, cs2, rs) /\ Known(po, un2, cs2, rs, n)
<1>1. \A d \in DOMAIN cs2 : /\ d \in DOMAIN cs /\ Sorted(cs2[d].stream)
                            /\ Carried(cs2[d].stream) \subseteq Carried(cs[d].stream)
      BY DEF Elsewhere, InLine
<1>2. DOMAIN cs2 = DOMAIN cs /\ Len(cs2) = Len(cs) BY DEF Elsewhere
<1>3. ASSUME NEW d \in DOMAIN cs2
      PROVE  /\ Below(Carried(cs2[d].stream), ToSet(po)) /\ Below(Carried(cs2[d].stream), Carried(un2))
             /\ Below(Arrived(rs, d), Carried(cs2[d].stream)) /\ Below(Arrived(rs, d), ToSet(po))
      BY <1>1, <1>2 DEF InLine, Below
<1>4. ASSUME NEW b \in DOMAIN cs2, NEW d \in DOMAIN cs2, b < d
      PROVE  Below(Carried(cs2[b].stream), Carried(cs2[d].stream))
  <2>1. Below(Carried(cs[b].stream), Carried(cs[d].stream)) BY <1>2, <1>4 DEF InLine
  <2> QED BY <2>1, <1>1 DEF Below
<1>5. Below(Carried(un2), ToSet(po)) /\ Below(Arrived(rs, Len(cs2)), Carried(un2))
      BY <1>2 DEF InLine, Below
<1>6. InLine(po, un2, cs2, rs) BY <1>1, <1>3, <1>4, <1>5 DEF InLine
<1>7. Known(po, un2, cs2, rs, n) BY <1>1 DEF Known
<1> QED BY <1>6, <1>7

\* Something that is no message is received.
LEMMA LineJunk ==
    ASSUME NEW po, NEW un, NEW cs, NEW n, NEW S, NEW rs \in Seq(S), NEW r \in S,
           InLine(po, un, cs, rs), Known(po, un, cs, rs, n), r.m \notin Message
    PROVE  InLine(po, un, cs, Append(rs, r)) /\ Known(po, un, cs, Append(rs, r), n)
<1> DEFINE qs == Append(rs, r)
<1>1. /\ qs[Len(rs) + 1] = r /\ DOMAIN qs = DOMAIN rs \cup {Len(rs) + 1}
      /\ \A i \in DOMAIN rs : qs[i] = rs[i]
      BY AppendIs
<1> HIDE DEF qs
<1>2. ASSUME NEW c PROVE Arrived(qs, c) = Arrived(rs, c)
  <2>1. ASSUME NEW x PROVE x \in Arrived(qs, c) <=> x \in Arrived(rs, c)
        BY <1>1 DEF Arrived
  <2> QED BY <2>1
<1>3. \A i, j \in DOMAIN qs :
          i < j /\ qs[i].conn = qs[j].conn /\ qs[i].m \in Message /\ qs[j].m \in Message
          => qs[i].m < qs[j].m
      BY <1>1 DEF InLine
<1>4. InLine(po, un, cs, qs) BY <1>2, <1>3 DEF InLine
<1>5. Known(po, un, cs, qs, n) BY <1>1 DEF Known
<1> QED BY <1>4, <1>5 DEF qs

\* A unit goes from the buffer to the end of the current stream.
LEMMA LineWrite ==
    ASSUME NEW po, NEW un \in Seq(Unit), un # <<>>, NEW cs \in Seq(ConnType), cs # <<>>,
           NEW n, NEW rs, InLine(po, un, cs, rs), Known(po, un, cs, rs, n),
           NEW cs2, Elsewhere(cs, cs2, Len(cs)),
           NEW u \in Unit, u = Head(un) \/ ~Data(u),
           cs2[Len(cs)].stream = Append(cs[Len(cs)].stream, u)
    PROVE  InLine(po, Tail(un), cs2, rs) /\ Known(po, Tail(un), cs2, rs, n)
<1> DEFINE c == Len(cs)
           us == cs[c].stream
           us2 == cs2[c].stream
           un2 == Tail(un)
           h == Head(un)
<1>0. c \in DOMAIN cs /\ c \in Nat /\ \A d \in DOMAIN cs : d \in Nat /\ d <= c OBVIOUS
<1>1. us \in Seq(Unit) BY <1>0, ConnFields
<1>2. DOMAIN cs2 = DOMAIN cs /\ Len(cs2) = c /\ \A d \in DOMAIN cs : d # c => cs2[d] = cs[d]
      BY DEF Elsewhere
<1>3. /\ Carried(un) = IF Data(h) THEN Carried(un2) \cup {h.m} ELSE Carried(un2)
      /\ Sorted(un) /\ Data(h) => Below({h.m}, Carried(un2))
      BY CarriedTail
<1>4. Sorted(un2) BY SortedTail DEF InLine
<1>5. Carried(us2) = IF Data(u) THEN Carried(us) \cup {u.m} ELSE Carried(us)
      BY <1>1, CarriedAppend
<1> HIDE DEF un2, h
<1>6. Data(u) => u.m \in Carried(un) /\ Below({u.m}, Carried(un2)) BY <1>3 DEF InLine, h
<1>7. Carried(un2) \subseteq Carried(un) BY <1>3
<1>8. Sorted(us2)
  <2>1. Data(u) => Below(Carried(us), {u.m}) BY <1>0, <1>6 DEF InLine, Below
  <2>2. Sorted(us) BY <1>0 DEF InLine
  <2> QED BY <2>1, <2>2, <1>1, SortedAppend
<1>c. cs2[c].stream = us2 /\ cs[c].stream = us OBVIOUS
<1> HIDE DEF us, us2, c
<1>9. \A x \in Carried(us2) : x \in Carried(us) \/ (Data(u) /\ x = u.m) BY <1>5
<1>10. \A d \in DOMAIN cs2 : Sorted(cs2[d].stream)
  <2>1. \A d \in DOMAIN cs : d # c => Sorted(cs2[d].stream) BY <1>2 DEF InLine
  <2> QED BY <2>1, <1>2, <1>8, <1>c
<1>11. ASSUME NEW d \in DOMAIN cs2
       PROVE  /\ Below(Carried(cs2[d].stream), ToSet(po)) /\ Below(Carried(cs2[d].stream), Carried(un2))
              /\ Below(Arrived(rs, d), Carried(cs2[d].stream)) /\ Below(Arrived(rs, d), ToSet(po))
  <2>1. CASE d # c
    <3>1. cs2[d] = cs[d] /\ d \in DOMAIN cs BY <2>1, <1>2
    <3> QED BY <3>1, <1>7 DEF InLine, Below
  <2>2. CASE d = c
    <3>1. /\ Below(Carried(us), ToSet(po)) /\ Below(Carried(us), Carried(un))
          /\ Below(Arrived(rs, c), Carried(us)) /\ Below(Arrived(rs, c), ToSet(po))
          /\ Below(Carried(un), ToSet(po)) /\ Below(Arrived(rs, c), Carried(un))
          BY <1>0, <1>c DEF InLine, c
    <3>2. Below(Carried(us2), ToSet(po)) BY <3>1, <1>6, <1>9 DEF Below
    <3>3. Below(Carried(us2), Carried(un2)) BY <3>1, <1>6, <1>7, <1>9 DEF Below
    <3>4. Below(Arrived(rs, c), Carried(us2)) BY <3>1, <1>6, <1>9 DEF Below
    <3> QED BY <2>2, <3>1, <3>2, <3>3, <3>4, <1>c
  <2> QED BY <2>1, <2>2
<1>12. ASSUME NEW b \in DOMAIN cs2, NEW d \in DOMAIN cs2, b < d
       PROVE  Below(Carried(cs2[b].stream), Carried(cs2[d].stream))
  <2>1. b # c /\ b \in DOMAIN cs /\ d \in DOMAIN cs /\ cs2[b] = cs[b] BY <1>0, <1>2, <1>12
  <2>2. Below(Carried(cs[b].stream), Carried(cs[d].stream))
        /\ Below(Carried(cs[b].stream), Carried(un))
        BY <2>1, <1>12 DEF InLine
  <2>3. CASE d # c BY <2>1, <2>2, <2>3, <1>2
  <2>4. CASE d = c
    <3>1. Below(Carried(cs[b].stream), Carried(us2)) BY <2>2, <2>4, <1>6, <1>9, <1>c DEF Below
    <3> QED BY <3>1, <2>1, <2>4, <1>c
  <2> QED BY <2>3, <2>4
<1>13. Below(Carried(un2), ToSet(po)) /\ Below(Arrived(rs, Len(cs2)), Carried(un2))
       BY <1>2, <1>7 DEF InLine, Below, c
<1>14. InLine(po, un2, cs2, rs) BY <1>4, <1>10, <1>11, <1>12, <1>13 DEF InLine
<1>15. Known(po, un2, cs2, rs, n)
  <2>1. \A d \in DOMAIN cs2 : Carried(cs2[d].stream) \subseteq 1..n
    <3>1. \A d \in DOMAIN cs : d # c => Carried(cs2[d].stream) \subseteq 1..n BY <1>2 DEF Known
    <3>2. Carried(us2) \subseteq 1..n BY <1>0, <1>6, <1>9, <1>c DEF Known
    <3> QED BY <3>1, <3>2, <1>2, <1>c
  <2> QED BY <2>1, <1>7 DEF Known
<1> QED BY <1>14, <1>15 DEF un2

\* A message is received: the first of its stream, and behind all that have been
\* received over this connection.
LEMMA LineReceive ==
    ASSUME NEW po, NEW un, NEW cs \in Seq(ConnType), NEW c \in DOMAIN cs,
           cs[c].stream # <<>>, Data(Head(cs[c].stream)),
           NEW n, NEW S, NEW rs \in Seq(S), NEW r \in S,
           r.m = Head(cs[c].stream).m, r.conn = c,
           InLine(po, un, cs, rs), Known(po, un, cs, rs, n),
           NEW cs2, Elsewhere(cs, cs2, c), cs2[c].stream = Tail(cs[c].stream)
    PROVE  InLine(po, un, cs2, Append(rs, r)) /\ Known(po, un, cs2, Append(rs, r), n)
<1> DEFINE us == cs[c].stream
           us2 == Tail(us)
           m == Head(us).m
           qs == Append(rs, r)
<1>0. us \in Seq(Unit) BY ConnFields
<1>1. Carried(us) = Carried(us2) \cup {m} BY <1>0, CarriedTail
<1>2. Sorted(us) BY DEF InLine
<1>3. Below({m}, Carried(us2)) /\ Sorted(us2) BY <1>0, <1>2, CarriedTail, SortedTail
<1>4. InLine(po, un, cs2, rs) /\ Known(po, un, cs2, rs, n)
  <2>1. Sorted(un) BY DEF InLine
  <2>2. Sorted(cs2[c].stream) /\ Carried(cs2[c].stream) \subseteq Carried(cs[c].stream)
        BY <1>1, <1>3
  <2>3. Carried(un) \subseteq Carried(un) OBVIOUS
  <2> QED BY <2>1, <2>2, <2>3, LineLose
<1>5. /\ qs[Len(rs) + 1] = r /\ DOMAIN qs = DOMAIN rs \cup {Len(rs) + 1}
      /\ \A i \in DOMAIN rs : qs[i] = rs[i] /\ i < Len(rs) + 1
      /\ Len(rs) \in Nat /\ DOMAIN rs \subseteq Nat
      BY AppendIs
<1>6. m \in Message /\ r.m = m BY DEF Data
<1>7. cs2[c].stream = us2 /\ cs[c].stream = us OBVIOUS
<1>8. DOMAIN cs2 = DOMAIN cs /\ Len(cs2) = Len(cs) BY DEF Elsewhere
<1> HIDE DEF qs, m, us2, us
<1>9. ASSUME NEW d, NEW x \in Arrived(qs, d) PROVE x \in Arrived(rs, d) \/ (d = c /\ x = m)
      BY <1>5, <1>6 DEF Arrived
<1>10. m \in Carried(us) /\ Below(Arrived(rs, c), Carried(us)) /\ Below(Carried(us), ToSet(po))
       /\ Below(Carried(us), Carried(un))
       BY <1>1, <1>7 DEF InLine
<1>11. ASSUME NEW d \in DOMAIN cs2
       PROVE  /\ Below(Arrived(qs, d), Carried(cs2[d].stream)) /\ Below(Arrived(qs, d), ToSet(po))
  <2>1. Below(Arrived(rs, d), Carried(cs2[d].stream)) /\ Below(Arrived(rs, d), ToSet(po))
        BY <1>4 DEF InLine
  <2>2. CASE d # c BY <2>1, <2>2, <1>9 DEF Below
  <2>3. CASE d = c BY <2>1, <2>3, <1>3, <1>7, <1>9, <1>10 DEF Below
  <2> QED BY <2>2, <2>3
<1>12. Below(Arrived(qs, Len(cs2)), Carried(un))
  <2>1. Below(Arrived(rs, Len(cs2)), Carried(un)) BY <1>4 DEF InLine
  <2> QED BY <2>1, <1>9, <1>10 DEF Below
<1>13. ASSUME NEW i \in DOMAIN qs, NEW j \in DOMAIN qs, i < j, qs[i].conn = qs[j].conn,
              qs[i].m \in Message, qs[j].m \in Message
       PROVE  qs[i].m < qs[j].m
  <2>1. i \in DOMAIN rs BY <1>5, <1>13
  <2>2. CASE j \in DOMAIN rs BY <2>1, <2>2, <1>5, <1>13 DEF InLine
  <2>3. CASE j = Len(rs) + 1
    <3>1. qs[j].m = m /\ rs[i].conn = c /\ rs[i].m \in Message /\ qs[i] = rs[i]
          BY <2>1, <2>3, <1>5, <1>6, <1>13
    <3>2. rs[i].m \in Arrived(rs, c) BY <2>1, <3>1 DEF Arrived
    <3> QED BY <3>1, <3>2, <1>10 DEF Below
  <2> QED BY <2>2, <2>3, <1>5
<1>14. InLine(po, un, cs2, qs) BY <1>4, <1>11, <1>12, <1>13 DEF InLine
<1>15. Known(po, un, cs2, qs, n)
  <2>1. m <= n
    <3>1. m \in 1..n BY <1>7, <1>10 DEF Known
    <3> QED BY <3>1, <1>6 DEF Message
  <2> QED BY <2>1, <1>4, <1>5, <1>6 DEF Known
<1> QED BY <1>14, <1>15 DEF qs

-----------------------------------------------------------------------------
(* How the steps keep streams readable. *)

\* Whatever is left of frames in the buffer is left of frames.
LEMMA WholeTail ==
    ASSUME NEW us \in Seq(Unit), us # <<>>, Whole(us)
    PROVE  Whole(Tail(us))
<1> DEFINE t == Tail(us)
<1>1. /\ t \in Seq(Unit) /\ \A i \in DOMAIN t : i + 1 \in DOMAIN us /\ t[i] = us[i + 1]
      BY TailIs
<1>2. Alternates(t) /\ (t # <<>> => t[Len(t)] = us[Len(us)]) BY AlternatesTail DEF Whole
<1> HIDE DEF t
<1>3. Whole(t) BY <1>1, <1>2 DEF Whole
<1> QED BY <1>3 DEF t

\* The part of a unit is one of two.
LEMMA Parts == ASSUME NEW us \in Seq(Unit), NEW i \in DOMAIN us
               PROVE  us[i] \in Unit /\ us[i].part \in {"meta", "data"}
<1>1. us[i] \in Unit OBVIOUS
<1> QED BY <1>1 DEF Unit

\* A frame behind the buffer, or in an empty one.
LEMMA ContinuesFrame ==
    ASSUME NEW cn, NEW un \in Seq(Unit), Continues(cn, un), NEW m \in Message \cup {Debug}
    PROVE  Continues(cn, Framing(un, m))
<1>1. /\ Framing(un, m) # <<>>
      /\ Framing(un, m)[1].part = IF un = <<>> THEN "meta" ELSE un[1].part
      BY FramingIs
<1> QED BY <1>1 DEF Continues

\* The system takes the first unit that is unsent.
LEMMA ContinuesWrite ==
    ASSUME NEW cn \in ConnType, cn.open, NEW un \in Seq(Unit), un # <<>>, Whole(un),
           Readable(cn), Continues(cn, un),
           NEW cn2, cn2.stream = Append(cn.stream, Head(un)), cn2.open = cn.open,
           cn2.awaits = cn.awaits
    PROVE  Readable(cn2) /\ Continues(cn2, Tail(un))
<1> SUFFICES ASSUME cn.awaits # "none" PROVE Readable(cn2) /\ Continues(cn2, Tail(un))
    BY DEF Readable, Continues
<1> DEFINE us == cn.stream
           us2 == cn2.stream
           h == Head(un)
           t == Tail(un)
<1>0. us \in Seq(Unit) /\ cn.awaits \in {"meta", "data"} BY DEF ConnType
<1>1. /\ t \in Seq(Unit) /\ h \in Unit /\ h = un[1] /\ 1 \in DOMAIN un BY TailIs
<1>2. h.part = Expected(cn) /\ h.part \in {"meta", "data"} /\ h.m # Junk
      BY <1>1 DEF Continues, Whole, Unit
<1>3. us2 = Append(us, h) OBVIOUS
<1>4. /\ us2 \in Seq(Unit) /\ Len(us2) = Len(us) + 1 /\ us2[Len(us) + 1] = h
      /\ DOMAIN us2 = DOMAIN us \cup {Len(us) + 1}
      /\ \A i \in DOMAIN us : us2[i] = us[i]
      BY <1>0, <1>1, <1>3, AppendIs
<1>5. us # <<>> => us[Len(us)].part # h.part
  <2>1. us # <<>> => Len(us) \in DOMAIN us BY <1>0
  <2> QED BY <2>1, <1>0, <1>2 DEF Expected
<1>6. Alternates(us2) BY <1>0, <1>1, <1>3, <1>5, AlternatesAppend DEF Readable
<1>7. us2 # <<>> /\ us2[1].part = cn.awaits
  <2>1. CASE us = <<>>
    <3>1. Len(us) + 1 = 1 BY <2>1
    <3>2. us2[1] = h BY <3>1, <1>4
    <3>3. h.part = cn.awaits BY <2>1, <1>2 DEF Expected
    <3> QED BY <3>1, <3>2, <3>3, <1>4
  <2>2. CASE us # <<>>
    <3>1. 1 \in DOMAIN us BY <2>2, <1>0
    <3>2. us2[1] = us[1] BY <3>1, <1>4
    <3> QED BY <2>2, <3>1, <3>2, <1>4 DEF Readable
  <2> QED BY <2>1, <2>2
<1>8. \A i \in DOMAIN us2 : us2[i].m # Junk BY <1>2, <1>4 DEF Readable
<1>9. Readable(cn2) BY <1>6, <1>7, <1>8 DEF Readable
<1>10. Expected(cn2) = IF h.part = "meta" THEN "data" ELSE "meta"
  <2>1. us2[Len(us2)] = h BY <1>4
  <2> QED BY <2>1, <1>7 DEF Expected
<1>11. /\ t # <<>> => t[1].part # h.part
       /\ t = <<>> => un[Len(un)] = h
       BY AlternatesTail DEF Whole
<1>12. CASE t = <<>>
  <2>1. h.part = "data" BY <1>11, <1>12 DEF Whole
  <2> QED BY <2>1, <1>9, <1>10, <1>12 DEF Continues
<1>13. CASE t # <<>>
  <2>1. 1 \in DOMAIN t BY <1>1, <1>13
  <2>2. t[1].part \in {"meta", "data"} BY <2>1, <1>1, Parts
  <2>3. t[1].part = Expected(cn2) BY <2>2, <1>2, <1>10, <1>11, <1>13
  <2> QED BY <2>3, <1>9, <1>13 DEF Continues
<1> QED BY <1>12, <1>13

\* The ServerSession reads what it expects and then expects the other part.
LEMMA ReadOn ==
    ASSUME NEW cn \in ConnType, cn.awaits # "none", cn.stream # <<>>, Readable(cn),
           NEW cn2, cn2.stream = Tail(cn.stream), cn2.open = cn.open,
           cn2.awaits \in {"meta", "data"}, cn2.awaits # cn.awaits
    PROVE  Readable(cn2) /\ Expected(cn2) = Expected(cn)
<1> DEFINE us == cn.stream
           t == Tail(us)
           h == Head(us)
<1>0. us \in Seq(Unit) /\ cn.awaits \in {"meta", "data"} BY DEF ConnType
<1>1. /\ t \in Seq(Unit) /\ h = us[1] /\ 1 \in DOMAIN us
      /\ \A i \in DOMAIN t : i + 1 \in DOMAIN us /\ t[i] = us[i + 1]
      BY <1>0, TailIs
<1>2. h.part = cn.awaits BY <1>1 DEF Readable
<1>3. /\ Alternates(t) /\ (t # <<>> => t[1].part # h.part /\ t[Len(t)] = us[Len(us)])
      /\ (t = <<>> => us[Len(us)] = h)
      BY <1>0, AlternatesTail DEF Readable
<1>c. cn2.stream = t /\ cn.stream = us OBVIOUS
<1> HIDE DEF t, us, h
<1>4. t # <<>> => t[1].part \in {"meta", "data"}
  <2>1. t # <<>> => 1 \in DOMAIN t BY <1>1
  <2> QED BY <2>1, <1>1, Parts
<1>5. t # <<>> => t[1].part = cn2.awaits BY <1>0, <1>2, <1>3, <1>4
<1>6. \A i \in DOMAIN t : t[i].m # Junk BY <1>1, <1>c DEF Readable
<1>7. Readable(cn2) BY <1>3, <1>5, <1>6, <1>c DEF Readable
<1>8. CASE t = <<>>
  <2>1. Expected(cn2) = cn2.awaits BY <1>8, <1>c DEF Expected
  <2>2. us[Len(us)].part = cn.awaits BY <1>2, <1>3, <1>8
  <2>3. Expected(cn) = IF cn.awaits = "meta" THEN "data" ELSE "meta" BY <2>2, <1>c DEF Expected
  <2> QED BY <2>1, <2>3, <1>0, <1>7
<1>9. CASE t # <<>>
  <2>1. t[Len(t)] = us[Len(us)] BY <1>3, <1>9
  <2> QED BY <2>1, <1>7, <1>9, <1>c DEF Expected
<1> QED BY <1>8, <1>9

\* A stream that is readable starts with a frame.
LEMMA ReadableFramed ==
    ASSUME NEW cn \in ConnType, cn.awaits # "none", cn.stream # <<>>, Readable(cn)
    PROVE  Head(cn.stream).part = cn.awaits /\ Head(cn.stream).m # Junk
<1> DEFINE us == cn.stream
<1>0. us \in Seq(Unit) /\ us # <<>> BY DEF ConnType
<1>1. Head(us) = us[1] /\ 1 \in DOMAIN us BY <1>0, TailIs
<1> QED BY <1>1 DEF Readable

\* A beginning of a stream is readable.
LEMMA ReadablePrefix ==
    ASSUME NEW cn \in ConnType, Readable(cn), NEW k \in 0..Len(cn.stream),
           NEW cn2, cn2.stream = SubSeq(cn.stream, 1, k), cn2.awaits = cn.awaits
    PROVE  Readable(cn2)
<1> DEFINE us == cn.stream
           t == SubSeq(us, 1, k)
<1>0. us \in Seq(Unit) BY DEF ConnType
<1>1. \A i \in DOMAIN t : i \in DOMAIN us /\ t[i] = us[i] BY <1>0, PrefixIs
<1>2. t \in Seq(Unit) BY <1>0, PrefixIs
<1>3. Alternates(us) => Alternates(t) BY <1>0, PrefixOrder
<1>c. cn2.stream = t /\ cn.stream = us OBVIOUS
<1> HIDE DEF t, us
<1>4. t # <<>> => 1 \in DOMAIN t /\ us # <<>> /\ t[1] = us[1]
  <2>1. t # <<>> => 1 \in DOMAIN t BY <1>2
  <2>2. 1 \in DOMAIN us => us # <<>> BY <1>0
  <2> QED BY <2>1, <2>2, <1>1
<1> QED BY <1>1, <1>3, <1>4, <1>c DEF Readable

-----------------------------------------------------------------------------
(* How the steps move what is on its way. *)

\* Flying is a set of messages.
LEMMA FlyingIs ==
    ASSUME NEW po, NEW un, NEW cs, NEW m
    PROVE  m \in Flying(po, un, cs) <=>
               /\ m \in Message
               /\ \/ m \in ToSet(po) \/ m \in Carried(un)
                  \/ \E c \in DOMAIN cs : cs[c].awaits # "none" /\ m \in Carried(cs[c].stream)
BY DEF Flying

\* A message is sent.
LEMMA FlySend ==
    ASSUME NEW po \in Seq(Message), NEW un, NEW cs, NEW m \in Message
    PROVE  Flying(Append(po, m), un, cs) = Flying(po, un, cs) \cup {m}
<1>1. ToSet(Append(po, m)) = ToSet(po) \cup {m}
  <2> DEFINE q == Append(po, m)
  <2>1. /\ DOMAIN q = DOMAIN po \cup {Len(po) + 1} /\ q[Len(po) + 1] = m
        /\ \A i \in DOMAIN po : q[i] = po[i]
        BY AppendIs
  <2> HIDE DEF q
  <2>2. ToSet(q) = ToSet(po) \cup {m} BY <2>1 DEF ToSet
  <2> QED BY <2>2 DEF q
<1> QED BY <1>1 DEF Flying

\* A posted message becomes a frame in the buffer.
LEMMA FlyFrame ==
    ASSUME NEW po \in Seq(Message), po # <<>>, NEW un \in Seq(Unit), NEW cs
    PROVE  Flying(Tail(po), Framing(un, Head(po)), cs) = Flying(po, un, cs)
<1> DEFINE q == Tail(po)
           m == Head(po)
<1>1. /\ m \in Message /\ m = po[1] /\ 1 \in DOMAIN po
      /\ \A i \in DOMAIN q : i + 1 \in DOMAIN po /\ q[i] = po[i + 1]
      /\ \A i \in DOMAIN po : i = 1 \/ (i - 1 \in DOMAIN q /\ q[i - 1] = po[i])
      BY TailIs
<1> HIDE DEF q, m
<1>2. ASSUME NEW x PROVE x \in ToSet(po) <=> x \in ToSet(q) \/ x = m
  <2>1. ASSUME x \in ToSet(po) PROVE x \in ToSet(q) \/ x = m
    <3>1. PICK i \in DOMAIN po : x = po[i] BY <2>1 DEF ToSet
    <3>2. CASE i = 1 BY <3>1, <3>2, <1>1
    <3>3. CASE i - 1 \in DOMAIN q /\ q[i - 1] = po[i] BY <3>1, <3>3 DEF ToSet
    <3> QED BY <3>2, <3>3, <1>1
  <2>2. ASSUME x \in ToSet(q) PROVE x \in ToSet(po) BY <1>1, <2>2 DEF ToSet
  <2>3. ASSUME x = m PROVE x \in ToSet(po) BY <1>1, <2>3 DEF ToSet
  <2> QED BY <2>1, <2>2, <2>3
<1>3. Carried(Framing(un, m)) = Carried(un) \cup {m}
  <2>1. m # Debug BY <1>1 DEF Message, Debug
  <2> QED BY <2>1, <1>1, FramingIs
<1>4. ASSUME NEW x PROVE x \in Flying(q, Framing(un, m), cs) <=> x \in Flying(po, un, cs)
      BY <1>1, <1>2, <1>3, FlyingIs
<1> QED BY <1>4 DEF q, m, Flying

\* A DebugMessage is not a message of Raft.
LEMMA FlyDebug ==
    ASSUME NEW po, NEW un \in Seq(Unit), NEW cs
    PROVE  Flying(po, Framing(un, Debug), cs) = Flying(po, un, cs)
<1>1. Carried(Framing(un, Debug)) = Carried(un) BY FramingIs
<1> QED BY <1>1 DEF Flying

\* A new connection carries nothing.
LEMMA FlyConnect ==
    ASSUME NEW po, NEW un, NEW cs \in Seq(ConnType), NEW cn \in ConnType, cn.stream = <<>>
    PROVE  Flying(po, un, Append(cs, cn)) = Flying(po, un, cs)
<1> DEFINE ds == Append(cs, cn)
<1>1. /\ ds[Len(cs) + 1] = cn /\ DOMAIN ds = DOMAIN cs \cup {Len(cs) + 1}
      /\ \A i \in DOMAIN cs : ds[i] = cs[i]
      BY AppendIs
<1> HIDE DEF ds
<1>2. Carried(<<>>) = {} BY DEF Carried
<1>3. ASSUME NEW x PROVE x \in Flying(po, un, ds) <=> x \in Flying(po, un, cs)
      BY <1>1, <1>2, FlyingIs
<1> QED BY <1>3 DEF ds, Flying

\* Nothing is on its way in what is thrown away, cut off or not read any more.
LEMMA FlyLose ==
    ASSUME NEW po, NEW un, NEW un2, NEW cs, NEW cs2, NEW c \in DOMAIN cs,
           Carried(un2) \subseteq Carried(un), Elsewhere(cs, cs2, c),
           Carried(cs2[c].stream) \subseteq Carried(cs[c].stream),
           cs2[c].awaits # "none" => cs[c].awaits # "none"
    PROVE  Flying(po, un2, cs2) \subseteq Flying(po, un, cs)
<1> SUFFICES ASSUME NEW m \in Flying(po, un2, cs2) PROVE m \in Flying(po, un, cs) OBVIOUS
<1>1. CASE m \in ToSet(po) \/ m \in Carried(un2) BY <1>1, FlyingIs
<1>2. CASE \E d \in DOMAIN cs2 : cs2[d].awaits # "none" /\ m \in Carried(cs2[d].stream)
  <2>1. PICK d \in DOMAIN cs2 : cs2[d].awaits # "none" /\ m \in Carried(cs2[d].stream) BY <1>2
  <2>2. d \in DOMAIN cs /\ cs[d].awaits # "none" /\ m \in Carried(cs[d].stream)
        BY <2>1 DEF Elsewhere
  <2> QED BY <2>2, FlyingIs
<1> QED BY <1>1, <1>2, FlyingIs

\* A unit that is no message's data is read.
LEMMA FlySame ==
    ASSUME NEW po, NEW un, NEW cs, NEW cs2, NEW c \in DOMAIN cs, Elsewhere(cs, cs2, c),
           Carried(cs2[c].stream) = Carried(cs[c].stream),
           cs2[c].awaits # "none", cs[c].awaits # "none"
    PROVE  Flying(po, un, cs2) = Flying(po, un, cs)
<1>1. ASSUME NEW m
      PROVE  (\E d \in DOMAIN cs2 : cs2[d].awaits # "none" /\ m \in Carried(cs2[d].stream))
             <=> (\E d \in DOMAIN cs : cs[d].awaits # "none" /\ m \in Carried(cs[d].stream))
      BY DEF Elsewhere
<1> QED BY <1>1 DEF Flying

\* A unit goes from the buffer to the stream; if it is not read there, or if it is
\* junk, its message is lost.
LEMMA FlyWrite ==
    ASSUME NEW po, NEW un \in Seq(Unit), un # <<>>, NEW cs \in Seq(ConnType), NEW c \in DOMAIN cs,
           NEW cs2, Elsewhere(cs, cs2, c), NEW u \in Unit, u = Head(un) \/ ~Data(u),
           cs2[c].stream = Append(cs[c].stream, u), cs2[c].awaits = cs[c].awaits
    PROVE  /\ Flying(po, Tail(un), cs2) \subseteq Flying(po, un, cs)
           /\ u = Head(un) /\ cs[c].awaits # "none" =>
                  Flying(po, un, cs) \subseteq Flying(po, Tail(un), cs2)
<1> DEFINE us == cs[c].stream
           us2 == cs2[c].stream
           un2 == Tail(un)
           h == Head(un)
<1>1. us \in Seq(Unit) BY ConnFields
<1>2. Carried(us2) = IF Data(u) THEN Carried(us) \cup {u.m} ELSE Carried(us)
      BY <1>1, CarriedAppend
<1>3. Carried(un) = IF Data(h) THEN Carried(un2) \cup {h.m} ELSE Carried(un2) BY CarriedTail
<1>4. /\ DOMAIN cs2 = DOMAIN cs /\ \A d \in DOMAIN cs : d # c => cs2[d] = cs[d]
      /\ cs2[c].stream = us2 /\ cs[c].stream = us
      BY DEF Elsewhere
<1> HIDE DEF us, us2, un2
<1>5. ASSUME NEW m \in Flying(po, un2, cs2) PROVE m \in Flying(po, un, cs)
  <2>1. CASE m \in ToSet(po) \/ m \in Carried(un2) BY <2>1, <1>3, <1>5, FlyingIs
  <2>2. CASE \E d \in DOMAIN cs2 : cs2[d].awaits # "none" /\ m \in Carried(cs2[d].stream)
    <3>1. PICK d \in DOMAIN cs2 : cs2[d].awaits # "none" /\ m \in Carried(cs2[d].stream) BY <2>2
    <3>2. CASE d # c BY <3>1, <3>2, <1>4, <1>5, FlyingIs
    <3>3. CASE d = c
      <4>1. m \in Carried(us) \/ m \in Carried(un) BY <3>1, <3>3, <1>2, <1>3, <1>4 DEF h
      <4>2. cs[c].awaits # "none" BY <3>1, <3>3
      <4> QED BY <4>1, <4>2, <1>4, <1>5, FlyingIs
    <3> QED BY <3>2, <3>3
  <2> QED BY <2>1, <2>2, <1>5, FlyingIs
<1>6. ASSUME u = h, cs[c].awaits # "none", NEW m \in Flying(po, un, cs)
      PROVE  m \in Flying(po, un2, cs2)
  <2>0. c \in DOMAIN cs2 /\ cs2[c].awaits # "none" /\ Carried(us) \subseteq Carried(cs2[c].stream)
        BY <1>2, <1>4, <1>6
  <2>1. CASE m \in ToSet(po) BY <2>1, <1>6, FlyingIs
  <2>2. CASE m \in Carried(un)
    <3>1. m \in Carried(un2) \/ m \in Carried(cs2[c].stream) BY <2>2, <1>2, <1>3, <1>4, <1>6
    <3> QED BY <3>1, <2>0, <1>6, FlyingIs
  <2>3. CASE \E d \in DOMAIN cs : cs[d].awaits # "none" /\ m \in Carried(cs[d].stream)
    <3>1. PICK d \in DOMAIN cs : cs[d].awaits # "none" /\ m \in Carried(cs[d].stream) BY <2>3
    <3>2. CASE d # c BY <3>1, <3>2, <1>4, <1>6, FlyingIs
    <3>3. CASE d = c BY <3>1, <3>3, <2>0, <1>4, <1>6, FlyingIs
    <3> QED BY <3>2, <3>3
  <2> QED BY <2>1, <2>2, <2>3, <1>6, FlyingIs
<1> QED BY <1>5, <1>6 DEF un2

\* A message that is received is not on its way any more: it was at one place.
LEMMA FlyReceive ==
    ASSUME NEW po, NEW un, NEW cs \in Seq(ConnType), NEW rs, InLine(po, un, cs, rs),
           NEW c \in DOMAIN cs, cs[c].stream # <<>>, Data(Head(cs[c].stream)),
           cs[c].awaits # "none",
           po \in Seq(Message), un \in Seq(Unit),
           NEW cs2, Elsewhere(cs, cs2, c), cs2[c].stream = Tail(cs[c].stream),
           cs2[c].awaits # "none"
    PROVE  /\ Head(cs[c].stream).m \in Flying(po, un, cs)
           /\ Flying(po, un, cs2) = Flying(po, un, cs) \ {Head(cs[c].stream).m}
<1> DEFINE us == cs[c].stream
           us2 == Tail(us)
           m == Head(us).m
<1>0. us \in Seq(Unit) BY ConnFields
<1>1. Carried(us) = Carried(us2) \cup {m} BY <1>0, CarriedTail
<1>2. Sorted(us) BY DEF InLine
<1>3. Below({m}, Carried(us2)) BY <1>0, <1>2, CarriedTail
<1>4. m \in Message /\ m \in Nat /\ ~(m < m) BY DEF Data, Message
<1>5. /\ DOMAIN cs2 = DOMAIN cs /\ \A d \in DOMAIN cs : d # c => cs2[d] = cs[d]
      /\ cs2[c].stream = us2 /\ cs[c].stream = us
      BY DEF Elsewhere
<1> HIDE DEF us, us2, m
<1>6. m \in Flying(po, un, cs) BY <1>1, <1>4, <1>5, FlyingIs
<1>7. m \notin ToSet(po) /\ m \notin Carried(un) /\ m \notin Carried(us2)
      BY <1>1, <1>3, <1>4, <1>5 DEF InLine, Below
<1>8. ASSUME NEW d \in DOMAIN cs, d # c PROVE m \notin Carried(cs[d].stream)
  <2>1. c \in Nat /\ d \in Nat OBVIOUS
  <2>2. c < d \/ d < c BY <2>1, <1>8
  <2>3. m \in Carried(cs[c].stream) BY <1>1, <1>5
  <2> QED BY <2>2, <2>3, <1>4 DEF InLine, Below
<1>9. m \notin Flying(po, un, cs2)
  <2>1. ASSUME NEW d \in DOMAIN cs2, m \in Carried(cs2[d].stream) PROVE FALSE
    <3>1. CASE d = c BY <3>1, <2>1, <1>5, <1>7
    <3>2. CASE d # c BY <3>2, <2>1, <1>5, <1>8
    <3> QED BY <3>1, <3>2
  <2> QED BY <2>1, <1>7, FlyingIs
<1>10. ASSUME NEW x, x # m PROVE x \in Flying(po, un, cs2) <=> x \in Flying(po, un, cs)
  <2>1. x \in Carried(us) <=> x \in Carried(us2) BY <1>1, <1>10
  <2>2. (\E d \in DOMAIN cs2 : cs2[d].awaits # "none" /\ x \in Carried(cs2[d].stream))
        <=> (\E d \in DOMAIN cs : cs[d].awaits # "none" /\ x \in Carried(cs[d].stream))
        BY <2>1, <1>5
  <2> QED BY <2>2, FlyingIs
<1>11. Flying(po, un, cs2) = Flying(po, un, cs) \ {m} BY <1>9, <1>10 DEF Flying
<1> QED BY <1>6, <1>11 DEF m, us

-----------------------------------------------------------------------------
(* The steps. *)

\* One connection changes.
LEMMA ConnChange ==
    ASSUME NEW cs \in Seq(ConnType), NEW c \in DOMAIN cs, NEW cn \in ConnType
    PROVE  LET cs2 == [cs EXCEPT ![c] = cn]
           IN  cs2 \in Seq(ConnType) /\ Len(cs2) = Len(cs) /\ Elsewhere(cs, cs2, c) /\ cs2[c] = cn
<1> DEFINE cs2 == [cs EXCEPT ![c] = cn]
<1>1. cs \in [1..Len(cs) -> ConnType] /\ Len(cs) \in Nat /\ DOMAIN cs = 1..Len(cs) OBVIOUS
<1>2. cs2 \in [1..Len(cs) -> ConnType] BY <1>1
<1>3. cs2 \in Seq(ConnType) /\ Len(cs2) = Len(cs) BY <1>1, <1>2
<1>4. cs2[c] = cn /\ \A d \in DOMAIN cs : d # c => cs2[d] = cs[d] BY <1>1
<1>5. DOMAIN cs2 = DOMAIN cs BY <1>1, <1>2
<1> QED BY <1>1, <1>3, <1>4, <1>5 DEF Elsewhere

\* A connection that fails, one that breaks, one that is read, and one whose end is read.
LEMMA Failed ==
    ASSUME NEW cs \in Seq(ConnType), NEW c \in DOMAIN cs
    PROVE  LET cs2 == [cs EXCEPT ![c] = [stream |-> <<>>, open |-> FALSE, awaits |-> "none"]]
           IN  /\ cs2 \in Seq(ConnType) /\ Len(cs2) = Len(cs) /\ Elsewhere(cs, cs2, c)
               /\ cs2[c].stream = <<>> /\ ~cs2[c].open /\ cs2[c].awaits = "none"
<1> DEFINE cn == [stream |-> <<>>, open |-> FALSE, awaits |-> "none"]
<1>1. cn \in ConnType
  <2>1. <<>> \in Seq(Unit) OBVIOUS
  <2> QED BY <2>1 DEF ConnType
<1>2. cn.stream = <<>> /\ ~cn.open /\ cn.awaits = "none" OBVIOUS
<1> HIDE DEF cn
<1>3. LET cs2 == [cs EXCEPT ![c] = cn]
      IN  cs2 \in Seq(ConnType) /\ Len(cs2) = Len(cs) /\ Elsewhere(cs, cs2, c) /\ cs2[c] = cn
  BY <1>1, ConnChange
<1> QED BY <1>2, <1>3 DEF cn

\* A connection from which a unit is read.
LEMMA ReadFrom ==
    ASSUME NEW cs \in Seq(ConnType), NEW c \in DOMAIN cs, cs[c].stream # <<>>,
           NEW a \in {"meta", "data"}
    PROVE  LET cs2 == [cs EXCEPT ![c].stream = Tail(@), ![c].awaits = a]
           IN  /\ cs2 \in Seq(ConnType) /\ Len(cs2) = Len(cs) /\ Elsewhere(cs, cs2, c)
               /\ cs2[c].stream = Tail(cs[c].stream) /\ cs2[c].open = cs[c].open
               /\ cs2[c].awaits = a
<1>0. cs[c] \in ConnType /\ cs[c].stream \in Seq(Unit) BY ConnFields
<1> DEFINE st == Tail(cs[c].stream)
           cn == [cs[c] EXCEPT !.stream = Tail(@), !.awaits = a]
<1>1. st \in Seq(Unit) BY <1>0, TailIs
<1>2. cn.stream = st /\ cn.open = cs[c].open /\ cn.awaits = a BY <1>0 DEF ConnType
<1>3. cn \in ConnType BY <1>0, <1>1 DEF ConnType
<1>4. [cs EXCEPT ![c].stream = Tail(@), ![c].awaits = a] = [cs EXCEPT ![c] = cn] BY <1>0
<1> HIDE DEF cn
<1>5. LET cs2 == [cs EXCEPT ![c] = cn]
      IN  cs2 \in Seq(ConnType) /\ Len(cs2) = Len(cs) /\ Elsewhere(cs, cs2, c) /\ cs2[c] = cn
  BY <1>3, ConnChange
<1> QED BY <1>2, <1>4, <1>5

\* A connection whose receiver has gone.
LEMMA Ended ==
    ASSUME NEW cs \in Seq(ConnType), NEW c \in DOMAIN cs
    PROVE  LET cs2 == [cs EXCEPT ![c].awaits = "none"]
           IN  /\ cs2 \in Seq(ConnType) /\ Len(cs2) = Len(cs) /\ Elsewhere(cs, cs2, c)
               /\ cs2[c].stream = cs[c].stream /\ cs2[c].open = cs[c].open
               /\ cs2[c].awaits = "none"
<1>0. cs[c] \in ConnType BY ConnFields
<1> DEFINE cn == [cs[c] EXCEPT !.awaits = "none"]
<1>2. cn.stream = cs[c].stream /\ cn.open = cs[c].open /\ cn.awaits = "none" BY <1>0 DEF ConnType
<1>3. cn \in ConnType BY <1>0 DEF ConnType
<1>4. [cs EXCEPT ![c].awaits = "none"] = [cs EXCEPT ![c] = cn] BY <1>0
<1> HIDE DEF cn
<1>5. LET cs2 == [cs EXCEPT ![c] = cn]
      IN  cs2 \in Seq(ConnType) /\ Len(cs2) = Len(cs) /\ Elsewhere(cs, cs2, c) /\ cs2[c] = cn
  BY <1>3, ConnChange
<1> QED BY <1>2, <1>4, <1>5

\* A connection to which a unit is written.
LEMMA Written ==
    ASSUME NEW cs \in Seq(ConnType), NEW c \in DOMAIN cs, NEW u \in Unit
    PROVE  LET cs2 == [cs EXCEPT ![c].stream = Append(@, u)]
           IN  /\ cs2 \in Seq(ConnType) /\ Len(cs2) = Len(cs) /\ Elsewhere(cs, cs2, c)
               /\ cs2[c].stream = Append(cs[c].stream, u) /\ cs2[c].open = cs[c].open
               /\ cs2[c].awaits = cs[c].awaits
<1>0. cs[c] \in ConnType /\ cs[c].stream \in Seq(Unit) BY ConnFields
<1> DEFINE st == Append(cs[c].stream, u)
           cn == [cs[c] EXCEPT !.stream = Append(@, u)]
<1>1. st \in Seq(Unit) BY <1>0, AppendIs
<1>2. cn.stream = st /\ cn.open = cs[c].open /\ cn.awaits = cs[c].awaits BY <1>0 DEF ConnType
<1>3. cn \in ConnType BY <1>0, <1>1 DEF ConnType
<1>4. [cs EXCEPT ![c].stream = Append(@, u)] = [cs EXCEPT ![c] = cn] BY <1>0
<1> HIDE DEF cn
<1>5. LET cs2 == [cs EXCEPT ![c] = cn]
      IN  cs2 \in Seq(ConnType) /\ Len(cs2) = Len(cs) /\ Elsewhere(cs, cs2, c) /\ cs2[c] = cn
  BY <1>3, ConnChange
<1> QED BY <1>2, <1>4, <1>5

\* What a step does for the network: some messages are lost, one is sent, one is
\* delivered, a buffer has grown under a write, or junk is delivered after that.
NetStep ==
    LET air == Flying(posted, Unsent(session), conns)
    IN  \/ air' \subseteq air /\ UNCHANGED <<sent, received, grown>>
        \/ /\ sent' = sent + 1 /\ sent + 1 \in Message /\ air' = air \cup {sent + 1}
           /\ UNCHANGED <<received, grown>>
        \/ \E m \in air, c \in Nat : /\ received' = Append(received, [m |-> m, conn |-> c])
                                     /\ air' = air \ {m} /\ UNCHANGED <<sent, grown>>
        \/ air' = air /\ grown' = TRUE /\ UNCHANGED <<sent, received>>
        \/ grown /\ \E c \in Nat : /\ received' = Append(received, [m |-> Junk, conn |-> c])
                                   /\ air' \subseteq air /\ UNCHANGED <<sent, grown>>

\* The invariant without its types, for the values of the variables.
Holds(po, un, cs, rs, n, s, g, b) ==
    /\ Whole(un) /\ InLine(po, un, cs, rs) /\ Known(po, un, cs, rs, n)
    /\ ~g => /\ Clean(s, un, cs) /\ \A i \in DOMAIN rs : rs[i].m # Junk
             /\ b = 0 => Complete(po, un, cs, rs, n)

\* The invariant is its types and its part about values.
LEMMA InvIs ==
    TransportInv <=>
        Types /\ Holds(posted, Unsent(session), conns, received, sent, session, grown, used.breaks)
BY DEF TransportInv, Holds

\* What is unsent is a sequence of units.
LEMMA UnsentType == ASSUME Types PROVE Unsent(session) \in Seq(Unit)
<1>1. CASE session = NoSession
  <2>1. Unsent(session) = <<>> BY <1>1 DEF Unsent
  <2> QED BY <2>1
<1>2. CASE session # NoSession BY <1>2, UnsentIs DEF Types
<1> QED BY <1>1, <1>2

\* A message is posted.
LEMMA SendStep == ASSUME TransportInv, Send PROVE TransportInv' /\ NetStep
<1> DEFINE un == Unsent(session)
<1>1. /\ Types /\ InLine(posted, un, conns, received) /\ Known(posted, un, conns, received, sent)
      /\ Whole(un)
      BY DEF TransportInv
<1>2. /\ posted \in Seq(Message) /\ sent \in Nat /\ sent + 1 \in Message /\ sent + 1 \in 0..MaxMessages
      BY <1>1, TransportAssumption DEF Types, Send, Message
<1>3. /\ posted' = Append(posted, sent + 1) /\ sent' = sent + 1 /\ session' = session
      /\ conns' = conns /\ received' = received /\ grown' = grown /\ used' = used
      BY DEF Send
<1>4. posted' \in Seq(Message) BY <1>2, <1>3, AppendIs
<1>5. Types' BY <1>1, <1>2, <1>3, <1>4 DEF Types
<1>6. Unsent(session)' = un BY <1>3
<1>7. \A i \in DOMAIN received : received[i].conn \in DOMAIN conns
  <2>1. DOMAIN conns = 1..Len(conns) BY <1>1 DEF Types
  <2> QED BY <2>1, <1>1 DEF Types
<1>8. /\ InLine(Append(posted, sent + 1), un, conns, received)
      /\ Known(Append(posted, sent + 1), un, conns, received, sent + 1)
      BY <1>1, <1>2, <1>7, LineSend
<1>9. Flying(Append(posted, sent + 1), un, conns) = Flying(posted, un, conns) \cup {sent + 1}
      BY <1>2, FlySend
<1>10. Complete(posted, un, conns, received, sent)
       => Complete(Append(posted, sent + 1), un, conns, received, sent + 1)
  <2> SUFFICES ASSUME Complete(posted, un, conns, received, sent), NEW m \in 1..(sent + 1),
                      \A i \in DOMAIN received : received[i].m # m
               PROVE  m \in Flying(Append(posted, sent + 1), un, conns)
      BY DEF Complete
  <2>1. m \in 1..sent \/ m = sent + 1 BY <1>2
  <2> QED BY <2>1, <1>9 DEF Complete
<1>11. Holds(posted', un, conns, received, sent', session, grown, used.breaks)
  BY <1>1, <1>3, <1>8, <1>10, InvIs DEF Holds
<1>12. TransportInv' BY <1>3, <1>5, <1>6, <1>11 DEF TransportInv, Holds
<1>13. NetStep BY <1>2, <1>3, <1>6, <1>9 DEF NetStep
<1> QED BY <1>12, <1>13

\* do_send_data: a frame goes into the buffer, of a new session if there is none.
LEMMA SendData ==
    ASSUME TransportInv, NEW m \in Message \cup {Debug}, do_send_data(m)
    PROVE  LET un == Unsent(session)
           IN  /\ Buffered(session') /\ Unsent(session)' = Framing(un, m)
               /\ conns' \in Seq(ConnType) /\ Len(conns') > 0 /\ Len(conns) <= Len(conns')
               /\ grown' \in BOOLEAN /\ (session'.dangling => grown') /\ (grown => grown')
               /\ InLine(posted, un, conns', received)
               /\ Known(posted, un, conns', received, sent)
               /\ Flying(posted, un, conns') = Flying(posted, un, conns)
               /\ Clean(session, un, conns) => Clean(session', Unsent(session)', conns')
               /\ (\A c \in DOMAIN conns : conns[c].open /\ conns[c].awaits # "none")
                  => \A c \in DOMAIN conns' : conns'[c].open /\ conns'[c].awaits # "none"
<1> DEFINE un == Unsent(session)
           cn == [stream |-> <<>>, open |-> TRUE, awaits |-> "meta"]
<1>1. /\ Types /\ InLine(posted, un, conns, received) /\ Known(posted, un, conns, received, sent)
      /\ conns \in Seq(ConnType) /\ grown \in BOOLEAN
      BY DEF TransportInv, Types
<1>2. un \in Seq(Unit) BY <1>1, UnsentType
<1>3. grown' = (grown \/ session'.dangling) BY DEF do_send_data
<1>4. cn \in ConnType
  <2>1. <<>> \in Seq(Unit) OBVIOUS
  <2> QED BY <2>1 DEF ConnType
<1>5. cn.stream = <<>> /\ cn.open /\ cn.awaits = "meta" OBVIOUS
<1>6. CASE session = NoSession
  <2>1. un = <<>> BY <1>6 DEF Unsent
  <2>2. session' = send(NewSession, m) /\ conns' = Append(conns, cn) BY <1>6 DEF do_send_data
  <2> HIDE DEF cn
  <2>3. Buffered(session') /\ Unsent(session') = Framing(<<>>, m)
        BY <2>2, NewSessionEffect, SendEffect
  <2>4. /\ conns' \in Seq(ConnType) /\ Len(conns') = Len(conns) + 1 /\ conns'[Len(conns) + 1] = cn
        /\ DOMAIN conns' = DOMAIN conns \cup {Len(conns) + 1} /\ Len(conns) \in Nat
        /\ \A i \in DOMAIN conns : conns'[i] = conns[i]
        BY <1>1, <1>4, <2>2, AppendIs
  <2>5. \A i \in DOMAIN received : received[i].conn \in 1..Len(conns) BY <1>1 DEF Types
  <2>6. InLine(posted, <<>>, Append(conns, cn), received) /\ Known(posted, <<>>, Append(conns, cn), received, sent)
        BY <1>1, <1>4, <1>5, <2>1, <2>5, LineConnect
  <2>7. Flying(posted, un, Append(conns, cn)) = Flying(posted, un, conns)
        BY <1>1, <1>4, <1>5, FlyConnect
  <2>8. session'.dangling \in BOOLEAN BY <2>3, SessionFields
  <2>9. Readable(cn) /\ Continues(cn, <<>>)
        BY <1>5 DEF Readable, Continues, Expected, Alternates
  <2>10. Continues(cn, Framing(<<>>, m)) BY <1>2, <2>1, <2>9, ContinuesFrame
  <2>11. Clean(session, un, conns) => Clean(session', Unsent(session'), conns')
        BY <2>3, <2>4, <2>9, <2>10 DEF Clean
  <2> QED BY <1>1, <1>3, <1>5, <2>1, <2>2, <2>3, <2>4, <2>6, <2>7, <2>8, <2>11
<1>7. CASE session # NoSession
  <2> HIDE DEF cn
  <2>1. session' = send(session, m) /\ conns' = conns BY <1>7 DEF do_send_data
  <2>2. Buffered(session) /\ Len(conns) > 0 BY <1>1, <1>7 DEF Types
  <2>3. Buffered(session') /\ Unsent(session') = Framing(un, m) BY <2>1, <2>2, SendEffect
  <2>4. session'.dangling \in BOOLEAN BY <2>3, SessionFields
  <2>5. Continues(conns[Len(conns)], un) => Continues(conns[Len(conns)], Framing(un, m))
        BY <1>2, ContinuesFrame
  <2>6. Clean(session, un, conns) => Clean(session', Unsent(session'), conns')
        BY <1>7, <2>1, <2>3, <2>5 DEF Clean
  <2>7. Len(conns) \in Nat BY <1>1
  <2> QED BY <1>1, <1>3, <2>1, <2>2, <2>3, <2>4, <2>6, <2>7
<1> QED BY <1>6, <1>7

\* The callback of send on the io thread.
LEMMA IoSendStep == ASSUME TransportInv, IoSend PROVE TransportInv' /\ NetStep
<1> DEFINE un == Unsent(session)
           un2 == Framing(un, Head(posted))
<1>1. /\ Types /\ Whole(un) /\ posted \in Seq(Message) /\ sent \in 0..MaxMessages
      /\ received \in Seq([m : Message \cup {Junk}, conn : Nat])
      /\ used \in [ticks : Nat, breaks : Nat] /\ grown \in BOOLEAN /\ conns \in Seq(ConnType)
      /\ \A i \in DOMAIN received : received[i].conn \in 1..Len(conns)
      BY DEF TransportInv, Types
<1>2. /\ posted # <<>> /\ do_send_data(Head(posted)) /\ posted' = Tail(posted)
      /\ received' = received /\ sent' = sent /\ used' = used
      BY DEF IoSend
<1>3. Head(posted) \in Message /\ Tail(posted) \in Seq(Message) BY <1>1, <1>2, TailIs
<1>4. un \in Seq(Unit) BY <1>1, UnsentType
<1>5. /\ Buffered(session') /\ Unsent(session)' = un2
      /\ conns' \in Seq(ConnType) /\ Len(conns') > 0 /\ Len(conns) <= Len(conns')
      /\ grown' \in BOOLEAN /\ (session'.dangling => grown') /\ (grown => grown')
      /\ InLine(posted, un, conns', received) /\ Known(posted, un, conns', received, sent)
      /\ Flying(posted, un, conns') = Flying(posted, un, conns)
      /\ Clean(session, un, conns) => Clean(session', Unsent(session)', conns')
      /\ (\A c \in DOMAIN conns : conns[c].open /\ conns[c].awaits # "none")
         => \A c \in DOMAIN conns' : conns'[c].open /\ conns'[c].awaits # "none"
      BY <1>2, <1>3, SendData
<1>6. Len(conns') \in DOMAIN conns' /\ Len(conns') \in Nat /\ Len(conns) \in Nat BY <1>1, <1>5
<1>7. \A i \in DOMAIN received : received[i].conn \in 1..Len(conns') BY <1>1, <1>5, <1>6
<1>8. Types' BY <1>1, <1>2, <1>3, <1>5, <1>7 DEF Types
<1>9. sent \in Nat BY <1>1
<1>10. InLine(Tail(posted), un2, conns', received) /\ Known(Tail(posted), un2, conns', received, sent)
      BY <1>1, <1>2, <1>4, <1>5, <1>6, <1>9, LineFrame
<1>11. Whole(un2) BY <1>1, <1>3, <1>4, FramingIs
<1>12. Flying(Tail(posted), un2, conns') = Flying(posted, un, conns)
      BY <1>1, <1>2, <1>4, <1>5, FlyFrame
<1>13. Complete(posted, un, conns, received, sent) => Complete(Tail(posted), un2, conns', received, sent)
      BY <1>5, <1>12 DEF Complete
<1>14. ~grown' => ~grown BY <1>5
<1> HIDE DEF un2
<1>15. Holds(posted', un2, conns', received, sent, session', grown', used.breaks)
      BY <1>2, <1>5, <1>10, <1>11, <1>13, <1>14, InvIs DEF Holds
<1>16. TransportInv' BY <1>2, <1>5, <1>8, <1>15 DEF TransportInv, Holds
<1>17. NetStep BY <1>1, <1>2, <1>5, <1>12 DEF NetStep
<1> QED BY <1>16, <1>17

\* A DebugMessage goes into the buffer.
LEMMA TickStep == ASSUME TransportInv, Tick PROVE TransportInv' /\ NetStep
<1> DEFINE un == Unsent(session)
           un2 == Framing(un, Debug)
<1>1. /\ Types /\ Whole(un) /\ posted \in Seq(Message) /\ sent \in 0..MaxMessages
      /\ received \in Seq([m : Message \cup {Junk}, conn : Nat])
      /\ used \in [ticks : Nat, breaks : Nat] /\ grown \in BOOLEAN /\ conns \in Seq(ConnType)
      /\ \A i \in DOMAIN received : received[i].conn \in 1..Len(conns)
      BY DEF TransportInv, Types
<1>2. /\ do_send_data(Debug) /\ posted' = posted
      /\ received' = received /\ sent' = sent /\ used' = [used EXCEPT !.ticks = @ + 1]
      BY DEF Tick
<1>3. used' \in [ticks : Nat, breaks : Nat] /\ used'.breaks = used.breaks BY <1>1, <1>2
<1>4. un \in Seq(Unit) BY <1>1, UnsentType
<1>5. /\ Buffered(session') /\ Unsent(session)' = un2
      /\ conns' \in Seq(ConnType) /\ Len(conns') > 0 /\ Len(conns) <= Len(conns')
      /\ grown' \in BOOLEAN /\ (session'.dangling => grown') /\ (grown => grown')
      /\ InLine(posted, un, conns', received) /\ Known(posted, un, conns', received, sent)
      /\ Flying(posted, un, conns') = Flying(posted, un, conns)
      /\ Clean(session, un, conns) => Clean(session', Unsent(session)', conns')
      /\ (\A c \in DOMAIN conns : conns[c].open /\ conns[c].awaits # "none")
         => \A c \in DOMAIN conns' : conns'[c].open /\ conns'[c].awaits # "none"
      BY <1>2, SendData
<1>6. Len(conns') \in Nat /\ Len(conns) \in Nat BY <1>1, <1>5
<1>7. \A i \in DOMAIN received : received[i].conn \in 1..Len(conns') BY <1>1, <1>5, <1>6
<1>8. Types' BY <1>1, <1>2, <1>3, <1>5, <1>7 DEF Types
<1>10. InLine(posted, un2, conns', received) /\ Known(posted, un2, conns', received, sent)
      BY <1>4, <1>5, LineDebug
<1>11. Whole(un2) BY <1>1, <1>4, FramingIs
<1>12. Flying(posted, un2, conns') = Flying(posted, un, conns) BY <1>4, <1>5, FlyDebug
<1>13. Complete(posted, un, conns, received, sent) => Complete(posted, un2, conns', received, sent)
      BY <1>5, <1>12 DEF Complete
<1>14. ~grown' => ~grown BY <1>5
<1> HIDE DEF un2
<1>15. Holds(posted, un2, conns', received, sent, session', grown', used.breaks)
      BY <1>5, <1>10, <1>11, <1>13, <1>14, InvIs DEF Holds
<1>16. TransportInv' BY <1>2, <1>3, <1>5, <1>8, <1>15 DEF TransportInv, Holds
<1>17. NetStep BY <1>1, <1>2, <1>5, <1>12 DEF NetStep
<1> QED BY <1>16, <1>17

\* The session changes and what is unsent does not: a write begins, or ends.
LEMMA SessionStep ==
    ASSUME TransportInv, session # NoSession, Buffered(session'), Unsent(session)' = Unsent(session),
           session'.dangling => session.dangling,
           UNCHANGED <<posted, conns, received, sent, grown, used>>
    PROVE  TransportInv' /\ NetStep
<1> DEFINE un == Unsent(session)
<1>1. Types' BY DEF TransportInv, Types
<1>2. session' # NoSession BY SessionFields
<1>3. Clean(session, un, conns) => Clean(session', un, conns) BY DEF Clean
<1>4. TransportInv' BY <1>1, <1>3 DEF TransportInv
<1>5. NetStep BY DEF NetStep
<1> QED BY <1>4, <1>5

\* start_connect's handler.
LEMMA ConnectedStep == ASSUME TransportInv, Connected PROVE TransportInv' /\ NetStep
<1>1. /\ session # NoSession /\ ~session.connected
      /\ session' = start_write([session EXCEPT !.connected = TRUE])
      /\ UNCHANGED <<posted, conns, received, sent, grown, used>>
      BY DEF Connected, Connecting
<1>2. Buffered(session) BY <1>1 DEF TransportInv, Types
<1>3. /\ Buffered(session') /\ Unsent(session') = Unsent(session)
      /\ session'.dangling => session.dangling
      BY <1>1, <1>2, ConnectEffect
<1> QED BY <1>1, <1>3, SessionStep

\* start_write's handler.
LEMMA WriteDoneStep == ASSUME TransportInv, WriteDone PROVE TransportInv' /\ NetStep
<1>1. /\ session # NoSession /\ session.writing > 0 /\ session.taken = session.writing
      /\ session' = start_write(read_bytes(session, session.writing))
      /\ UNCHANGED <<posted, conns, received, sent, grown, used>>
      BY DEF WriteDone, Writing
<1>2. Buffered(session) BY <1>1 DEF TransportInv, Types
<1>3. /\ Buffered(session') /\ Unsent(session') = Unsent(session)
      /\ session'.dangling => session.dangling
      BY <1>1, <1>2, WriteDoneEffect
<1> QED BY <1>1, <1>3, SessionStep

\* A session or a connection comes to an end: units are lost, and that needs a
\* break, now or before, or a buffer that has grown.
LEMMA LossStep ==
    ASSUME TransportInv, NEW c \in DOMAIN conns,
           conns' \in Seq(ConnType), Len(conns') = Len(conns), Elsewhere(conns, conns', c),
           Carried(conns'[c].stream) \subseteq Carried(conns[c].stream), Sorted(conns'[c].stream),
           conns'[c].awaits # "none" => conns[c].awaits # "none",
           Readable(conns[c]) => Readable(conns'[c]), ~conns'[c].open,
           session' \in {session, NoSession}, used' \in [ticks : Nat, breaks : Nat],
           ~grown /\ used'.breaks = 0 => used.breaks = 0 /\ ~conns[c].open,
           UNCHANGED <<posted, received, sent, grown>>
    PROVE  TransportInv' /\ NetStep
<1> DEFINE un == Unsent(session)
           un2 == Unsent(session')
<1>1. /\ Types /\ Whole(un) /\ InLine(posted, un, conns, received)
      /\ Known(posted, un, conns, received, sent)
      BY DEF TransportInv
<1>2. un2 = un \/ un2 = <<>> BY DEF Unsent
<1>3. Whole(<<>>) /\ Sorted(<<>>) /\ Carried(<<>>) = {} BY DEF Whole, Sorted, Carried, Alternates
<1>4. Whole(un2) /\ Sorted(un2) /\ Carried(un2) \subseteq Carried(un)
      BY <1>1, <1>2, <1>3 DEF InLine
<1>5. Types' BY <1>1 DEF Types
<1>6. InLine(posted, un2, conns', received) /\ Known(posted, un2, conns', received, sent)
      BY <1>1, <1>4, LineLose
<1>7. Flying(posted, un2, conns') \subseteq Flying(posted, un, conns) BY <1>4, FlyLose
<1>8. Clean(session, un, conns) => Clean(session', un2, conns')
  <2> SUFFICES ASSUME Clean(session, un, conns) PROVE Clean(session', un2, conns') OBVIOUS
  <2>1. ASSUME NEW d \in DOMAIN conns' PROVE Readable(conns'[d]) BY DEF Clean, Elsewhere
  <2>2. ASSUME session' # NoSession PROVE Continues(conns'[Len(conns')], un2)
    <3>1. session' = session /\ un2 = un /\ Len(conns) > 0 BY <2>2, <1>1 DEF Types
    <3>2. Continues(conns[Len(conns)], un) BY <2>2, <3>1 DEF Clean
    <3>3. Len(conns) \in DOMAIN conns BY <1>1, <3>1 DEF Types
    <3>4. CASE c = Len(conns) BY <3>4 DEF Continues
    <3>5. CASE c # Len(conns) BY <3>1, <3>2, <3>3, <3>5 DEF Elsewhere
    <3> QED BY <3>4, <3>5
  <2> QED BY <2>1, <2>2 DEF Clean
<1>9. ~(~grown /\ used'.breaks = 0)
  <2>1. ~grown /\ used'.breaks = 0 => Complete(posted, un, conns, received, sent)
        BY DEF TransportInv
  <2> QED BY <2>1 DEF Complete
<1> HIDE DEF un, un2
<1>10. TransportInv' BY <1>4, <1>5, <1>6, <1>8, <1>9 DEF TransportInv, un, un2
<1>11. NetStep BY <1>7 DEF NetStep, un, un2
<1> QED BY <1>10, <1>11

\* The session's connection.
LEMMA CurrentIs ==
    ASSUME Types, session # NoSession
    PROVE  Current \in DOMAIN conns /\ Current = Len(conns) /\ conns \in Seq(ConnType)
BY DEF Types, Current

\* A break is counted.
LEMMA CountBreak ==
    ASSUME NEW us \in [ticks : Nat, breaks : Nat]
    PROVE  LET us2 == [us EXCEPT !.breaks = @ + 1]
           IN  us2 \in [ticks : Nat, breaks : Nat] /\ us2.breaks # 0
OBVIOUS

\* A stream without units.
LEMMA EmptyStream == Sorted(<<>>) /\ Carried(<<>>) = {}
BY DEF Sorted, Carried

\* A connect that fails throws the buffer away.
LEMMA ConnectFailsStep == ASSUME TransportInv, ConnectFails PROVE TransportInv' /\ NetStep
<1> DEFINE c == Current
<1>1. /\ session # NoSession /\ session' = NoSession
      /\ conns' = [conns EXCEPT ![c] = [stream |-> <<>>, open |-> FALSE, awaits |-> "none"]]
      /\ used' = [used EXCEPT !.breaks = @ + 1]
      /\ UNCHANGED <<posted, received, sent, grown>>
      BY DEF ConnectFails, Connecting
<1>2. Types /\ used \in [ticks : Nat, breaks : Nat] BY DEF TransportInv, Types
<1>3. c \in DOMAIN conns /\ conns \in Seq(ConnType) BY <1>1, <1>2, CurrentIs
<1> HIDE DEF c
<1>4. /\ conns' \in Seq(ConnType) /\ Len(conns') = Len(conns) /\ Elsewhere(conns, conns', c)
      /\ conns'[c].stream = <<>> /\ ~conns'[c].open /\ conns'[c].awaits = "none"
      BY <1>1, <1>3, Failed
<1>5. used' \in [ticks : Nat, breaks : Nat] /\ used'.breaks # 0 BY <1>1, <1>2, CountBreak
<1>6. Readable(conns'[c]) BY <1>4 DEF Readable
<1> QED BY <1>1, <1>3, <1>4, <1>5, <1>6, EmptyStream, LossStep

\* A write that fails throws the buffer away.
LEMMA WriteFailsStep == ASSUME TransportInv, WriteFails PROVE TransportInv' /\ NetStep
<1> DEFINE c == Current
<1>1. /\ session # NoSession /\ session' = NoSession /\ ~conns[c].open
      /\ UNCHANGED <<posted, conns, received, sent, grown, used>>
      BY DEF WriteFails, Writing
<1>2. Types /\ used \in [ticks : Nat, breaks : Nat] BY DEF TransportInv, Types
<1>3. c \in DOMAIN conns /\ conns \in Seq(ConnType) BY <1>1, <1>2, CurrentIs
<1> HIDE DEF c
<1>4. Elsewhere(conns, conns', c) BY <1>1 DEF Elsewhere
<1>5. Sorted(conns[c].stream) BY <1>3 DEF TransportInv, InLine
<1> QED BY <1>1, <1>2, <1>3, <1>4, <1>5, LossStep

\* A connection breaks.
LEMMA BreakStep ==
    ASSUME TransportInv, NEW c \in 1..Current, Break(c) PROVE TransportInv' /\ NetStep
<1>1. /\ session' = session
      /\ used' = [used EXCEPT !.breaks = @ + 1]
      /\ UNCHANGED <<posted, received, sent, grown>>
      BY DEF Break
<1>2. Types /\ used \in [ticks : Nat, breaks : Nat] /\ conns \in Seq(ConnType) BY DEF TransportInv, Types
<1>3. c \in DOMAIN conns BY <1>2 DEF Current
<1>4. PICK k \in 0..Len(conns[c].stream) :
          conns' = [conns EXCEPT ![c].open = FALSE, ![c].stream = SubSeq(@, 1, k)]
      BY DEF Break
<1>5. /\ conns' \in Seq(ConnType) /\ Len(conns') = Len(conns) /\ Elsewhere(conns, conns', c)
      /\ conns'[c].stream = SubSeq(conns[c].stream, 1, k) /\ ~conns'[c].open
      /\ conns'[c].awaits = conns[c].awaits
  <2> DEFINE cn == [conns[c] EXCEPT !.open = FALSE, !.stream = SubSeq(@, 1, k)]
  <2>1. conns[c] \in ConnType /\ conns[c].stream \in Seq(Unit) BY <1>2, <1>3, ConnFields
  <2>2. SubSeq(conns[c].stream, 1, k) \in Seq(Unit) BY <1>4, <2>1, PrefixIs
  <2>3. cn.stream = SubSeq(conns[c].stream, 1, k) /\ ~cn.open /\ cn.awaits = conns[c].awaits
        BY <2>1 DEF ConnType
  <2>4. cn \in ConnType BY <2>1, <2>2 DEF ConnType
  <2>5. conns' = [conns EXCEPT ![c] = cn] BY <1>4, <2>1
  <2> HIDE DEF cn
  <2> QED BY <1>2, <1>3, <2>3, <2>4, <2>5, ConnChange
<1>6. used' \in [ticks : Nat, breaks : Nat] /\ used'.breaks # 0 BY <1>1, <1>2, CountBreak
<1>7. conns[c] \in ConnType /\ conns[c].stream \in Seq(Unit) BY <1>2, <1>3, ConnFields
<1>8. Readable(conns[c]) => Readable(conns'[c]) BY <1>5, <1>7, ReadablePrefix
<1>9. Sorted(conns[c].stream) BY <1>3 DEF TransportInv, InLine
<1>10. Carried(conns'[c].stream) \subseteq Carried(conns[c].stream) /\ Sorted(conns'[c].stream)
      BY <1>5, <1>7, <1>9, PrefixOrder
<1> QED BY <1>1, <1>3, <1>5, <1>6, <1>8, <1>10, LossStep

\* The receiver sees the end of a broken connection.
LEMMA ReadEndStep ==
    ASSUME TransportInv, NEW c \in 1..Current, ReadEnd(c) PROVE TransportInv' /\ NetStep
<1>1. /\ conns' = [conns EXCEPT ![c].awaits = "none"] /\ ~conns[c].open
      /\ UNCHANGED <<posted, session, received, sent, grown, used>>
      BY DEF ReadEnd
<1>2. Types /\ used \in [ticks : Nat, breaks : Nat] /\ conns \in Seq(ConnType) BY DEF TransportInv, Types
<1>3. c \in DOMAIN conns BY <1>2 DEF Current
<1>4. /\ conns' \in Seq(ConnType) /\ Len(conns') = Len(conns) /\ Elsewhere(conns, conns', c)
      /\ conns'[c].stream = conns[c].stream /\ conns'[c].open = conns[c].open
      /\ conns'[c].awaits = "none"
      BY <1>1, <1>2, <1>3, Ended
<1>5. Readable(conns'[c]) BY <1>4 DEF Readable
<1>6. Sorted(conns[c].stream) BY <1>3 DEF TransportInv, InLine
<1> QED BY <1>1, <1>2, <1>3, <1>4, <1>5, <1>6, LossStep

\* A unit is read that is no message's data, or after a buffer has grown.
LEMMA ReadStep ==
    ASSUME TransportInv, NEW c \in DOMAIN conns, conns[c].awaits # "none", conns[c].stream # <<>>,
           conns' \in Seq(ConnType), Len(conns') = Len(conns), Elsewhere(conns, conns', c),
           conns'[c].stream = Tail(conns[c].stream), conns'[c].open = conns[c].open,
           conns'[c].awaits \in {"meta", "data"},
           ~grown => conns'[c].awaits # conns[c].awaits /\ ~Data(Head(conns[c].stream)),
           \/ received' = received
           \/ grown /\ received' = Append(received, [m |-> Junk, conn |-> c]),
           UNCHANGED <<posted, session, sent, grown, used>>
    PROVE  TransportInv' /\ NetStep
<1> DEFINE un == Unsent(session)
           r == [m |-> Junk, conn |-> c]
           R == [m : Message \cup {Junk}, conn : Nat]
<1>1. /\ Types /\ Whole(un) /\ InLine(posted, un, conns, received)
      /\ Known(posted, un, conns, received, sent) /\ conns \in Seq(ConnType) /\ received \in Seq(R)
      BY DEF TransportInv, Types
<1>2. conns[c] \in ConnType /\ conns[c].stream \in Seq(Unit) BY <1>1, ConnFields
<1>3. Sorted(un) /\ Sorted(conns[c].stream) BY <1>1 DEF InLine
<1>4. /\ Sorted(Tail(conns[c].stream)) /\ Carried(Tail(conns[c].stream)) \subseteq Carried(conns[c].stream)
      /\ ~Data(Head(conns[c].stream)) => Carried(Tail(conns[c].stream)) = Carried(conns[c].stream)
      BY <1>2, <1>3, SortedTail, CarriedTail
<1>5. InLine(posted, un, conns', received) /\ Known(posted, un, conns', received, sent)
      BY <1>1, <1>3, <1>4, LineLose
<1>6. c \in Nat /\ c \in 1..Len(conns) BY <1>1
<1>7. r \in R /\ r.m \notin Message /\ r.conn = c BY <1>6 DEF Message, Junk
<1>8. Flying(posted, un, conns') \subseteq Flying(posted, un, conns) BY <1>4, FlyLose
<1>9. Clean(session, un, conns) /\ ~grown => Clean(session, un, conns')
  <2> SUFFICES ASSUME Clean(session, un, conns), ~grown PROVE Clean(session, un, conns') OBVIOUS
  <2>1. Readable(conns'[c]) /\ Expected(conns'[c]) = Expected(conns[c]) BY <1>2, ReadOn DEF Clean
  <2>2. ASSUME NEW d \in DOMAIN conns' PROVE Readable(conns'[d]) BY <2>1 DEF Clean, Elsewhere
  <2>3. ASSUME session # NoSession PROVE Continues(conns'[Len(conns')], un)
    <3>1. Continues(conns[Len(conns)], un) BY <2>3 DEF Clean
    <3>2. Len(conns) \in DOMAIN conns BY <1>1, <2>3 DEF Types
    <3>3. CASE c = Len(conns) BY <3>1, <3>3, <2>1 DEF Continues
    <3>4. CASE c # Len(conns) BY <3>1, <3>2, <3>4 DEF Elsewhere
    <3> QED BY <3>3, <3>4
  <2> QED BY <2>2, <2>3 DEF Clean
<1>10. Complete(posted, un, conns, received, sent) /\ ~grown => Complete(posted, un, conns', received, sent)
  <2> SUFFICES ASSUME Complete(posted, un, conns, received, sent), ~grown
               PROVE  Complete(posted, un, conns', received, sent)
      OBVIOUS
  <2>1. Flying(posted, un, conns') = Flying(posted, un, conns) BY <1>4, FlySame
  <2>2. conns'[c].open /\ conns'[c].awaits # "none" BY DEF Complete
  <2>3. \A d \in DOMAIN conns' : conns'[d].open /\ conns'[d].awaits # "none"
        BY <2>2 DEF Complete, Elsewhere
  <2> QED BY <2>1, <2>3 DEF Complete
<1> HIDE DEF un
<1>11. CASE received' = received
  <2>1. Types' BY <1>1, <1>11 DEF Types
  <2>2. TransportInv' BY <1>1, <1>5, <1>9, <1>10, <1>11, <2>1 DEF TransportInv, un
  <2>3. NetStep BY <1>8, <1>11 DEF NetStep, un
  <2> QED BY <2>2, <2>3
<1>12. CASE grown /\ received' = Append(received, [m |-> Junk, conn |-> c])
  <2> HIDE DEF R, r
  <2>1. received' = Append(received, r) BY <1>12 DEF r
  <2>2. /\ received' \in Seq(R) /\ DOMAIN received' = DOMAIN received \cup {Len(received) + 1}
        /\ received'[Len(received) + 1] = r /\ \A i \in DOMAIN received : received'[i] = received[i]
        BY <1>1, <1>7, <2>1, AppendIs
  <2>3. \A i \in DOMAIN received' : received'[i].conn \in 1..Len(conns')
        BY <1>1, <1>6, <1>7, <2>2 DEF Types
  <2>4. Types' BY <1>1, <2>2, <2>3 DEF Types, R
  <2>5. InLine(posted, un, conns', Append(received, r)) /\ Known(posted, un, conns', Append(received, r), sent)
        BY <1>1, <1>5, <1>7, LineJunk
  <2>6. TransportInv' BY <1>1, <1>12, <2>1, <2>4, <2>5 DEF TransportInv, un
  <2>7. NetStep BY <1>6, <1>8, <1>12 DEF NetStep, un
  <2> QED BY <2>6, <2>7
<1> QED BY <1>11, <1>12

\* start_read_meta's handler.
LEMMA ReadMetaStep ==
    ASSUME TransportInv, NEW c \in 1..Current, ReadMeta(c) PROVE TransportInv' /\ NetStep
<1>1. /\ conns[c].awaits # "none" /\ conns[c].stream # <<>> /\ conns[c].awaits = "meta"
      /\ Head(conns[c].stream).part = "meta"
      /\ conns' = [conns EXCEPT ![c].stream = Tail(@), ![c].awaits = "data"]
      /\ UNCHANGED <<posted, session, received, sent, grown, used>>
      BY DEF ReadMeta, Read, Framed
<1>2. conns \in Seq(ConnType) BY DEF TransportInv, Types
<1>3. c \in DOMAIN conns BY <1>2 DEF Current
<1>4. /\ conns' \in Seq(ConnType) /\ Len(conns') = Len(conns) /\ Elsewhere(conns, conns', c)
      /\ conns'[c].stream = Tail(conns[c].stream) /\ conns'[c].open = conns[c].open
      /\ conns'[c].awaits = "data"
      BY <1>1, <1>2, <1>3, ReadFrom
<1>5. ~Data(Head(conns[c].stream)) BY <1>1 DEF Data
<1> QED BY <1>1, <1>3, <1>4, <1>5, ReadStep

\* The receiver finds what it does not expect, which needs a buffer that has grown.
LEMMA ReadJunkStep ==
    ASSUME TransportInv, NEW c \in 1..Current, ReadJunk(c) PROVE TransportInv' /\ NetStep
<1>1. /\ conns[c].awaits # "none" /\ conns[c].stream # <<>> /\ ~Framed(c)
      /\ UNCHANGED <<posted, session, sent, grown, used>>
      BY DEF ReadJunk, Read
<1>2. conns \in Seq(ConnType) /\ used \in [ticks : Nat, breaks : Nat] BY DEF TransportInv, Types
<1>3. c \in DOMAIN conns BY <1>2 DEF Current
<1>4. conns[c] \in ConnType BY <1>2, <1>3, ConnFields
<1>5. grown
  <2> SUFFICES ASSUME ~grown PROVE FALSE OBVIOUS
  <2>1. Readable(conns[c]) BY <1>3 DEF TransportInv, Clean
  <2> QED BY <1>1, <1>4, <2>1, ReadableFramed DEF Framed
<1>6. CASE /\ conns' = [conns EXCEPT ![c] = [stream |-> <<>>, open |-> FALSE, awaits |-> "none"]]
           /\ UNCHANGED received
  <2>1. /\ conns' \in Seq(ConnType) /\ Len(conns') = Len(conns) /\ Elsewhere(conns, conns', c)
        /\ conns'[c].stream = <<>> /\ ~conns'[c].open /\ conns'[c].awaits = "none"
        BY <1>2, <1>3, <1>6, Failed
  <2>2. Readable(conns'[c]) BY <2>1 DEF Readable
  <2> QED BY <1>1, <1>2, <1>3, <1>5, <1>6, <2>1, <2>2, EmptyStream, LossStep
<1>7. CASE /\ \E a \in {"meta", "data"} :
                  conns' = [conns EXCEPT ![c].stream = Tail(@), ![c].awaits = a]
           /\ received' \in {received, Append(received, [m |-> Junk, conn |-> c])}
  <2>1. PICK a \in {"meta", "data"} : conns' = [conns EXCEPT ![c].stream = Tail(@), ![c].awaits = a]
        BY <1>7
  <2>2. /\ conns' \in Seq(ConnType) /\ Len(conns') = Len(conns) /\ Elsewhere(conns, conns', c)
        /\ conns'[c].stream = Tail(conns[c].stream) /\ conns'[c].open = conns[c].open
        /\ conns'[c].awaits = a
    <3>1. CASE a = "meta"
      <4>1. conns' = [conns EXCEPT ![c].stream = Tail(@), ![c].awaits = "meta"] BY <2>1, <3>1
      <4> QED BY <1>1, <1>2, <1>3, <3>1, <4>1, ReadFrom
    <3>2. CASE a = "data"
      <4>1. conns' = [conns EXCEPT ![c].stream = Tail(@), ![c].awaits = "data"] BY <2>1, <3>2
      <4> QED BY <1>1, <1>2, <1>3, <3>2, <4>1, ReadFrom
    <3> QED BY <2>1, <3>1, <3>2
  <2> QED BY <1>1, <1>3, <1>5, <1>7, <2>2, ReadStep
<1> QED BY <1>6, <1>7 DEF ReadJunk

\* start_read_message's handler: a message is delivered.
LEMMA ReadMessageStep ==
    ASSUME TransportInv, NEW c \in 1..Current, ReadMessage(c) PROVE TransportInv' /\ NetStep
<1> DEFINE un == Unsent(session)
           m == Head(conns[c].stream).m
           r == [m |-> m, conn |-> c]
           R == [m : Message \cup {Junk}, conn : Nat]
<1>1. /\ conns[c].awaits = "data" /\ conns[c].stream # <<>>
      /\ Head(conns[c].stream).part = "data" /\ m # Junk
      /\ received' = IF m = Debug THEN received ELSE Append(received, r)
      /\ conns' = [conns EXCEPT ![c].stream = Tail(@), ![c].awaits = "meta"]
      /\ UNCHANGED <<posted, session, sent, grown, used>>
      BY DEF ReadMessage, Read, Framed
<1>2. /\ Types /\ Whole(un) /\ InLine(posted, un, conns, received)
      /\ Known(posted, un, conns, received, sent) /\ conns \in Seq(ConnType) /\ received \in Seq(R)
      /\ posted \in Seq(Message)
      BY DEF TransportInv, Types
<1>3. c \in DOMAIN conns /\ c \in Nat /\ c \in 1..Len(conns) BY <1>2 DEF Current
<1>4. conns[c] \in ConnType /\ conns[c].stream \in Seq(Unit) BY <1>2, <1>3, ConnFields
<1>5. /\ conns' \in Seq(ConnType) /\ Len(conns') = Len(conns) /\ Elsewhere(conns, conns', c)
      /\ conns'[c].stream = Tail(conns[c].stream) /\ conns'[c].open = conns[c].open
      /\ conns'[c].awaits = "meta"
      BY <1>1, <1>2, <1>3, ReadFrom
<1>6. Head(conns[c].stream) \in Unit BY <1>1, <1>4, TailIs
<1>7. CASE m = Debug
  <2>1. ~Data(Head(conns[c].stream)) BY <1>7 DEF Data, Message, Debug
  <2> QED BY <1>1, <1>3, <1>5, <1>7, <2>1, ReadStep
<1>8. CASE m # Debug
  <2>1. m \in Message BY <1>1, <1>6, <1>8 DEF Unit
  <2>2. Data(Head(conns[c].stream)) BY <1>1, <2>1 DEF Data
  <2>3. r \in R /\ r.m = m /\ r.conn = c /\ r.m # Junk BY <1>1, <1>3, <2>1
  <2>4. received' = Append(received, r) BY <1>1, <1>8
  <2>5. un \in Seq(Unit) BY <1>2, UnsentType
  <2> HIDE DEF un, R
  <2>6. /\ InLine(posted, un, conns', Append(received, r))
        /\ Known(posted, un, conns', Append(received, r), sent)
        BY <1>1, <1>2, <1>3, <1>5, <2>2, <2>3, LineReceive
  <2>7. m \in Flying(posted, un, conns) /\ Flying(posted, un, conns') = Flying(posted, un, conns) \ {m}
    <3>1. conns[c].awaits # "none" /\ conns'[c].awaits # "none" BY <1>1, <1>5
    <3>2. conns[c].stream # <<>> BY <1>1
    <3>3. InLine(posted, un, conns, received) /\ posted \in Seq(Message) /\ conns \in Seq(ConnType)
          BY <1>2
    <3>4. Elsewhere(conns, conns', c) /\ conns'[c].stream = Tail(conns[c].stream) BY <1>5
    <3>5. Head(conns[c].stream).m \in Flying(posted, un, conns)
          BY <1>3, <2>2, <2>5, <3>1, <3>2, <3>3, <3>4, FlyReceive
    <3>6. Flying(posted, un, conns') = Flying(posted, un, conns) \ {Head(conns[c].stream).m}
          BY <1>3, <2>2, <2>5, <3>1, <3>2, <3>3, <3>4, FlyReceive
    <3> QED BY <3>5, <3>6
  <2> HIDE DEF r
  <2>8. /\ received' \in Seq(R) /\ DOMAIN received' = DOMAIN received \cup {Len(received) + 1}
        /\ received'[Len(received) + 1] = r /\ \A i \in DOMAIN received : received'[i] = received[i]
        BY <1>2, <2>3, <2>4, AppendIs
  <2>9. \A i \in DOMAIN received' : received'[i].conn \in 1..Len(conns')
        BY <1>2, <1>3, <1>5, <2>3, <2>8 DEF Types
  <2>10. Types' BY <1>1, <1>2, <1>5, <2>8, <2>9 DEF Types, R
  <2>11. Clean(session, un, conns) => Clean(session, un, conns')
    <3> SUFFICES ASSUME Clean(session, un, conns) PROVE Clean(session, un, conns') OBVIOUS
    <3>1. Readable(conns'[c]) /\ Expected(conns'[c]) = Expected(conns[c])
          BY <1>1, <1>3, <1>4, <1>5, ReadOn DEF Clean
    <3>2. ASSUME NEW d \in DOMAIN conns' PROVE Readable(conns'[d])
          BY <1>5, <3>1 DEF Clean, Elsewhere
    <3>3. ASSUME session # NoSession PROVE Continues(conns'[Len(conns')], un)
      <4>1. Continues(conns[Len(conns)], un) BY <3>3 DEF Clean
      <4>2. Len(conns) \in DOMAIN conns BY <1>2, <3>3 DEF Types
      <4>3. CASE c = Len(conns) BY <1>1, <1>5, <4>1, <4>3, <3>1 DEF Continues
      <4>4. CASE c # Len(conns) BY <1>5, <4>1, <4>2, <4>4 DEF Elsewhere
      <4> QED BY <4>3, <4>4
    <3> QED BY <3>2, <3>3 DEF Clean
  <2>12. Complete(posted, un, conns, received, sent) => Complete(posted, un, conns', received', sent)
    <3> SUFFICES ASSUME Complete(posted, un, conns, received, sent)
                 PROVE  Complete(posted, un, conns', received', sent)
        OBVIOUS
    <3>1. conns'[c].open /\ conns'[c].awaits # "none" BY <1>3, <1>5 DEF Complete
    <3>2. \A d \in DOMAIN conns' : conns'[d].open /\ conns'[d].awaits # "none"
          BY <1>5, <3>1 DEF Complete, Elsewhere
    <3>3. ASSUME NEW x \in 1..sent
          PROVE  x \in Flying(posted, un, conns') \/ \E i \in DOMAIN received' : received'[i].m = x
      <4>1. CASE x = m BY <2>3, <2>8, <4>1
      <4>2. CASE x # m BY <2>7, <2>8, <4>2 DEF Complete
      <4> QED BY <4>1, <4>2
    <3> QED BY <3>2, <3>3 DEF Complete
  <2>13. (\A i \in DOMAIN received : received[i].m # Junk)
         => \A i \in DOMAIN received' : received'[i].m # Junk
        BY <2>3, <2>8
  <2>14. TransportInv'
        BY <1>1, <1>2, <2>4, <2>6, <2>10, <2>11, <2>12, <2>13 DEF TransportInv, un
  <2>15. NetStep BY <1>1, <1>3, <2>4, <2>7 DEF NetStep, un, r
  <2> QED BY <2>14, <2>15
<1> QED BY <1>7, <1>8

\* The system takes a unit of the buffer.
LEMMA WriteStep == ASSUME TransportInv, Write PROVE TransportInv' /\ NetStep
<1> DEFINE un == Unsent(session)
           c == Len(conns)
           unit == session.buffer[session.taken + 1]
<1>1. /\ session # NoSession /\ session.taken < session.writing
      /\ session' = [session EXCEPT !.taken = @ + 1]
      /\ UNCHANGED <<posted, received, sent, grown, used>>
      BY DEF Write, Writing
<1>2. /\ Types /\ Whole(un) /\ InLine(posted, un, conns, received)
      /\ Known(posted, un, conns, received, sent) /\ conns \in Seq(ConnType)
      BY DEF TransportInv, Types
<1>3. Buffered(session) /\ Len(conns) > 0 /\ (session.dangling => grown) BY <1>1, <1>2 DEF Types
<1>4. /\ Buffered(session') /\ session'.dangling = session.dangling /\ un # <<>>
      /\ unit = Head(un) /\ Unsent(session') = Tail(un)
      BY <1>1, <1>3, WriteEffect
<1>5. un \in Seq(Unit) BY <1>2, UnsentType
<1>6. c \in DOMAIN conns /\ conns # <<>> /\ Current = c BY <1>2, <1>3 DEF Current
<1>7. unit \in Unit BY <1>4, <1>5, TailIs
<1>8. PICK u \in {unit} \cup (IF session.dangling THEN {[unit EXCEPT !.m = Junk]} ELSE {}) :
          conns' = IF conns[c].open THEN [conns EXCEPT ![c].stream = Append(@, u)] ELSE conns
      BY <1>6 DEF Write
<1>9. u \in Unit /\ (u = Head(un) \/ ~Data(u)) /\ (~grown => u = Head(un))
  <2>1. CASE u = unit BY <2>1, <1>4, <1>7
  <2>2. CASE session.dangling /\ u = [unit EXCEPT !.m = Junk]
        BY <1>3, <1>7, <2>2 DEF Unit, Data, Message, Junk
  <2> QED BY <1>8, <2>1, <2>2
<1> HIDE DEF unit, un
<1>10. conns[c] \in ConnType BY <1>2, <1>6, ConnFields
<1>11. Whole(Tail(un)) BY <1>2, <1>4, <1>5, WholeTail
<1>12. CASE conns[c].open
  <2>1. conns' = [conns EXCEPT ![c].stream = Append(@, u)] BY <1>8, <1>12
  <2>2. /\ conns' \in Seq(ConnType) /\ Len(conns') = Len(conns) /\ Elsewhere(conns, conns', c)
        /\ conns'[c].stream = Append(conns[c].stream, u) /\ conns'[c].open = conns[c].open
        /\ conns'[c].awaits = conns[c].awaits
        BY <1>2, <1>6, <1>9, <2>1, Written
  <2>3. InLine(posted, Tail(un), conns', received) /\ Known(posted, Tail(un), conns', received, sent)
        BY <1>2, <1>4, <1>5, <1>6, <1>9, <2>2, LineWrite
  <2>4. /\ Flying(posted, Tail(un), conns') \subseteq Flying(posted, un, conns)
        /\ u = Head(un) /\ conns[c].awaits # "none" =>
               Flying(posted, un, conns) \subseteq Flying(posted, Tail(un), conns')
        BY <1>2, <1>4, <1>5, <1>6, <1>9, <2>2, FlyWrite
  <2>5. Types' BY <1>1, <1>2, <1>3, <1>4, <2>2 DEF Types
  <2>6. ~grown /\ Clean(session, un, conns) => Clean(session', Tail(un), conns')
    <3> SUFFICES ASSUME ~grown, Clean(session, un, conns) PROVE Clean(session', Tail(un), conns')
        OBVIOUS
    <3>1. Readable(conns[c]) /\ Continues(conns[c], un) BY <1>1, <1>6 DEF Clean
    <3>2. conns'[c].stream = Append(conns[c].stream, Head(un)) BY <1>9, <2>2
    <3>3. Readable(conns'[c]) /\ Continues(conns'[c], Tail(un))
          BY <1>2, <1>4, <1>5, <1>10, <1>12, <2>2, <3>1, <3>2, ContinuesWrite
    <3> QED BY <2>2, <3>3 DEF Clean, Elsewhere
  <2>7. ~grown /\ Complete(posted, un, conns, received, sent)
        => Complete(posted, Tail(un), conns', received, sent)
    <3> SUFFICES ASSUME ~grown, Complete(posted, un, conns, received, sent)
                 PROVE  Complete(posted, Tail(un), conns', received, sent)
        OBVIOUS
    <3>1. conns[c].open /\ conns[c].awaits # "none" BY <1>6 DEF Complete
    <3>2. \A d \in DOMAIN conns' : conns'[d].open /\ conns'[d].awaits # "none"
          BY <2>2, <3>1 DEF Complete, Elsewhere
    <3>3. Flying(posted, un, conns) \subseteq Flying(posted, Tail(un), conns') BY <1>9, <2>4, <3>1
    <3> QED BY <3>2, <3>3 DEF Complete
  <2>8. TransportInv' BY <1>1, <1>2, <1>4, <1>11, <2>3, <2>5, <2>6, <2>7 DEF TransportInv, un
  <2>9. NetStep BY <1>1, <1>4, <2>4 DEF NetStep, un
  <2> QED BY <2>8, <2>9
<1>13. CASE ~conns[c].open
  <2>1. conns' = conns BY <1>8, <1>13
  <2>2. Elsewhere(conns, conns, c) BY DEF Elsewhere
  <2>3. Sorted(un) /\ Sorted(conns[c].stream) BY <1>2, <1>6 DEF InLine
  <2>4. Sorted(Tail(un)) /\ Carried(Tail(un)) \subseteq Carried(un)
        BY <1>4, <1>5, <2>3, SortedTail, CarriedTail
  <2>5. InLine(posted, Tail(un), conns, received) /\ Known(posted, Tail(un), conns, received, sent)
        BY <1>2, <1>6, <2>2, <2>3, <2>4, LineLose
  <2>6. Flying(posted, Tail(un), conns) \subseteq Flying(posted, un, conns)
        BY <1>6, <2>2, <2>4, FlyLose
  <2>7. Types' BY <1>1, <1>2, <1>3, <1>4, <2>1 DEF Types
  <2>8. Clean(session, un, conns) => Clean(session', Tail(un), conns)
        BY <1>13 DEF Clean, Continues
  <2>9. ~Complete(posted, un, conns, received, sent) BY <1>6, <1>13 DEF Complete
  <2>10. TransportInv' BY <1>1, <1>2, <1>4, <1>11, <2>1, <2>5, <2>7, <2>8, <2>9 DEF TransportInv, un
  <2>11. NetStep BY <1>1, <1>4, <2>1, <2>6 DEF NetStep, un
  <2> QED BY <2>10, <2>11
<1> QED BY <1>12, <1>13

-----------------------------------------------------------------------------
(* Theorems. *)

\* The invariant holds at first.
LEMMA TransportInit == Init => TransportInv
<1> SUFFICES ASSUME Init PROVE TransportInv OBVIOUS
<1>1. /\ posted = <<>> /\ session = NoSession /\ conns = <<>> /\ received = <<>>
      /\ sent = 0 /\ grown = FALSE /\ used = [ticks |-> 0, breaks |-> 0]
      BY DEF Init
<1>2. Unsent(session) = <<>> BY <1>1 DEF Unsent
<1>3. Types
  <2>1. <<>> \in Seq(Message) /\ <<>> \in Seq(ConnType) /\ DOMAIN <<>> = {}
        /\ <<>> \in Seq([m : Message \cup {Junk}, conn : Nat])
        OBVIOUS
  <2>2. 0 \in 0..MaxMessages BY TransportAssumption
  <2>3. [ticks |-> 0, breaks |-> 0] \in [ticks : Nat, breaks : Nat] OBVIOUS
  <2> QED BY <1>1, <2>1, <2>2, <2>3 DEF Types
<1>4. Whole(<<>>) /\ Sorted(<<>>) /\ Carried(<<>>) = {} /\ ToSet(<<>>) = {}
      BY DEF Whole, Sorted, Carried, Alternates, ToSet
<1>5. \A c : Arrived(<<>>, c) = {} BY DEF Arrived
<1>6. InLine(<<>>, <<>>, <<>>, <<>>) BY <1>4, <1>5 DEF InLine, Below
<1>7. Known(<<>>, <<>>, <<>>, <<>>, 0) BY <1>4 DEF Known
<1>8. Clean(NoSession, <<>>, <<>>) BY DEF Clean
<1>9. Complete(<<>>, <<>>, <<>>, <<>>, 0) BY DEF Complete
<1> QED BY <1>1, <1>2, <1>3, <1>4, <1>6, <1>7, <1>8, <1>9 DEF TransportInv

\* Every step keeps the invariant and is one of the network.
LEMMA TransportNext == ASSUME TransportInv, Next PROVE TransportInv' /\ NetStep
<1>1. CASE Send BY <1>1, SendStep
<1>2. CASE IoSend BY <1>2, IoSendStep
<1>3. CASE Tick BY <1>3, TickStep
<1>4. CASE Connected BY <1>4, ConnectedStep
<1>5. CASE ConnectFails BY <1>5, ConnectFailsStep
<1>6. CASE Write BY <1>6, WriteStep
<1>7. CASE WriteDone BY <1>7, WriteDoneStep
<1>8. CASE WriteFails BY <1>8, WriteFailsStep
<1>9. ASSUME NEW c \in 1..Current,
             Break(c) \/ ReadMeta(c) \/ ReadMessage(c) \/ ReadJunk(c) \/ ReadEnd(c)
      PROVE  TransportInv' /\ NetStep
      BY <1>9, BreakStep, ReadMetaStep, ReadMessageStep, ReadJunkStep, ReadEndStep
<1> QED BY <1>1, <1>2, <1>3, <1>4, <1>5, <1>6, <1>7, <1>8, <1>9 DEF Next

\* The inductive invariant holds in every reachable state.
THEOREM TransportInvariant == Spec => []TransportInv
<1>1. Init => TransportInv BY TransportInit
<1>2. TransportInv /\ [Next]_vars => TransportInv'
  <2> SUFFICES ASSUME TransportInv, [Next]_vars PROVE TransportInv' OBVIOUS
  <2>1. CASE Next BY <2>1, TransportNext
  <2>2. CASE UNCHANGED vars
    <3>1. Unsent(session)' = Unsent(session) BY <2>2 DEF vars
    <3> QED BY <2>2, <3>1 DEF vars, TransportInv, Types
  <2> QED BY <2>1, <2>2
<1> QED BY <1>1, <1>2, PTL DEF Spec

\* TypeOK holds for buffers of any first size and any number of messages, ticks
\* and breaks: ByteBuffer's indexes stay inside its memory, and an outstanding
\* write covers a part of what is readable.
THEOREM TransportTypeCorrect == Spec => []TypeOK
<1>1. TransportInv => TypeOK
  <2> SUFFICES ASSUME TransportInv PROVE TypeOK OBVIOUS
  <2>1. Types BY DEF TransportInv
  <2>2. CASE session = NoSession BY <2>1, <2>2 DEF Types, TypeOK
  <2>3. CASE session # NoSession BY <2>1, <2>3 DEF Types, TypeOK, Buffered
  <2> QED BY <2>2, <2>3
<1> QED BY <1>1, TransportInvariant, PTL

\* Messages of one session arrive in the order they were sent, as long as no
\* buffer has grown under a write.
THEOREM ArrivesInOrder == Spec => []InOrder
<1>1. TransportInv => InOrder
  <2> SUFFICES ASSUME TransportInv, ~grown, NEW i \in DOMAIN received, NEW j \in DOMAIN received,
                      i < j, received[i].conn = received[j].conn
               PROVE  received[i].m < received[j].m
      BY DEF InOrder
  <2> DEFINE R == [m : Message \cup {Junk}, conn : Nat]
  <2>1. received \in Seq(R) BY DEF TransportInv, Types
  <2>2. received[i].m # Junk /\ received[j].m # Junk BY DEF TransportInv
  <2>3. received[i] \in R /\ received[j] \in R
    <3> HIDE DEF R
    <3> QED BY <2>1
  <2>4. received[i].m \in Message /\ received[j].m \in Message BY <2>2, <2>3
  <2>5. InLine(posted, Unsent(session), conns, received) BY DEF TransportInv
  <2> QED BY <2>4, <2>5 DEF InLine
<1> QED BY <1>1, TransportInvariant, PTL

\* No message is lost unless a connection fails: what has been sent is on its way
\* or has been received.
THEOREM LosesOnlyByBreaks == Spec => []LossNeedsABreak
<1>1. TransportInv => LossNeedsABreak
  <2> SUFFICES ASSUME TransportInv, used.breaks = 0, ~grown, NEW m \in 1..sent
               PROVE  m \in InTransit \/ \E i \in DOMAIN received : received[i].m = m
      BY DEF LossNeedsABreak
  <2>1. Complete(posted, Unsent(session), conns, received, sent) BY DEF TransportInv
  <2>2. InTransit = Flying(posted, Unsent(session), conns) BY InTransitIs DEF TransportInv
  <2> QED BY <2>1, <2>2 DEF Complete
<1> QED BY <1>1, TransportInvariant, PTL

\* A sequence of messages received, with one more.
LEMMA ReceivedAppend ==
    ASSUME NEW S, NEW rs \in Seq(S), NEW r \in S
    PROVE  [i \in DOMAIN Append(rs, r) |-> Append(rs, r)[i].m]
           = Append([i \in DOMAIN rs |-> rs[i].m], r.m)
<1> DEFINE T == {s.m : s \in S}
           qs == Append(rs, r)
           ms == [i \in DOMAIN rs |-> rs[i].m]
           ns == [i \in DOMAIN qs |-> qs[i].m]
<1>1. /\ qs \in Seq(S) /\ Len(qs) = Len(rs) + 1 /\ qs[Len(rs) + 1] = r /\ Len(rs) \in Nat
      /\ \A i \in DOMAIN rs : qs[i] = rs[i]
      BY AppendIs
<1> HIDE DEF qs
<1>2. DOMAIN qs = 1..(Len(rs) + 1) /\ DOMAIN rs = 1..Len(rs) BY <1>1
<1>3. \A i \in DOMAIN rs : rs[i] \in S /\ rs[i].m \in T OBVIOUS
<1>4. \A i \in DOMAIN qs : qs[i] \in S /\ qs[i].m \in T BY <1>1
<1>5. r.m \in T OBVIOUS
<1> HIDE DEF T
<1>6. ms \in [1..Len(rs) -> T] BY <1>2, <1>3
<1>7. ms \in Seq(T) /\ Len(ms) = Len(rs) BY <1>1, <1>6
<1>8. ns \in [1..(Len(rs) + 1) -> T] BY <1>2, <1>4
<1>9. ns \in Seq(T) /\ Len(ns) = Len(rs) + 1 BY <1>1, <1>8
<1>10. /\ Append(ms, r.m) \in Seq(T) /\ Len(Append(ms, r.m)) = Len(ms) + 1
       /\ Append(ms, r.m)[Len(ms) + 1] = r.m
       /\ \A i \in DOMAIN ms : Append(ms, r.m)[i] = ms[i]
       BY <1>5, <1>7, AppendIs
<1>11. \A i \in 1..Len(ns) : ns[i] = Append(ms, r.m)[i]
  <2> SUFFICES ASSUME NEW i \in 1..Len(ns) PROVE ns[i] = Append(ms, r.m)[i] OBVIOUS
  <2>1. i \in DOMAIN qs /\ ns[i] = qs[i].m BY <1>2, <1>9
  <2>2. CASE i = Len(rs) + 1 BY <1>1, <1>7, <1>10, <2>1, <2>2
  <2>3. CASE i # Len(rs) + 1
    <3>1. i \in DOMAIN rs BY <1>1, <1>2, <1>9, <2>3
    <3>2. ms[i] = rs[i].m /\ i \in DOMAIN ms BY <3>1
    <3> QED BY <1>1, <1>10, <2>1, <3>1, <3>2
  <2> QED BY <2>2, <2>3
<1> HIDE DEF ms, ns
<1>12. ns = Append(ms, r.m) BY <1>7, <1>9, <1>10, <1>11, SeqEqual
<1> QED BY <1>12 DEF ms, ns, qs

\* InTransitIs as an implication, which holds after a step too.
LEMMA InTransitNow == Types => InTransit = Flying(posted, Unsent(session), conns)
BY InTransitIs

\* The transport is the network that Raft.tla assumes: whatever sessions, buffers
\* and connections do, a message is delivered at most once and none is made up,
\* unless a buffer has grown under a write.
THEOREM TransportImplementsNetwork == Spec => Implements
<1>1. Init => Net!Init
  <2> SUFFICES ASSUME Init PROVE Net!Init OBVIOUS
  <2>1. /\ posted = <<>> /\ session = NoSession /\ conns = <<>> /\ received = <<>>
        /\ sent = 0 /\ grown = FALSE
        BY DEF Init
  <2>2. InTransit = {}
    <3>1. InTransit = Flying(posted, Unsent(session), conns)
          BY TransportInit, InTransitIs DEF TransportInv
    <3>2. Carried(<<>>) = {} /\ ToSet(<<>>) = {} BY DEF Carried, ToSet
    <3>3. Unsent(session) = <<>> BY <2>1 DEF Unsent
    <3> QED BY <2>1, <3>1, <3>2, <3>3 DEF Flying
  <2>3. 1..sent = {} BY <2>1
  <2>4. [i \in DOMAIN received |-> received[i].m] = <<>> BY <2>1
  <2> QED BY <2>1, <2>2, <2>3, <2>4 DEF Net!Init
<1>2. TransportInv /\ TransportInv' /\ [Next]_vars => [Net!Next]_(Net!vars)
  <2> SUFFICES ASSUME TransportInv, TransportInv', [Next]_vars PROVE [Net!Next]_(Net!vars)
      OBVIOUS
  <2> DEFINE air == Flying(posted, Unsent(session), conns)
             ms == [i \in DOMAIN received |-> received[i].m]
             R == [m : Message \cup {Junk}, conn : Nat]
  <2>1. InTransit = air BY InTransitIs DEF TransportInv
  <2>2. InTransit' = air'
    <3>1. Types' BY DEF TransportInv
    <3>2. (Types => InTransit = Flying(posted, Unsent(session), conns))' BY InTransitNow, PTL
    <3> QED BY <3>1, <3>2
  <2>3. received \in Seq(R) /\ sent \in Nat /\ air \subseteq Message
        BY DEF TransportInv, Types, Flying
  <2>4. CASE UNCHANGED vars
    <3>1. UNCHANGED <<sent, InTransit, received, grown>> BY <2>4 DEF vars, InTransit, Current
    <3>2. ms' = ms BY <3>1
    <3> QED BY <3>1, <3>2 DEF Net!vars
  <2>5. CASE NetStep
    <3>1. CASE air' \subseteq air /\ UNCHANGED <<sent, received, grown>>
      <4>1. Net!Lose BY <2>1, <2>2, <3>1 DEF Net!Lose
      <4> QED BY <4>1 DEF Net!Next
    <3>2. CASE /\ sent' = sent + 1 /\ sent + 1 \in Message /\ air' = air \cup {sent + 1}
               /\ UNCHANGED <<received, grown>>
      <4>1. 1..sent' = 1..sent \cup {sent + 1} /\ sent + 1 \notin 1..sent BY <2>3, <3>2
      <4>2. Net!Send BY <2>1, <2>2, <3>2, <4>1 DEF Net!Send
      <4> QED BY <4>2 DEF Net!Next
    <3>3. CASE \E m \in air, c \in Nat : /\ received' = Append(received, [m |-> m, conn |-> c])
                                         /\ air' = air \ {m} /\ UNCHANGED <<sent, grown>>
      <4>1. PICK m \in air, c \in Nat : /\ received' = Append(received, [m |-> m, conn |-> c])
                                        /\ air' = air \ {m} /\ UNCHANGED <<sent, grown>>
            BY <3>3
      <4>2. [m |-> m, conn |-> c] \in R BY <2>3
      <4>3. ms' = Append(ms, m) BY <2>3, <4>1, <4>2, ReceivedAppend
      <4>4. Net!Deliver BY <2>1, <2>2, <4>1, <4>3 DEF Net!Deliver
      <4> QED BY <4>4 DEF Net!Next
    <3>4. CASE air' = air /\ grown' = TRUE /\ UNCHANGED <<sent, received>>
      <4>1. Net!Damage BY <2>1, <2>2, <3>4 DEF Net!Damage
      <4> QED BY <4>1 DEF Net!Next
    <3>5. CASE grown /\ \E c \in Nat : /\ received' = Append(received, [m |-> Junk, conn |-> c])
                                       /\ air' \subseteq air /\ UNCHANGED <<sent, grown>>
      <4>1. PICK c \in Nat : /\ received' = Append(received, [m |-> Junk, conn |-> c])
                             /\ air' \subseteq air /\ UNCHANGED <<sent, grown>>
            BY <3>5
      <4>2. [m |-> Junk, conn |-> c] \in R OBVIOUS
      <4>3. ms' = Append(ms, Junk) BY <2>3, <4>1, <4>2, ReceivedAppend
      <4>4. Net!DeliverJunk BY <2>1, <2>2, <3>5, <4>1, <4>3 DEF Net!DeliverJunk
      <4> QED BY <4>4 DEF Net!Next
    <3> QED BY <2>5, <3>1, <3>2, <3>3, <3>4, <3>5 DEF NetStep
  <2> QED BY <2>4, <2>5, TransportNext
<1> QED BY <1>1, <1>2, TransportInvariant, PTL DEF Spec, Implements, Net!Spec
=============================================================================
