----------------------------- MODULE Transport -----------------------------
(***************************************************************************)
(* The way of Raft's messages from one node to another: TransportImpl,     *)
(* PeerImpl and ClientSession at the sender (transport/transport.cpp,      *)
(* peer.cpp) with its ByteBuffer (common/bytebuffer.cpp), ServerSession at *)
(* the receiver (raft_server.cpp), and a connection (external) between     *)
(* every ClientSession and its ServerSession.                              *)
(*                                                                         *)
(* A frame is two units, its TransportMeta and its data; a write, a break  *)
(* and a read may fall between any two units.  All handlers of a node run  *)
(* on its io thread, so each is one action.                                *)
(***************************************************************************)
EXTENDS Integers, Sequences, SequencesExt

CONSTANTS MIN_BUFFERING,    \* the first size of a ByteBuffer, in units
          \* bounds of the model
          MaxMessages, MaxTicks, MaxBreaks

ASSUME TransportAssumption == {MIN_BUFFERING, MaxMessages, MaxTicks, MaxBreaks} \subseteq Nat

VARIABLES posted,    \* what Transport::send has posted to the io thread
          session,   \* session_ of the peer, or NoSession
          conns,     \* the connections, one for every session so far
          received,  \* what the receiver has handed to Raft, with its connection
          sent,      \* history: how many messages have been sent
          grown,     \* history: a buffer has grown under a write
          used       \* ticks and breaks so far

vars == <<posted, session, conns, received, sent, grown, used>>

Message == 1..MaxMessages    \* in the order they are sent
Debug == 0                   \* a DebugMessage
Junk == -1                   \* what freed memory holds

Unit == [part : {"meta", "data"}, m : {Debug, Junk} \cup Message]

\* buffer: what is readable; reader: reader_; size: that of buff_;
\* writing: how much of it the outstanding write covers, 0 if there is none;
\* taken: how much of that the system has; dangling: buff_ has moved since
\* the write began.
SessionType ==
    [connected : BOOLEAN, buffer : Seq(Unit), reader : Nat, size : Nat,
     writing : Nat, taken : Nat, dangling : BOOLEAN]

NoSession == [size |-> 0]

NewSession ==
    [connected |-> FALSE, buffer |-> <<>>, reader |-> 0, size |-> MIN_BUFFERING,
     writing |-> 0, taken |-> 0, dangling |-> FALSE]

\* stream: units under way; open: it carries what is written;
\* awaits: what the ServerSession reads next, "none" once it is gone
ConnType == [stream : Seq(Unit), open : BOOLEAN, awaits : {"meta", "data", "none"}]

\* The session's connection is the last one.
Current == Len(conns)

-----------------------------------------------------------------------------
(* ByteBuffer. *)

\* Mutant: the buffer does not grow.
put_Fixed(s, unit) == [s EXCEPT !.buffer = Append(@, unit)]

\* put; a growing buffer moves, and an outstanding write reads from where it was.
put(s, unit) ==
    LET full == s.size - (s.reader + Len(s.buffer)) < 1
    IN  [s EXCEPT !.buffer = Append(@, unit),
                  !.size = IF full THEN 2 * @ + 1 ELSE @,
                  !.dangling = @ \/ (full /\ s.taken < s.writing)]

\* Mutant: one byte too few is passed over.
read_bytes_Short(s, n) == [s EXCEPT !.buffer = SubSeq(@, n, Len(@)), !.reader = @ + n - 1]

\* read_bytes and may_shrink_to_fit
read_bytes(s, n) ==
    [s EXCEPT !.buffer = SubSeq(@, n + 1, Len(@)),
              !.reader = IF n = Len(s.buffer) THEN 0 ELSE @ + n]

-----------------------------------------------------------------------------
(* The sender. *)

start_write(s) ==
    IF s.buffer = <<>> THEN [s EXCEPT !.writing = 0, !.taken = 0]
    ELSE [s EXCEPT !.writing = Len(s.buffer), !.taken = 0, !.dangling = FALSE]

\* ClientSession::send
send(s, m) ==
    LET s1 == put(put(s, [part |-> "meta", m |-> m]), [part |-> "data", m |-> m])
    IN  IF s.connected /\ s.buffer = <<>> THEN start_write(s1) ELSE s1

\* Mutant: a session that is not connected yet is replaced.
do_send_data_Fresh(m) ==
    /\ session' = IF session # NoSession /\ session.connected THEN send(session, m)
                  ELSE send(NewSession, m)
    /\ conns' = IF session = NoSession
                THEN Append(conns, [stream |-> <<>>, open |-> TRUE, awaits |-> "meta"]) ELSE conns
    /\ grown' = (grown \/ session'.dangling)

\* PeerImpl::do_send_data: the first send makes the session and starts to connect.
do_send_data(m) ==
    /\ session' = IF session = NoSession THEN send(NewSession, m) ELSE send(session, m)
    /\ conns' = IF session = NoSession
                THEN Append(conns, [stream |-> <<>>, open |-> TRUE, awaits |-> "meta"]) ELSE conns
    /\ grown' = (grown \/ session'.dangling)

\* Transport::send on the raft thread
Send ==
    /\ sent < MaxMessages
    /\ sent' = sent + 1 /\ posted' = Append(posted, sent + 1)
    /\ UNCHANGED <<session, conns, received, grown, used>>

\* Mutant: the latest message goes first.
IoSend_Last ==
    /\ posted # <<>>
    /\ do_send_data(Last(posted)) /\ posted' = Front(posted)
    /\ UNCHANGED <<received, sent, used>>

\* ... and its callback on the io thread
IoSend ==
    /\ posted # <<>>
    /\ do_send_data(Head(posted)) /\ posted' = Tail(posted)
    /\ UNCHANGED <<received, sent, used>>

\* start_timer's DebugMessage, every three seconds
Tick ==
    /\ used.ticks < MaxTicks
    /\ do_send_data(Debug)
    /\ used' = [used EXCEPT !.ticks = @ + 1]
    /\ UNCHANGED <<posted, received, sent>>

Connecting == session # NoSession /\ ~session.connected

\* Mutant: the handler leaves what is in the buffer to the next send.
Connected_Idle ==
    /\ Connecting
    /\ session' = [session EXCEPT !.connected = TRUE]
    /\ UNCHANGED <<posted, conns, received, sent, grown, used>>

\* start_connect's handler
Connected ==
    /\ Connecting
    /\ session' = start_write([session EXCEPT !.connected = TRUE])
    /\ UNCHANGED <<posted, conns, received, sent, grown, used>>

\* ... with an error: close_session, and the buffer is gone.
ConnectFails ==
    /\ Connecting /\ used.breaks < MaxBreaks
    /\ session' = NoSession
    /\ conns' = [conns EXCEPT ![Current] = [stream |-> <<>>, open |-> FALSE, awaits |-> "none"]]
    /\ used' = [used EXCEPT !.breaks = @ + 1]
    /\ UNCHANGED <<posted, received, sent, grown>>

Writing == session # NoSession /\ session.writing > 0

\* The system takes the next unit of an outstanding write: what the buffer
\* holds, or, from memory that has been freed, anything.
Write ==
    /\ Writing /\ session.taken < session.writing
    /\ LET unit == session.buffer[session.taken + 1]
       IN  \E u \in {unit} \cup (IF session.dangling THEN {[unit EXCEPT !.m = Junk]} ELSE {}) :
              conns' = IF conns[Current].open
                       THEN [conns EXCEPT ![Current].stream = Append(@, u)] ELSE conns
    /\ session' = [session EXCEPT !.taken = @ + 1]
    /\ UNCHANGED <<posted, received, sent, grown, used>>

\* start_write's handler
WriteDone ==
    /\ Writing /\ session.taken = session.writing
    /\ session' = start_write(read_bytes(session, session.writing))
    /\ UNCHANGED <<posted, conns, received, sent, grown, used>>

\* ... with an error
WriteFails ==
    /\ Writing /\ ~conns[Current].open
    /\ session' = NoSession
    /\ UNCHANGED <<posted, conns, received, sent, grown, used>>

-----------------------------------------------------------------------------
(* The connection and the receiver. *)

\* A connection breaks; the receiver may still get a part of what is under way.
Break(c) ==
    /\ conns[c].open /\ used.breaks < MaxBreaks /\ ~(c = Current /\ Connecting)
    /\ \E k \in 0..Len(conns[c].stream) :
          conns' = [conns EXCEPT ![c].open = FALSE, ![c].stream = SubSeq(@, 1, k)]
    /\ used' = [used EXCEPT !.breaks = @ + 1]
    /\ UNCHANGED <<posted, session, received, sent, grown>>

Read(c) == conns[c].awaits # "none" /\ conns[c].stream # <<>>

\* The next unit is what the ServerSession expects.
Framed(c) == LET u == Head(conns[c].stream) IN u.part = conns[c].awaits /\ u.m # Junk

\* start_read_meta's handler
ReadMeta(c) ==
    /\ Read(c) /\ Framed(c) /\ conns[c].awaits = "meta"
    /\ conns' = [conns EXCEPT ![c].stream = Tail(@), ![c].awaits = "data"]
    /\ UNCHANGED <<posted, session, received, sent, grown, used>>

\* start_read_message's handler and decode_message
ReadMessage(c) ==
    /\ Read(c) /\ Framed(c) /\ conns[c].awaits = "data"
    /\ LET m == Head(conns[c].stream).m
       IN  received' = IF m = Debug THEN received ELSE Append(received, [m |-> m, conn |-> c])
    /\ conns' = [conns EXCEPT ![c].stream = Tail(@), ![c].awaits = "meta"]
    /\ UNCHANGED <<posted, session, sent, grown, used>>

\* Anything else is an unknown type or a bad message, which ends the session;
\* or a wrong length, from where on it reads out of step; or passes for a
\* message.
ReadJunk(c) ==
    /\ Read(c) /\ ~Framed(c)
    /\ \/ /\ conns' = [conns EXCEPT ![c] = [stream |-> <<>>, open |-> FALSE, awaits |-> "none"]]
          /\ UNCHANGED received
       \/ /\ \E a \in {"meta", "data"} :
                conns' = [conns EXCEPT ![c].stream = Tail(@), ![c].awaits = a]
          /\ received' \in {received, Append(received, [m |-> Junk, conn |-> c])}
    /\ UNCHANGED <<posted, session, sent, grown, used>>

\* The end of a broken connection, before or inside a frame
ReadEnd(c) ==
    /\ conns[c].awaits # "none" /\ conns[c].stream = <<>> /\ ~conns[c].open
    /\ conns' = [conns EXCEPT ![c].awaits = "none"]
    /\ UNCHANGED <<posted, session, received, sent, grown, used>>

Init ==
    /\ posted = <<>> /\ session = NoSession /\ conns = <<>> /\ received = <<>>
    /\ sent = 0 /\ grown = FALSE /\ used = [ticks |-> 0, breaks |-> 0]

Next ==
    \/ Send \/ IoSend \/ Tick \/ Connected \/ ConnectFails \/ Write \/ WriteDone \/ WriteFails
    \/ \E c \in 1..Current : Break(c) \/ ReadMeta(c) \/ ReadMessage(c) \/ ReadJunk(c) \/ ReadEnd(c)

\* The io threads run, a connect and a write come to an end, and what has
\* arrived is read.
Fairness ==
    /\ WF_vars(IoSend) /\ WF_vars(Connected) /\ WF_vars(Write) /\ WF_vars(WriteDone)
    /\ \A c \in 1..MaxBreaks + 1 :
          WF_vars(c <= Current /\ (ReadMeta(c) \/ ReadMessage(c) \/ ReadJunk(c)))

Spec == Init /\ [][Next]_vars /\ Fairness

-----------------------------------------------------------------------------
(* Properties. *)

\* A buffer holds what lies between reader_ and writer_ (memcpy in put stays
\* inside), and an outstanding write covers a part of it.
TypeOK ==
    /\ posted \in Seq(Message) /\ conns \in Seq(ConnType) /\ sent \in 0..MaxMessages
    /\ \/ session = NoSession
       \/ /\ session \in SessionType
          /\ session.reader + Len(session.buffer) <= session.size
          /\ session.taken <= session.writing /\ session.writing <= Len(session.buffer)

\* The messages whose data is still on its way to a receiver that reads it
InTransit ==
    {m \in Message :
        \/ m \in ToSet(posted)
        \/ session # NoSession /\ \E k \in session.taken + 1..Len(session.buffer) :
                                      session.buffer[k] = [part |-> "data", m |-> m]
        \/ \E c \in 1..Current :
              conns[c].awaits # "none" /\ [part |-> "data", m |-> m] \in ToSet(conns[c].stream)}

Net == INSTANCE Network WITH
    sent <- 1..sent, net <- InTransit, damaged <- grown,
    received <- [i \in DOMAIN received |-> received[i].m]

\* The network that Raft.tla assumes: sessions that end, buffers that are
\* thrown away and streams cut inside a frame lose messages and let them
\* overtake each other, and never duplicate one or make one up.  Only a buffer
\* that has grown while a write was reading it can do that.
Implements == Net!Spec

\* Messages of one session arrive in the order they were sent.
InOrder ==
    ~grown => \A i, j \in DOMAIN received :
                  i < j /\ received[i].conn = received[j].conn => received[i].m < received[j].m

\* No message is lost unless a connection fails: not while the session connects,
\* nor between the end of a write and the next.
LossNeedsABreak ==
    used.breaks = 0 /\ ~grown =>
        \A m \in 1..sent : m \in InTransit \/ \E i \in DOMAIN received : received[i].m = m

\* Every message that is sent arrives or is lost: whatever is in the buffer when
\* a connect or a write ends is written next, and nothing stays in a session
\* that is dead (start_write, send, close_session).
SentIsSettled == \A m \in Message : m <= sent ~> (m \notin InTransit \/ grown)
=============================================================================
