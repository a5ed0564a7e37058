--------------------------- MODULE TcpDest_proofs ---------------------------
(***************************************************************************)
(* Proofs about a TCP destination (coredesc.c, lw.c, dlog.c) for a queue   *)
(* of any size, lines of any length and any number of writes.              *)
(***************************************************************************)
EXTENDS TcpDest, SequenceTheorems, TLAPS

\* A socket is opened by a write only, and an event is one of a socket there was.
SocketsCounted == /\ sock <= count + 1
                  /\ applied <= sock
                  /\ event.sock <= sock
                  /\ event.kind # "none" => event.sock # 0

\* A write event of the present socket says that it is connected, or was.
OutIsConnected == event.kind = "out" /\ event.sock = sock => conn \in {"up", "gone"}

\* An active descriptor is connected, or was made active by an event of a socket
\* before the present one.
ActiveByOwnEvent == state = "ACTIVE" => \/ conn \in {"up", "gone"}
                                        \/ applied \in 1 .. sock - 1

\* Only main_loop closes the number of a descriptor that is still in use.
ClosedIsDropped == conn \in {"closed", "other"} => state \in {"INIT", "DEAD"} \/ dropped

SockInv == /\ SocketsCounted /\ OutIsConnected /\ ActiveByOwnEvent /\ ClosedIsDropped
           /\ OwnNumberOnly

IInv == LinesKept /\ SockInv

-----------------------------------------------------------------------------
(* The write queue *)

\* A write that is not short sends the queue as it is and empties it.
LEMMA WholeWrite ==
    ASSUME NEW q \in Seq(Lines), NEW i \in DOMAIN q, NEW n \in 1 .. q[i].len,
           ~IsShort(q, i, n)
    PROVE  /\ Written(q, i, n) = q
           /\ Retained(q, i, n) = <<>>
<1>1. i = Len(q) /\ n = q[i].len /\ i \in 1 .. Len(q) /\ Len(q) \in Nat /\ q[i] \in Lines
  BY DEF IsShort
<1>2. Retained(q, i, n) = <<>>
  BY <1>1 DEF Retained
<1>3. [q[i] EXCEPT !.len = n] = q[i]
  BY <1>1 DEF Lines
<1>4. SubSeq(q, 1, Len(q) - 1) \o <<q[Len(q)]>> = q
  <2> DEFINE f == SubSeq(q, 1, i - 1)
             w == f \o <<q[i]>>
  <2>1. f \in Seq(Lines) /\ Len(f) = i - 1 /\ \A k \in 1 .. i - 1 : f[k] = q[k]
    BY <1>1, SubSeqProperties
  <2>2. <<q[i]>> \in Seq(Lines) /\ Len(<<q[i]>>) = 1 /\ <<q[i]>>[1] = q[i]
    BY <1>1
  <2> HIDE DEF f
  <2>3. /\ w \in Seq(Lines) /\ Len(w) = i
        /\ \A k \in 1..i : w[k] = IF k <= i - 1 THEN f[k] ELSE <<q[i]>>[k - (i - 1)]
    BY <1>1, <2>1, <2>2, ConcatProperties
  <2>4. \A k \in 1..i : w[k] = q[k]
    BY <1>1, <2>1, <2>2, <2>3
  <2> HIDE DEF w
  <2>5. w = q
    BY <1>1, <2>3, <2>4, SeqEqual
  <2> QED
    BY <1>1, <2>5 DEF w, f
<1> QED
  BY <1>1, <1>2, <1>3, <1>4 DEF Written

\* Wherever a write stops, what it sends and what it leaves are lines, and the
\* queue does not grow.
LEMMA AnyWrite ==
    ASSUME NEW q \in Seq(Lines), NEW i \in DOMAIN q, NEW n \in 1 .. q[i].len
    PROVE  /\ Written(q, i, n) \in Seq(Lines)
           /\ Retained(q, i, n) \in Seq(Lines) /\ Len(Retained(q, i, n)) <= Len(q)
<1>1. i \in 1 .. Len(q) /\ Len(q) \in Nat /\ q[i] \in Lines
  BY LenProperties
<1>2. n \in Nat \ {0}
  BY <1>1 DEF Lines
<1>3. Written(q, i, n) \in Seq(Lines)
  <2>1. <<[q[i] EXCEPT !.len = n]>> \in Seq(Lines)
    BY <1>1, <1>2 DEF Lines
  <2>2. SubSeq(q, 1, i - 1) \in Seq(Lines)
    BY <1>1, SubSeqProperties
  <2> QED
    BY <2>1, <2>2, ConcatProperties DEF Written
<1>4. Retained(q, i, n) \in Seq(Lines) /\ Len(Retained(q, i, n)) <= Len(q)
  <2>1. CASE i <= Len(q) - 1
    BY <1>1, <2>1, SubSeqProperties DEF Retained
  <2>2. CASE i = Len(q)
    BY <1>1, <2>2 DEF Retained
  <2> QED
    BY <1>1, <2>1, <2>2
<1> QED
  BY <1>3, <1>4

\* Appending a line to what is queued appends it to what was accepted.
LEMMA AppendAccepted ==
    ASSUME NEW s \in Seq(Lines), NEW t \in Seq(Lines), NEW ln \in Lines
    PROVE  s \o Append(t, ln) = Append(s \o t, ln)
<1>1. /\ Append(t, ln) = t \o <<ln>> /\ <<ln>> \in Seq(Lines) /\ s \o t \in Seq(Lines)
      /\ Append(s \o t, ln) = (s \o t) \o <<ln>>
  BY AppendIsConcat, ConcatProperties
<1> QED
  BY <1>1, ConcatAssociative

-----------------------------------------------------------------------------
(* What a step does *)

\* The ways in which a write may change the socket.
SockEffect ==
    \/ UNCHANGED sockVars
    \/ /\ conn \in {"refused", "failed"} /\ conn' = "gone"
       /\ UNCHANGED <<state, sock, armed, listed, crashed, applied>>
    \/ /\ crashed' = TRUE /\ UNCHANGED <<state, conn, sock, armed, listed, applied>>
    \/ /\ \E r \in Connects : Reopened(r)
       /\ UNCHANGED crashed

\* Whatever becomes of the socket, the queue is kept.
LEMMA AfterWriteKeeps ==
    ASSUME NEW q, NEW err, AfterWrite(q, err)
    PROVE  line' = q /\ SockEffect
<1>1. CASE DropsSocket(err)
  BY <1>1 DEF AfterWrite, Reconnects, QueueOnOpen, SockEffect
<1>2. CASE ~DropsSocket(err)
  BY <1>2 DEF AfterWrite, SockEffect, sockVars
<1> QED
  BY <1>1, <1>2

\* A write when q is in the queue: the socket, and the lines.
LEMMA WriteKeeps ==
    ASSUME NEW q \in Seq(Lines), Len(q) <= HighWM, sent \in Seq(Lines),
           ~short => sent \o q = accepted',
           \/ Writes(q) \/ WouldBlock(q) \/ WriteFails(q)
           \/ line' = q /\ UNCHANGED <<sockVars, sent, short, strayed>>
    PROVE  /\ SockEffect
           /\ line' \in Seq(Lines) /\ Len(line') <= HighWM /\ sent' \in Seq(Lines)
           /\ ~short' => sent' \o line' = accepted'
<1>1. CASE Writes(q)
  <2>1. PICK i \in DOMAIN q : \E n \in 1 .. q[i].len :
           /\ sent' = sent \o Written(q, i, n)
           /\ short' = (short \/ IsShort(q, i, n))
           /\ AfterWrite(Retained(q, i, n), "")
    BY <1>1 DEF Writes
  <2>2. PICK n \in 1 .. q[i].len :
           /\ sent' = sent \o Written(q, i, n)
           /\ short' = (short \/ IsShort(q, i, n))
           /\ AfterWrite(Retained(q, i, n), "")
    BY <2>1
  <2>3. line' = Retained(q, i, n) /\ SockEffect
    BY <2>2, AfterWriteKeeps
  <2>4. /\ Written(q, i, n) \in Seq(Lines)
        /\ Retained(q, i, n) \in Seq(Lines) /\ Len(Retained(q, i, n)) <= Len(q)
    BY AnyWrite
  <2>5. line' \in Seq(Lines) /\ Len(line') <= HighWM
    <3>1. Len(line') \in Nat /\ Len(q) \in Nat /\ Len(line') <= Len(q)
      BY <2>3, <2>4
    <3> QED
      BY <2>3, <2>4, <3>1, HighWMAssumption
  <2>6. sent' \in Seq(Lines)
    BY <2>2, <2>4, ConcatProperties
  <2>7. ASSUME ~short' PROVE sent' \o line' = accepted'
    <3>1. ~short /\ ~IsShort(q, i, n)
      BY <2>2, <2>7
    <3>2. sent' = sent \o q /\ line' = <<>>
      BY <2>2, <2>3, <3>1, WholeWrite
    <3>3. sent' \o line' = sent'
      BY <2>6, <3>2
    <3> QED
      BY <3>1, <3>2, <3>3
  <2> QED
    BY <2>3, <2>5, <2>6, <2>7
<1>2. CASE WouldBlock(q) \/ (line' = q /\ UNCHANGED <<sockVars, sent, short, strayed>>)
  BY <1>2 DEF WouldBlock, SockEffect, sockVars
<1>3. CASE WriteFails(q)
  <2>1. PICK err \in WriteErrors[conn] : AfterWrite(q, err)
    BY <1>3 DEF WriteFails
  <2>2. line' = q /\ SockEffect
    BY <2>1, AfterWriteKeeps
  <2> QED
    BY <1>3, <2>2 DEF WriteFails
<1> QED
  BY <1>1, <1>2, <1>3

\* A line goes to another file only if the number stands for it.
LEMMA StraysOnlyFromOther ==
    ASSUME NEW q, Writes(q) \/ WouldBlock(q) \/ WriteFails(q), strayed'
    PROVE  strayed \/ conn = "other"
BY DEF Writes, WouldBlock, WriteFails

-----------------------------------------------------------------------------
(* The inductive invariant *)

LEMMA InitIInv == Init => IInv
<1> SUFFICES ASSUME Init PROVE IInv
  OBVIOUS
<1> USE TcpAssumption, HighWMAssumption DEF Init, NoEvent
<1>1. TypeOK
  <2>1. {armed, listed, crashed, short, dropped, strayed} \subseteq BOOLEAN
    BY Zenon
  <2>2. /\ state \in ConnectResults
        /\ conn \in {"connecting", "up", "refused", "failed", "gone", "closed", "other"}
    BY DEF ConnAfter, ConnectResults
  <2>3. event \in [kind : {"none", "out", "error", "eof"}, sock : 0 .. MaxWrites + 1]
    OBVIOUS
  <2> QED
    BY <2>1, <2>2, <2>3 DEF TypeOK
<1>2. sent \o line = accepted
  OBVIOUS
<1>3. SockInv
  BY DEF SockInv, SocketsCounted, OutIsConnected, ActiveByOwnEvent, ClosedIsDropped,
         OwnNumberOnly, ConnAfter, ConnectResults
<1> QED
  BY <1>1, <1>2, <1>3 DEF IInv, LinesKept

\* A rule writes a line.
LEMMA WriteStep ==
    ASSUME IInv, NEW l \in Lens, descriptor_write(l)
    PROVE  IInv'
<1> DEFINE ln == [id |-> count, len |-> l]
           q  == wq_add_line(line, ln)
<1>1. /\ TypeOK /\ (~short => sent \o line = accepted) /\ SockInv
      /\ line \in Seq(Lines) /\ Len(line) <= HighWM /\ Len(line) \in Nat
      /\ sent \in Seq(Lines) /\ accepted \in Seq(Lines) /\ count \in Nat
  BY TcpAssumption DEF IInv, LinesKept, TypeOK
<1>2. ln \in Lines
  BY <1>1, TcpAssumption DEF Lines
<1>3. /\ count < MaxWrites /\ count' = count + 1
      /\ accepted' = IF Len(line) < HighWM THEN Append(accepted, ln) ELSE accepted
      /\ \/ Writable /\ (Writes(q) \/ WouldBlock(q) \/ WriteFails(q))
         \/ ~Writable /\ line' = q /\ UNCHANGED <<sockVars, sent, short, strayed>>
      /\ UNCHANGED <<event, dropped>>
  BY DEF descriptor_write
<1> HIDE DEF ln
<1>4. q = IF Len(line) < HighWM THEN Append(line, ln) ELSE line
  BY <1>1, HighWMAssumption DEF wq_add_line
<1> HIDE DEF q
<1>5. q \in Seq(Lines) /\ Len(q) <= HighWM
  <2>1. Append(line, ln) \in Seq(Lines) /\ Len(Append(line, ln)) = Len(line) + 1
    BY <1>1, <1>2, AppendProperties
  <2> QED
    BY <1>1, <1>4, <2>1, HighWMAssumption
<1>6. ~short => sent \o q = accepted'
  BY <1>1, <1>2, <1>3, <1>4, AppendAccepted, SMTT(30)
<1>7. /\ SockEffect
      /\ line' \in Seq(Lines) /\ Len(line') <= HighWM /\ sent' \in Seq(Lines)
      /\ ~short' => sent' \o line' = accepted'
  BY <1>1, <1>3, <1>5, <1>6, WriteKeeps
<1>8. short' \in BOOLEAN /\ strayed' \in BOOLEAN
  BY <1>1, <1>3 DEF TypeOK, Writes, WouldBlock, WriteFails
<1>9. strayed' => strayed \/ (Writable /\ conn = "other")
  BY <1>3, StraysOnlyFromOther
<1>10. accepted' \in Seq(Lines) /\ count' \in 0 .. MaxWrites
  BY <1>1, <1>2, <1>3, AppendProperties, TcpAssumption
<1>11. SocketsCounted'
  BY <1>1, <1>3, <1>7, TcpAssumption
     DEF SockInv, SocketsCounted, SockEffect, sockVars, Reopened, TypeOK
<1>12. TypeOK'
  <2>1. {armed', listed', crashed', short', dropped', strayed'} \subseteq BOOLEAN
    <3>1. armed' \in BOOLEAN /\ listed' \in BOOLEAN /\ crashed' \in BOOLEAN
      BY <1>1, <1>7, Zenon DEF SockEffect, sockVars, Reopened, TypeOK
    <3> QED
      BY <1>1, <1>3, <1>8, <3>1 DEF TypeOK
  <2>2. /\ state' \in ConnectResults
        /\ conn' \in {"connecting", "up", "refused", "failed", "gone", "closed", "other"}
    BY <1>1, <1>7, TcpAssumption
       DEF SockEffect, sockVars, Reopened, ConnAfter, ConnectResults, TypeOK
  <2>3. sock' \in 1 .. MaxWrites + 1 /\ applied' \in 0 .. MaxWrites + 1
    <3>1. sock' <= count' + 1 /\ applied' <= sock' /\ count' \in Nat /\ count' <= MaxWrites
      BY <1>10, <1>11, TcpAssumption DEF SocketsCounted
    <3>2. sock' \in Nat /\ sock' >= 1 /\ applied' \in Nat
      BY <1>1, <1>7, TcpAssumption DEF SockEffect, sockVars, Reopened, TypeOK
    <3>3. MaxWrites \in Nat
      BY TcpAssumption
    <3>4. \A s, c, m \in Nat : s <= c + 1 /\ c <= m => s <= m + 1
      OBVIOUS
    <3>5. sock' <= MaxWrites + 1
      BY <3>1, <3>2, <3>3, <3>4
    <3>6. \A a, s, m \in Nat : a <= s /\ s <= m + 1 => a <= m + 1
      OBVIOUS
    <3> QED
      BY <3>1, <3>2, <3>3, <3>5, <3>6
  <2> QED
    BY <1>1, <1>3, <1>7, <1>10, <2>1, <2>2, <2>3 DEF TypeOK
<1>13. OutIsConnected'
  BY <1>1, <1>3, <1>7, TcpAssumption
     DEF SockInv, SocketsCounted, OutIsConnected, SockEffect, sockVars, Reopened, TypeOK
<1>14. ActiveByOwnEvent'
  BY <1>1, <1>3, <1>7
     DEF SockInv, ActiveByOwnEvent, SockEffect, sockVars, Reopened, ConnAfter, ConnectResults
<1>15. ClosedIsDropped' /\ OwnNumberOnly'
  BY <1>1, <1>3, <1>7, <1>9, TcpAssumption
     DEF SockInv, ClosedIsDropped, OwnNumberOnly, SockEffect, sockVars, Reopened, ConnAfter,
         ConnectResults, Writable
<1> QED
  BY <1>7, <1>11, <1>12, <1>13, <1>14, <1>15 DEF IInv, LinesKept, SockInv

\* Something happens to the connection.
LEMMA PeerStep ==
    ASSUME IInv, Established \/ Refused \/ Fails \/ PeerCloses \/ NumberReused
    PROVE  IInv'
<1> USE DEF Established, Refused, Fails, PeerCloses, NumberReused, Peer
<1>1. LinesKept'
  BY DEF IInv, LinesKept, TypeOK
<1>2. SockInv'
  BY DEF IInv, SockInv, SocketsCounted, OutIsConnected, ActiveByOwnEvent, ClosedIsDropped,
         OwnNumberOnly
<1> QED
  BY <1>1, <1>2 DEF IInv

\* An event is returned for the present socket.
LEMMA ReturnedStep ==
    ASSUME IInv, EventReturned
    PROVE  IInv'
<1> USE TcpAssumption DEF EventReturned, EventKinds
<1>1. LinesKept'
  <2>1. PICK k \in EventKinds : event' = [kind |-> k, sock |-> sock]
    OBVIOUS
  <2>2. k \in {"none", "out", "error", "eof"}
    OBVIOUS
  <2>3. event' \in [kind : {"none", "out", "error", "eof"}, sock : 0 .. MaxWrites + 1]
    BY <2>1, <2>2 DEF IInv, LinesKept, TypeOK
  <2>4. {armed', listed', crashed', short', dropped', strayed'} \subseteq BOOLEAN
    BY DEF IInv, LinesKept, TypeOK
  <2> QED
    BY <2>3, <2>4 DEF IInv, LinesKept, TypeOK
<1>2. SockInv'
  BY DEF IInv, SockInv, SocketsCounted, OutIsConnected, ActiveByOwnEvent, ClosedIsDropped,
         OwnNumberOnly, LinesKept, TypeOK
<1> QED
  BY <1>1, <1>2 DEF IInv

\* main_loop comes to an event.
LEMMA HandledStep ==
    ASSUME IInv, EventHandled
    PROVE  IInv'
<1> USE TcpAssumption DEF EventHandled, Connected, EndOfFile, Ignored, Awaits, NoEvent
<1>1. LinesKept'
  <2>1. dropped' \in BOOLEAN
    BY DEF IInv, LinesKept, TypeOK
  <2>2. /\ state' \in ConnectResults /\ applied' \in 0 .. MaxWrites + 1
        /\ conn' \in {"connecting", "up", "refused", "failed", "gone", "closed", "other"}
    BY DEF IInv, LinesKept, TypeOK, ConnectResults
  <2>3. event' \in [kind : {"none", "out", "error", "eof"}, sock : 0 .. MaxWrites + 1]
    OBVIOUS
  <2> QED
    BY <2>1, <2>2, <2>3 DEF IInv, LinesKept, TypeOK
<1>2. event'.kind = "none" /\ event'.sock = 0
  OBVIOUS
<1>3. SocketsCounted' /\ OutIsConnected'
  BY <1>2 DEF IInv, SockInv, SocketsCounted, OutIsConnected, LinesKept, TypeOK
<1>4. ActiveByOwnEvent'
  BY DEF IInv, SockInv, SocketsCounted, OutIsConnected, ActiveByOwnEvent, LinesKept, TypeOK
<1>5. ClosedIsDropped' /\ OwnNumberOnly'
  <2>1. dropped => dropped'
    BY DEF IInv, LinesKept, TypeOK
  <2>2. conn' \in {"closed", "other"} => conn' = conn \/ dropped'
    OBVIOUS
  <2> QED
    BY <2>1, <2>2 DEF IInv, SockInv, ClosedIsDropped, OwnNumberOnly
<1> QED
  BY <1>1, <1>3, <1>4, <1>5 DEF IInv, SockInv

LEMMA NextIInv == IInv /\ [Next]_vars => IInv'
<1> SUFFICES ASSUME IInv, [Next]_vars PROVE IInv'
  OBVIOUS
<1>1. CASE UNCHANGED vars
  BY <1>1 DEF vars, sockVars, IInv, LinesKept, TypeOK, SockInv, SocketsCounted, OutIsConnected,
              ActiveByOwnEvent, ClosedIsDropped, OwnNumberOnly
<1> QED
  BY <1>1, WriteStep, PeerStep, ReturnedStep, HandledStep DEF Next

-----------------------------------------------------------------------------
(* Theorems *)

\* Reconnecting keeps the lines (DOPEN_KEEP_BUFFERS): until a write stops short, every
\* accepted line was taken by writev once and in order or is queued, however often
\* _sktw_post_line_write drops the socket; and the queue stays within its array.
THEOREM LinesSurviveReconnects == Spec => []LinesKept
<1>1. IInv => LinesKept
  BY DEF IInv
<1> QED
  BY <1>1, InitIInv, NextIInv, PTL DEF Spec

\* A descriptor that main_loop takes for active without a connection was made so by
\* an event of a socket that was dropped before.
THEOREM ActiveOnlyByStaleEvent == Spec => []ActiveIsConnected
<1>1. IInv => ActiveIsConnected
  BY DEF IInv, SockInv, ActiveByOwnEvent, ActiveIsConnected
<1> QED
  BY <1>1, InitIInv, NextIInv, PTL DEF Spec

\* No line goes to another descriptor's file before main_loop has closed the number
\* of a refused connection and left it in d->fd.
THEOREM StraysOnlyIfDropped == Spec => []OwnNumberOnly
<1>1. IInv => OwnNumberOnly
  BY DEF IInv, SockInv
<1> QED
  BY <1>1, InitIInv, NextIInv, PTL DEF Spec
=============================================================================
