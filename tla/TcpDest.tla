------------------------------ MODULE TcpDest ------------------------------
(***************************************************************************)
(* A TCP destination: open_skt_w and _sktw_post_line_write (coredesc.c),   *)
(* descriptor_write_direct and the write events of main_loop (dlog.c), and *)
(* the write queue that is to survive reconnections (lw.c).  epoll or      *)
(* kqueue return several events at once: a line may be written between the *)
(* moment an event was returned and the moment main_loop comes to it.      *)
(***************************************************************************)
EXTENDS WriteQueue

CONSTANTS
    Lens,        \* the lengths of lines
    Connects,    \* how connecting may end, a subset of ConnectResults
    Reports,     \* how the event system reports an error: "error", EPOLLERR, for
                 \* which main_loop only logs a message; "eof", EV_EOF of kqueue
    MaxWrites    \* bound on the number of lines written by the rules

ConnectResults == {"ACTIVE", "PENDING", "INIT", "DEAD"}

ASSUME TcpAssumption == /\ Lens \subseteq Nat \ {0}
                        /\ Connects \subseteq ConnectResults
                        /\ Reports \subseteq {"error", "eof"}
                        /\ MaxWrites \in Nat

VARIABLES
    state,      \* descriptor.state
    conn,       \* what the number d->fd stands for: a connection that is "connecting",
                \* "up", "refused", "failed" otherwise, or "gone" with its peer; a
                \* "closed" number; the file of an "other" descriptor that got it
    sock,       \* how many times the destination was opened
    armed,      \* a write event is registered for the socket
    event,      \* the event main_loop has not come to yet, and its socket
    listed,     \* the descriptor is in desc_active_list
    line,       \* the write queue
    crashed,    \* an element that is not in desc_active_list was taken off it
    sent,       \* the pieces writev took (history)
    accepted,   \* the lines wq_add_line accepted (history)
    count,      \* number of lines written by the rules (history)
    short,      \* writev has stopped short of the whole queue (history)
    applied,    \* the socket whose event made the descriptor active (history)
    dropped,    \* main_loop has closed a refused connection (history)
    strayed     \* a line was written to, or reset_descriptor closed, the file of
                \* another descriptor (history)

sockVars == <<state, conn, sock, armed, listed, crashed, applied>>
vars == <<sockVars, event, line, sent, accepted, count, short, dropped, strayed>>

NoEvent == [kind |-> "none", sock |-> 0]

\* What open_skt_w leaves in d->fd: connected at once, EINPROGRESS, or closed, where
\* every address failed (and getsockopt cannot tell why) or none was found.
ConnAfter(r) == CASE r = "ACTIVE"  -> "up"
                  [] r = "PENDING" -> "connecting"
                  [] OTHER         -> "closed"

\* The destination was opened by main, which repeats that for a name it cannot
\* resolve.
Init == /\ state \in Connects \ {"DEAD"}
        /\ conn = ConnAfter(state)
        /\ sock = 1
        /\ armed = (state = "PENDING")
        /\ listed = (state = "ACTIVE")
        /\ event = NoEvent
        /\ line = <<>> /\ sent = <<>> /\ accepted = <<>>
        /\ count = 0 /\ applied = 0
        /\ crashed = FALSE /\ short = FALSE /\ dropped = FALSE /\ strayed = FALSE

-----------------------------------------------------------------------------
(* The peer, the network and the rest of the process *)

Peer(from, to) == /\ ~crashed /\ conn \in from
                  /\ conn' = to
                  /\ UNCHANGED <<state, sock, armed, listed, crashed, applied, event, line,
                                 sent, accepted, count, short, dropped, strayed>>

Established == Peer({"connecting"}, "up")
Refused == Peer({"connecting"}, "refused")
Fails == Peer({"connecting"}, "failed")
PeerCloses == Peer({"up"}, "gone")

\* Another descriptor is opened and gets the number that was closed.
NumberReused == Peer({"closed"}, "other")

-----------------------------------------------------------------------------
\* Bug: the queue is destroyed at a reconnection.
QueueDestroyed(q) == <<>>

\* open_descriptor with DOPEN_KEEP_BUFFERS
QueueOnOpen(q) == q

\* Bug: the socket is opened anew, without a registration for its write event.
ReopenedUnregistered(r) == /\ state' = r
                           /\ conn' = ConnAfter(r)
                           /\ sock' = sock + 1
                           /\ armed' = FALSE
                           /\ listed' = (r = "ACTIVE")
                           /\ applied' = 0

\* Bug: a connection in progress is taken for an established one.
ReopenedActive(r) == /\ state' = IF r = "PENDING" THEN "ACTIVE" ELSE r
                     /\ conn' = ConnAfter(r)
                     /\ sock' = sock + 1
                     /\ armed' = (r = "PENDING")
                     /\ listed' = (r \in {"PENDING", "ACTIVE"})
                     /\ applied' = 0

\* open_skt_w and the end of open_descriptor
Reopened(r) == /\ state' = r
               /\ conn' = ConnAfter(r)
               /\ sock' = sock + 1
               /\ armed' = (r = "PENDING")
               /\ listed' = (r = "ACTIVE")
               /\ applied' = 0

\* reset_descriptor and open_descriptor: the number is closed whatever it stands
\* for, and an active descriptor is taken off the list whether it is there or not.
Reconnects(q) ==
    /\ line' = QueueOnOpen(q)
    /\ \/ /\ state = "ACTIVE" /\ ~listed
          /\ crashed' = TRUE
          /\ UNCHANGED <<state, conn, sock, armed, listed, applied>>
       \/ /\ state = "ACTIVE" => listed
          /\ \E r \in Connects : Reopened(r)
          /\ UNCHANGED crashed

\* _sktw_post_line_write: when the socket is dropped and opened anew.
DropsSocket(err) == state = "PENDING" \/ err = "EPIPE"

\* The end of descriptor_write_direct when wq_write has written something or failed:
\* post_line_write is called.
AfterWrite(q, err) ==
    IF DropsSocket(err) THEN Reconnects(q)
    ELSE /\ line' = q
         /\ conn' = IF conn \in {"refused", "failed"} THEN "gone" ELSE conn
         /\ UNCHANGED <<state, sock, armed, listed, crashed, applied>>

\* wq_write when writev takes something.  Writes after which the queue holds a
\* freed line are left out: what follows them is undefined.
Writes(q) ==
    /\ conn \in {"up", "gone", "other"}
    /\ \E i \in DOMAIN q : \E n \in 1 .. q[i].len :
          /\ ~KeepsFreed(q, i, n)
          /\ sent' = sent \o Written(q, i, n)
          /\ short' = (short \/ IsShort(q, i, n))
          /\ AfterWrite(Retained(q, i, n), "")
    /\ strayed' = (strayed \/ conn = "other")

\* EAGAIN: the send buffer is full, or the connection is still in progress.  wq_write
\* returns -1 and no error: post_line_write is not called.
WouldBlock(q) == /\ conn \in {"up", "connecting"}
                 /\ line' = q
                 /\ UNCHANGED <<sockVars, sent, short, strayed>>

\* writev returns the error of the connection once, and EPIPE afterwards.  A socket that
\* is not connected yet is an error where kqueue is used.  The file of another
\* descriptor may be read-only, or the end of a broken pipe.
WriteErrors == [connecting |-> IF "eof" \in Reports THEN {"ENOTCONN"} ELSE {},
                refused |-> {"ECONNREFUSED"}, failed |-> {"ETIMEDOUT"},
                gone |-> {"ECONNRESET", "EPIPE"}, closed |-> {"EBADF"},
                other |-> {"EBADF", "EPIPE"}]

WriteFails(q) == /\ conn \in DOMAIN WriteErrors
                 /\ \E err \in WriteErrors[conn] :
                       /\ AfterWrite(q, err)
                       /\ strayed' = (strayed \/ (conn = "other" /\ DropsSocket(err)))
                 /\ UNCHANGED <<sent, short>>

\* Bug: the state is not looked at.
WritesAnyState == TRUE

\* descriptor_write_direct: state & ~(DSTATE_PENDING|DSTATE_ACTIVE)
Writable == state \in {"PENDING", "ACTIVE"}

\* A rule writes a line of l bytes.
descriptor_write(l) ==
    /\ ~crashed /\ count < MaxWrites
    /\ count' = count + 1
    /\ LET ln == [id |-> count, len |-> l]
           q  == wq_add_line(line, ln)
       IN /\ accepted' = IF Len(line) < HighWM THEN Append(accepted, ln) ELSE accepted
          /\ \/ Writable /\ (Writes(q) \/ WouldBlock(q) \/ WriteFails(q))
             \/ ~Writable /\ line' = q /\ UNCHANGED <<sockVars, sent, short, strayed>>
    /\ UNCHANGED <<event, dropped>>

-----------------------------------------------------------------------------
\* A peer that has closed its end is no error.
EventKinds == CASE conn = "up"   -> {"out"}
                [] conn = "gone" -> Reports \cup {"out"}
                [] OTHER         -> Reports

\* epoll_wait or kevent returns the write event, once.
EventReturned ==
    /\ ~crashed /\ event = NoEvent
    /\ armed /\ conn # "connecting"
    /\ armed' = FALSE
    /\ \E k \in EventKinds : event' = [kind |-> k, sock |-> sock]
    /\ UNCHANGED <<state, conn, sock, listed, crashed, applied, line, sent, accepted, count,
                   short, dropped, strayed>>

\* Write events matter while a connection is awaited.
Awaits == state = "PENDING"

\* main_loop: the socket is connected.
Connected == /\ event.kind = "out"
             /\ state' = "ACTIVE"
             /\ applied' = event.sock
             /\ UNCHANGED <<conn, armed, dropped>>

\* main_loop: an end of file, and SO_ERROR of the descriptor's present socket is
\* ECONNREFUSED or not.  Reading it clears it.  Closing the socket ends its
\* registration.
EndOfFile == /\ event.kind = "eof"
             /\ conn' = CASE conn = "refused" -> "closed" [] conn = "failed" -> "gone"
                          [] OTHER -> conn
             /\ dropped' = (dropped \/ conn = "refused")
             /\ armed' = (armed /\ conn # "refused")
             /\ UNCHANGED <<state, applied>>

Ignored == /\ event.kind = "error" \/ ~Awaits
           /\ UNCHANGED <<state, applied, conn, armed, dropped>>

\* main_loop comes to the event.
EventHandled == /\ ~crashed /\ event # NoEvent
                /\ event' = NoEvent
                /\ \/ Awaits /\ (Connected \/ EndOfFile)
                   \/ Ignored
                /\ UNCHANGED <<sock, listed, crashed, line, sent, accepted, count, short,
                               strayed>>

-----------------------------------------------------------------------------
Next == \/ Established \/ Refused \/ Fails \/ PeerCloses \/ NumberReused
        \/ \E l \in Lens : descriptor_write(l)
        \/ EventReturned \/ EventHandled

\* main_loop goes round, and comes to every event it was returned.
Fairness == WF_vars(EventReturned) /\ WF_vars(EventHandled)

Spec == Init /\ [][Next]_vars /\ Fairness

-----------------------------------------------------------------------------
\* The state is one open_descriptor and main_loop set, and the queue never
\* outgrows its array.
TypeOK == /\ state \in ConnectResults
          /\ conn \in {"connecting", "up", "refused", "failed", "gone", "closed", "other"}
          /\ sock \in 1 .. MaxWrites + 1
          /\ {armed, listed, crashed, short, dropped, strayed} \subseteq BOOLEAN
          /\ event \in [kind : {"none", "out", "error", "eof"}, sock : 0 .. MaxWrites + 1]
          /\ line \in Seq(Lines) /\ Len(line) <= HighWM
          /\ sent \in Seq(Lines) /\ accepted \in Seq(Lines)
          /\ count \in 0 .. MaxWrites
          /\ applied \in 0 .. MaxWrites + 1

\* Whatever happens to its connections, and however often it reconnects: as long as
\* writev has taken all of the queue or nothing, every accepted line was taken once
\* and in order or is queued (DOPEN_KEEP_BUFFERS).
LinesKept == /\ TypeOK
             /\ ~short => sent \o line = accepted

\* A descriptor is active without a connection only by an event of an earlier socket:
\* one that main_loop was returned before a line written from the same batch of events
\* made _sktw_post_line_write open another socket.
ActiveIsConnected ==
    state = "ACTIVE" /\ conn \in {"connecting", "refused", "failed", "closed"}
        => applied \in 1 .. sock - 1

\* Lines go to, and reset_descriptor closes, no file but the destination's own, unless
\* main_loop has closed a refused connection and left the number in d->fd.
OwnNumberOnly == strayed => dropped

\* The loop comes to know of a connection that is established, whatever was written
\* and reset before, unless the connection is dropped or goes first.
EstablishedNoticed == state = "PENDING" /\ conn = "up" ~> state # "PENDING" \/ conn # "up"
=============================================================================
