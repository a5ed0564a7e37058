------------------------------- MODULE RotLog -------------------------------
(***************************************************************************)
(* A rotlog destination (rotlog.c): a file that is renamed away and opened *)
(* anew when it has reached its size (rotlog_post_line_write) or when      *)
(* SIGUSR1 asks for it (dlog_sig_rotlog).  Archives are named after the    *)
(* second of the rotation.                                                 *)
(***************************************************************************)
EXTENDS WriteQueue, Integers

CONSTANTS
    RotSize,     \* origin->file.size: the size at which the file is rotated
    Lens,        \* the lengths of lines
    Faults,      \* what may go wrong, a subset of AllFaults
    MaxWrites,   \* bound on the number of lines written by the rules
    MaxNow       \* bound on the clock

AllFaults == {"short_write", "write_error", "rename_fails", "open_fails",
              "same_second"}

ASSUME RotLogAssumption == /\ RotSize \in Nat \ {0}
                           /\ Lens \subseteq Nat \ {0}
                           /\ Faults \subseteq AllFaults
                           /\ MaxWrites \in Nat
                           /\ MaxNow \in Nat

VARIABLES
    state,       \* descriptor.state
    fd,          \* what the number descriptor.fd stands for: the "open" file, nothing
                 \* ("closed"), or the file of an "other" descriptor that got it
    file,        \* the pieces in the file at origin->file.path
    archive,     \* archive[t]: the pieces in the file renamed in second t
    size,        \* *(int *)d->vfn.state, the size rotlog.c believes the file has
    line,        \* the write queue
    now,         \* the clock, in seconds
    count,       \* number of lines written by the rules (history)
    accepted,    \* the lines wq_add_line accepted (history)
    errors,      \* failed writes since the file was opened (history)
    strayed,     \* the pieces written to the file of another descriptor (history)
    failed,      \* a rename has failed (history)
    gone         \* lines discarded: last in the queue at a short write, in the queue
                 \* when open_descriptor destroys it, in an archive that is
                 \* replaced (history)

vars == <<state, fd, file, archive, size, line, now, count, accepted, errors,
          strayed, failed, gone>>

Bytes(s) == LET sum[k \in 0 .. Len(s)] == IF k = 0 THEN 0 ELSE sum[k - 1] + s[k].len
            IN sum[Len(s)]

\* What is at the path when the destination is opened: nothing, or what an
\* earlier run of dlog left there, of any size.
OldFiles == {<<>>} \cup {<<[id |-> MaxWrites, len |-> l]>> : l \in 1 .. RotSize + 1}

\* open_rotlog, rotlog_on_activate.
Init == /\ state = "ACTIVE"
        /\ fd = "open"
        /\ file \in OldFiles
        /\ archive = [t \in 0 .. MaxNow |-> <<>>]
        /\ size = Bytes(file)
        /\ line = <<>>
        /\ now = 0
        /\ count = 0
        /\ accepted = <<>>
        /\ errors = 0
        /\ strayed = <<>>
        /\ failed = FALSE
        /\ gone = {}

\* Bug: the new file inherits the queue of the old one.
KeepsQueue(q) == q

\* open_descriptor without DOPEN_KEEP_BUFFERS destroys the write queue.
QueueOnOpen(q) == <<>>

\* Bug: the file is emptied without being renamed.
TruncateInstead(f) == archive

\* rename(2) replaces a file that has the new name.
RenameTo(f) == [archive EXCEPT ![now] = f]

\* rotlog_rotate, and rotlog_on_activate when it succeeds: f is in the file, q in
\* the queue, s is the believed size, e the number of writes that failed, g the
\* lines discarded so far.
Rotate(f, q, s, e, g) ==
    \/ \* rename fails: the number was closed before
       /\ "rename_fails" \in Faults \/ state = "DEAD"
       /\ fd' = "closed" /\ file' = f /\ size' = s /\ line' = q
       /\ errors' = e /\ gone' = g
       /\ failed' = TRUE
       /\ UNCHANGED <<state, archive>>
    \/ /\ state = "ACTIVE"
       /\ archive[now] # <<>> => "same_second" \in Faults
       /\ archive' = RenameTo(f)
       /\ file' = <<>>
       /\ UNCHANGED failed
       /\ \/ /\ fd' = "open"
             /\ line' = QueueOnOpen(q) /\ size' = 0 /\ errors' = 0
             /\ gone' = g \cup Ids(q) \cup Ids(archive[now])
             /\ UNCHANGED state
          \/ \* open_file_w fails: close_descriptor ignores a dead descriptor
             /\ "open_fails" \in Faults
             /\ fd' = "closed" /\ state' = "DEAD"
             /\ line' = q /\ size' = s /\ errors' = e
             /\ gone' = g \cup Ids(archive[now])

MustRotate(s) == s >= RotSize

\* rotlog_post_line_write, after it has added the bytes written to the size.
AfterWrite(f, q, s, e, g) ==
    IF MustRotate(s) THEN Rotate(f, q, s, e, g)
    ELSE /\ file' = f /\ line' = q /\ size' = s /\ errors' = e /\ gone' = g
         /\ UNCHANGED <<state, fd, archive, failed>>

\* Bug: the bytes written are not counted.
Uncounted(s, w) == s

Counted(s, w) == s + Bytes(w)

\* wq_write on the number, and the size it leads to.  Writes after which the
\* queue holds a freed line are left out: what follows them is undefined.
WriteOut(q) ==
    \E i \in DOMAIN q : \E n \in 1 .. q[i].len :
        LET w == Written(q, i, n)
            g == IF IsShort(q, i, n) THEN {q[Len(q)].id} ELSE {}
        IN /\ fd \in {"open", "other"}
           /\ IsShort(q, i, n) => "short_write" \in Faults
           /\ ~KeepsFreed(q, i, n)
           /\ strayed' = IF fd = "other" THEN strayed \o w ELSE strayed
           /\ AfterWrite(IF fd = "open" THEN file \o w ELSE file, Retained(q, i, n),
                         Counted(size, w), errors, gone \cup g)

\* writev fails: disk full, or the file is closed.  -1 is added to the size.
WriteFails(q) ==
    /\ fd # "closed" => "write_error" \in Faults
    /\ UNCHANGED strayed
    /\ AfterWrite(file, q, size - 1, errors + 1, gone)

\* descriptor_write_direct: a dead descriptor is not written to.
Writable == state = "ACTIVE"

\* A rule writes a line of l bytes: descriptor_write_direct.
descriptor_write(l) ==
    /\ count < MaxWrites
    /\ count' = count + 1
    /\ LET ln == [id |-> count, len |-> l]
           q  == wq_add_line(line, ln)
       IN /\ accepted' = IF Len(line) < HighWM THEN Append(accepted, ln) ELSE accepted
          /\ \/ /\ Writable
                /\ WriteOut(q) \/ WriteFails(q)
             \/ \* "Trying to write to inactive descriptor. Ignored"
                /\ ~Writable
                /\ line' = q
                /\ UNCHANGED <<state, fd, file, archive, size, errors, strayed, failed, gone>>
    /\ UNCHANGED now

\* dlog_sig_rotlog reaches this destination.
SigRotate == /\ Rotate(file, line, size, errors, gone)
             /\ UNCHANGED <<now, count, accepted, strayed>>

Tick == /\ now < MaxNow
        /\ now' = now + 1
        /\ UNCHANGED <<state, fd, file, archive, size, line, count, accepted, errors,
                       strayed, failed, gone>>

\* Another descriptor is opened and gets the number that was closed.
NumberReused == /\ fd = "closed"
                /\ fd' = "other"
                /\ UNCHANGED <<state, file, archive, size, line, now, count, accepted, errors,
                               strayed, failed, gone>>

Next == \/ \E l \in Lens : descriptor_write(l)
        \/ SigRotate
        \/ Tick
        \/ NumberReused

Spec == Init /\ [][Next]_vars

-----------------------------------------------------------------------------
Files == {file} \cup {archive[t] : t \in DOMAIN archive}

\* Every variable has the values its C counterpart can have; the queue stays
\* within its array.
TypeOK == /\ state \in {"ACTIVE", "DEAD"}
          /\ fd \in {"open", "closed", "other"}
          /\ file \in Seq(Lines)
          /\ archive \in [0 .. MaxNow -> Seq(Lines)]
          /\ size \in Int
          /\ line \in Seq(Lines) /\ Len(line) <= HighWM
          /\ now \in 0 .. MaxNow
          /\ count \in 0 .. MaxWrites
          /\ accepted \in Seq(Lines)
          /\ errors \in Nat
          /\ strayed \in Seq(Lines)
          /\ failed \in BOOLEAN
          /\ gone \subseteq Nat

\* README.md: "a log line will never be split between two files".  As far as it is
\* so: bytes of a line are in one of the rotlog's own files only,
\* even when a write stops short and when renaming or reopening the file fails.  A
\* line in one of them and in the file of another descriptor takes a short write and
\* then a failed rename that gives the number away before the line is written again:
\* what the rotlog has of it is a piece, never the line.
SplitOnlyIfStrayed ==
    /\ \A t \in DOMAIN archive :
          /\ Ids(archive[t]) \cap Ids(file) = {}
          /\ \A u \in DOMAIN archive \ {t} : Ids(archive[t]) \cap Ids(archive[u]) = {}
    /\ \A a \in DOMAIN accepted : accepted[a].id \in Ids(strayed) =>
          /\ failed
          /\ \A f \in Files : \A k \in DOMAIN f : f[k] # accepted[a]

\* The size that decides about rotation is the size of the file, less one for
\* every write that failed since the file was opened, as long as no line went to
\* another file.
SizeTracksFile ==
    /\ TypeOK
    /\ state = "ACTIVE" /\ strayed = <<>> => size = Bytes(file) - errors

\* Every line that was accepted is, whole, in one of the files, or queued, or
\* was last in the queue at a short write, or was queued at a rotation, or is in
\* an archive that a second rotation in the same second replaced, or went to
\* another descriptor's file.  The last happens only after a rename has failed and
\* left a closed number in d->fd, which another file may have got.
LinesAccounted ==
    /\ \A a \in DOMAIN accepted :
          \/ \E f \in Files : \E k \in DOMAIN f : f[k] = accepted[a]
          \/ accepted[a].id \in Ids(line) \cup Ids(strayed) \cup gone
    /\ strayed # <<>> => failed
=============================================================================
