---------------------------- MODULE Destination ----------------------------
(***************************************************************************)
(* A plain destination that stays open: each write of a rule puts its line *)
(* in the write queue and then writes the whole queue out                  *)
(* (descriptor_write_direct in dlog.c, wq_add_line and wq_write in lw.c).  *)
(***************************************************************************)
EXTENDS WriteQueue

CONSTANTS
    Lens,        \* the lengths of lines
    Faults,      \* what may go wrong: a subset of {"short_write", "write_error"}
    MaxWrites    \* bound on the number of lines written by the rules

ASSUME LensAssumption == Lens \subseteq Nat \ {0}
ASSUME MaxWritesAssumption == MaxWrites \in Nat
ASSUME FaultsAssumption == Faults \subseteq {"short_write", "write_error"}

VARIABLES
    line,        \* writequeue.line[0 .. num_entries-1]
    sent,        \* the pieces that reached the destination (history)
    accepted,    \* the lines that wq_add_line accepted (history)
    count,       \* number of lines written by the rules (history)
    freed,       \* the lines that were freed (history)
    cutoff       \* the lines at the end of the queue at a short write (history)

vars == <<line, sent, accepted, count, freed, cutoff>>

Init == /\ line = <<>>
        /\ sent = <<>>
        /\ accepted = <<>>
        /\ count = 0
        /\ freed = {}
        /\ cutoff = {}

\* wq_write on queue q when writev reports progress.
Writes(q) ==
    \E i \in DOMAIN q : \E n \in 1 .. q[i].len :
       /\ IsShort(q, i, n) => "short_write" \in Faults
       /\ sent' = sent \o Written(q, i, n)
       /\ line' = Retained(q, i, n)
       /\ freed' = freed \cup FreedLines(q, i, n)
       /\ cutoff' = IF IsShort(q, i, n) THEN cutoff \cup {q[Len(q)].id} ELSE cutoff

\* wq_write on queue q when there is nothing to write, or writev fails with
\* EAGAIN or another error: the queue stays as it is.
WritesNothing(q) ==
    /\ q # <<>> => "write_error" \in Faults
    /\ line' = q
    /\ UNCHANGED <<sent, freed, cutoff>>

\* wq_write reads the lines of the queue.  Where one of them was freed, nothing
\* can be said of what it does: the model stops there.
Defined == Ids(line) \cap freed = {}

\* A rule writes a line of l bytes.
descriptor_write(l) ==
    /\ Defined
    /\ count < MaxWrites
    /\ count' = count + 1
    /\ LET ln == [id |-> count, len |-> l]
           q  == wq_add_line(line, ln)
       IN /\ accepted' = IF Len(line) < HighWM THEN Append(accepted, ln) ELSE accepted
          /\ Writes(q) \/ WritesNothing(q)

\* descriptor_write_direct(d, NULL), from desc_active_writes_drain.
Drain == /\ Defined
         /\ Writes(line) \/ WritesNothing(line)
         /\ UNCHANGED <<accepted, count>>

Next == \/ \E l \in Lens : descriptor_write(l)
        \/ Drain

Spec == Init /\ [][Next]_vars

-----------------------------------------------------------------------------
\* Lines and pieces are what they claim to be, and the queue never outgrows the
\* array it is kept in (struct writequeue, lw.h).
TypeOK == /\ line \in Seq(Lines) /\ Len(line) <= HighWM
          /\ sent \in Seq(Lines)
          /\ accepted \in Seq(Lines)
          /\ count \in 0 .. MaxWrites
          /\ freed \subseteq Nat
          /\ cutoff \subseteq Nat

\* As long as writev has written all of the queue or none of it, every accepted
\* line has reached the destination whole, once and in the order it was accepted,
\* or is still queued.
NothingLost == cutoff = {} => sent \o line = accepted

\* ... and no line that wq_write freed is still in the queue.
NoDangling == cutoff = {} => Defined

WholeSent == {sent[k].id : k \in {m \in DOMAIN sent :
                 \E a \in DOMAIN accepted : accepted[a] = sent[m]}}

\* Whatever writev does, lines reach the destination in the order they were
\* accepted; the line a write stopped in may come again.
InOrder == LET all == sent \o line IN
           \A j, k \in DOMAIN all : j < k => all[j].id <= all[k].id

\* What wq_write loses: nothing but lines that were last in the queue when a
\* write stopped short.
LossOnlyByShortWrite == Ids(accepted) \subseteq WholeSent \cup Ids(line) \cup cutoff
=============================================================================
