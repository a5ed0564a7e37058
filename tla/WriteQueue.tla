----------------------------- MODULE WriteQueue -----------------------------
(***************************************************************************)
(* The write queue of a destination (lw.c).  A line is its identity and    *)
(* its length in bytes; what reaches the destination is a sequence of      *)
(* pieces, the piece of a line being the line with the number of its       *)
(* leading bytes that were written as its length.  A line written whole is *)
(* therefore its own piece.                                                *)
(***************************************************************************)
EXTENDS Naturals, Sequences

CONSTANT HighWM      \* DLOG_WRITE_HIGH_WM, 32 in def.h

ASSUME HighWMAssumption == HighWM \in Nat \ {0}

Lines == [id : Nat, len : Nat \ {0}]

Ids(s) == {s[k].id : k \in DOMAIN s}

\* Bug: a new line overtakes the queue.
AddInFront(q, ln) == IF Len(q) = HighWM THEN q ELSE <<ln>> \o q

\* wq_add_line: at the high watermark the new line is ignored.
wq_add_line(q, ln) == IF Len(q) = HighWM THEN q ELSE Append(q, ln)

\* writev(2) may stop anywhere: with n bytes of the i-th line written, and all
\* of the lines before it.  It stops short unless that is the whole queue.
IsShort(q, i, n) == ~(i = Len(q) /\ n = q[i].len)

\* What that leaves at the destination.
Written(q, i, n) == SubSeq(q, 1, i - 1) \o <<[q[i] EXCEPT !.len = n]>>

\* Bugs: nothing is taken off the queue; the line the write stopped in is.
RetainsAll(q, i, n) == q
RetainsFewer(q, i, n) == SubSeq(q, i + 1, Len(q) - 1)

\* What wq_write keeps when the write stopped in line i: the loop leaves i at
\* that line, whether or not all of it was written, and num_entries -= i+1
\* counts the lines before it and one more, off the end of the queue.
Retained(q, i, n) == SubSeq(q, i, Len(q) - 1)

\* The lines that dynstr_free was called on.
FreedLines(q, i, n) == Ids(SubSeq(q, 1, IF n = q[i].len THEN i ELSE i - 1))

\* A line that was freed and is still in the queue.
KeepsFreed(q, i, n) == FreedLines(q, i, n) \cap Ids(Retained(q, i, n)) # {}
=============================================================================
