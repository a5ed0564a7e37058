----------------------------- MODULE LineReader -----------------------------
(***************************************************************************)
(* The line reader of a source (lr.c) and the loop of descriptor_read that *)
(* drives it (dlog.c): bytes of the source are read into a buffer in       *)
(* arbitrary pieces, then complete lines are taken off its front until     *)
(* none is left.                                                           *)
(***************************************************************************)
EXTENDS Naturals, Sequences

CONSTANTS
    NL,        \* the line terminator
    Text,      \* every other byte
    Inputs     \* what a source may send: sequences of bytes

Bytes == Text \cup {NL}

ASSUME BytesAssumption == NL \notin Text
ASSUME InputsAssumption == Inputs \subseteq Seq(Bytes)

VARIABLES
    input,     \* what this source sends
    pos,       \* number of bytes of it read so far
    buf,       \* linereader.buf
    cur_idx,   \* linereader.cur_idx: bytes of buf already scanned
    phase,     \* descriptor_read is in its "read" loop or in its "lines" loop
    out,       \* the lines handed to the rules, joined (history)
    ends,      \* positions in input where a delivered line ended (history)
    cuts       \* positions at which a scan ran out of bytes (history)

readerVars == <<input, pos, buf, cur_idx, phase, out, ends, cuts>>

\* reader_new: an empty buffer.
ReaderInit == /\ input \in Inputs
              /\ pos = 0
              /\ buf = <<>>
              /\ cur_idx = 0
              /\ phase = "read"
              /\ out = <<>>
              /\ ends = {}
              /\ cuts = {}

\* One read(2) of n bytes into the slack of the buffer (reader_get_buffer,
\* reader_buffer_fill).
Read(n) == /\ phase = "read"
           /\ pos + n <= Len(input)
           /\ buf' = buf \o SubSeq(input, pos + 1, pos + n)
           /\ pos' = pos + n
           /\ UNCHANGED <<input, cur_idx, phase, out, ends, cuts>>

\* The read loop ends: end of file, EAGAIN, or the chunk limit is reached.
StopReading == /\ phase = "read"
               /\ phase' = "lines"
               /\ UNCHANGED <<input, pos, buf, cur_idx, out, ends, cuts>>

\* Bug: empty lines are not skipped.
SkipsNothing(k) == k = cur_idx

\* k bytes are scanned when the loop that skips leading terminators stops.
SkipStopsAt(k) == /\ k \in cur_idx .. Len(buf)
                  /\ \A j \in cur_idx + 1 .. k : buf[j] = NL
                  /\ k < Len(buf) => buf[k+1] # NL

\* memchr: the first terminator behind the k bytes that were skipped.
TerminatorAt(k, nl) == /\ nl \in k+1 .. Len(buf)
                       /\ buf[nl] = NL
                       /\ \A j \in k+1 .. nl-1 : buf[j] # NL

\* Bug: the terminator stays in the buffer.
RestKeepsNL(nl) == SubSeq(buf, nl, Len(buf))

\* dynstr_remove_range(buf, 0, nl), and where the next scan starts.
Rest(nl) == SubSeq(buf, nl + 1, Len(buf))
ScanFrom(nl) == 0

\* reader_get_next_line returns a line: everything up to the terminator.
GetLine == /\ phase = "lines"
           /\ \E k \in 0 .. Len(buf), nl \in 1 .. Len(buf) :
                 /\ SkipStopsAt(k)
                 /\ TerminatorAt(k, nl)
                 /\ out' = out \o SubSeq(buf, 1, nl)
                 /\ ends' = ends \cup {Len(out) + nl}
                 /\ buf' = Rest(nl)
                 /\ cur_idx' = ScanFrom(nl)
           /\ UNCHANGED <<input, pos, phase, cuts>>

\* reader_get_next_line returns NULL: the buffer holds no further terminator.
NoLine == /\ phase = "lines"
          /\ \E k \in 0 .. Len(buf) :
                /\ SkipStopsAt(k)
                /\ \A j \in k+1 .. Len(buf) : buf[j] # NL
          /\ cur_idx' = Len(buf)
          /\ cuts' = cuts \cup {pos}
          /\ phase' = "read"
          /\ UNCHANGED <<input, pos, buf, out, ends>>

ReaderNext == \/ \E n \in 1 .. Len(input) : Read(n)
              \/ StopReading
              \/ GetLine
              \/ NoLine

ReaderSpec == ReaderInit /\ [][ReaderNext]_readerVars

-----------------------------------------------------------------------------
\* The buffer and the delivered text hold bytes; the scan index never leaves
\* the buffer (memchr is given a length that is not negative).
ReaderTypeOK == /\ input \in Seq(Bytes)
                /\ pos \in 0 .. Len(input)
                /\ buf \in Seq(Bytes)
                /\ cur_idx \in 0 .. Len(buf)
                /\ phase \in {"read", "lines"}
                /\ out \in Seq(Bytes)
                /\ ends \subseteq 1 .. Len(input)
                /\ cuts \subseteq 0 .. Len(input)

\* No byte that was read is lost, repeated or moved, however the reads cut the
\* stream: what was delivered, followed by the buffer, is what was read.
Conservation == out \o buf = SubSeq(input, 1, pos)

Scanned == Len(out) + cur_idx

\* The positions where a non-empty line of the input ends.
LineEnds == {p \in 2 .. Len(input) : input[p] = NL /\ input[p-1] # NL}

\* Exactly which lines reader_get_next_line delivers: of the non-empty lines
\* whose end was scanned, all but those whose text was scanned up to, and not
\* including, its terminator by an earlier call.  The terminator then comes
\* first in the next scan and is skipped as if the line were empty, so that the
\* line is joined with the one behind it (LineByLine does not hold).
DeliveredExactly ==
    ends = {p \in LineEnds : p <= Scanned /\ p - 1 \notin cuts}

\* README.md: "Dlog works on text input, line by line."  A non-empty line that has
\* been handed to the rules was handed over by itself: its end is the end of a
\* delivery, not the middle of one.
LineByLine == \A p \in LineEnds : p <= Len(out) => p \in ends
=============================================================================
