------------------------------ MODULE MCSource ------------------------------
(* The file source and the line reader, which share no variable: each of     *)
(* them is explored while the other is at rest.                              *)
EXTENDS FileSource, LineReader, SequencesExt

CONSTANT MaxLen    \* every input of at most MaxLen bytes, read in every possible way

MCInputs == BoundedSeq(Bytes, MaxLen)

FileAtRest == Init /\ made = 0
ReaderAtRest == ReaderInit /\ input = <<>>

FileStep(A) == ReaderAtRest /\ A /\ UNCHANGED readerVars
ReaderStep(A) == FileAtRest /\ A /\ UNCHANGED vars

SourceInit == (Init /\ ReaderAtRest) \/ (ReaderInit /\ FileAtRest)
SourceNext == FileStep(Next) \/ ReaderStep(ReaderNext)

SourceSpec == /\ SourceInit
              /\ [][SourceNext]_<<vars, readerVars>>
              /\ WF_<<vars, readerVars>>(FileStep(Dlog))
=============================================================================
