------------------------- MODULE Destination_proofs -------------------------
(***************************************************************************)
(* Proofs about lw.c and descriptor_write_direct for lines of any length   *)
(* and a queue of any size: what holds up to the first write that stops    *)
(* short (which regular files, in practice, do not see), and what holds    *)
(* wherever writes stop.  Before a line comes to a destination, the rules  *)
(* decide about it: the second part proves, for every rule, which of its   *)
(* statements are evaluated and which captures they refer to.              *)
(***************************************************************************)
EXTENDS Destination, RuleTree, SequenceTheorems, WellFoundedInduction, TLAPS

\* Lines are accepted in the order in which the rules wrote them.
Increasing == /\ \A k \in DOMAIN accepted : accepted[k].id < count
              /\ \A j, k \in DOMAIN accepted : j < k => accepted[j].id < accepted[k].id

\* Without short writes, only lines that were sent are freed.
FreedSent == cutoff = {} => freed \subseteq Ids(sent)

IInv == TypeOK /\ NothingLost /\ Increasing /\ FreedSent

\* The lines of two sequences are the lines of both.
LEMMA IdsConcat ==
    ASSUME NEW s \in Seq(Lines), NEW t \in Seq(Lines)
    PROVE  Ids(s \o t) = Ids(s) \cup Ids(t)
<1> DEFINE c == s \o t
<1>1. /\ DOMAIN s = 1 .. Len(s) /\ DOMAIN t = 1 .. Len(t)
      /\ Len(s) \in Nat /\ Len(t) \in Nat
  BY LenProperties
<1>2. /\ c \in Seq(Lines) /\ Len(c) = Len(s) + Len(t)
      /\ \A k \in 1 .. Len(s) + Len(t) :
            c[k] = IF k <= Len(s) THEN s[k] ELSE t[k - Len(s)]
  BY ConcatProperties
<1>3. DOMAIN c = 1 .. Len(s) + Len(t)
  BY <1>2, LenProperties
<1> HIDE DEF c
<1>4. Ids(c) \subseteq Ids(s) \cup Ids(t)
  <2> SUFFICES ASSUME NEW k \in 1 .. Len(s) + Len(t)
               PROVE  c[k].id \in Ids(s) \cup Ids(t)
    BY <1>3 DEF Ids
  <2>1. CASE k <= Len(s)
    <3>1. k \in 1 .. Len(s) /\ c[k] = s[k]
      BY <2>1, <1>1, <1>2
    <3> QED
      BY <3>1, <1>1 DEF Ids
  <2>2. CASE k > Len(s)
    <3>1. k - Len(s) \in 1 .. Len(t) /\ c[k] = t[k - Len(s)]
      BY <2>2, <1>1, <1>2
    <3> QED
      BY <3>1, <1>1 DEF Ids
  <2> QED
    BY <2>1, <2>2, <1>1
<1>5. Ids(s) \subseteq Ids(c)
  <2> SUFFICES ASSUME NEW k \in 1 .. Len(s) PROVE s[k].id \in Ids(c)
    BY <1>1 DEF Ids
  <2>1. k \in 1 .. Len(s) + Len(t) /\ c[k] = s[k]
    BY <1>1, <1>2
  <2> QED
    BY <2>1, <1>3 DEF Ids
<1>6. Ids(t) \subseteq Ids(c)
  <2> SUFFICES ASSUME NEW k \in 1 .. Len(t) PROVE t[k].id \in Ids(c)
    BY <1>1 DEF Ids
  <2>1. Len(s) + k \in 1 .. Len(s) + Len(t) /\ c[Len(s) + k] = t[k]
    <3>1. /\ Len(s) + k \in 1 .. Len(s) + Len(t) /\ ~(Len(s) + k <= Len(s))
          /\ (Len(s) + k) - Len(s) = k
      BY <1>1
    <3> QED
      BY <3>1, <1>2
  <2> QED
    BY <2>1, <1>3 DEF Ids
<1> QED
  BY <1>4, <1>5, <1>6 DEF c

\* The identities of lines are numbers.
LEMMA IdsNat ==
    ASSUME NEW s \in Seq(Lines)
    PROVE  Ids(s) \subseteq Nat /\ \A k \in DOMAIN s : s[k].id \in Nat
<1>1. \A k \in DOMAIN s : s[k] \in Lines
  BY LenProperties
<1> QED
  BY <1>1 DEF Ids, Lines

\* A write that is not short sends the queue as it is and empties it.
LEMMA WholeWrite ==
    ASSUME NEW q \in Seq(Lines), NEW i \in DOMAIN q, NEW n \in 1 .. q[i].len,
           ~IsShort(q, i, n)
    PROVE  /\ Written(q, i, n) = q
           /\ Retained(q, i, n) = <<>>
           /\ FreedLines(q, i, n) = Ids(q)
<1>1. i = Len(q) /\ n = q[i].len /\ i \in 1 .. Len(q) /\ Len(q) \in Nat /\ q[i] \in Lines
  BY DEF IsShort
<1>2. Retained(q, i, n) = <<>>
  BY <1>1 DEF Retained
<1>3. SubSeq(q, 1, i) = q
  BY <1>1, SubSeqFull
<1>4. FreedLines(q, i, n) = Ids(q)
  BY <1>1, <1>3 DEF FreedLines
<1>5. [q[i] EXCEPT !.len = n] = q[i]
  BY <1>1 DEF Lines
<1>6. SubSeq(q, 1, i - 1) \o <<q[i]>> = q
  <2> DEFINE f == SubSeq(q, 1, i - 1)
             w == f \o <<q[i]>>
  <2>1. f \in Seq(Lines) /\ Len(f) = i - 1 /\ \A k \in 1 .. i - 1 : f[k] = q[k]
    BY <1>1, SubSeqProperties
  <2>2. <<q[i]>> \in Seq(Lines) /\ Len(<<q[i]>>) = 1 /\ <<q[i]>>[1] = q[i]
    BY <1>1
  <2> HIDE DEF f
  <2>3. /\ w \in Seq(Lines) /\ Len(w) = i
        /\ \A k \in 1..i : w[k] = IF k <= i - 1 THEN f[k] ELSE <<q[i]>>[k - (i - 1)]
    BY <1>1, <2>1, <2>2, ConcatProperties
  <2>4. \A k \in 1..i : w[k] = q[k]
    BY <1>1, <2>1, <2>2, <2>3
  <2> HIDE DEF w
  <2>5. w = q
    BY <1>1, <2>3, <2>4, SeqEqual
  <2> QED
    BY <2>5 DEF w, f
<1>7. Written(q, i, n) = q
  BY <1>5, <1>6 DEF Written
<1> QED
  BY <1>2, <1>4, <1>7

LEMMA InitIInv == Init => IInv
<1> SUFFICES ASSUME Init, MaxWrites \in Nat PROVE IInv
  BY MaxWritesAssumption
<1> USE HighWMAssumption DEF Init
<1>1. TypeOK
  BY DEF TypeOK
<1>2. NothingLost /\ Increasing /\ FreedSent
  BY DEF NothingLost, Increasing, FreedSent
<1> QED
  BY <1>1, <1>2 DEF IInv

\* Wherever a write stops, what it sends and what it leaves are lines, and the
\* queue does not grow.
LEMMA AnyWrite ==
    ASSUME NEW q \in Seq(Lines), NEW i \in DOMAIN q, NEW n \in 1 .. q[i].len
    PROVE  /\ Written(q, i, n) \in Seq(Lines)
           /\ Retained(q, i, n) \in Seq(Lines) /\ Len(Retained(q, i, n)) <= Len(q)
           /\ FreedLines(q, i, n) \subseteq Nat
           /\ q[Len(q)].id \in Nat
<1>1. /\ i \in 1 .. Len(q) /\ Len(q) \in Nat /\ q[i] \in Lines /\ q[Len(q)] \in Lines
      /\ n \in Nat \ {0}
  <2>1. /\ Len(q) \in Nat /\ DOMAIN q = 1 .. Len(q)
        /\ \A k \in 1 .. Len(q) : q[k] \in Lines
    BY LenProperties
  <2>2. i \in 1 .. Len(q) /\ Len(q) \in 1 .. Len(q)
    BY <2>1
  <2>3. q[i] \in Lines /\ q[Len(q)] \in Lines
    BY <2>1, <2>2
  <2>4. q[i].len \in Nat
    BY <2>3 DEF Lines
  <2>5. n \in Nat \ {0}
    BY <2>4
  <2> QED
    BY <2>1, <2>2, <2>3, <2>5
<1>2. Written(q, i, n) \in Seq(Lines)
  <2>1. [q[i] EXCEPT !.len = n] \in Lines
    BY <1>1 DEF Lines
  <2>2. SubSeq(q, 1, i - 1) \in Seq(Lines)
    BY <1>1, SubSeqProperties
  <2>3. <<[q[i] EXCEPT !.len = n]>> \in Seq(Lines)
    BY <2>1
  <2> QED
    BY <2>2, <2>3, ConcatProperties DEF Written
<1>3. Retained(q, i, n) \in Seq(Lines) /\ Len(Retained(q, i, n)) <= Len(q)
  <2>1. CASE i <= Len(q) - 1
    BY <1>1, <2>1, SubSeqProperties DEF Retained
  <2>2. CASE i = Len(q)
    <3>1. Retained(q, i, n) = <<>>
      BY <1>1, <2>2 DEF Retained
    <3> QED
      BY <1>1, <3>1
  <2> QED
    BY <1>1, <2>1, <2>2
<1>4. FreedLines(q, i, n) \subseteq Nat
  <2> DEFINE m == IF n = q[i].len THEN i ELSE i - 1
  <2>1. m \in 0 .. Len(q)
    BY <1>1
  <2> HIDE DEF m
  <2>2. SubSeq(q, 1, m) \in Seq(Lines)
    BY <1>1, <2>1, SubSeqProperties
  <2> QED
    BY <2>2, IdsNat DEF FreedLines, m
<1>5. q[Len(q)].id \in Nat
  BY <1>1 DEF Lines
<1> QED
  BY <1>2, <1>3, <1>4, <1>5

\* wq_write on queue q, when what was sent and q together are what was accepted.
LEMMA WqWrite ==
    ASSUME sent \in Seq(Lines), NEW q \in Seq(Lines), Len(q) <= HighWM,
           cutoff = {} => sent \o q = accepted', FreedSent,
           freed \subseteq Nat, cutoff \subseteq Nat,
           Writes(q) \/ WritesNothing(q)
    PROVE  /\ line' \in Seq(Lines) /\ Len(line') <= HighWM
           /\ sent' \in Seq(Lines)
           /\ NothingLost'
           /\ FreedSent'
           /\ freed' \subseteq Nat
           /\ cutoff' \subseteq Nat
<1>1. CASE WritesNothing(q)
  BY <1>1 DEF WritesNothing, NothingLost, FreedSent
<1>2. CASE Writes(q)
  <2>0. PICK i \in DOMAIN q : \E n \in 1 .. q[i].len :
           /\ sent' = sent \o Written(q, i, n)
           /\ line' = Retained(q, i, n)
           /\ freed' = freed \cup FreedLines(q, i, n)
           /\ cutoff' = IF IsShort(q, i, n) THEN cutoff \cup {q[Len(q)].id} ELSE cutoff
    BY <1>2 DEF Writes
  <2>1. PICK n \in 1 .. q[i].len :
           /\ sent' = sent \o Written(q, i, n)
           /\ line' = Retained(q, i, n)
           /\ freed' = freed \cup FreedLines(q, i, n)
           /\ cutoff' = IF IsShort(q, i, n) THEN cutoff \cup {q[Len(q)].id} ELSE cutoff
    BY <2>0
  <2>2. /\ Written(q, i, n) \in Seq(Lines)
        /\ Retained(q, i, n) \in Seq(Lines) /\ Len(Retained(q, i, n)) <= Len(q)
        /\ FreedLines(q, i, n) \subseteq Nat
        /\ q[Len(q)].id \in Nat
    BY AnyWrite
  <2>3. line' \in Seq(Lines) /\ Len(line') <= HighWM
    <3>1. Len(line') \in Nat /\ Len(q) \in Nat /\ Len(line') <= Len(q)
      BY <2>1, <2>2
    <3> QED
      BY <2>1, <2>2, <3>1, HighWMAssumption
  <2>4. sent' \in Seq(Lines)
    BY <2>1, <2>2, ConcatProperties
  <2>5. freed' \subseteq Nat /\ cutoff' \subseteq Nat
    BY <2>1, <2>2
  <2>6. CASE cutoff' # {}
    BY <2>3, <2>4, <2>5, <2>6 DEF NothingLost, FreedSent
  <2>7. CASE cutoff' = {}
    <3>1. ~IsShort(q, i, n) /\ cutoff = {}
      BY <2>1, <2>7
    <3>2. sent' = sent \o q /\ line' = <<>> /\ freed' = freed \cup Ids(q)
      BY <2>1, <3>1, WholeWrite
    <3>3. sent' \o line' = sent'
      BY <2>4, <3>2
    <3>4. Ids(sent') = Ids(sent) \cup Ids(q)
      BY <3>2, IdsConcat
    <3>5. NothingLost'
      BY <3>1, <3>2, <3>3 DEF NothingLost
    <3>6. FreedSent'
      BY <3>1, <3>2, <3>4 DEF FreedSent
    <3> QED
      BY <2>3, <2>4, <2>5, <3>5, <3>6
  <2> QED
    BY <2>6, <2>7
<1> QED
  BY <1>1, <1>2

\* Appending a line to what is queued appends it to what was accepted.
LEMMA AppendAccepted ==
    ASSUME NEW s \in Seq(Lines), NEW t \in Seq(Lines), NEW ln \in Lines
    PROVE  s \o Append(t, ln) = Append(s \o t, ln)
<1>1. /\ Append(t, ln) = t \o <<ln>> /\ <<ln>> \in Seq(Lines) /\ s \o t \in Seq(Lines)
      /\ Append(s \o t, ln) = (s \o t) \o <<ln>>
  BY AppendIsConcat, ConcatProperties
<1> QED
  BY <1>1, ConcatAssociative

\* A line that is accepted is younger than all before it.
LEMMA StillIncreasing ==
    ASSUME accepted \in Seq(Lines), count \in Nat, Increasing,
           NEW ln \in Lines, ln.id = count, count' = count + 1,
           accepted' = accepted \/ accepted' = Append(accepted, ln)
    PROVE  Increasing'
<1>1. CASE accepted' = accepted
  <2>1. \A k \in DOMAIN accepted : accepted[k].id \in Nat
    BY IdsNat
  <2> QED
    BY <1>1, <2>1 DEF Increasing
<1>2. CASE accepted' = Append(accepted, ln)
  <2>1. /\ Len(accepted) \in Nat /\ DOMAIN accepted = 1 .. Len(accepted)
        /\ \A k \in DOMAIN accepted : accepted[k].id \in Nat
    BY LenProperties, IdsNat
  <2>2. /\ DOMAIN accepted' = 1 .. Len(accepted) + 1
        /\ \A k \in 1 .. Len(accepted) : accepted'[k] = accepted[k]
        /\ accepted'[Len(accepted) + 1] = ln
    BY <1>2, <2>1, AppendProperties
  <2>3. \A k \in 1 .. Len(accepted) + 1 : k \in 1 .. Len(accepted) \/ k = Len(accepted) + 1
    BY <2>1
  <2>4. \A k \in 1 .. Len(accepted) + 1 : accepted'[k].id < count + 1
    BY <2>1, <2>2, <2>3 DEF Increasing
  <2>5. \A j, k \in 1 .. Len(accepted) + 1 : j < k => accepted'[j].id < accepted'[k].id
    BY <2>1, <2>2, <2>3, SMTT(30) DEF Increasing
  <2> QED
    BY <2>2, <2>4, <2>5 DEF Increasing
<1> QED
  BY <1>1, <1>2

\* Every write of a rule and every drain keeps the inductive invariant.
LEMMA NextIInv == IInv /\ [Next]_vars => IInv'
<1> SUFFICES ASSUME IInv, [Next]_vars PROVE IInv'
  OBVIOUS
<1>1. /\ line \in Seq(Lines) /\ Len(line) <= HighWM /\ Len(line) \in Nat
      /\ sent \in Seq(Lines) /\ accepted \in Seq(Lines) /\ count \in Nat
      /\ count <= MaxWrites /\ freed \subseteq Nat /\ cutoff \subseteq Nat
      /\ cutoff = {} => sent \o line = accepted
      /\ FreedSent /\ Increasing
  BY MaxWritesAssumption DEF IInv, TypeOK, NothingLost
<1>2. ASSUME NEW l \in Lens, descriptor_write(l) PROVE IInv'
  <2> DEFINE ln == [id |-> count, len |-> l]
             q  == wq_add_line(line, ln)
  <2>1. ln \in Lines /\ ln.id = count
    BY <1>1, LensAssumption DEF Lines
  <2>2. /\ count < MaxWrites /\ count' = count + 1
        /\ accepted' = IF Len(line) < HighWM THEN Append(accepted, ln) ELSE accepted
        /\ Writes(q) \/ WritesNothing(q)
    BY <1>2 DEF descriptor_write
  <2> HIDE DEF ln
  <2>3. q = IF Len(line) < HighWM THEN Append(line, ln) ELSE line
    BY <1>1, HighWMAssumption DEF wq_add_line
  <2> HIDE DEF q
  <2>4. q \in Seq(Lines) /\ Len(q) <= HighWM
    <3>1. Append(line, ln) \in Seq(Lines) /\ Len(Append(line, ln)) = Len(line) + 1
      BY <1>1, <2>1, AppendProperties
    <3> QED
      BY <1>1, <2>3, <3>1, HighWMAssumption
  <2>5. cutoff = {} => sent \o q = accepted'
    BY <1>1, <2>1, <2>2, <2>3, AppendAccepted, SMTT(30)
  <2>6. /\ line' \in Seq(Lines) /\ Len(line') <= HighWM /\ sent' \in Seq(Lines)
        /\ NothingLost' /\ FreedSent' /\ freed' \subseteq Nat /\ cutoff' \subseteq Nat
    BY <1>1, <2>2, <2>4, <2>5, WqWrite
  <2>7. accepted' \in Seq(Lines) /\ count' \in 0 .. MaxWrites
    BY <1>1, <2>1, <2>2, AppendProperties, MaxWritesAssumption
  <2>8. Increasing'
    BY <1>1, <2>1, <2>2, StillIncreasing
  <2> QED
    BY <1>1, <2>6, <2>7, <2>8 DEF IInv, TypeOK
<1>3. CASE Drain
  <2>1. accepted' = accepted /\ count' = count /\ (Writes(line) \/ WritesNothing(line))
    BY <1>3 DEF Drain
  <2>2. /\ line' \in Seq(Lines) /\ Len(line') <= HighWM /\ sent' \in Seq(Lines)
        /\ NothingLost' /\ FreedSent' /\ freed' \subseteq Nat /\ cutoff' \subseteq Nat
    BY <1>1, <2>1, WqWrite
  <2>3. Increasing'
    BY <1>1, <2>1 DEF Increasing
  <2> QED
    BY <1>1, <2>1, <2>2, <2>3, MaxWritesAssumption DEF IInv, TypeOK
<1>4. CASE UNCHANGED vars
  BY <1>4 DEF vars, IInv, TypeOK, NothingLost, Increasing, FreedSent
<1> QED
  BY <1>2, <1>3, <1>4 DEF Next

\* As long as writev takes the queue whole or not at all, every accepted line
\* reaches the destination whole, once and in order, or is still queued; and the
\* queue always stays within its array: for every queue size and length of lines.
THEOREM NothingIsLost == Spec => [](TypeOK /\ NothingLost)
<1>1. IInv => TypeOK /\ NothingLost
  BY DEF IInv
<1>2. IInv /\ [Next]_vars => IInv'
  BY NextIInv
<1> QED
  BY <1>1, <1>2, InitIInv, PTL DEF Spec

\* Queued lines are younger than every line that was sent, so none was freed.
LEMMA QueueIsLive == IInv => NoDangling
<1> SUFFICES ASSUME IInv, cutoff = {}, NEW x \in Ids(line), x \in Ids(sent) PROVE FALSE
  BY DEF IInv, FreedSent, NoDangling, Defined
<1>1. /\ line \in Seq(Lines) /\ sent \in Seq(Lines) /\ accepted = sent \o line
      /\ Len(line) \in Nat /\ Len(sent) \in Nat
      /\ DOMAIN line = 1 .. Len(line) /\ DOMAIN sent = 1 .. Len(sent)
  BY LenProperties DEF IInv, TypeOK, NothingLost
<1>2. PICK k \in 1 .. Len(line) : x = line[k].id
  BY <1>1 DEF Ids
<1>3. PICK j \in 1 .. Len(sent) : x = sent[j].id
  BY <1>1 DEF Ids
<1>4. /\ accepted \in Seq(Lines) /\ Len(accepted) = Len(sent) + Len(line)
      /\ \A i \in 1 .. Len(sent) + Len(line) :
            accepted[i] = IF i <= Len(sent) THEN sent[i] ELSE line[i - Len(sent)]
  BY <1>1, ConcatProperties
<1>5. DOMAIN accepted = 1 .. Len(sent) + Len(line)
      /\ \A i \in DOMAIN accepted : accepted[i].id \in Nat
  BY <1>4, LenProperties, IdsNat
<1>6. j \in 1 .. Len(sent) + Len(line) /\ accepted[j] = sent[j]
  BY <1>1, <1>4
<1>7. /\ Len(sent) + k \in 1 .. Len(sent) + Len(line) /\ j < Len(sent) + k
      /\ accepted[Len(sent) + k] = line[k]
  <2>1. /\ Len(sent) + k \in 1 .. Len(sent) + Len(line) /\ j < Len(sent) + k
        /\ ~(Len(sent) + k <= Len(sent)) /\ (Len(sent) + k) - Len(sent) = k
    BY <1>1
  <2> QED
    BY <2>1, <1>4
<1>8. accepted[j].id < accepted[Len(sent) + k].id
  BY <1>5, <1>6, <1>7 DEF IInv, Increasing
<1> QED
  <2>1. accepted[j].id = x /\ accepted[Len(sent) + k].id = x
    BY <1>2, <1>3, <1>6, <1>7
  <2>2. accepted[j].id \in Nat
    BY <1>5, <1>6
  <2> QED
    BY <2>1, <2>2, <1>8

\* As long as writev takes the queue whole or not at all, wq_write never leaves a
\* line in the queue that it has freed.
THEOREM QueueNeverDangles == Spec => []NoDangling
<1>1. IInv /\ [Next]_vars => IInv'
  BY NextIInv
<1> QED
  BY <1>1, QueueIsLive, InitIInv, PTL DEF Spec

-----------------------------------------------------------------------------
(* Wherever writes stop *)

InIdOrder(s) == \A j, k \in DOMAIN s : j < k => s[j].id <= s[k].id

\* Every queued line is one that was accepted.
QueueAccepted == \A k \in DOMAIN line : \E a \in DOMAIN accepted : accepted[a] = line[k]

\* No line is younger than the last one that was written.
SentBefore == \A k \in DOMAIN (sent \o line) : (sent \o line)[k].id < count

ShortInv == TypeOK /\ InOrder /\ SentBefore /\ QueueAccepted /\ LossOnlyByShortWrite

\* The pieces a write sends, and the lines it leaves in the queue, one by one.
LEMMA WrittenPieces ==
    ASSUME NEW q \in Seq(Lines), NEW i \in DOMAIN q, NEW n \in 1 .. q[i].len
    PROVE  /\ Len(Written(q, i, n)) = i
           /\ \A k \in 1 .. i - 1 : Written(q, i, n)[k] = q[k]
           /\ Written(q, i, n)[i].id = q[i].id
           /\ Len(Retained(q, i, n)) = Len(q) - i
           /\ \A k \in 1 .. Len(q) - i : Retained(q, i, n)[k] = q[i + k - 1]
<1> DEFINE f == SubSeq(q, 1, i - 1)
           p == [q[i] EXCEPT !.len = n]
           t == <<p>>
           w == f \o t
<1>1. i \in 1 .. Len(q) /\ Len(q) \in Nat /\ q[i] \in Lines
  BY LenProperties
<1>2. n \in Nat \ {0}
  BY <1>1 DEF Lines
<1>3. f \in Seq(Lines) /\ Len(f) = i - 1 /\ \A k \in 1 .. i - 1 : f[k] = q[k]
  BY <1>1, SubSeqProperties
<1>4. p \in Lines /\ p.id = q[i].id
  BY <1>1, <1>2 DEF Lines
<1> HIDE DEF p
<1>5. t \in Seq(Lines) /\ Len(t) = 1 /\ t[1] = p
  BY <1>4
<1>6. Written(q, i, n) = w
  BY DEF Written, p
<1> HIDE DEF f, t
<1>7. /\ Len(w) = i
      /\ \A k \in 1 .. i : w[k] = IF k <= i - 1 THEN f[k] ELSE t[k - (i - 1)]
  <2>1. /\ Len(w) = Len(f) + Len(t)
        /\ \A k \in 1 .. Len(f) + Len(t) : w[k] = IF k <= Len(f) THEN f[k] ELSE t[k - Len(f)]
    BY <1>3, <1>5, ConcatProperties
  <2>2. Len(f) + Len(t) = i /\ Len(f) = i - 1
    BY <1>1, <1>3, <1>5
  <2> QED
    BY <2>1, <2>2
<1> HIDE DEF w
<1>8. w[i] = p /\ \A k \in 1 .. i - 1 : w[k] = q[k]
  <2>1. i \in 1 .. i /\ ~(i <= i - 1) /\ i - (i - 1) = 1
    BY <1>1
  <2>2. \A k \in 1 .. i - 1 : k \in 1 .. i /\ k <= i - 1
    BY <1>1
  <2> QED
    BY <1>3, <1>5, <1>7, <2>1, <2>2
<1>9. Len(Retained(q, i, n)) = Len(q) - i
      /\ \A k \in 1 .. Len(q) - i : Retained(q, i, n)[k] = q[i + k - 1]
  <2>1. CASE i <= Len(q) - 1
    BY <1>1, <2>1, SubSeqProperties DEF Retained
  <2>2. CASE i = Len(q)
    BY <1>1, <2>2 DEF Retained
  <2>3. i <= Len(q) - 1 \/ i = Len(q)
    BY <1>1
  <2> QED
    BY <2>1, <2>2, <2>3
<1> QED
  BY <1>4, <1>6, <1>7, <1>8, <1>9

\* Where a write stops changes the sequence of what was sent and what is queued only
\* by repeating the line it stopped in and by leaving out the last one.
LEMMA WriteRepeats ==
    ASSUME NEW s \in Seq(Lines), NEW q \in Seq(Lines), NEW i \in DOMAIN q,
           NEW n \in 1 .. q[i].len
    PROVE  LET all == s \o q
               new == (s \o Written(q, i, n)) \o Retained(q, i, n)
           IN /\ DOMAIN all = 1 .. Len(s) + Len(q) /\ DOMAIN new = 1 .. Len(s) + Len(q)
              /\ \A k \in 1 .. Len(s) + Len(q) :
                    new[k].id = all[IF k <= Len(s) + i THEN k ELSE k - 1].id
<1> DEFINE w == Written(q, i, n)
           r == Retained(q, i, n)
           all == s \o q
           sw == s \o w
           new == sw \o r
<1>1. Len(s) \in Nat /\ Len(q) \in Nat /\ i \in 1 .. Len(q)
  BY LenProperties
<1>2. w \in Seq(Lines) /\ r \in Seq(Lines)
  BY AnyWrite
<1>3. /\ Len(w) = i /\ (\A k \in 1 .. i - 1 : w[k] = q[k]) /\ w[i].id = q[i].id
      /\ Len(r) = Len(q) - i /\ \A k \in 1 .. Len(q) - i : r[k] = q[i + k - 1]
  BY WrittenPieces
<1> HIDE DEF w, r
<1>4. /\ all \in Seq(Lines) /\ Len(all) = Len(s) + Len(q)
      /\ \A k \in 1 .. Len(s) + Len(q) : all[k] = IF k <= Len(s) THEN s[k] ELSE q[k - Len(s)]
  BY ConcatProperties
<1>5. /\ sw \in Seq(Lines) /\ Len(sw) = Len(s) + i
      /\ \A k \in 1 .. Len(s) + i : sw[k] = IF k <= Len(s) THEN s[k] ELSE w[k - Len(s)]
  BY <1>2, <1>3, ConcatProperties
<1> HIDE DEF sw
<1>6. /\ new \in Seq(Lines) /\ Len(new) = Len(s) + i + (Len(q) - i)
      /\ \A k \in 1 .. Len(s) + i + (Len(q) - i) :
            new[k] = IF k <= Len(s) + i THEN sw[k] ELSE r[k - (Len(s) + i)]
  <2>1. /\ new \in Seq(Lines) /\ Len(new) = Len(sw) + Len(r)
        /\ \A k \in 1 .. Len(sw) + Len(r) : new[k] = IF k <= Len(sw) THEN sw[k] ELSE r[k - Len(sw)]
    BY <1>2, <1>5, ConcatProperties
  <2> HIDE DEF new
  <2>2. Len(sw) = Len(s) + i /\ Len(r) = Len(q) - i
    BY <1>3, <1>5
  <2> QED
    BY <2>1, <2>2
<1>7. Len(s) + i + (Len(q) - i) = Len(s) + Len(q)
  BY <1>1
<1>8. DOMAIN all = 1 .. Len(s) + Len(q) /\ DOMAIN new = 1 .. Len(s) + Len(q)
  BY <1>4, <1>6, <1>7, LenProperties
<1> HIDE DEF all, new
<1>9. ASSUME NEW k \in 1 .. Len(s) + Len(q)
      PROVE  new[k].id = all[IF k <= Len(s) + i THEN k ELSE k - 1].id
  <2>1. CASE k <= Len(s)
    <3>1. k \in 1 .. Len(s) + i /\ k <= Len(s) + i
      BY <1>1, <2>1
    <3>2. new[k] = sw[k]
      BY <1>6, <1>7, <3>1
    <3> QED
      BY <1>4, <1>5, <2>1, <3>1, <3>2
  <2>2. CASE k > Len(s) /\ k < Len(s) + i
    <3>1. k - Len(s) \in 1 .. i - 1 /\ k \in 1 .. Len(s) + i /\ ~(k <= Len(s)) /\ k <= Len(s) + i
      BY <1>1, <2>2
    <3>2. new[k] = q[k - Len(s)]
      BY <1>3, <1>5, <1>6, <1>7, <3>1
    <3> QED
      BY <1>4, <3>1, <3>2
  <2>3. CASE k = Len(s) + i
    <3>1. k - Len(s) = i /\ k \in 1 .. Len(s) + i /\ ~(k <= Len(s)) /\ k <= Len(s) + i
      BY <1>1, <2>3
    <3>2. new[k] = w[i]
      BY <1>5, <1>6, <1>7, <3>1
    <3>3. all[k] = q[i]
      BY <1>4, <3>1
    <3> QED
      BY <1>3, <3>1, <3>2, <3>3
  <2>4. CASE k > Len(s) + i
    <3> DEFINE m == k - (Len(s) + i)
    <3>1. /\ m \in 1 .. Len(q) - i /\ ~(k <= Len(s) + i)
          /\ k - 1 \in 1 .. Len(s) + Len(q) /\ ~(k - 1 <= Len(s)) /\ (k - 1) - Len(s) = i + m - 1
      BY <1>1, <2>4, SMTT(30)
    <3>2. new[k] = r[m]
      BY <1>6, <1>7, <3>1
    <3> HIDE DEF m
    <3>3. new[k] = q[i + m - 1] /\ all[k - 1] = q[i + m - 1]
      BY <1>3, <1>4, <3>1, <3>2
    <3> QED
      BY <3>1, <3>3
  <2> QED
    BY <1>1, <2>1, <2>2, <2>3, <2>4, SMTT(30)
<1> QED
  BY <1>8, <1>9 DEF all, new, sw, w, r

\* ... so that lines stay in order and none becomes younger.
LEMMA WriteInOrder ==
    ASSUME NEW s \in Seq(Lines), NEW q \in Seq(Lines), NEW i \in DOMAIN q,
           NEW n \in 1 .. q[i].len, NEW c \in Nat,
           InIdOrder(s \o q), \A k \in DOMAIN (s \o q) : (s \o q)[k].id < c
    PROVE  LET new == (s \o Written(q, i, n)) \o Retained(q, i, n)
           IN InIdOrder(new) /\ \A k \in DOMAIN new : new[k].id < c
<1> DEFINE all == s \o q
           new == (s \o Written(q, i, n)) \o Retained(q, i, n)
           h(k) == IF k <= Len(s) + i THEN k ELSE k - 1
<1>1. /\ DOMAIN all = 1 .. Len(s) + Len(q) /\ DOMAIN new = 1 .. Len(s) + Len(q)
      /\ \A k \in 1 .. Len(s) + Len(q) : new[k].id = all[h(k)].id
  BY WriteRepeats
<1>2. \A k \in DOMAIN all : all[k].id \in Nat
  BY ConcatProperties, IdsNat
<1>3. InIdOrder(all) /\ \A k \in DOMAIN all : all[k].id < c
  OBVIOUS
<1>4. Len(s) \in Nat /\ Len(q) \in Nat /\ i \in 1 .. Len(q)
  BY LenProperties
<1> HIDE DEF all, new
<1>5. \A k \in 1 .. Len(s) + Len(q) : h(k) \in 1 .. Len(s) + Len(q)
  BY <1>4
<1>6. \A k \in DOMAIN new : new[k].id < c
  BY <1>1, <1>3, <1>5
<1>7. ASSUME NEW j \in 1 .. Len(s) + Len(q), NEW k \in 1 .. Len(s) + Len(q), j < k
      PROVE  new[j].id <= new[k].id
  <2> DEFINE a == h(j)
             b == h(k)
  <2>1. a < b \/ a = b
    BY <1>4, <1>7
  <2>2. a \in DOMAIN all /\ b \in DOMAIN all /\ new[j].id = all[a].id /\ new[k].id = all[b].id
    BY <1>1, <1>5
  <2> HIDE DEF a, b
  <2>3. CASE a < b
    BY <1>3, <2>2, <2>3 DEF InIdOrder
  <2>4. CASE a = b
    BY <1>2, <2>2, <2>4
  <2> QED
    BY <2>1, <2>3, <2>4
<1>8. InIdOrder(new)
  BY <1>1, <1>7 DEF InIdOrder
<1> QED
  BY <1>6, <1>8 DEF new

\* The lines of acc that are among the pieces s, whole.
Whole(s, acc) == {s[k].id : k \in {m \in DOMAIN s : \E a \in DOMAIN acc : acc[a] = s[m]}}

\* A piece at a position of s \o t counts there as it does in s or t.
LEMMA WholeConcat ==
    ASSUME NEW s \in Seq(Lines), NEW t \in Seq(Lines), NEW acc
    PROVE  /\ Whole(s, acc) \subseteq Whole(s \o t, acc)
           /\ Whole(t, acc) \subseteq Whole(s \o t, acc)
<1> DEFINE c == s \o t
<1>1. /\ DOMAIN s = 1 .. Len(s) /\ DOMAIN t = 1 .. Len(t)
      /\ Len(s) \in Nat /\ Len(t) \in Nat
  BY LenProperties
<1>2. /\ c \in Seq(Lines) /\ Len(c) = Len(s) + Len(t)
      /\ \A k \in 1 .. Len(s) + Len(t) :
            c[k] = IF k <= Len(s) THEN s[k] ELSE t[k - Len(s)]
  BY ConcatProperties
<1>3. DOMAIN c = 1 .. Len(s) + Len(t)
  BY <1>2, LenProperties
<1> HIDE DEF c
<1>4. ASSUME NEW k \in 1 .. Len(s) PROVE k \in DOMAIN c /\ c[k] = s[k]
  <2>1. k \in 1 .. Len(s) + Len(t) /\ k <= Len(s)
    BY <1>1
  <2> QED
    BY <2>1, <1>2, <1>3
<1>5. ASSUME NEW k \in 1 .. Len(t) PROVE Len(s) + k \in DOMAIN c /\ c[Len(s) + k] = t[k]
  <2>1. /\ Len(s) + k \in 1 .. Len(s) + Len(t) /\ ~(Len(s) + k <= Len(s))
        /\ (Len(s) + k) - Len(s) = k
    BY <1>1
  <2> QED
    BY <2>1, <1>2, <1>3
<1>6. Whole(s, acc) \subseteq Whole(c, acc)
  BY <1>1, <1>4, Zenon DEF Whole
<1>7. Whole(t, acc) \subseteq Whole(c, acc)
  BY <1>1, <1>5, Zenon DEF Whole
<1> QED
  BY <1>6, <1>7 DEF c

\* Wherever a write stops, a line that was not sent whole is still queued, or was
\* the last one of the queue at a write that stopped short.
LEMMA WriteLoses ==
    ASSUME NEW s \in Seq(Lines), NEW q \in Seq(Lines), NEW acc \in Seq(Lines), NEW C,
           NEW i \in DOMAIN q, NEW n \in 1 .. q[i].len,
           \A k \in DOMAIN q : \E a \in DOMAIN acc : acc[a] = q[k],
           Ids(acc) \subseteq Whole(s, acc) \cup Ids(q) \cup C
    PROVE  LET w == Written(q, i, n)
               r == Retained(q, i, n)
           IN /\ \A k \in DOMAIN r : \E a \in DOMAIN acc : acc[a] = r[k]
              /\ Ids(acc) \subseteq
                    Whole(s \o w, acc) \cup Ids(r)
                       \cup (IF IsShort(q, i, n) THEN C \cup {q[Len(q)].id} ELSE C)
<1> DEFINE w == Written(q, i, n)
           r == Retained(q, i, n)
<1>1. /\ Len(q) \in Nat /\ i \in 1 .. Len(q) /\ DOMAIN q = 1 .. Len(q)
  BY LenProperties
<1>2. w \in Seq(Lines) /\ r \in Seq(Lines)
  BY AnyWrite
<1>3. /\ Len(w) = i /\ (\A k \in 1 .. i - 1 : w[k] = q[k])
      /\ Len(r) = Len(q) - i /\ \A k \in 1 .. Len(q) - i : r[k] = q[i + k - 1]
  BY WrittenPieces
<1>4. ~IsShort(q, i, n) => w = q
  BY WholeWrite
<1> HIDE DEF w, r
<1>5. DOMAIN w = 1 .. i /\ DOMAIN r = 1 .. Len(q) - i
  BY <1>2, <1>3, LenProperties
<1>6. ASSUME NEW k \in DOMAIN r PROVE \E a \in DOMAIN acc : acc[a] = r[k]
  <2>1. i + k - 1 \in DOMAIN q
    BY <1>1, <1>5
  <2>2. r[k] = q[i + k - 1]
    BY <1>3, <1>5
  <2> QED
    BY <2>1, <2>2
<1>7. Whole(s, acc) \subseteq Whole(s \o w, acc) /\ Whole(w, acc) \subseteq Whole(s \o w, acc)
  BY <1>2, WholeConcat
<1>8. CASE ~IsShort(q, i, n)
  <2>1. Ids(q) \subseteq Whole(w, acc)
    BY <1>4, <1>8, Zenon DEF Ids, Whole
  <2> QED
    BY <1>6, <1>7, <1>8, <2>1 DEF w, r
<1>9. CASE IsShort(q, i, n)
  <2>1. ASSUME NEW k \in 1 .. Len(q)
        PROVE  q[k].id \in Whole(w, acc) \cup Ids(r) \cup {q[Len(q)].id}
    <3>1. CASE k < i
      <4>1. k \in DOMAIN w /\ w[k] = q[k] /\ k \in DOMAIN q
        BY <1>1, <1>3, <1>5, <3>1, SMTT(30)
      <4>2. q[k].id \in Whole(w, acc)
        BY <4>1, Zenon DEF Whole
      <4> QED
        BY <4>2
    <3>2. CASE i <= k /\ k < Len(q)
      <4> DEFINE m == k - i + 1
      <4>1. m \in 1 .. Len(q) - i /\ i + m - 1 = k
        BY <1>1, <3>2
      <4> HIDE DEF m
      <4>2. m \in DOMAIN r /\ r[m] = q[k]
        BY <1>3, <1>5, <4>1
      <4>3. q[k].id \in Ids(r)
        BY <4>2 DEF Ids
      <4> QED
        BY <4>3
    <3>3. CASE k = Len(q)
      BY <3>3
    <3> QED
      BY <1>1, <3>1, <3>2, <3>3
  <2>2. Ids(q) \subseteq Whole(w, acc) \cup Ids(r) \cup {q[Len(q)].id}
    BY <1>1, <2>1 DEF Ids
  <2> QED
    BY <1>6, <1>7, <1>9, <2>2 DEF w, r
<1> QED
  BY <1>8, <1>9

\* wq_write on queue q keeps what holds of q, wherever the write stops.
LEMMA ShortWrite ==
    ASSUME sent \in Seq(Lines), NEW q \in Seq(Lines), accepted' \in Seq(Lines), count' \in Nat,
           InIdOrder(sent \o q), \A k \in DOMAIN (sent \o q) : (sent \o q)[k].id < count',
           \A k \in DOMAIN q : \E a \in DOMAIN accepted' : accepted'[a] = q[k],
           Ids(accepted') \subseteq Whole(sent, accepted') \cup Ids(q) \cup cutoff,
           Writes(q) \/ WritesNothing(q)
    PROVE  (InOrder /\ SentBefore /\ QueueAccepted /\ LossOnlyByShortWrite)'
<1>1. SUFFICES /\ InIdOrder(sent' \o line')
               /\ \A k \in DOMAIN (sent' \o line') : (sent' \o line')[k].id < count'
               /\ \A k \in DOMAIN line' : \E a \in DOMAIN accepted' : accepted'[a] = line'[k]
               /\ Ids(accepted') \subseteq Whole(sent', accepted') \cup Ids(line') \cup cutoff'
  BY DEF InOrder, InIdOrder, SentBefore, QueueAccepted, LossOnlyByShortWrite, WholeSent, Whole, Ids
<1>2. CASE WritesNothing(q)
  BY <1>2 DEF WritesNothing
<1>3. CASE Writes(q)
  <2>0. PICK i \in DOMAIN q : \E n \in 1 .. q[i].len :
           /\ sent' = sent \o Written(q, i, n)
           /\ line' = Retained(q, i, n)
           /\ cutoff' = IF IsShort(q, i, n) THEN cutoff \cup {q[Len(q)].id} ELSE cutoff
    BY <1>3 DEF Writes
  <2>1. PICK n \in 1 .. q[i].len :
           /\ sent' = sent \o Written(q, i, n)
           /\ line' = Retained(q, i, n)
           /\ cutoff' = IF IsShort(q, i, n) THEN cutoff \cup {q[Len(q)].id} ELSE cutoff
    BY <2>0
  <2>2. /\ InIdOrder(sent' \o line')
        /\ \A k \in DOMAIN (sent' \o line') : (sent' \o line')[k].id < count'
    BY <2>1, WriteInOrder
  <2>3. /\ \A k \in DOMAIN line' : \E a \in DOMAIN accepted' : accepted'[a] = line'[k]
        /\ Ids(accepted') \subseteq Whole(sent', accepted') \cup Ids(line') \cup cutoff'
    <3> DEFINE w == Written(q, i, n)
               r == Retained(q, i, n)
    <3>1. /\ \A k \in DOMAIN r : \E a \in DOMAIN accepted' : accepted'[a] = r[k]
          /\ Ids(accepted') \subseteq
                Whole(sent \o w, accepted') \cup Ids(r)
                   \cup (IF IsShort(q, i, n) THEN cutoff \cup {q[Len(q)].id} ELSE cutoff)
      BY WriteLoses
    <3> HIDE DEF w, r
    <3> QED
      BY <2>1, <3>1 DEF w, r
  <2> QED
    BY <2>2, <2>3
<1> QED
  BY <1>2, <1>3

LEMMA InitShortInv == Init => ShortInv
<1> SUFFICES ASSUME Init PROVE ShortInv
  OBVIOUS
<1>1. TypeOK
  BY InitIInv DEF IInv
<1>2. sent = <<>> /\ line = <<>> /\ accepted = <<>> /\ sent \o line = <<>>
  BY DEF Init
<1>3. InOrder /\ SentBefore /\ QueueAccepted /\ LossOnlyByShortWrite
  BY <1>2 DEF InOrder, SentBefore, QueueAccepted, LossOnlyByShortWrite, Ids
<1> QED
  BY <1>1, <1>3 DEF ShortInv

\* A line that a rule writes is younger than all lines before it.
LEMMA AddedInOrder ==
    ASSUME NEW all \in Seq(Lines), NEW c \in Nat, NEW ln \in Lines, ln.id = c,
           InIdOrder(all), \A k \in DOMAIN all : all[k].id < c
    PROVE  /\ InIdOrder(Append(all, ln))
           /\ \A k \in DOMAIN Append(all, ln) : Append(all, ln)[k].id < c + 1
<1> DEFINE new == Append(all, ln)
<1>1. /\ Len(all) \in Nat /\ DOMAIN all = 1 .. Len(all)
      /\ \A k \in 1 .. Len(all) : all[k].id \in Nat
  BY LenProperties, IdsNat
<1>2. /\ DOMAIN new = 1 .. Len(all) + 1
      /\ \A k \in 1 .. Len(all) : new[k] = all[k]
      /\ new[Len(all) + 1] = ln
  BY <1>1, AppendProperties
<1> HIDE DEF new
<1>3. \A k \in 1 .. Len(all) + 1 : k \in 1 .. Len(all) \/ k = Len(all) + 1
  BY <1>1
<1>4. \A k \in 1 .. Len(all) : new[k].id \in Nat /\ new[k].id < c
  BY <1>1, <1>2
<1>5. \A k \in DOMAIN new : new[k].id < c + 1
  BY <1>2, <1>3, <1>4
<1>6. ASSUME NEW j \in 1 .. Len(all) + 1, NEW k \in 1 .. Len(all) + 1, j < k
      PROVE  new[j].id <= new[k].id
  <2>1. j \in 1 .. Len(all)
    BY <1>1, <1>6
  <2>2. CASE k \in 1 .. Len(all)
    BY <1>1, <1>2, <1>6, <2>1, <2>2 DEF InIdOrder
  <2>3. CASE k = Len(all) + 1
    BY <1>2, <1>4, <2>1, <2>3
  <2> QED
    BY <1>3, <2>2, <2>3
<1> QED
  BY <1>2, <1>5, <1>6 DEF new, InIdOrder

\* Every write of a rule and every drain keeps the order of lines and the account
\* of those that were lost.
LEMMA NextShortInv == ShortInv /\ TypeOK' /\ [Next]_vars => ShortInv'
<1> SUFFICES ASSUME ShortInv, TypeOK', [Next]_vars PROVE ShortInv'
  OBVIOUS
<1> DEFINE all == sent \o line
<1>1. /\ line \in Seq(Lines) /\ Len(line) <= HighWM /\ Len(line) \in Nat
      /\ sent \in Seq(Lines) /\ accepted \in Seq(Lines) /\ count \in Nat
      /\ accepted' \in Seq(Lines) /\ count' \in Nat
  BY MaxWritesAssumption DEF ShortInv, TypeOK
<1>2. /\ InIdOrder(all) /\ \A k \in DOMAIN all : all[k].id < count
      /\ \A k \in DOMAIN line : \E a \in DOMAIN accepted : accepted[a] = line[k]
      /\ Ids(accepted) \subseteq Whole(sent, accepted) \cup Ids(line) \cup cutoff
  BY DEF ShortInv, InOrder, InIdOrder, SentBefore, QueueAccepted, LossOnlyByShortWrite,
         WholeSent, Whole
<1>3. all \in Seq(Lines)
  BY <1>1, ConcatProperties
<1>4. \A k \in DOMAIN all : all[k].id \in Nat
  BY <1>3, IdsNat
<1>5. ASSUME NEW l \in Lens, descriptor_write(l) PROVE ShortInv'
  <2> DEFINE ln == [id |-> count, len |-> l]
             q  == wq_add_line(line, ln)
  <2>1. ln \in Lines /\ ln.id = count
    BY <1>1, LensAssumption DEF Lines
  <2>2. /\ count' = count + 1
        /\ accepted' = IF Len(line) < HighWM THEN Append(accepted, ln) ELSE accepted
        /\ Writes(q) \/ WritesNothing(q)
    BY <1>5 DEF descriptor_write
  <2> HIDE DEF ln
  <2>3. q = IF Len(line) < HighWM THEN Append(line, ln) ELSE line
    BY <1>1, HighWMAssumption DEF wq_add_line
  <2> HIDE DEF q
  <2>4. CASE Len(line) < HighWM
    <3>1. accepted' = Append(accepted, ln) /\ q = Append(line, ln)
      BY <2>2, <2>3, <2>4
    <3>2. q \in Seq(Lines) /\ sent \o q = Append(all, ln)
      BY <1>1, <2>1, <3>1, AppendAccepted, AppendProperties
    <3>3. /\ InIdOrder(sent \o q)
          /\ \A k \in DOMAIN (sent \o q) : (sent \o q)[k].id < count'
      <4> HIDE DEF all
      <4>1. /\ InIdOrder(Append(all, ln))
            /\ \A k \in DOMAIN Append(all, ln) : Append(all, ln)[k].id < count + 1
        BY <1>1, <1>2, <1>3, <2>1, AddedInOrder
      <4> QED
        BY <2>2, <3>2, <4>1
    <3>4. /\ DOMAIN accepted' = 1 .. Len(accepted) + 1 /\ DOMAIN accepted = 1 .. Len(accepted)
          /\ Len(accepted) \in Nat
          /\ \A a \in 1 .. Len(accepted) : accepted'[a] = accepted[a]
          /\ accepted'[Len(accepted) + 1] = ln
      BY <1>1, <2>1, <3>1, AppendProperties, LenProperties
    <3>5. /\ DOMAIN q = 1 .. Len(line) + 1 /\ DOMAIN line = 1 .. Len(line)
          /\ \A a \in 1 .. Len(line) : q[a] = line[a]
          /\ q[Len(line) + 1] = ln
      BY <1>1, <2>1, <3>1, AppendProperties, LenProperties
    <3>6. /\ \A a \in DOMAIN accepted : a \in DOMAIN accepted' /\ accepted'[a] = accepted[a]
          /\ Len(accepted) + 1 \in DOMAIN accepted'
          /\ \A a \in DOMAIN accepted' : a \in DOMAIN accepted \/ a = Len(accepted) + 1
      BY <3>4
    <3>7. /\ \A k \in DOMAIN line : k \in DOMAIN q /\ q[k] = line[k]
          /\ Len(line) + 1 \in DOMAIN q
          /\ \A k \in DOMAIN q : k \in DOMAIN line \/ k = Len(line) + 1
      BY <1>1, <3>5
    <3>8. \A k \in DOMAIN q : \E a \in DOMAIN accepted' : accepted'[a] = q[k]
      BY <1>2, <3>4, <3>5, <3>6, <3>7, Zenon
    <3>9. Ids(accepted') \subseteq Ids(accepted) \cup {ln.id}
      BY <3>4, <3>6, Zenon DEF Ids
    <3>10. Ids(line) \cup {ln.id} \subseteq Ids(q)
      BY <3>5, <3>7, Zenon DEF Ids
    <3>11. Whole(sent, accepted) \subseteq Whole(sent, accepted')
      BY <3>6, Zenon DEF Whole
    <3>12. Ids(accepted') \subseteq Whole(sent, accepted') \cup Ids(q) \cup cutoff
      BY <1>2, <3>9, <3>10, <3>11
    <3> QED
      BY <1>1, <2>2, <3>2, <3>3, <3>8, <3>12, ShortWrite DEF ShortInv
  <2>5. CASE ~(Len(line) < HighWM)
    <3>1. accepted' = accepted /\ q = line
      BY <2>2, <2>3, <2>5
    <3>2. \A k \in DOMAIN all : all[k].id < count'
      <4> HIDE DEF all
      <4>1. \A x, c \in Nat : x < c => x < c + 1
        OBVIOUS
      <4> QED
        BY <1>1, <1>2, <1>4, <2>2, <4>1
    <3> QED
      BY <1>1, <1>2, <2>2, <3>1, <3>2, ShortWrite DEF ShortInv
  <2> QED
    BY <2>4, <2>5
<1>6. CASE Drain
  <2>1. accepted' = accepted /\ count' = count /\ (Writes(line) \/ WritesNothing(line))
    BY <1>6 DEF Drain
  <2> QED
    BY <1>1, <1>2, <2>1, ShortWrite DEF ShortInv
<1>7. CASE UNCHANGED vars
  BY <1>7 DEF vars, ShortInv, InOrder, SentBefore, QueueAccepted, LossOnlyByShortWrite, WholeSent, Ids
<1> QED
  BY <1>5, <1>6, <1>7 DEF Next

\* Wherever writev stops, lines reach the destination in the order in which they
\* were accepted; only the line a write stopped in comes again.
THEOREM StaysInOrder == Spec => []InOrder
<1>1. ShortInv => InOrder
  BY DEF ShortInv
<1> QED
  BY <1>1, InitShortInv, NextShortInv, NothingIsLost, PTL DEF Spec

\* Wherever writev stops, wq_write loses nothing but lines that were last in the
\* queue at a write that stopped short.
THEOREM LossesBounded == Spec => []LossOnlyByShortWrite
<1>1. ShortInv => LossOnlyByShortWrite
  BY DEF ShortInv
<1> QED
  BY <1>1, InitShortInv, NextShortInv, NothingIsLost, PTL DEF Spec

-----------------------------------------------------------------------------
(* The rules: _eval_node of node.c.                                         *)

\* The statement a node belongs to.
Abs(x) == IF x < 0 THEN -x ELSE x

\* What the calls under way look like: each was made by the one below it, for the
\* child or for the sibling of its node.
Frames == [node : Node, prev : Results, topr : Results,
           at : {"eval", "child", "sibling", "end"}]

MadeFor(f, g) == \/ f.at = "child" /\ f.topr = "TRUE" /\ Child(f.node) = g.node
                 \/ f.at = "end" /\ f.topr \in {"TRUE", "FALSE"} /\ Sibling(f.node) = g.node

Chained == /\ stack # <<>> => stack[1].node = 0
           /\ \A k \in 1 .. Len(stack) - 1 : MadeFor(stack[k], stack[k+1])

\* A call that has evaluated its node knows the result; blocks always succeed, and so
\* a block never stops the statement it belongs to.
Noted == \A k \in DOMAIN stack :
            /\ stack[k].at # "eval" => result[stack[k].node] = stack[k].topr
            /\ stack[k].at = "child" => stack[k].topr = "TRUE"
            /\ stack[k].at = "sibling" => stack[k].topr \in {"TRUE", "FALSE"}
            /\ stack[k].node <= 0 => stack[k].topr = "TRUE"

\* A block returns EVAL_TRUE to its statement.
BlockReturns == stack # <<>> /\ Top.at = "child" /\ Top.node > 0 => ret = "TRUE"

\* The statements whose blocks are open below call k, and those around a node.
OpenBelow(k) == {s \in DOMAIN rule :
                    \E j \in 1 .. k - 1 : stack[j].at = "child" /\ stack[j].node = s}
Around(x) == IF x > 0 THEN {s \in DOMAIN rule : Inside(x, s)}
             ELSE {s \in DOMAIN rule : s = -x \/ Inside(-x, s)}
Surrounded == \A k \in DOMAIN stack : OpenBelow(k) = Around(stack[k].node)

\* Nodes are evaluated in the order of the text, a statement before its block.
Before(x, n) == Abs(x) < Abs(n) \/ (n < 0 /\ x = -n)
Ahead == stack # <<>> /\ Top.at = "eval" =>
            \A x \in Node : Evaluated(x) => Before(x, Top.node)
Within == \A k \in DOMAIN stack :
             stack[k].at \in {"child", "sibling"} /\ stack[k].node > 0 =>
                \A x \in Node : Evaluated(x) =>
                   Abs(x) <= stack[k].node \/ Inside(Abs(x), stack[k].node)

\* A node that is about to be evaluated.
Due(n) == stack # <<>> /\ Top.at = "eval" /\ Top.node = n

\* What was evaluated was led to, and what was led to is evaluated or will be.
Led == \A n \in Node : Evaluated(n) => n = 0 \/ \E p \in Node : Leads(p, n)
Descended == /\ Evaluated(0) \/ stack = <<>> \/ Due(0)
             /\ stack = <<>> => Evaluated(0)
             /\ \A p, n \in Node : Child(p) = n /\ result[p] = "TRUE" => Evaluated(n) \/ Due(n)
Continued == \A p, n \in Node : Sibling(p) = n /\ result[p] \in {"TRUE", "FALSE"} =>
                \/ Evaluated(n) \/ Due(n)
                \/ \E k \in DOMAIN stack : stack[k].node = p /\ stack[k].at \in {"child", "sibling"}

Shape == /\ IsRule(rule) /\ stack \in Seq(Frames) /\ ret \in Results
         /\ crashed \in BOOLEAN /\ result \in [Node -> Results \cup {"-"}]

WalkInv == /\ Shape /\ Chained /\ Noted /\ BlockReturns /\ Surrounded
           /\ Ahead /\ Within /\ Led /\ Descended /\ Continued

-----------------------------------------------------------------------------
(* The captures in use, and those that are saved.                           *)

\* The statements whose blocks are open.
Open == OpenBelow(Len(stack) + 1)

\* The innermost match among statements.
Innermost(ms) == IF ms = {} THEN None ELSE CHOOSE s \in ms : \A t \in ms : t <= s
InnerMatch(S) == Innermost({s \in S : Kind(s) = "MATCH"})

\* A matchall block has ended inside the innermost match that is open.
Lost == \E m \in DOMAIN rule : /\ Kind(m) = "MATCHALL" /\ result[m] = "TRUE" /\ m \notin Open
                               /\ Enclosing(m) = InnerMatch(Open)

\* The captures in use are those of the innermost open match.
Scoped == re_match = IF Lost THEN None ELSE InnerMatch(Open)

\* The captures statement n refers to.
Scope(n) == IF Voided(n) THEN None ELSE Enclosing(n)

\* An open match has saved the captures that were in use before it; a matchall
\* never saves any.
Saved == \A n \in DOMAIN rule :
            IF Kind(n) = "MATCH" THEN n \in Open => prev_match[n] = Scope(n) /\ n \in held
            ELSE prev_match[n] = None

MatchShape == /\ re_match \in DOMAIN rule \cup {None}
              /\ prev_match \in [DOMAIN rule -> DOMAIN rule \cup {None}]
              /\ held \subseteq DOMAIN rule

CaptureInv == WalkInv /\ MatchShape /\ Scoped /\ Saved

-----------------------------------------------------------------------------
(* The tree.                                                                *)

\* The numbers of the nodes.
LEMMA NodeFacts ==
    ASSUME IsRule(rule)
    PROVE  /\ Len(rule) \in Nat /\ DOMAIN rule = 1 .. Len(rule) /\ Node \subseteq Int
           /\ \A n \in Node : n > 0 => n \in DOMAIN rule
           /\ \A n \in Node : n < 0 => -n \in DOMAIN rule
           /\ \A s \in DOMAIN rule : s \in Node /\ -s \in Node /\ s > 0
           /\ 0 \in Node
           /\ \A s \in DOMAIN rule : rule[s].depth \in Nat /\ rule[s].kind \in Kinds
           /\ \A n \in Node : Abs(n) \in Nat /\ Abs(n) <= Len(rule)
           /\ \A n \in Node : n > 0 => Abs(n) = n
           /\ \A n \in Node : n <= 0 => Abs(n) = -n
<1>1. rule \in Seq(Statements)
  BY DEF IsRule
<1>2. Len(rule) \in Nat /\ DOMAIN rule = 1 .. Len(rule)
  BY <1>1
<1>3. \A s \in DOMAIN rule : rule[s].depth \in Nat /\ rule[s].kind \in Kinds
  <2>1. \A s \in DOMAIN rule : rule[s] \in Statements
    BY <1>1, <1>2
  <2> QED
    BY <2>1 DEF Statements
<1> QED
  BY <1>2, <1>3 DEF Node, Abs

\* The child of a statement is the block it opens.
LEMMA ChildOfStatement ==
    ASSUME IsRule(rule), NEW n \in Node, n > 0, Child(n) # None
    PROVE  Child(n) = -n /\ -n \in Node
  BY NodeFacts DEF Child

\* The child of a block is its first statement.
LEMMA ChildOfBlock ==
    ASSUME IsRule(rule), NEW n \in Node, n <= 0, Child(n) # None
    PROVE  /\ Child(n) = 1 - n /\ 1 - n \in DOMAIN rule
           /\ n < 0 => rule[1-n].depth = rule[-n].depth + 1
           /\ n = 0 => rule[1-n].depth = 0
  BY NodeFacts DEF Child, DepthIn

\* What the sibling of a node is.
LEMMA SiblingIs ==
    ASSUME IsRule(rule), NEW n \in Node, Sibling(n) # None
    PROVE  /\ n > 0 /\ Sibling(n) \in DOMAIN rule /\ Sibling(n) > n
           /\ rule[Sibling(n)].depth = rule[n].depth
           /\ \A k \in n + 1 .. Sibling(n) - 1 : rule[k].depth > rule[n].depth
<1>1. PICK m \in DOMAIN rule : IsSibling(n, m)
  BY DEF Sibling
<1>2. Sibling(n) \in DOMAIN rule /\ IsSibling(n, Sibling(n))
  BY <1>1 DEF Sibling
<1> QED
  BY <1>2, NodeFacts DEF IsSibling

\* Children and siblings are nodes.
LEMMA LinksToNodes ==
    ASSUME IsRule(rule), NEW n \in Node
    PROVE  /\ Child(n) # None => Child(n) \in Node
           /\ Sibling(n) # None => Sibling(n) \in Node
  BY ChildOfStatement, ChildOfBlock, SiblingIs, NodeFacts

\* The statements around a node, from those around the node that leads to it.
LEMMA AroundChild ==
    ASSUME IsRule(rule), NEW n \in Node, Child(n) # None
    PROVE  Around(Child(n)) = IF n > 0 THEN Around(n) \cup {n} ELSE Around(n)
<1>1. CASE n > 0
  <2>1. Child(n) = -n /\ -(-n) = n /\ ~(-n > 0) /\ n \in DOMAIN rule
    BY <1>1, ChildOfStatement, NodeFacts
  <2> QED
    BY <1>1, <2>1, Zenon DEF Around
<1>2. CASE n <= 0
  <2> DEFINE b == -n
  <2>1. /\ Child(n) = b + 1 /\ b + 1 \in DOMAIN rule /\ b \in Nat /\ ~(n > 0)
        /\ b > 0 => b \in DOMAIN rule /\ rule[b+1].depth = rule[b].depth + 1
        /\ b = 0 => rule[b+1].depth = 0
    <3>1. n \in Int /\ (n < 0 => -n \in DOMAIN rule)
      BY NodeFacts
    <3>2. 1 - n = b + 1 /\ b \in Nat /\ ~(n > 0) /\ (b > 0 <=> n < 0) /\ (b = 0 <=> n = 0)
      BY <1>2, <3>1
    <3>3. /\ Child(n) = 1 - n /\ 1 - n \in DOMAIN rule
          /\ n < 0 => rule[1-n].depth = rule[-n].depth + 1
          /\ n = 0 => rule[1-n].depth = 0
      BY <1>2, ChildOfBlock
    <3> QED
      BY <3>1, <3>2, <3>3, Zenon
  <2> HIDE DEF b
  <2>2. ASSUME NEW s \in DOMAIN rule PROVE Inside(b + 1, s) <=> s = b \/ Inside(b, s)
    <3>1. /\ s \in Nat /\ s > 0 /\ rule[s].depth \in Nat
          /\ \A k \in DOMAIN rule : rule[k].depth \in Nat
          /\ DOMAIN rule = 1 .. Len(rule) /\ Len(rule) \in Nat
      BY NodeFacts
    <3>2. CASE s = b
      BY <2>1, <3>1, <3>2 DEF Inside
    <3>3. CASE s > b
      BY <2>1, <3>1, <3>3 DEF Inside
    <3>4. CASE s < b
      <4>1. b \in DOMAIN rule /\ rule[b+1].depth = rule[b].depth + 1 /\ b \in s+1 .. b
        BY <2>1, <3>1, <3>4
      <4>2. s+1 .. b+1 = (s+1 .. b) \cup {b+1}
        BY <2>1, <3>1, <3>4
      <4>3. s + 1 .. b \subseteq DOMAIN rule
        BY <2>1, <3>1, <4>1
      <4> QED
        BY <2>1, <3>1, <3>4, <4>1, <4>2, <4>3 DEF Inside
    <3> QED
      BY <2>1, <3>1, <3>2, <3>3, <3>4
  <2>3. b + 1 > 0 /\ ~(n > 0)
    BY <2>1
  <2>4. Around(b + 1) = {s \in DOMAIN rule : Inside(b + 1, s)}
    BY <2>3 DEF Around
  <2>5. Around(n) = {s \in DOMAIN rule : s = b \/ Inside(b, s)}
    BY <2>3 DEF Around, b
  <2> QED
    BY <2>1, <2>2, <2>3, <2>4, <2>5
<1> QED
  BY <1>1, <1>2, NodeFacts

\* A sibling is in the same block.
LEMMA AroundSibling ==
    ASSUME IsRule(rule), NEW n \in Node, Sibling(n) # None
    PROVE  Around(Sibling(n)) = Around(n)
<1> DEFINE m == Sibling(n)
<1>1. /\ n \in DOMAIN rule /\ m \in DOMAIN rule /\ n \in Nat /\ m \in Nat /\ n > 0 /\ n < m
      /\ rule[m].depth = rule[n].depth
      /\ \A k \in n + 1 .. m - 1 : rule[k].depth > rule[n].depth
      /\ \A k \in DOMAIN rule : rule[k].depth \in Nat
      /\ DOMAIN rule = 1 .. Len(rule) /\ Len(rule) \in Nat
  BY SiblingIs, NodeFacts
<1> HIDE DEF m
<1>2. ASSUME NEW s \in DOMAIN rule PROVE Inside(m, s) <=> Inside(n, s)
  <2>1. s \in Nat /\ s > 0
    BY <1>1
  <2>2. ASSUME Inside(m, s) PROVE Inside(n, s)
    <3>1. s < m /\ \A k \in s + 1 .. m : rule[k].depth > rule[s].depth
      BY <2>2 DEF Inside
    <3>2. rule[m].depth > rule[s].depth
      BY <1>1, <2>1, <3>1
    <3>3. s < n
      <4>1. s # n
        BY <1>1, <3>2
      <4>2. s \notin n + 1 .. m - 1
        BY <1>1, <3>2
      <4> QED
        BY <1>1, <2>1, <3>1, <4>1, <4>2
    <3> QED
      BY <1>1, <2>1, <3>1, <3>3 DEF Inside
  <2>3. ASSUME Inside(n, s) PROVE Inside(m, s)
    <3>1. s < n /\ \A k \in s + 1 .. n : rule[k].depth > rule[s].depth
      BY <2>3 DEF Inside
    <3>2. rule[n].depth > rule[s].depth
      BY <1>1, <2>1, <3>1
    <3>3. ASSUME NEW k \in s + 1 .. m PROVE rule[k].depth > rule[s].depth
      <4>1. CASE k \in s + 1 .. n
        BY <3>1, <4>1
      <4>2. CASE k \in n + 1 .. m - 1
        BY <1>1, <2>1, <3>2, <4>2
      <4>3. CASE k = m
        BY <1>1, <3>2, <4>3
      <4> QED
        BY <1>1, <2>1, <4>1, <4>2, <4>3
    <3> QED
      BY <1>1, <2>1, <3>1, <3>3 DEF Inside
  <2> QED
    BY <2>2, <2>3
<1> QED
  BY <1>1, <1>2 DEF Around, m
\* A step leaves the tree as it is.
LEMMA TreeKept ==
    ASSUME rule' = rule
    PROVE  /\ \A x : Child(x)' = Child(x)
           /\ \A x : Sibling(x)' = Sibling(x)
           /\ \A x, y : Inside(x, y)' <=> Inside(x, y)
           /\ \A x : Around(x)' = Around(x)
           /\ \A x : Kind(x)' = Kind(x)
           /\ \A x : Enclosing(x)' = Enclosing(x)
           /\ IsRule(rule)' <=> IsRule(rule)
           /\ Node' = Node /\ Frames' = Frames
<1>1. /\ \A x : Child(x)' = Child(x)
      /\ \A x : Sibling(x)' = Sibling(x)
  BY DEF Child, DepthIn, Sibling, IsSibling
<1>2. \A x, y : Inside(x, y)' <=> Inside(x, y)
  BY DEF Inside
<1>3. \A x : Around(x)' = Around(x)
  BY <1>2 DEF Around
<1>4. \A x : Kind(x)' = Kind(x)
  BY DEF Kind
<1>5. \A x : Enclosing(x)' = Enclosing(x)
  BY DEF Enclosing, Inside, Kind
<1>6. Node' = Node /\ (IsRule(rule)' <=> IsRule(rule))
  BY DEF Node, IsRule
<1>7. Frames' = Frames
  BY <1>6 DEF Frames
<1> QED
  BY <1>1, <1>2, <1>3, <1>4, <1>5, <1>6, <1>7

-----------------------------------------------------------------------------
(* What the actions do to the calls under way.                              *)

\* The innermost call after a step, when it has come to a with result r.
At(a, r) == [node |-> Top.node, prev |-> Top.prev, topr |-> r, at |-> a]

Replaces(f) == /\ stack' \in Seq(Frames) /\ Len(stack') = Len(stack)
               /\ stack'[Len(stack)] = f
               /\ \A k \in 1 .. Len(stack) - 1 : stack'[k] = stack[k]
Pushes(f, g) == /\ stack' \in Seq(Frames) /\ Len(stack') = Len(stack) + 1
                /\ stack'[Len(stack)] = f /\ stack'[Len(stack) + 1] = g
                /\ \A k \in 1 .. Len(stack) - 1 : stack'[k] = stack[k]
Pops == /\ stack' \in Seq(Frames) /\ Len(stack') = Len(stack) - 1
        /\ \A k \in 1 .. Len(stack) - 1 : stack'[k] = stack[k]

\* The innermost call is on the stack.
LEMMA TopIsCall ==
    ASSUME Shape, stack # <<>>
    PROVE  /\ Len(stack) \in Nat /\ Len(stack) > 0 /\ DOMAIN stack = 1 .. Len(stack)
           /\ \A k \in DOMAIN stack : stack[k] \in Frames
           /\ Top \in Frames /\ Top = stack[Len(stack)]
  BY DEF Shape, Top

\* The fields of a call.
LEMMA FrameFields ==
    ASSUME NEW f \in Frames
    PROVE  /\ f.node \in Node /\ f.prev \in Results /\ f.topr \in Results
           /\ f.at \in {"eval", "child", "sibling", "end"}
           /\ f = [node |-> f.node, prev |-> f.prev, topr |-> f.topr, at |-> f.at]
  BY DEF Frames

\* Changing the innermost call.
LEMMA TopReplaced ==
    ASSUME NEW F, NEW s \in Seq(F), s # <<>>, NEW f \in F,
           NEW t, t = [s EXCEPT ![Len(s)] = f]
    PROVE  /\ t \in Seq(F) /\ Len(t) = Len(s) /\ t[Len(s)] = f
           /\ \A k \in 1 .. Len(s) - 1 : t[k] = s[k]
<1>1. PICK n : n = Len(s) /\ n \in Nat /\ n \in 1 .. Len(s)
  OBVIOUS
<1>2. t = [s EXCEPT ![n] = f]
  BY <1>1
<1>3. /\ t \in Seq(F) /\ Len(t) = Len(s)
      /\ \A j \in 1 .. Len(s) : t[j] = IF j = n THEN f ELSE s[j]
  BY <1>1, <1>2, ExceptSeq
<1> QED
  BY <1>1, <1>3

\* Making a call.
LEMMA Pushed ==
    ASSUME NEW F, NEW s \in Seq(F), NEW g \in F
    PROVE  /\ Append(s, g) \in Seq(F) /\ Len(Append(s, g)) = Len(s) + 1
           /\ Append(s, g)[Len(s) + 1] = g
           /\ \A k \in 1 .. Len(s) : Append(s, g)[k] = s[k]
  OBVIOUS

\* GoTo and the assignment of topr, as a replacement of the innermost call.
LEMMA ComesTo ==
    ASSUME Shape, stack # <<>>, NEW a \in {"eval", "child", "sibling", "end"}, NEW r \in Results
    PROVE  /\ At(a, r) \in Frames
           /\ GoTo(a) = [stack EXCEPT ![Len(stack)] = At(a, Top.topr)]
           /\ [GoTo(a) EXCEPT ![Len(stack)].topr = r] = [stack EXCEPT ![Len(stack)] = At(a, r)]
<1>1. At(a, r) \in Frames
  BY TopIsCall, FrameFields DEF At, Frames
<1>2. PICK f : f = stack[Len(stack)] /\ f = Top
  BY TopIsCall
<1>3. /\ [f EXCEPT !.at = a] = At(a, Top.topr)
      /\ [At(a, Top.topr) EXCEPT !.topr = r] = At(a, r)
  <2>1. f = [node |-> f.node, prev |-> f.prev, topr |-> f.topr, at |-> f.at]
    BY <1>2, TopIsCall, FrameFields
  <2> QED
    BY <1>2, <2>1 DEF At
<1>4. GoTo(a) = [stack EXCEPT ![Len(stack)] = At(a, Top.topr)]
  BY <1>2, <1>3 DEF GoTo
<1>5. [GoTo(a) EXCEPT ![Len(stack)].topr = r] = [stack EXCEPT ![Len(stack)] = At(a, r)]
  <2>1. DOMAIN stack = 1 .. Len(stack) /\ Len(stack) \in 1 .. Len(stack)
    BY TopIsCall
  <2>2. PICK g : g = At(a, Top.topr)
    OBVIOUS
  <2>3. PICK h : h = At(a, r)
    OBVIOUS
  <2>4. [g EXCEPT !.topr = r] = h
    BY <1>3, <2>2, <2>3
  <2>5. PICK l : l = Len(stack)
    OBVIOUS
  <2>6. [[stack EXCEPT ![l] = g] EXCEPT ![l].topr = r] = [stack EXCEPT ![l] = h]
    BY <2>1, <2>4, <2>5
  <2> QED
    BY <1>4, <2>2, <2>3, <2>5, <2>6
<1> QED
  BY <1>1, <1>4, <1>5

\* Going on in the innermost call.
LEMMA Replaced ==
    ASSUME Shape, stack # <<>>, NEW f \in Frames, stack' = [stack EXCEPT ![Len(stack)] = f]
    PROVE  Replaces(f)
<1>1. PICK t : t = [stack EXCEPT ![Len(stack)] = f]
  OBVIOUS
<1>2. stack \in Seq(Frames)
  BY DEF Shape
<1>3. /\ t \in Seq(Frames) /\ Len(t) = Len(stack) /\ t[Len(stack)] = f
      /\ \A k \in 1 .. Len(stack) - 1 : t[k] = stack[k]
  BY <1>1, <1>2, TopReplaced
<1> QED
  BY <1>1, <1>3 DEF Replaces

\* Going on in the innermost call and making another.
LEMMA ReplacedAndPushed ==
    ASSUME Shape, stack # <<>>, NEW f \in Frames, NEW g \in Frames,
           stack' = Append([stack EXCEPT ![Len(stack)] = f], g)
    PROVE  Pushes(f, g)
<1>1. PICK t : t = [stack EXCEPT ![Len(stack)] = f]
  OBVIOUS
<1>2. stack \in Seq(Frames) /\ Len(stack) \in Nat /\ Len(stack) > 0
  BY TopIsCall DEF Shape
<1>3. /\ t \in Seq(Frames) /\ Len(t) = Len(stack) /\ t[Len(stack)] = f
      /\ \A k \in 1 .. Len(stack) - 1 : t[k] = stack[k]
  BY <1>1, <1>2, TopReplaced
<1>4. PICK u : u = Append(t, g)
  OBVIOUS
<1>5. /\ u \in Seq(Frames) /\ Len(u) = Len(stack) + 1 /\ u[Len(stack) + 1] = g
      /\ \A k \in 1 .. Len(stack) : u[k] = t[k]
  BY <1>3, <1>4, Pushed
<1>6. u[Len(stack)] = f /\ \A k \in 1 .. Len(stack) - 1 : u[k] = stack[k]
  BY <1>2, <1>3, <1>5
<1>7. stack' = u
  BY <1>1, <1>4
<1> QED
  BY <1>5, <1>6, <1>7 DEF Pushes

\* The handler's result decides how the call goes on.
LEMMA EvalEffect ==
    ASSUME Shape, EvalNode
    PROVE  /\ stack # <<>> /\ Top.at = "eval" /\ ~crashed /\ rule' = rule /\ ret' = ret
           /\ \E r \in Outcomes(Top) :
                 /\ r \in Results
                 /\ result' = [result EXCEPT ![Top.node] = r]
                 /\ \/ Stops(r) /\ Replaces(At("end", r))
                    \/ /\ r = "TRUE" /\ Child(Top.node) # None
                       /\ Pushes(At("child", r), Frame(Child(Top.node), r))
                    \/ /\ ~Stops(r) /\ ~(r = "TRUE" /\ Child(Top.node) # None)
                       /\ Replaces(At("sibling", r))
                 /\ IF Kind(Top.node) = "MATCH"
                    THEN /\ prev_match' = [prev_match EXCEPT ![Top.node] = re_match]
                         /\ re_match' = IF r = "TRUE" THEN Top.node ELSE re_match
                         /\ held' = IF r = "TRUE" THEN held \cup {Top.node} ELSE held \ {Top.node}
                    ELSE UNCHANGED <<prev_match, re_match, held>>
<1>1. stack # <<>> /\ Top.at = "eval" /\ ~crashed /\ rule' = rule /\ ret' = ret
  BY DEF EvalNode, Running
<1> DEFINE n == Top.node
           down(r) == r = "TRUE" /\ Child(n) # None
           where(r) == CASE Stops(r) -> "end" [] down(r) -> "child" [] OTHER -> "sibling"
           s(r) == [GoTo(where(r)) EXCEPT ![Len(stack)].topr = r]
<1>2. PICK r \in Outcomes(Top) :
         /\ stack' = IF down(r) THEN Call(s(r), Child(n), r) ELSE s(r)
         /\ result' = [result EXCEPT ![n] = r]
         /\ IF Kind(n) = "MATCH"
            THEN /\ prev_match' = [prev_match EXCEPT ![n] = re_match]
                 /\ re_match' = IF r = "TRUE" THEN n ELSE re_match
                 /\ held' = IF r = "TRUE" THEN held \cup {n} ELSE held \ {n}
            ELSE UNCHANGED <<prev_match, re_match, held>>
  BY Zenon DEF EvalNode
<1>3. r \in Results
  BY DEF Outcomes, Results
<1>4. n \in Node
  BY <1>1, TopIsCall, FrameFields
<1>5. CASE Stops(r)
  <2>1. where(r) = "end" /\ ~down(r)
    BY <1>5 DEF Stops
  <2>2. stack' = [stack EXCEPT ![Len(stack)] = At("end", r)] /\ At("end", r) \in Frames
    BY <1>1, <1>2, <1>3, <2>1, ComesTo
  <2>3. Replaces(At("end", r))
    BY <1>1, <2>2, Replaced
  <2> QED
    BY <1>1, <1>2, <1>3, <1>5, <2>3
<1>6. CASE down(r)
  <2>1. where(r) = "child"
    BY <1>6 DEF Stops
  <2>2. s(r) = [stack EXCEPT ![Len(stack)] = At("child", r)] /\ At("child", r) \in Frames
    BY <1>1, <1>3, <2>1, ComesTo
  <2>3. stack' = Append(s(r), Frame(Child(n), r))
    BY <1>2, <1>6 DEF Call
  <2>4. Frame(Child(n), r) \in Frames
    BY <1>3, <1>4, <1>6, LinksToNodes DEF Shape, Frame, Frames, Results
  <2>5. stack' = Append([stack EXCEPT ![Len(stack)] = At("child", r)], Frame(Child(n), r))
    BY <2>2, <2>3
  <2>6. Pushes(At("child", r), Frame(Child(n), r))
    BY <1>1, <2>2, <2>4, <2>5, ReplacedAndPushed
  <2> QED
    BY <1>1, <1>2, <1>3, <1>6, <2>6
<1>7. CASE ~Stops(r) /\ ~down(r)
  <2>1. where(r) = "sibling"
    BY <1>7
  <2>2. stack' = [stack EXCEPT ![Len(stack)] = At("sibling", r)] /\ At("sibling", r) \in Frames
    BY <1>1, <1>2, <1>3, <1>7, <2>1, ComesTo
  <2>3. Replaces(At("sibling", r))
    BY <1>1, <2>2, Replaced
  <2> QED
    BY <1>1, <1>2, <1>3, <1>7, <2>3
<1> QED
  BY <1>5, <1>6, <1>7

\* What ChildDone does.
LEMMA ChildDoneEffect ==
    ASSUME Shape, ChildDone
    PROVE  /\ stack # <<>> /\ Top.at = "child" /\ UNCHANGED <<rule, ret, prev_match, crashed, result>>
           /\ re_match' = OutOfScope(Top.node) /\ held' = held \ {Top.node}
           /\ Replaces(At(IF Stops(ret) THEN "end" ELSE "sibling", Top.topr))
<1>1. /\ stack # <<>> /\ Top.at = "child" /\ UNCHANGED <<rule, ret, prev_match, crashed, result>>
      /\ re_match' = OutOfScope(Top.node) /\ held' = held \ {Top.node}
      /\ stack' = GoTo(IF Stops(ret) THEN "end" ELSE "sibling")
  BY DEF ChildDone, Running
<1>2. PICK a \in {"end", "sibling"} : a = IF Stops(ret) THEN "end" ELSE "sibling"
  OBVIOUS
<1>3. Top.topr \in Results
  BY <1>1, TopIsCall, FrameFields
<1>4. stack' = [stack EXCEPT ![Len(stack)] = At(a, Top.topr)] /\ At(a, Top.topr) \in Frames
  BY <1>1, <1>2, <1>3, ComesTo
<1>5. Replaces(At(a, Top.topr))
  BY <1>1, <1>4, Replaced
<1> QED
  BY <1>1, <1>2, <1>5

\* What EvalSibling does.
LEMMA EvalSiblingEffect ==
    ASSUME Shape, EvalSibling
    PROVE  /\ stack # <<>> /\ Top.at = "sibling"
           /\ UNCHANGED <<rule, ret, re_match, prev_match, held, crashed, result>>
           /\ \/ Sibling(Top.node) = None /\ Replaces(At("end", Top.topr))
              \/ /\ Sibling(Top.node) # None
                 /\ Pushes(At("end", Top.topr), Frame(Sibling(Top.node), Top.topr))
<1>1. /\ stack # <<>> /\ Top.at = "sibling"
      /\ UNCHANGED <<rule, ret, re_match, prev_match, held, crashed, result>>
      /\ stack' = Call(GoTo("end"), Sibling(Top.node), Top.topr)
  BY DEF EvalSibling, Running
<1>2. Top.topr \in Results /\ Top.node \in Node
  BY <1>1, TopIsCall, FrameFields
<1>3. GoTo("end") = [stack EXCEPT ![Len(stack)] = At("end", Top.topr)] /\ At("end", Top.topr) \in Frames
  BY <1>1, <1>2, ComesTo
<1>4. CASE Sibling(Top.node) = None
  <2>1. stack' = [stack EXCEPT ![Len(stack)] = At("end", Top.topr)]
    BY <1>1, <1>3, <1>4 DEF Call
  <2> QED
    BY <1>1, <1>3, <1>4, <2>1, Replaced
<1>5. CASE Sibling(Top.node) # None
  <2>1. stack' = Append([stack EXCEPT ![Len(stack)] = At("end", Top.topr)],
                        Frame(Sibling(Top.node), Top.topr))
    BY <1>1, <1>3, <1>5 DEF Call
  <2>2. Frame(Sibling(Top.node), Top.topr) \in Frames
    BY <1>2, <1>5, LinksToNodes DEF Shape, Frame, Frames, Results
  <2> QED
    BY <1>1, <1>3, <1>5, <2>1, <2>2, ReplacedAndPushed
<1> QED
  BY <1>4, <1>5

\* What Return does.
LEMMA ReturnEffect ==
    ASSUME Shape, Return
    PROVE  /\ stack # <<>> /\ Top.at = "end" /\ Pops
           /\ ret' = Top.topr /\ held' = held \ {Top.node}
           /\ UNCHANGED <<rule, re_match, prev_match, crashed, result>>
<1>1. /\ stack # <<>> /\ Top.at = "end" /\ ret' = Top.topr /\ held' = held \ {Top.node}
      /\ UNCHANGED <<rule, re_match, prev_match, crashed, result>>
      /\ stack' = SubSeq(stack, 1, Len(stack) - 1)
  BY DEF Return, Running
<1>2. stack \in Seq(Frames) /\ Len(stack) \in Nat /\ Len(stack) > 0
  BY <1>1, TopIsCall DEF Shape
<1>3. PICK t : t = SubSeq(stack, 1, Len(stack) - 1)
  OBVIOUS
<1>4. /\ t \in Seq(Frames) /\ Len(t) = Len(stack) - 1
      /\ \A k \in 1 .. Len(stack) - 1 : t[k] = stack[k]
  <2>1. PICK m : m = Len(stack) - 1 /\ m \in Nat /\ m <= Len(stack)
    BY <1>2
  <2>2. \A k \in 1 .. m : stack[k] \in Frames
    BY <1>2, <2>1
  <2>3. t = [k \in 1 .. m |-> stack[k]]
    BY <1>2, <1>3, <2>1
  <2> QED
    BY <2>1, <2>2, <2>3
<1> QED
  BY <1>1, <1>3, <1>4 DEF Pops
-----------------------------------------------------------------------------
(* The calls under way stay a path through the tree.                        *)

Path == Shape /\ Chained /\ Surrounded

\* The path of calls when the innermost one goes on.
LEMMA ReplacedPath ==
    ASSUME Path, stack # <<>>, NEW f, f.node = Top.node, Replaces(f), rule' = rule
    PROVE  Chained' /\ Surrounded'
<1>1. /\ Len(stack) \in Nat /\ Len(stack) > 0 /\ Len(stack') = Len(stack)
      /\ DOMAIN stack = 1 .. Len(stack) /\ DOMAIN stack' = 1 .. Len(stack)
      /\ stack'[Len(stack)].node = stack[Len(stack)].node
      /\ \A k \in 1 .. Len(stack) - 1 : stack'[k] = stack[k]
  BY TopIsCall DEF Path, Replaces
<1>2. \A k \in 1 .. Len(stack) : stack'[k].node = stack[k].node
  BY <1>1
<1>3. stack' # <<>> /\ stack'[1].node = 0
  BY <1>1, <1>2 DEF Path, Chained
<1>4. \A k \in 1 .. Len(stack) - 1 : MadeFor(stack[k], stack[k+1])
  BY DEF Path, Chained
<1>5. ASSUME NEW k \in 1 .. Len(stack') - 1 PROVE MadeFor(stack[k], stack[k+1])'
  <2>1. stack'[k] = stack[k] /\ stack'[k+1].node = stack[k+1].node /\ MadeFor(stack[k], stack[k+1])
    BY <1>1, <1>2, <1>4
  <2> QED
    BY <2>1, TreeKept DEF MadeFor
<1>6. ASSUME NEW k \in DOMAIN stack' PROVE (OpenBelow(k) = Around(stack[k].node))'
  <2>1. k \in DOMAIN stack /\ \A j \in 1 .. k - 1 : stack'[j] = stack[j]
    BY <1>1
  <2>2. OpenBelow(k)' = OpenBelow(k)
    BY <2>1 DEF OpenBelow
  <2>3. OpenBelow(k) = Around(stack[k].node)
    BY <2>1 DEF Path, Surrounded
  <2>4. stack'[k].node = stack[k].node
    BY <1>1, <1>2, <2>1
  <2> QED
    BY <2>2, <2>3, <2>4, TreeKept
<1> QED
  BY <1>3, <1>5, <1>6 DEF Chained, Surrounded

\* The path of calls when one is made.
LEMMA PushedPath ==
    ASSUME Path, stack # <<>>, NEW f, NEW g, f.node = Top.node, MadeFor(f, g), g.node # None,
           Pushes(f, g), rule' = rule
    PROVE  Chained' /\ Surrounded'
<1>1. /\ Len(stack) \in Nat /\ Len(stack) > 0 /\ Len(stack') = Len(stack) + 1
      /\ DOMAIN stack = 1 .. Len(stack) /\ DOMAIN stack' = 1 .. Len(stack) + 1
      /\ stack'[Len(stack)] = f /\ stack'[Len(stack) + 1] = g
      /\ f.node = stack[Len(stack)].node /\ f.node \in Node
      /\ \A k \in 1 .. Len(stack) - 1 : stack'[k] = stack[k]
  BY TopIsCall, FrameFields DEF Path, Pushes
<1>0. PICK l : l = Len(stack) /\ l \in Nat /\ l > 0 /\ Len(stack') = l + 1
  BY <1>1
<1>2. \A k \in 1 .. Len(stack) : stack'[k].node = stack[k].node
  BY <1>1
<1>3. stack' # <<>> /\ stack'[1].node = 0
  BY <1>1, <1>2 DEF Path, Chained
<1>4. \A k \in 1 .. Len(stack) - 1 : MadeFor(stack[k], stack[k+1])
  BY DEF Path, Chained
<1>5. ASSUME NEW k \in 1 .. Len(stack') - 1 PROVE MadeFor(stack[k], stack[k+1])'
  <2>1. CASE k < Len(stack)
    <3>1. stack'[k] = stack[k] /\ stack'[k+1].node = stack[k+1].node /\ MadeFor(stack[k], stack[k+1])
      BY <1>1, <1>2, <1>4, <2>1
    <3> QED
      BY <3>1, TreeKept DEF MadeFor
  <2>2. CASE k = Len(stack)
    <3>1. stack'[k] = f /\ stack'[k+1] = g
      BY <1>1, <2>2
    <3> QED
      BY <3>1, TreeKept DEF MadeFor
  <2>3. k \in 1 .. Len(stack)
    BY <1>0, <1>1
  <2> QED
    BY <1>0, <1>1, <2>1, <2>2, <2>3
<1>6. ASSUME NEW k \in 1 .. Len(stack) PROVE (OpenBelow(k) = Around(stack[k].node))'
  <2>1. k \in DOMAIN stack /\ \A j \in 1 .. k - 1 : stack'[j] = stack[j]
    BY <1>1
  <2>2. OpenBelow(k)' = OpenBelow(k)
    BY <2>1 DEF OpenBelow
  <2>3. OpenBelow(k) = Around(stack[k].node)
    BY <2>1 DEF Path, Surrounded
  <2>4. stack'[k].node = stack[k].node
    BY <1>1, <1>2, <2>1
  <2> QED
    BY <2>2, <2>3, <2>4, TreeKept
<1>7. (OpenBelow(l + 1) = Around(stack[l + 1].node))'
  <2>1. l = Len(stack) /\ l \in Nat /\ l > 0
    BY <1>0
  <2>2. OpenBelow(l) = Around(f.node)
    BY <1>1, <2>1 DEF Path, Surrounded
  <2>3. OpenBelow(l + 1)' =
           IF f.at = "child" /\ f.node > 0 THEN OpenBelow(l) \cup {f.node} ELSE OpenBelow(l)
    <3>1. 1 .. (l + 1) - 1 = (1 .. l - 1) \cup {l}
      BY <2>1
    <3>2. f.node > 0 => f.node \in DOMAIN rule
      BY <1>1, NodeFacts DEF Path, Shape
    <3>3. \A s \in DOMAIN rule : s > 0
      BY NodeFacts DEF Path, Shape
    <3>4. \A j \in 1 .. l - 1 : stack'[j] = stack[j]
      BY <1>1, <2>1
    <3>5. stack'[l] = f
      BY <1>1, <2>1
    <3>6. ASSUME NEW s \in DOMAIN rule
          PROVE  (\E j \in 1 .. (l + 1) - 1 : stack'[j].at = "child" /\ stack'[j].node = s)
                 <=> \/ \E j \in 1 .. l - 1 : stack[j].at = "child" /\ stack[j].node = s
                     \/ f.at = "child" /\ f.node = s
      BY <3>1, <3>4, <3>5, Zenon
    <3>7. OpenBelow(l + 1)' =
             {s \in DOMAIN rule : \E j \in 1 .. (l + 1) - 1 :
                                     stack'[j].at = "child" /\ stack'[j].node = s}
      BY DEF OpenBelow
    <3> QED
      BY <3>2, <3>3, <3>6, <3>7 DEF OpenBelow
  <2>4. Around(g.node) =
           IF f.at = "child" /\ f.node > 0 THEN OpenBelow(l) \cup {f.node} ELSE OpenBelow(l)
    <3>1. CASE f.at = "child" /\ Child(f.node) = g.node
      BY <1>1, <2>2, <3>1, AroundChild DEF Path, Shape
    <3>2. CASE f.at = "end" /\ Sibling(f.node) = g.node
      BY <1>1, <2>2, <3>2, AroundSibling DEF Path, Shape
    <3> QED
      BY <3>1, <3>2 DEF MadeFor
  <2> QED
    BY <1>1, <2>1, <2>3, <2>4, TreeKept
<1>8. ASSUME NEW k \in DOMAIN stack' PROVE (OpenBelow(k) = Around(stack[k].node))'
  <2>1. k \in 1 .. Len(stack) \/ k = l + 1
    BY <1>0, <1>1
  <2> QED
    BY <1>6, <1>7, <2>1
<1> QED
  BY <1>3, <1>5, <1>8 DEF Chained, Surrounded

\* The path of calls when the innermost one returns.
LEMMA PoppedPath ==
    ASSUME Path, stack # <<>>, Pops, rule' = rule
    PROVE  Chained' /\ Surrounded'
<1>1. /\ Len(stack) \in Nat /\ Len(stack) > 0 /\ Len(stack') = Len(stack) - 1
      /\ DOMAIN stack = 1 .. Len(stack) /\ DOMAIN stack' = 1 .. Len(stack) - 1
      /\ \A k \in 1 .. Len(stack) - 1 : stack'[k] = stack[k]
  BY TopIsCall DEF Path, Pops
<1>2. stack' # <<>> => stack'[1].node = 0
  <2>1. stack' # <<>> => Len(stack') > 0
    BY DEF Pops
  <2> QED
    BY <1>1, <2>1 DEF Path, Chained
<1>4. \A k \in 1 .. Len(stack) - 1 : MadeFor(stack[k], stack[k+1])
  BY DEF Path, Chained
<1>5. ASSUME NEW k \in 1 .. Len(stack') - 1 PROVE MadeFor(stack[k], stack[k+1])'
  <2>1. stack'[k] = stack[k] /\ stack'[k+1] = stack[k+1] /\ MadeFor(stack[k], stack[k+1])
    BY <1>1, <1>4
  <2> QED
    BY <2>1, TreeKept DEF MadeFor
<1>6. ASSUME NEW k \in DOMAIN stack' PROVE (OpenBelow(k) = Around(stack[k].node))'
  <2>1. k \in DOMAIN stack /\ stack'[k] = stack[k] /\ \A j \in 1 .. k - 1 : stack'[j] = stack[j]
    BY <1>1
  <2>2. OpenBelow(k)' = OpenBelow(k)
    BY <2>1 DEF OpenBelow
  <2>3. OpenBelow(k) = Around(stack[k].node)
    BY <2>1 DEF Path, Surrounded
  <2> QED
    BY <2>1, <2>2, <2>3, TreeKept
<1> QED
  BY <1>2, <1>5, <1>6 DEF Chained, Surrounded
-----------------------------------------------------------------------------
(* The walk: one lemma per action.                                          *)

\* The calls below the innermost one have evaluated their nodes.
LEMMA BelowEvaluated ==
    ASSUME WalkInv, NEW k \in DOMAIN stack, k < Len(stack)
    PROVE  /\ stack[k].at \in {"child", "end"} /\ stack[k].node \in Node
           /\ result[stack[k].node] = stack[k].topr /\ Evaluated(stack[k].node)
<1>1. k \in 1 .. Len(stack) - 1 /\ stack[k] \in Frames
  BY DEF WalkInv, Shape
<1>2. MadeFor(stack[k], stack[k+1])
  BY <1>1 DEF WalkInv, Chained
<1>3. stack[k].at \in {"child", "end"}
  BY <1>2 DEF MadeFor
<1>4. stack[k].topr \in Results /\ stack[k].node \in Node
  BY <1>1, FrameFields
<1>5. result[stack[k].node] = stack[k].topr
  BY <1>3 DEF WalkInv, Noted
<1> QED
  BY <1>3, <1>4, <1>5 DEF Evaluated, Results

\* No node is evaluated twice for a line.
LEMMA OnlyOnce ==
    ASSUME WalkInv, stack # <<>>, Top.at = "eval"
    PROVE  /\ Top.node \in Node /\ ~Evaluated(Top.node)
           /\ \A x \in Node : Evaluated(x) => Before(x, Top.node) /\ x # Top.node
<1>1. Top.node \in Node
  BY TopIsCall, FrameFields DEF WalkInv
<1>2. \A x \in Node : Evaluated(x) => Before(x, Top.node)
  BY DEF WalkInv, Ahead
<1>3. ~Before(Top.node, Top.node)
  BY <1>1, NodeFacts DEF Before, WalkInv, Shape
<1> QED
  BY <1>1, <1>2, <1>3

\* Each step keeps the invariant of the walk.
LEMMA EvalNodeWalk ==
    ASSUME WalkInv, EvalNode
    PROVE  WalkInv'
<1> DEFINE n == Top.node
<1>s. Shape /\ IsRule(rule) /\ Path
  BY DEF WalkInv, Shape, Path
<1>1. stack # <<>> /\ Top.at = "eval" /\ ~crashed /\ rule' = rule /\ ret' = ret
  BY <1>s, EvalEffect
<1>2. PICK r \in Outcomes(Top) :
         /\ r \in Results
         /\ result' = [result EXCEPT ![n] = r]
         /\ \/ Stops(r) /\ Replaces(At("end", r))
            \/ /\ r = "TRUE" /\ Child(n) # None
               /\ Pushes(At("child", r), Frame(Child(n), r))
            \/ /\ ~Stops(r) /\ ~(r = "TRUE" /\ Child(n) # None)
               /\ Replaces(At("sibling", r))
  BY <1>s, EvalEffect
<1>3. /\ n \in Node /\ ~Evaluated(n)
      /\ \A x \in Node : Evaluated(x) => Before(x, n) /\ x # n
  BY <1>1, OnlyOnce
<1>4. PICK l : l = Len(stack) /\ l \in Nat /\ l > 0 /\ DOMAIN stack = 1 .. l /\ stack[l] = Top
  BY <1>s, <1>1, TopIsCall
<1>5. crashed' = crashed
  BY DEF EvalNode
<1>6. /\ \A x \in Node : x # n => result'[x] = result[x]
      /\ result'[n] = r /\ r # "-" /\ result' \in [Node -> Results \cup {"-"}]
  BY <1>2, <1>3 DEF WalkInv, Shape, Results
<1>7. \A x \in Node : Evaluated(x)' <=> x = n \/ Evaluated(x)
  BY <1>3, <1>6 DEF Evaluated
<1>8. n <= 0 => r = "TRUE"
  <2>1. n <= 0 => Kind(n) = "PASSTHROUGH"
    BY <1>3, NodeFacts, <1>s DEF Kind
  <2> QED
    BY <2>1 DEF Outcomes
\* How the innermost call goes on.
<1> DEFINE f(a) == At(a, r)
           g == Frame(Child(n), r)
<1>9. PICK a \in {"end", "child", "sibling"} :
         /\ stack' \in Seq(Frames)
         /\ DOMAIN stack' = IF a = "child" THEN 1 .. l + 1 ELSE 1 .. l
         /\ Len(stack') = IF a = "child" THEN l + 1 ELSE l
         /\ stack'[l] = f(a)
         /\ \A k \in 1 .. l - 1 : stack'[k] = stack[k]
         /\ a = "child" => r = "TRUE" /\ Child(n) # None /\ stack'[l + 1] = g
         /\ a = "end" <=> Stops(r)
         /\ r = "TRUE" /\ Child(n) # None => a = "child"
         /\ Chained' /\ Surrounded'
  <2>0. \A b : f(b).node = Top.node
    BY DEF At
  <2>1. CASE Stops(r) /\ Replaces(f("end"))
    <3>1. Chained' /\ Surrounded'
      BY <1>s, <1>1, <2>0, <2>1, ReplacedPath
    <3>2. /\ stack' \in Seq(Frames) /\ Len(stack') = l /\ stack'[l] = f("end")
          /\ \A k \in 1 .. l - 1 : stack'[k] = stack[k]
      BY <1>4, <2>1 DEF Replaces
    <3>3. DOMAIN stack' = 1 .. l
      BY <3>2
    <3>4. ~(r = "TRUE")
      BY <2>1 DEF Stops
    <3> HIDE DEF f, g, n
    <3> QED
      BY <2>1, <3>1, <3>2, <3>3, <3>4
  <2>2. CASE r = "TRUE" /\ Child(n) # None /\ Pushes(f("child"), g)
    <3>1. MadeFor(f("child"), g) /\ g.node # None
      BY <2>2 DEF MadeFor, At, Frame
    <3>2. Chained' /\ Surrounded'
      BY <1>s, <1>1, <2>0, <2>2, <3>1, PushedPath
    <3>3. /\ stack' \in Seq(Frames) /\ Len(stack') = l + 1 /\ stack'[l] = f("child")
          /\ stack'[l + 1] = g /\ \A k \in 1 .. l - 1 : stack'[k] = stack[k]
      BY <1>4, <2>2 DEF Pushes
    <3>4. DOMAIN stack' = 1 .. l + 1
      BY <3>3
    <3>5. ~Stops(r)
      BY <2>2 DEF Stops
    <3> HIDE DEF f, g, n
    <3> QED
      BY <2>2, <3>2, <3>3, <3>4, <3>5
  <2>3. CASE ~Stops(r) /\ ~(r = "TRUE" /\ Child(n) # None) /\ Replaces(f("sibling"))
    <3>1. Chained' /\ Surrounded'
      BY <1>s, <1>1, <2>0, <2>3, ReplacedPath
    <3>2. /\ stack' \in Seq(Frames) /\ Len(stack') = l /\ stack'[l] = f("sibling")
          /\ \A k \in 1 .. l - 1 : stack'[k] = stack[k]
      BY <1>4, <2>3 DEF Replaces
    <3>3. DOMAIN stack' = 1 .. l
      BY <3>2
    <3> HIDE DEF f, g, n
    <3> QED
      BY <2>3, <3>1, <3>2, <3>3
  <2> QED
    BY <1>2, <2>1, <2>2, <2>3
<1>10. /\ stack'[l].node = n /\ stack'[l].topr = r /\ stack'[l].at = a
       /\ a = "child" => /\ stack'[l + 1].node = Child(n) /\ stack'[l + 1].at = "eval"
                         /\ stack'[l + 1].topr = "TRUE"
  BY <1>9 DEF At, Frame
<1> HIDE DEF f, g, n
<1>11. \A k \in 1 .. l - 1 : /\ stack[k].at \in {"child", "end"} /\ stack[k].node \in Node
                            /\ result[stack[k].node] = stack[k].topr /\ stack[k].node # n
                            /\ Evaluated(stack[k].node)
  BY <1>3, <1>4, BelowEvaluated
<1>12. stack' # <<>> /\ Top' = stack'[IF a = "child" THEN l + 1 ELSE l]
  BY <1>4, <1>9 DEF Top
<1>13. Top'.at = IF a = "child" THEN "eval" ELSE a
  BY <1>10, <1>12
<1>14. Shape'
  BY <1>s, <1>1, <1>5, <1>6, <1>9, TreeKept DEF Shape
<1>15. Noted'
  <2> SUFFICES ASSUME NEW k \in DOMAIN stack'
               PROVE  /\ stack'[k].at # "eval" => result'[stack'[k].node] = stack'[k].topr
                      /\ stack'[k].at = "child" => stack'[k].topr = "TRUE"
                      /\ stack'[k].at = "sibling" => stack'[k].topr \in {"TRUE", "FALSE"}
                      /\ stack'[k].node <= 0 => stack'[k].topr = "TRUE"
    BY DEF Noted
  <2>1. CASE k \in 1 .. l - 1
    <3>1. k \in DOMAIN stack /\ stack'[k] = stack[k]
      BY <1>4, <1>9, <2>1
    <3>2. /\ stack[k].at = "child" => stack[k].topr = "TRUE"
          /\ stack[k].node <= 0 => stack[k].topr = "TRUE"
      BY <3>1 DEF WalkInv, Noted
    <3> QED
      BY <1>6, <1>11, <2>1, <3>1, <3>2
  <2>2. CASE k = l
    <3>1. a = "sibling" => r \in {"TRUE", "FALSE"}
      BY <1>2, <1>9 DEF Stops, Results
    <3>2. a = "child" => r = "TRUE"
      BY <1>9
    <3> QED
      BY <1>6, <1>8, <1>10, <2>2, <3>1, <3>2
  <2>3. CASE k = l + 1 /\ a = "child"
    BY <1>10, <2>3
  <2> QED
    BY <1>4, <1>9, <2>1, <2>2, <2>3
<1>16. BlockReturns'
  BY <1>9, <1>13 DEF BlockReturns
<1>17. Ahead'
  <2> SUFFICES ASSUME a = "child", NEW x \in Node, Evaluated(x)' PROVE Before(x, Top'.node)
    BY <1>1, <1>9, <1>13, TreeKept DEF Ahead, Before
  <2>1. Top'.node = Child(n) /\ Child(n) # None
    BY <1>9, <1>10, <1>12
  <2>2. x = n \/ Before(x, n)
    BY <1>3, <1>7
  <2>3. x \in Int /\ n \in Int
    BY <1>s, <1>3, NodeFacts
  <2>4. CASE n > 0
    <3>1. Child(n) = -n
      BY <1>s, <1>3, <2>1, <2>4, ChildOfStatement
    <3> QED
      BY <2>1, <2>2, <2>3, <2>4, <3>1 DEF Before, Abs
  <2>5. CASE n <= 0
    <3>1. Child(n) = 1 - n
      BY <1>s, <1>3, <2>1, <2>5, ChildOfBlock
    <3> QED
      BY <2>1, <2>2, <2>3, <2>5, <3>1 DEF Before, Abs
  <2> QED
    BY <2>3, <2>4, <2>5
<1>18. Within'
  <2> SUFFICES ASSUME NEW k \in DOMAIN stack', stack'[k].at \in {"child", "sibling"}, stack'[k].node > 0,
                      NEW x \in Node, Evaluated(x)'
               PROVE  Abs(x) <= stack'[k].node \/ Inside(Abs(x), stack'[k].node)
    BY <1>1, TreeKept DEF Within, Abs
  <2>1. CASE k \in 1 .. l - 1
    <3>1. k \in DOMAIN stack /\ stack'[k] = stack[k] /\ stack[k].at = "child" /\ stack[k].node > 0
      BY <1>4, <1>9, <1>11, <2>1
    <3>2. CASE x # n
      BY <1>7, <3>1, <3>2 DEF WalkInv, Within
    <3>3. CASE x = n
      <4>1. stack[k].node \in DOMAIN rule
        BY <1>s, <1>11, <2>1, <3>1, NodeFacts
      <4>2. stack[k].node \in OpenBelow(l)
        BY <2>1, <3>1, <4>1 DEF OpenBelow
      <4>3. OpenBelow(l) = Around(n)
        BY <1>4 DEF WalkInv, Surrounded, n
      <4>4. stack[k].node = -n \/ Inside(Abs(n), stack[k].node)
        BY <1>s, <1>3, <4>2, <4>3, NodeFacts DEF Around
      <4>5. stack[k].node = -n => Abs(n) <= stack[k].node
        BY <1>s, <1>3, <3>1, NodeFacts DEF Abs
      <4> QED
        BY <3>1, <3>3, <4>4, <4>5
    <3> QED
      BY <3>2, <3>3
  <2>2. CASE k = l
    <3>1. stack'[k].node = n /\ n > 0 /\ n \in Int /\ x \in Int
      BY <1>s, <1>3, <1>10, <2>2, NodeFacts
    <3>2. x = n \/ Before(x, n)
      BY <1>3, <1>7
    <3> QED
      BY <3>1, <3>2 DEF Before, Abs
  <2>3. CASE k = l + 1 /\ a = "child"
    BY <1>10, <2>3
  <2> QED
    BY <1>4, <1>9, <2>1, <2>2, <2>3
<1>19. Led'
  <2> SUFFICES ASSUME NEW x \in Node, Evaluated(x)', x # 0
               PROVE  \E p \in Node : Leads(p, x)'
    BY <1>1, TreeKept DEF Led
  <2>1. \A p \in Node : Evaluated(p) /\ Leads(p, x) => Leads(p, x)'
    BY <1>1, <1>3, <1>6, TreeKept DEF Leads
  <2>2. \A p \in Node : Leads(p, x) => Evaluated(p)
    BY DEF Leads, Evaluated
  <2>3. CASE x # n
    <3>1. PICK p \in Node : Leads(p, x)
      BY <1>7, <2>3 DEF WalkInv, Led
    <3> QED
      BY <2>1, <2>2, <3>1
  <2>4. CASE x = n
    <3>1. l # 1
      BY <1>4, <2>4 DEF WalkInv, Chained, n
    <3>2. PICK j : j = l - 1 /\ j \in 1 .. l - 1 /\ j + 1 = l /\ j \in 1 .. Len(stack) - 1
      BY <1>4, <3>1
    <3>3. MadeFor(stack[j], stack[l])
      BY <3>2 DEF WalkInv, Chained
    <3>4. stack[l].node = n
      BY <1>4 DEF n
    <3>5. Leads(stack[j].node, n)
      BY <1>11, <3>2, <3>3, <3>4 DEF MadeFor, Leads
    <3> QED
      BY <1>11, <2>1, <2>4, <3>2, <3>5
  <2> QED
    BY <2>3, <2>4
<1>20. Descended'
  <2>1. Evaluated(0)'
    <3>1. Evaluated(0) \/ n = 0
      BY <1>1 DEF WalkInv, Descended, Due, n
    <3> QED
      BY <1>s, <1>7, <3>1, NodeFacts
  <2>2. ASSUME NEW p \in Node, NEW m \in Node, Child(p) = m, result'[p] = "TRUE"
        PROVE  (Evaluated(m) \/ Due(m))'
    <3>1. CASE p = n
      <4>1. m # None
        BY <1>s, NodeFacts, RulesAssumption
      <4>2. a = "child"
        BY <1>6, <1>9, <2>2, <3>1, <4>1
      <4>3. Top'.node = m /\ Top'.at = "eval"
        BY <1>10, <1>12, <2>2, <3>1, <4>2
      <4> QED
        BY <1>12, <4>3 DEF Due
    <3>2. CASE p # n
      <4>1. Evaluated(m) \/ m = n
        BY <1>6, <2>2, <3>2 DEF WalkInv, Descended, Due, n
      <4> QED
        BY <1>7, <4>1
    <3> QED
      BY <3>1, <3>2
  <2> QED
    BY <1>1, <1>12, <2>1, <2>2, TreeKept DEF Descended
<1>21. Continued'
  <2> SUFFICES ASSUME NEW p \in Node, NEW m \in Node, Sibling(p) = m, result'[p] \in {"TRUE", "FALSE"}
               PROVE  (\/ Evaluated(m) \/ Due(m)
                       \/ \E k \in DOMAIN stack : stack[k].node = p /\ stack[k].at \in {"child", "sibling"})'
    BY <1>1, TreeKept DEF Continued
  <2>1. CASE p = n
    <3>1. a # "end"
      BY <1>6, <1>9, <2>1 DEF Stops
    <3>2. l \in DOMAIN stack'
      BY <1>4, <1>9
    <3> QED
      BY <1>9, <1>10, <2>1, <3>1, <3>2
  <2>2. CASE p # n
    <3>1. result[p] \in {"TRUE", "FALSE"}
      BY <1>6, <2>2
    <3>2. \/ Evaluated(m) \/ m = n
          \/ \E k \in DOMAIN stack : stack[k].node = p /\ stack[k].at \in {"child", "sibling"}
      BY <3>1 DEF WalkInv, Continued, Due, n
    <3>3. ASSUME NEW k \in DOMAIN stack, stack[k].node = p, stack[k].at \in {"child", "sibling"}
          PROVE  k \in DOMAIN stack' /\ stack'[k] = stack[k]
      <4>1. k # l
        BY <1>1, <1>4, <3>3
      <4> QED
        BY <1>4, <1>9, <4>1
    <3> QED
      BY <1>7, <3>2, <3>3
  <2> QED
    BY <2>1, <2>2
<1> QED
  BY <1>9, <1>14, <1>15, <1>16, <1>17, <1>18, <1>19, <1>20, <1>21 DEF WalkInv

LEMMA ChildDoneWalk ==
    ASSUME WalkInv, ChildDone
    PROVE  WalkInv'
<1> DEFINE n == Top.node
<1>s. Shape /\ IsRule(rule) /\ Path
  BY DEF WalkInv, Shape, Path
<1>1. stack # <<>> /\ Top.at = "child" /\ UNCHANGED <<rule, ret, crashed, result>>
  BY <1>s, ChildDoneEffect
<1>2. PICK a \in {"end", "sibling"} : a = IF Stops(ret) THEN "end" ELSE "sibling"
  OBVIOUS
<1>3. Replaces(At(a, Top.topr))
  BY <1>s, <1>2, ChildDoneEffect
<1>4. PICK l : /\ l = Len(stack) /\ l \in Nat /\ l > 0 /\ DOMAIN stack = 1 .. l /\ stack[l] = Top
               /\ n \in Node
  BY <1>s, <1>1, TopIsCall, FrameFields
<1>5. At(a, Top.topr).node = Top.node
  BY DEF At
<1>6. Chained' /\ Surrounded'
  BY <1>s, <1>1, <1>3, <1>5, ReplacedPath
<1>7. /\ stack' \in Seq(Frames) /\ Len(stack') = l
      /\ \A k \in 1 .. l - 1 : stack'[k] = stack[k]
      /\ stack'[l].node = n /\ stack'[l].topr = Top.topr /\ stack'[l].at = a
  BY <1>3, <1>4 DEF Replaces, At
<1>8. DOMAIN stack' = 1 .. l /\ stack' # <<>> /\ Top' = stack'[l]
  BY <1>4, <1>7 DEF Top
<1>9. n > 0 => a = "sibling"
  <2>1. n > 0 => ret = "TRUE"
    BY <1>1 DEF WalkInv, BlockReturns
  <2> QED
    BY <1>2, <2>1 DEF Stops
<1>10. Top.topr = "TRUE" /\ result[n] = Top.topr
  BY <1>1, <1>4 DEF WalkInv, Noted
<1> HIDE DEF n
<1>11. Shape'
  BY <1>s, <1>1, <1>7, TreeKept DEF Shape
<1>12. Noted'
  <2> SUFFICES ASSUME NEW k \in DOMAIN stack'
               PROVE  /\ stack'[k].at # "eval" => result'[stack'[k].node] = stack'[k].topr
                      /\ stack'[k].at = "child" => stack'[k].topr = "TRUE"
                      /\ stack'[k].at = "sibling" => stack'[k].topr \in {"TRUE", "FALSE"}
                      /\ stack'[k].node <= 0 => stack'[k].topr = "TRUE"
    BY DEF Noted
  <2>1. CASE k \in 1 .. l - 1
    BY <1>1, <1>4, <1>7, <2>1 DEF WalkInv, Noted
  <2>2. CASE k = l
    BY <1>1, <1>2, <1>7, <1>10, <2>2
  <2> QED
    BY <1>4, <1>8, <2>1, <2>2
<1>13. BlockReturns' /\ Ahead'
  BY <1>2, <1>7, <1>8 DEF BlockReturns, Ahead
<1>14. Within'
  <2> SUFFICES ASSUME NEW k \in DOMAIN stack', stack'[k].at \in {"child", "sibling"}, stack'[k].node > 0,
                      NEW x \in Node, Evaluated(x)
               PROVE  Abs(x) <= stack'[k].node \/ Inside(Abs(x), stack'[k].node)
    BY <1>1, TreeKept DEF Within, Abs, Evaluated
  <2>1. k \in DOMAIN stack /\ stack[k].node = stack'[k].node /\ stack[k].at \in {"child", "sibling"}
    <3>1. CASE k \in 1 .. l - 1
      BY <1>4, <1>7, <3>1
    <3>2. CASE k = l
      BY <1>1, <1>4, <1>7, <3>2 DEF n
    <3> QED
      BY <1>4, <1>8, <3>1, <3>2
  <2> QED
    BY <2>1 DEF WalkInv, Within
<1>15. Led'
  <2>1. Led
    BY DEF WalkInv
  <2> QED
    BY <1>1, <2>1, TreeKept DEF Led, Leads, Evaluated
<1>16. \A m : ~Due(m)
  BY <1>1 DEF Due
<1>17. Descended'
  <2>1. Descended
    BY DEF WalkInv
  <2> QED
    BY <1>1, <1>8, <1>16, <2>1, TreeKept DEF Descended, Evaluated
<1>18. Continued'
  <2> SUFFICES ASSUME NEW p \in Node, NEW m \in Node, Sibling(p) = m, result[p] \in {"TRUE", "FALSE"}
               PROVE  (\/ Evaluated(m)
                       \/ \E k \in DOMAIN stack : stack[k].node = p /\ stack[k].at \in {"child", "sibling"})'
    BY <1>1, TreeKept DEF Continued
  <2>1. \/ Evaluated(m)
        \/ \E k \in DOMAIN stack : stack[k].node = p /\ stack[k].at \in {"child", "sibling"}
    BY <1>16 DEF WalkInv, Continued
  <2>2. ASSUME NEW k \in DOMAIN stack, stack[k].node = p, stack[k].at \in {"child", "sibling"}
        PROVE  k \in DOMAIN stack' /\ stack'[k].node = p /\ stack'[k].at \in {"child", "sibling"}
    <3>1. CASE k # l
      BY <1>4, <1>7, <1>8, <2>2, <3>1
    <3>2. CASE k = l
      <4>1. p = n
        BY <1>4, <2>2, <3>2 DEF n
      <4>2. m # None
        BY <1>s, NodeFacts, RulesAssumption
      <4>3. n > 0
        BY <1>s, <4>1, <4>2, SiblingIs
      <4> QED
        BY <1>4, <1>7, <1>8, <1>9, <3>2, <4>1, <4>3
    <3> QED
      BY <3>1, <3>2
  <2> QED
    BY <1>1, <2>1, <2>2 DEF Evaluated
<1> QED
  BY <1>6, <1>11, <1>12, <1>13, <1>14, <1>15, <1>17, <1>18 DEF WalkInv

\* Everything evaluated so far comes before the sibling of a statement that is done.
LEMMA BeforeSibling ==
    ASSUME WalkInv, stack # <<>>, Top.at = "sibling", Sibling(Top.node) # None,
           NEW x \in Node, Evaluated(x)
    PROVE  Abs(x) < Sibling(Top.node) /\ Before(x, Sibling(Top.node))
<1> DEFINE n == Top.node
           m == Sibling(n)
<1>1. n \in Node /\ Top = stack[Len(stack)] /\ Len(stack) \in DOMAIN stack
  BY TopIsCall, FrameFields DEF WalkInv
<1>2. /\ n > 0 /\ m \in DOMAIN rule /\ m > n /\ rule[m].depth = rule[n].depth
  BY <1>1, SiblingIs DEF WalkInv, Shape
<1>3. Abs(x) <= n \/ Inside(Abs(x), n)
  BY <1>1, <1>2 DEF WalkInv, Within
<1>4. /\ n \in Nat /\ m \in Nat /\ Abs(x) \in Nat /\ m > 0
      /\ rule[n].depth \in Nat
  BY <1>1, <1>2, NodeFacts DEF WalkInv, Shape
<1> HIDE DEF n, m
<1>5. Abs(x) < m
  <2> SUFFICES ASSUME Inside(Abs(x), n), Abs(x) >= m PROVE FALSE
    BY <1>2, <1>3, <1>4
  <2>1. m \in n + 1 .. Abs(x)
    BY <1>2, <1>4
  <2> QED
    BY <1>2, <1>4, <2>1 DEF Inside
<1>6. Abs(m) = m
  BY <1>4 DEF Abs
<1> QED
  BY <1>5, <1>6 DEF Before, n, m

LEMMA EvalSiblingWalk ==
    ASSUME WalkInv, EvalSibling
    PROVE  WalkInv'
<1> DEFINE n == Top.node
           f == At("end", Top.topr)
           g == Frame(Sibling(n), Top.topr)
<1>s. Shape /\ IsRule(rule) /\ Path
  BY DEF WalkInv, Shape, Path
<1>1. stack # <<>> /\ Top.at = "sibling" /\ UNCHANGED <<rule, ret, crashed, result>>
  BY <1>s, EvalSiblingEffect
<1>2. \/ Sibling(n) = None /\ Replaces(f)
      \/ Sibling(n) # None /\ Pushes(f, g)
  BY <1>s, EvalSiblingEffect
<1>4. PICK l : /\ l = Len(stack) /\ l \in Nat /\ l > 0 /\ DOMAIN stack = 1 .. l /\ stack[l] = Top
               /\ n \in Node
  BY <1>s, <1>1, TopIsCall, FrameFields
<1>5. /\ f.node = Top.node /\ f.topr = Top.topr /\ f.at = "end"
      /\ g.node = Sibling(n) /\ g.at = "eval" /\ g.topr = "TRUE"
  BY DEF At, Frame
<1>6. Top.topr \in {"TRUE", "FALSE"} /\ result[n] = Top.topr
  BY <1>1, <1>4 DEF WalkInv, Noted
<1>7. n <= 0 => Top.topr = "TRUE"
  BY <1>4 DEF WalkInv, Noted
<1>8. PICK pushed \in BOOLEAN :
         /\ pushed <=> Sibling(n) # None
         /\ stack' \in Seq(Frames)
         /\ DOMAIN stack' = IF pushed THEN 1 .. l + 1 ELSE 1 .. l
         /\ Len(stack') = IF pushed THEN l + 1 ELSE l
         /\ stack'[l] = f
         /\ \A k \in 1 .. l - 1 : stack'[k] = stack[k]
         /\ pushed => stack'[l + 1] = g
         /\ Chained' /\ Surrounded'
  <2>1. CASE Sibling(n) = None /\ Replaces(f)
    <3>1. Chained' /\ Surrounded'
      BY <1>s, <1>1, <1>5, <2>1, ReplacedPath
    <3>2. /\ stack' \in Seq(Frames) /\ Len(stack') = l /\ stack'[l] = f
          /\ \A k \in 1 .. l - 1 : stack'[k] = stack[k]
      BY <1>4, <2>1 DEF Replaces
    <3>3. DOMAIN stack' = 1 .. l
      BY <3>2
    <3> HIDE DEF f, g, n
    <3> QED
      BY <2>1, <3>1, <3>2, <3>3
  <2>2. CASE Sibling(n) # None /\ Pushes(f, g)
    <3>1. MadeFor(f, g) /\ g.node # None
      BY <1>5, <1>6, <2>2 DEF MadeFor
    <3>2. Chained' /\ Surrounded'
      BY <1>s, <1>1, <1>5, <2>2, <3>1, PushedPath
    <3>3. /\ stack' \in Seq(Frames) /\ Len(stack') = l + 1 /\ stack'[l] = f
          /\ stack'[l + 1] = g /\ \A k \in 1 .. l - 1 : stack'[k] = stack[k]
      BY <1>4, <2>2 DEF Pushes
    <3>4. DOMAIN stack' = 1 .. l + 1
      BY <3>3
    <3> HIDE DEF f, g, n
    <3> QED
      BY <2>2, <3>2, <3>3, <3>4
  <2> QED
    BY <1>2, <2>1, <2>2
<1>9. stack' # <<>> /\ Top' = stack'[IF pushed THEN l + 1 ELSE l]
  BY <1>4, <1>8 DEF Top
<1>10. /\ stack'[l].node = n /\ stack'[l].topr = Top.topr /\ stack'[l].at = "end"
       /\ pushed => /\ stack'[l + 1].node = Sibling(n) /\ stack'[l + 1].at = "eval"
                    /\ stack'[l + 1].topr = "TRUE"
  BY <1>5, <1>8
<1> HIDE DEF f, g, n
<1>11. Shape'
  BY <1>s, <1>1, <1>8, TreeKept DEF Shape
<1>12. Noted'
  <2> SUFFICES ASSUME NEW k \in DOMAIN stack'
               PROVE  /\ stack'[k].at # "eval" => result'[stack'[k].node] = stack'[k].topr
                      /\ stack'[k].at = "child" => stack'[k].topr = "TRUE"
                      /\ stack'[k].at = "sibling" => stack'[k].topr \in {"TRUE", "FALSE"}
                      /\ stack'[k].node <= 0 => stack'[k].topr = "TRUE"
    BY DEF Noted
  <2>1. CASE k \in 1 .. l - 1
    BY <1>1, <1>4, <1>8, <2>1 DEF WalkInv, Noted
  <2>2. CASE k = l
    BY <1>1, <1>6, <1>7, <1>10, <2>2
  <2>3. CASE k = l + 1 /\ pushed
    BY <1>10, <2>3
  <2> QED
    BY <1>4, <1>8, <2>1, <2>2, <2>3
<1>13. BlockReturns'
  BY <1>9, <1>10 DEF BlockReturns
<1>14. Ahead'
  <2> SUFFICES ASSUME pushed, NEW x \in Node, Evaluated(x) PROVE Before(x, Top'.node)
    BY <1>1, <1>9, <1>10, TreeKept DEF Ahead, Before, Evaluated
  <2>1. Top'.node = Sibling(n) /\ Sibling(n) # None
    BY <1>8, <1>9, <1>10
  <2> QED
    BY <1>1, <2>1, BeforeSibling DEF n
<1>15. Within'
  <2> SUFFICES ASSUME NEW k \in DOMAIN stack', stack'[k].at \in {"child", "sibling"}, stack'[k].node > 0,
                      NEW x \in Node, Evaluated(x)
               PROVE  Abs(x) <= stack'[k].node \/ Inside(Abs(x), stack'[k].node)
    BY <1>1, TreeKept DEF Within, Abs, Evaluated
  <2>1. k \in 1 .. l - 1
    BY <1>4, <1>8, <1>10
  <2>2. k \in DOMAIN stack /\ stack[k] = stack'[k]
    BY <1>4, <1>8, <2>1
  <2> QED
    BY <2>2 DEF WalkInv, Within
<1>16. Led'
  <2>1. Led
    BY DEF WalkInv
  <2> QED
    BY <1>1, <2>1, TreeKept DEF Led, Leads, Evaluated
<1>17. \A m : ~Due(m)
  BY <1>1 DEF Due
<1>18. Descended'
  <2>1. Descended
    BY DEF WalkInv
  <2> QED
    BY <1>1, <1>9, <1>17, <2>1, TreeKept DEF Descended, Evaluated
<1>19. Continued'
  <2> SUFFICES ASSUME NEW p \in Node, NEW m \in Node, Sibling(p) = m, result[p] \in {"TRUE", "FALSE"}
               PROVE  (\/ Evaluated(m) \/ Due(m)
                       \/ \E k \in DOMAIN stack : stack[k].node = p /\ stack[k].at \in {"child", "sibling"})'
    BY <1>1, TreeKept DEF Continued
  <2>1. CASE p = n
    <3>1. m # None
      BY <1>s, NodeFacts, RulesAssumption
    <3>2. Top'.node = m /\ Top'.at = "eval"
      BY <1>8, <1>9, <1>10, <2>1, <3>1
    <3> QED
      BY <1>9, <3>2 DEF Due
  <2>2. CASE p # n
    <3>1. \/ Evaluated(m)
          \/ \E k \in DOMAIN stack : stack[k].node = p /\ stack[k].at \in {"child", "sibling"}
      BY <1>17 DEF WalkInv, Continued
    <3>2. ASSUME NEW k \in DOMAIN stack, stack[k].node = p, stack[k].at \in {"child", "sibling"}
          PROVE  k \in DOMAIN stack' /\ stack'[k] = stack[k]
      <4>1. k # l
        BY <1>4, <2>2, <3>2 DEF n
      <4> QED
        BY <1>4, <1>8, <4>1
    <3> QED
      BY <1>1, <3>1, <3>2 DEF Evaluated
  <2> QED
    BY <2>1, <2>2
<1> QED
  BY <1>8, <1>11, <1>12, <1>13, <1>14, <1>15, <1>16, <1>18, <1>19 DEF WalkInv

LEMMA ReturnWalk ==
    ASSUME WalkInv, Return
    PROVE  WalkInv'
<1> DEFINE n == Top.node
<1>s. Shape /\ IsRule(rule) /\ Path
  BY DEF WalkInv, Shape, Path
<1>1. /\ stack # <<>> /\ Top.at = "end" /\ Pops /\ ret' = Top.topr
      /\ UNCHANGED <<rule, crashed, result>>
  BY <1>s, ReturnEffect
<1>2. PICK l : /\ l = Len(stack) /\ l \in Nat /\ l > 0 /\ DOMAIN stack = 1 .. l /\ stack[l] = Top
               /\ n \in Node /\ Top.topr \in Results
  BY <1>s, <1>1, TopIsCall, FrameFields
<1>3. Chained' /\ Surrounded'
  BY <1>s, <1>1, PoppedPath
<1>4. /\ stack' \in Seq(Frames) /\ Len(stack') = l - 1
      /\ \A k \in 1 .. l - 1 : stack'[k] = stack[k]
  BY <1>1, <1>2 DEF Pops
<1>5. DOMAIN stack' = 1 .. l - 1 /\ (stack' # <<>> => l - 1 \in 1 .. l - 1 /\ Top' = stack[l-1])
  <2>1. DOMAIN stack' = 1 .. l - 1
    BY <1>4
  <2>2. stack' # <<>> => l - 1 > 0
    BY <1>4
  <2> QED
    BY <1>2, <1>4, <2>1, <2>2 DEF Top
<1>6. \A k \in 1 .. l - 1 : k \in DOMAIN stack /\ stack[k].at \in {"child", "end"} /\ stack[k].node \in Node
  BY <1>2, BelowEvaluated
<1>7. stack' # <<>> => Top'.at # "eval"
  BY <1>5, <1>6
<1> HIDE DEF n
<1>11. Shape'
  BY <1>s, <1>1, <1>2, <1>4, TreeKept DEF Shape
<1>12. Noted'
  BY <1>1, <1>4, <1>5, <1>6 DEF WalkInv, Noted
<1>13. BlockReturns'
  <2> SUFFICES ASSUME stack' # <<>>, Top'.at = "child", Top'.node > 0 PROVE Top.topr = "TRUE"
    BY <1>1 DEF BlockReturns
  <2>1. PICK j : j = l - 1 /\ j \in 1 .. l - 1 /\ j \in 1 .. Len(stack) - 1 /\ j + 1 = l
    BY <1>2, <1>5
  <2>2. Top' = stack[j] /\ MadeFor(stack[j], stack[l])
    BY <1>5, <2>1 DEF WalkInv, Chained
  <2>3. stack[l].node = n
    BY <1>2 DEF n
  <2>4. Child(stack[j].node) = n
    BY <2>2, <2>3 DEF MadeFor
  <2>5. n # None
    BY <1>s, <1>2, NodeFacts, RulesAssumption DEF n
  <2>6. stack[j].node \in Node /\ stack[j].node > 0
    BY <1>6, <2>1, <2>2
  <2>7. n = -stack[j].node
    BY <1>s, <2>4, <2>5, <2>6, ChildOfStatement
  <2>8. n <= 0
    BY <1>s, <2>6, <2>7, NodeFacts
  <2> QED
    BY <1>2, <2>3, <2>8 DEF WalkInv, Noted
<1>14. Ahead'
  BY <1>7 DEF Ahead
<1>15. Within'
  <2> SUFFICES ASSUME NEW k \in DOMAIN stack', stack'[k].at \in {"child", "sibling"}, stack'[k].node > 0,
                      NEW x \in Node, Evaluated(x)
               PROVE  Abs(x) <= stack'[k].node \/ Inside(Abs(x), stack'[k].node)
    BY <1>1, TreeKept DEF Within, Abs, Evaluated
  <2>1. k \in DOMAIN stack /\ stack[k] = stack'[k]
    BY <1>4, <1>5, <1>6
  <2> QED
    BY <2>1 DEF WalkInv, Within
<1>16. Led'
  <2>1. Led
    BY DEF WalkInv
  <2> QED
    BY <1>1, <2>1, TreeKept DEF Led, Leads, Evaluated
<1>17. \A m : ~Due(m)
  BY <1>1 DEF Due
<1>18. Descended'
  <2>1. Descended
    BY DEF WalkInv
  <2> QED
    BY <1>1, <1>17, <2>1, TreeKept DEF Descended, Evaluated
<1>19. Continued'
  <2> SUFFICES ASSUME NEW p \in Node, NEW m \in Node, Sibling(p) = m, result[p] \in {"TRUE", "FALSE"}
               PROVE  (\/ Evaluated(m)
                       \/ \E k \in DOMAIN stack : stack[k].node = p /\ stack[k].at \in {"child", "sibling"})'
    BY <1>1, TreeKept DEF Continued
  <2>1. \/ Evaluated(m)
        \/ \E k \in DOMAIN stack : stack[k].node = p /\ stack[k].at \in {"child", "sibling"}
    BY <1>17 DEF WalkInv, Continued
  <2>2. ASSUME NEW k \in DOMAIN stack, stack[k].node = p, stack[k].at \in {"child", "sibling"}
        PROVE  k \in DOMAIN stack' /\ stack'[k] = stack[k]
    <3>1. k # l
      BY <1>1, <1>2, <2>2
    <3> QED
      BY <1>2, <1>4, <1>5, <3>1
  <2> QED
    BY <1>1, <2>1, <2>2 DEF Evaluated
<1> QED
  BY <1>3, <1>11, <1>12, <1>13, <1>14, <1>15, <1>16, <1>18, <1>19 DEF WalkInv

\* The evaluation of a line begins.
LineStarts == /\ IsRule(rule) /\ stack = <<Frame(0, "TRUE")>> /\ result = [n \in Node |-> "-"]
              /\ ret \in Results /\ crashed \in BOOLEAN

\* It holds when the walk begins for a line.
LEMMA StartWalk ==
    ASSUME LineStarts
    PROVE  WalkInv
<1>1. /\ IsRule(rule) /\ stack = <<Frame(0, "TRUE")>> /\ result = [n \in Node |-> "-"]
      /\ ret \in Results /\ crashed \in BOOLEAN /\ 0 \in Node
  BY NodeFacts DEF LineStarts
<1>2. PICK f : f = Frame(0, "TRUE")
  OBVIOUS
<1>3. f \in Frames /\ f.node = 0 /\ f.at = "eval" /\ f.topr = "TRUE"
  BY <1>1, <1>2 DEF Frame, Frames, Results
<1>4. stack = <<f>>
  BY <1>1, <1>2
<1>5. /\ stack \in Seq(Frames) /\ Len(stack) = 1 /\ stack[1] = f /\ stack # <<>>
      /\ DOMAIN stack = 1 .. 1 /\ Top = f
  BY <1>3, <1>4 DEF Top
<1>6. \A n \in Node : ~Evaluated(n) /\ result[n] = "-"
  BY <1>1 DEF Evaluated
<1>7. Shape
  BY <1>1, <1>5 DEF Shape
<1>8. Chained /\ Noted /\ BlockReturns
  BY <1>3, <1>5 DEF Chained, Noted, BlockReturns
<1>9. Surrounded
  <2> SUFFICES OpenBelow(1) = Around(0)
    BY <1>3, <1>5 DEF Surrounded
  <2>1. OpenBelow(1) = {}
    BY DEF OpenBelow
  <2>2. \A s \in DOMAIN rule : s \in Nat /\ s > 0
    BY <1>1, NodeFacts
  <2>3. \A s \in DOMAIN rule : ~(s = -0 \/ Inside(-0, s))
    BY <2>2 DEF Inside
  <2>4. ~(0 > 0)
    OBVIOUS
  <2> QED
    BY <2>1, <2>3, <2>4 DEF Around
<1>10. Ahead /\ Within /\ Led
  BY <1>3, <1>5, <1>6 DEF Ahead, Within, Led
<1>11. Descended /\ Continued
  BY <1>3, <1>5, <1>6 DEF Descended, Continued, Due
<1> QED
  BY <1>7, <1>8, <1>9, <1>10, <1>11 DEF WalkInv

\* Every step keeps it, and it holds at first.
LEMMA NextWalk == WalkInv /\ [TreeNext]_treeVars => WalkInv'
<1> SUFFICES ASSUME WalkInv, [TreeNext]_treeVars PROVE WalkInv'
  OBVIOUS
<1>1. CASE FollowsNull \/ PatternFails \/ UNCHANGED treeVars
  <2>1. UNCHANGED <<rule, stack, ret, result>> /\ crashed' \in BOOLEAN
    BY <1>1 DEF FollowsNull, PatternFails, treeVars, WalkInv, Shape
  <2>2. Node' = Node /\ Frames' = Frames /\ Shape'
    BY <2>1, TreeKept DEF WalkInv, Shape
  <2>3. Chained' /\ Noted' /\ BlockReturns'
    BY <2>1, <2>2, TreeKept DEF WalkInv, Chained, MadeFor, Noted, BlockReturns, Top
  <2>4. Surrounded' /\ Ahead' /\ Within'
    <3>1. \A k : OpenBelow(k)' = OpenBelow(k)
      BY <2>1 DEF OpenBelow
    <3>2. Surrounded'
      BY <2>1, <3>1, TreeKept DEF WalkInv, Surrounded
    <3>3. Ahead'
      BY <2>1, <2>2 DEF WalkInv, Ahead, Evaluated, Top, Before, Abs
    <3>4. Within'
      BY <2>1, <2>2, TreeKept DEF WalkInv, Within, Evaluated, Abs
    <3> QED
      BY <3>2, <3>3, <3>4
  <2>5. Led' /\ Descended' /\ Continued'
    BY <2>1, <2>2, TreeKept DEF WalkInv, Led, Descended, Continued, Leads, Evaluated, Due, Top
  <2> QED
    BY <2>2, <2>3, <2>4, <2>5 DEF WalkInv
<1>2. CASE NextLine
  <2>1. LineStarts'
    BY <1>2, TreeKept DEF NextLine, LineStarts, WalkInv, Shape, Frame
  <2>2. (LineStarts => WalkInv)'
    BY StartWalk, PTL
  <2> QED
    BY <2>1, <2>2
<1> QED
  BY <1>1, <1>2, EvalNodeWalk, ChildDoneWalk, EvalSiblingWalk, ReturnWalk DEF TreeNext

LEMMA InitWalk == TreeInit => WalkInv
  BY StartWalk, RulesAssumption DEF TreeInit, LineStarts, Results

\* When the evaluation of a line is over, exactly the nodes that parse.y's tree leads
\* to were evaluated by _eval_node: for every rule, however long and deeply nested,
\* and whatever its patterns came to.
THEOREM WalkIsExact == TreeSpec => []EvaluatedExactly
<1>1. WalkInv => EvaluatedExactly
  <2> SUFFICES ASSUME WalkInv, stack = <<>>, NEW n \in Node
               PROVE  Evaluated(n) <=> n = 0 \/ \E p \in Node : Leads(p, n)
    BY DEF EvaluatedExactly
  <2>1. \A m : ~Due(m)
    BY DEF Due
  <2>2. DOMAIN stack = {}
    OBVIOUS
  <2>3. Evaluated(n) => n = 0 \/ \E p \in Node : Leads(p, n)
    BY DEF WalkInv, Led
  <2>4. Evaluated(0)
    BY DEF WalkInv, Descended
  <2>5. ASSUME NEW p \in Node, Leads(p, n) PROVE Evaluated(n)
    BY <2>1, <2>2, <2>5 DEF WalkInv, Descended, Continued, Leads
  <2> QED
    BY <2>3, <2>4, <2>5
<1> QED
  BY <1>1, InitWalk, NextWalk, PTL DEF TreeSpec

-----------------------------------------------------------------------------
(* The innermost match of a set of statements.                              *)

\* Bounded sets of numbers have a greatest element.
LEMMA GreatestNumber ==
    ASSUME NEW b \in Nat, NEW T \in SUBSET (0 .. b), T # {}
    PROVE  \E m \in T : \A n \in T : n <= m
<1> DEFINE U == {b - x : x \in T}
<1>1. U \in SUBSET Nat /\ U # {}
  <2>1. PICK x : x \in T
    OBVIOUS
  <2>2. b - x \in U
    BY <2>1
  <2>3. \A y \in T : b - y \in Nat
    OBVIOUS
  <2> QED
    BY <2>2, <2>3
<1>2. PICK u \in U : \A v \in U : ~ (<<v, u>> \in OpToRel(<, Nat))
  <2> HIDE DEF U
  <2> QED
    BY <1>1, WFMin, NatLessThanWellFounded
<1>3. \A v \in U : ~ (v < u)
  BY <1>1, <1>2 DEF OpToRel
<1>4. PICK m \in T : u = b - m
  BY <1>2
<1>5. \A n \in T : ~ (b - n < b - m)
  BY <1>3, <1>4
<1> QED
  BY <1>4, <1>5

\* The innermost match of a set of statements.
LEMMA InnerMatchIs ==
    ASSUME IsRule(rule), NEW S \in SUBSET (DOMAIN rule)
    PROVE  \/ InnerMatch(S) = None /\ \A s \in S : Kind(s) # "MATCH"
           \/ /\ InnerMatch(S) \in S /\ Kind(InnerMatch(S)) = "MATCH"
              /\ \A s \in S : Kind(s) = "MATCH" => s <= InnerMatch(S)
<1> DEFINE ms == {s \in S : Kind(s) = "MATCH"}
<1>1. CASE ms = {}
  BY <1>1 DEF InnerMatch, Innermost
<1>2. CASE ms # {}
  <2>1. Len(rule) \in Nat /\ ms \in SUBSET (0 .. Len(rule))
    BY NodeFacts
  <2>2. InnerMatch(S) = CHOOSE s \in ms : \A t \in ms : t <= s
    BY <1>2 DEF InnerMatch, Innermost
  <2>3. PICK s \in ms : \A t \in ms : t <= s
    <3> HIDE DEF ms
    <3> QED
      BY <1>2, <2>1, GreatestNumber
  <2>4. InnerMatch(S) \in ms /\ \A t \in ms : t <= InnerMatch(S)
    <3> HIDE DEF ms
    <3> QED
      BY <2>2, <2>3
  <2> QED
    BY <2>4
<1> QED
  BY <1>1, <1>2

\* The last statement is the innermost match if it is one.
LEMMA InnerMatchOfLast ==
    ASSUME IsRule(rule), NEW S \in SUBSET (DOMAIN rule), NEW n \in S, Kind(n) = "MATCH",
           \A s \in S : s <= n
    PROVE  InnerMatch(S) = n
<1>1. InnerMatch(S) \in S /\ n <= InnerMatch(S) /\ InnerMatch(S) <= n
  BY InnerMatchIs
<1>2. \A s \in S : s \in Nat
  BY NodeFacts
<1> QED
  BY <1>1, <1>2

\* Only the match statements count.
LEMMA InnerMatchSame ==
    ASSUME NEW S, NEW T, \A s : Kind(s) = "MATCH" => (s \in S <=> s \in T)
    PROVE  InnerMatch(S) = InnerMatch(T)
<1>1. {s \in S : Kind(s) = "MATCH"} = {s \in T : Kind(s) = "MATCH"}
  OBVIOUS
<1> QED
  BY <1>1 DEF InnerMatch

\* The statements around a statement, and the match that encloses it.
LEMMA AroundStatement ==
    ASSUME IsRule(rule), NEW n \in DOMAIN rule
    PROVE  /\ Around(n) \in SUBSET (DOMAIN rule) /\ n \notin Around(n)
           /\ \A s \in Around(n) : s < n
           /\ \A s \in DOMAIN rule : s \in Around(n) <=> Inside(n, s)
           /\ Enclosing(n) = InnerMatch(Around(n))
<1>1. n \in Nat /\ n > 0 /\ n <= Len(rule) /\ DOMAIN rule = 1 .. Len(rule) /\ Len(rule) \in Nat
  BY NodeFacts
<1>2. Around(n) = {s \in DOMAIN rule : Inside(n, s)}
  BY <1>1 DEF Around
<1>3. \A s : Inside(n, s) => s < n
  BY DEF Inside
<1>4. {s \in 1 .. n - 1 : Kind(s) = "MATCH" /\ Inside(n, s)} = {s \in Around(n) : Kind(s) = "MATCH"}
  BY <1>1, <1>2, <1>3
<1>5. Enclosing(n) = Innermost({s \in 1 .. n - 1 : Kind(s) = "MATCH" /\ Inside(n, s)})
  BY DEF Enclosing, Innermost
<1>6. Enclosing(n) = InnerMatch(Around(n))
  BY <1>4, <1>5 DEF InnerMatch
<1>7. n \notin Around(n)
  BY <1>1, <1>2, <1>3
<1> QED
  BY <1>2, <1>3, <1>6, <1>7

\* No node is around itself.
LEMMA AroundNode ==
    ASSUME IsRule(rule), NEW n \in Node
    PROVE  Around(n) \in SUBSET (DOMAIN rule) /\ n \notin Around(n)
<1>1. CASE n > 0
  BY <1>1, AroundStatement, NodeFacts
<1>2. CASE n <= 0
  <2>1. ~(n > 0) /\ n \notin DOMAIN rule
    BY <1>2, NodeFacts
  <2> QED
    BY <2>1 DEF Around
<1> QED
  BY <1>1, <1>2, NodeFacts

\* A match around m is the innermost one, or further out.
LEMMA EnclosingFrom ==
    ASSUME IsRule(rule), NEW m \in DOMAIN rule, NEW n \in DOMAIN rule, Kind(n) = "MATCH", Inside(m, n)
    PROVE  Enclosing(m) # Enclosing(n)
<1>1. n \in Around(m) /\ Enclosing(m) = InnerMatch(Around(m)) /\ Around(m) \in SUBSET (DOMAIN rule)
  BY AroundStatement
<1>2. Enclosing(m) \in DOMAIN rule /\ n <= Enclosing(m)
  BY <1>1, InnerMatchIs
<1>3. /\ Enclosing(n) = InnerMatch(Around(n)) /\ Around(n) \in SUBSET (DOMAIN rule)
      /\ \A s \in Around(n) : s < n
  BY AroundStatement
<1>4. Enclosing(n) = None \/ Enclosing(n) < n
  BY <1>3, InnerMatchIs
<1>5. None \notin DOMAIN rule /\ \A s \in DOMAIN rule : s \in Nat
  BY NodeFacts, RulesAssumption
<1> QED
  BY <1>2, <1>4, <1>5

-----------------------------------------------------------------------------
(* The blocks that are open.                                                *)

\* The open blocks are those around the node of the innermost call.
LEMMA OpenNow ==
    ASSUME WalkInv, stack # <<>>
    PROVE  /\ Open = Around(Top.node) \cup {s \in DOMAIN rule : Top.at = "child" /\ Top.node = s}
           /\ Open \in SUBSET (DOMAIN rule)
<1>1. PICK l : l = Len(stack) /\ l \in Nat /\ l > 0 /\ DOMAIN stack = 1 .. l /\ stack[l] = Top
  BY TopIsCall DEF WalkInv
<1>2. OpenBelow(l) = Around(Top.node)
  BY <1>1 DEF WalkInv, Surrounded
<1>3. 1 .. (l + 1) - 1 = (1 .. l - 1) \cup {l}
  BY <1>1
<1>4. ASSUME NEW s \in DOMAIN rule
      PROVE  (\E j \in 1 .. (l + 1) - 1 : stack[j].at = "child" /\ stack[j].node = s)
             <=> \/ \E j \in 1 .. l - 1 : stack[j].at = "child" /\ stack[j].node = s
                 \/ Top.at = "child" /\ Top.node = s
  BY <1>1, <1>3, Zenon
<1>5. Open = {s \in DOMAIN rule :
                 \E j \in 1 .. (l + 1) - 1 : stack[j].at = "child" /\ stack[j].node = s}
  BY <1>1 DEF Open, OpenBelow
<1>6. OpenBelow(l) = {s \in DOMAIN rule :
                         \E j \in 1 .. l - 1 : stack[j].at = "child" /\ stack[j].node = s}
  BY DEF OpenBelow
<1>7. Open \in SUBSET (DOMAIN rule)
  BY <1>5
<1>8. ASSUME NEW s
      PROVE  s \in Open <=> s \in OpenBelow(l) \/ s \in {q \in DOMAIN rule : Top.at = "child" /\ Top.node = q}
  <2>1. CASE s \in DOMAIN rule
    BY <1>4, <1>5, <1>6, <2>1, Zenon
  <2>2. CASE s \notin DOMAIN rule
    BY <1>5, <1>6, <2>2, Zenon
  <2> QED
    BY <2>1, <2>2
<1> QED
  BY <1>2, <1>7, <1>8, Zenon

\* No call, no open block.
LEMMA OpenNone ==
    ASSUME stack = <<>>
    PROVE  Open = {}
  BY DEF Open, OpenBelow
\* Evaluating a statement opens its block; nothing else does.
LEMMA EvalOpens ==
    ASSUME WalkInv, EvalNode
    PROVE  /\ stack # <<>> /\ Top.at = "eval" /\ Top.node \in Node /\ rule' = rule
           /\ Open = Around(Top.node)
           /\ \E r \in Outcomes(Top) :
                 /\ result' = [result EXCEPT ![Top.node] = r]
                 /\ Open' = IF r = "TRUE" /\ Child(Top.node) # None /\ Top.node > 0
                            THEN Around(Top.node) \cup {Top.node} ELSE Around(Top.node)
                 /\ IF Kind(Top.node) = "MATCH"
                    THEN /\ prev_match' = [prev_match EXCEPT ![Top.node] = re_match]
                         /\ re_match' = IF r = "TRUE" THEN Top.node ELSE re_match
                         /\ held' = IF r = "TRUE" THEN held \cup {Top.node} ELSE held \ {Top.node}
                    ELSE UNCHANGED <<prev_match, re_match, held>>
<1> DEFINE n == Top.node
<1>s. Shape /\ IsRule(rule) /\ WalkInv'
  BY EvalNodeWalk DEF WalkInv, Shape
<1>1. stack # <<>> /\ Top.at = "eval" /\ rule' = rule
  BY <1>s, EvalEffect
<1>2. PICK r \in Outcomes(Top) :
         /\ r \in Results
         /\ result' = [result EXCEPT ![n] = r]
         /\ \/ Stops(r) /\ Replaces(At("end", r))
            \/ /\ r = "TRUE" /\ Child(n) # None
               /\ Pushes(At("child", r), Frame(Child(n), r))
            \/ /\ ~Stops(r) /\ ~(r = "TRUE" /\ Child(n) # None)
               /\ Replaces(At("sibling", r))
         /\ IF Kind(n) = "MATCH"
            THEN /\ prev_match' = [prev_match EXCEPT ![n] = re_match]
                 /\ re_match' = IF r = "TRUE" THEN n ELSE re_match
                 /\ held' = IF r = "TRUE" THEN held \cup {n} ELSE held \ {n}
            ELSE UNCHANGED <<prev_match, re_match, held>>
  BY <1>s, EvalEffect
<1>3. PICK l : l = Len(stack) /\ l \in Nat /\ l > 0 /\ n \in Node
  BY <1>s, <1>1, TopIsCall, FrameFields
<1>4. Open = Around(n)
  BY <1>1, OpenNow
<1>5. (WalkInv /\ stack # <<>> =>
          Open = Around(Top.node) \cup {s \in DOMAIN rule : Top.at = "child" /\ Top.node = s})'
  BY OpenNow, PTL
<1>6. ASSUME NEW a \in {"end", "sibling"}, Replaces(At(a, r)) PROVE Open' = Around(n)
  <2>1. Len(stack') = l /\ stack'[l] = At(a, r)
    BY <1>3, <1>6 DEF Replaces
  <2>2. stack' # <<>> /\ Top' = At(a, r)
    BY <1>3, <2>1 DEF Top
  <2>3. Top'.node = n /\ Top'.at = a
    BY <2>2 DEF At
  <2> QED
    BY <1>s, <1>1, <1>5, <2>2, <2>3, TreeKept
<1>7. ASSUME Pushes(At("child", r), Frame(Child(n), r)), Child(n) # None
      PROVE  Open' = IF n > 0 THEN Around(n) \cup {n} ELSE Around(n)
  <2>1. Len(stack') = l + 1 /\ stack'[l + 1] = Frame(Child(n), r)
    BY <1>3, <1>7 DEF Pushes
  <2>2. stack' # <<>> /\ Top' = Frame(Child(n), r)
    BY <1>3, <2>1 DEF Top
  <2>3. Top'.node = Child(n) /\ Top'.at = "eval"
    BY <2>2 DEF Frame
  <2>4. Open' = Around(Child(n))
    BY <1>s, <1>1, <1>5, <2>2, <2>3, TreeKept
  <2> QED
    BY <1>s, <1>3, <1>7, <2>4, AroundChild
<1>8. Open' = IF r = "TRUE" /\ Child(n) # None /\ n > 0 THEN Around(n) \cup {n} ELSE Around(n)
  <2>1. Stops(r) => r # "TRUE"
    BY DEF Stops
  <2> QED
    BY <1>2, <1>6, <1>7, <2>1
<1> QED
  BY <1>1, <1>2, <1>3, <1>4, <1>8

\* The end of a block closes it.
LEMMA ChildDoneCloses ==
    ASSUME WalkInv, ChildDone
    PROVE  /\ stack # <<>> /\ Top.at = "child" /\ Top.node \in Node
           /\ Open = IF Top.node > 0 THEN Around(Top.node) \cup {Top.node} ELSE Around(Top.node)
           /\ Open' = Around(Top.node)
<1>s. Shape /\ IsRule(rule) /\ WalkInv'
  BY ChildDoneWalk DEF WalkInv, Shape
<1>1. stack # <<>> /\ Top.at = "child" /\ rule' = rule
  BY <1>s, ChildDoneEffect
<1>2. PICK a \in {"end", "sibling"} : a = IF Stops(ret) THEN "end" ELSE "sibling"
  OBVIOUS
<1>3. Replaces(At(a, Top.topr))
  BY <1>s, <1>2, ChildDoneEffect
<1>4. PICK l : l = Len(stack) /\ l \in Nat /\ l > 0 /\ Top.node \in Node
  BY <1>s, <1>1, TopIsCall, FrameFields
<1>5. (WalkInv /\ stack # <<>> =>
          Open = Around(Top.node) \cup {s \in DOMAIN rule : Top.at = "child" /\ Top.node = s})'
  BY OpenNow, PTL
<1>6. stack' # <<>> /\ Top' = At(a, Top.topr)
  BY <1>3, <1>4 DEF Top, Replaces
<1>7. Top'.node = Top.node /\ Top'.at = a
  BY <1>6 DEF At
<1>8. Open' = Around(Top.node)
  BY <1>s, <1>1, <1>5, <1>6, <1>7, TreeKept
<1>9. Open = Around(Top.node) \cup {s \in DOMAIN rule : Top.node = s}
  BY <1>1, OpenNow
<1>10. IF Top.node > 0 THEN Top.node \in DOMAIN rule ELSE Top.node \notin DOMAIN rule
  BY <1>s, <1>4, NodeFacts
<1>11. Open = IF Top.node > 0 THEN Around(Top.node) \cup {Top.node} ELSE Around(Top.node)
  BY <1>9, <1>10
<1> QED
  BY <1>1, <1>4, <1>8, <1>11

\* Going on to a sibling opens and closes no block.
LEMMA EvalSiblingOpens ==
    ASSUME WalkInv, EvalSibling
    PROVE  Open' = Open
<1> DEFINE n == Top.node
<1>s. Shape /\ IsRule(rule) /\ WalkInv'
  BY EvalSiblingWalk DEF WalkInv, Shape
<1>1. stack # <<>> /\ Top.at = "sibling" /\ rule' = rule
  BY <1>s, EvalSiblingEffect
<1>2. \/ Sibling(n) = None /\ Replaces(At("end", Top.topr))
      \/ Sibling(n) # None /\ Pushes(At("end", Top.topr), Frame(Sibling(n), Top.topr))
  BY <1>s, EvalSiblingEffect
<1>3. PICK l : l = Len(stack) /\ l \in Nat /\ l > 0 /\ n \in Node
  BY <1>s, <1>1, TopIsCall, FrameFields
<1>4. Open = Around(n)
  BY <1>1, OpenNow
<1>5. (WalkInv /\ stack # <<>> =>
          Open = Around(Top.node) \cup {s \in DOMAIN rule : Top.at = "child" /\ Top.node = s})'
  BY OpenNow, PTL
<1>6. CASE Replaces(At("end", Top.topr))
  <2>1. stack' # <<>> /\ Top' = At("end", Top.topr)
    BY <1>3, <1>6 DEF Top, Replaces
  <2>2. Top'.node = n /\ Top'.at = "end"
    BY <2>1 DEF At
  <2> QED
    BY <1>s, <1>1, <1>4, <1>5, <2>1, <2>2, TreeKept
<1>7. CASE Sibling(n) # None /\ Pushes(At("end", Top.topr), Frame(Sibling(n), Top.topr))
  <2>1. stack' # <<>> /\ Top' = Frame(Sibling(n), Top.topr)
    BY <1>3, <1>7 DEF Top, Pushes
  <2>2. Top'.node = Sibling(n) /\ Top'.at = "eval"
    BY <2>1 DEF Frame
  <2>3. Open' = Around(Sibling(n))
    BY <1>s, <1>1, <1>5, <2>1, <2>2, TreeKept
  <2> QED
    BY <1>s, <1>3, <1>4, <1>7, <2>3, AroundSibling
<1> QED
  BY <1>2, <1>6, <1>7

\* Nor does returning.
LEMMA ReturnOpens ==
    ASSUME WalkInv, Return
    PROVE  Open' = Open /\ Top.node \notin Open
<1>s. Shape /\ IsRule(rule)
  BY DEF WalkInv, Shape
<1>1. stack # <<>> /\ Top.at = "end" /\ Pops /\ rule' = rule
  BY <1>s, ReturnEffect
<1>2. PICK l : l = Len(stack) /\ l \in Nat /\ l > 0 /\ stack[l] = Top /\ Top.node \in Node
  BY <1>s, <1>1, TopIsCall, FrameFields
<1>3. Open = Around(Top.node)
  BY <1>1, OpenNow
<1>4. Len(stack') = l - 1 /\ \A k \in 1 .. l - 1 : stack'[k] = stack[k]
  BY <1>1, <1>2 DEF Pops
<1>5. Open' = {s \in DOMAIN rule :
                  \E j \in 1 .. ((l - 1) + 1) - 1 : stack'[j].at = "child" /\ stack'[j].node = s}
  BY <1>1, <1>4 DEF Open, OpenBelow
<1>6. Open = {s \in DOMAIN rule :
                 \E j \in 1 .. (l + 1) - 1 : stack[j].at = "child" /\ stack[j].node = s}
  BY <1>2 DEF Open, OpenBelow
<1>7. 1 .. ((l - 1) + 1) - 1 = 1 .. l - 1 /\ 1 .. (l + 1) - 1 = (1 .. l - 1) \cup {l}
  BY <1>2
<1>8. ASSUME NEW s \in DOMAIN rule
      PROVE  (\E j \in 1 .. ((l - 1) + 1) - 1 : stack'[j].at = "child" /\ stack'[j].node = s)
             <=> \E j \in 1 .. (l + 1) - 1 : stack[j].at = "child" /\ stack[j].node = s
  <2>1. stack[l].at # "child"
    BY <1>1, <1>2
  <2> QED
    BY <1>4, <1>7, <2>1, Zenon
<1>9. Open' = Open
  BY <1>5, <1>6, <1>8, Zenon
<1> QED
  BY <1>s, <1>2, <1>3, <1>9, AroundNode
-----------------------------------------------------------------------------
(* The captures in use.                                                     *)

\* The captures a statement refers to depend on what came before it only.
LEMMA ScopeKept ==
    ASSUME IsRule(rule), rule' = rule, NEW n \in DOMAIN rule,
           \A m \in 1 .. n - 1 : result'[m] = "TRUE" <=> result[m] = "TRUE"
    PROVE  Scope(n)' = Scope(n)
<1>1. Voided(n)' <=> Voided(n)
  BY TreeKept DEF Voided
<1> QED
  BY <1>1, TreeKept DEF Scope

\* When a statement is evaluated, the captures in use are those of its scope.
LEMMA ScopeInUse ==
    ASSUME CaptureInv, stack # <<>>, Top.at = "eval", Top.node > 0
    PROVE  re_match = Scope(Top.node)
<1> DEFINE n == Top.node
<1>1. WalkInv /\ IsRule(rule) /\ Scoped
  BY DEF CaptureInv, WalkInv, Shape
<1>2. n \in DOMAIN rule /\ n \in Node
  BY <1>1, OnlyOnce, NodeFacts
<1>3. Open = Around(n)
  BY <1>1, OpenNow
<1>4. InnerMatch(Open) = Enclosing(n)
  BY <1>1, <1>2, <1>3, AroundStatement
<1>5. ASSUME NEW m \in DOMAIN rule, result[m] = "TRUE" PROVE m \in 1 .. n - 1
  <2>1. m \in Node /\ m > 0 /\ n \in Int /\ m \in Int /\ n > 0
    BY <1>1, <1>2, NodeFacts
  <2>2. Before(m, n)
    BY <1>1, <1>5, <2>1, OnlyOnce DEF Evaluated
  <2> QED
    BY <2>1, <2>2 DEF Before, Abs
<1>6. 1 .. n - 1 \subseteq DOMAIN rule
  BY <1>1, <1>2, NodeFacts
<1>7. \A m \in DOMAIN rule : m \in Open <=> Inside(n, m)
  BY <1>1, <1>2, <1>3, AroundStatement
<1> HIDE DEF n
<1>8. Lost <=> Voided(n)
  BY <1>4, <1>5, <1>6, <1>7 DEF Lost, Voided
<1> QED
  BY <1>1, <1>4, <1>8 DEF Scoped, Scope, n

\* Each step keeps the invariant of the captures.
LEMMA EvalNodeCaptures ==
    ASSUME CaptureInv, EvalNode
    PROVE  MatchShape' /\ Scoped' /\ Saved'
<1>n. PICK n : n = Top.node
  OBVIOUS
<1>s. WalkInv /\ IsRule(rule) /\ MatchShape /\ Scoped /\ Saved
  BY DEF CaptureInv, WalkInv, Shape
<1>1. stack # <<>> /\ Top.at = "eval" /\ n \in Node /\ rule' = rule /\ Open = Around(n)
  BY <1>n, <1>s, EvalOpens
<1>2. PICK r \in Outcomes(Top) :
         /\ result' = [result EXCEPT ![n] = r]
         /\ Open' = IF r = "TRUE" /\ Child(n) # None /\ n > 0 THEN Around(n) \cup {n} ELSE Around(n)
         /\ IF Kind(n) = "MATCH"
            THEN /\ prev_match' = [prev_match EXCEPT ![n] = re_match]
                 /\ re_match' = IF r = "TRUE" THEN n ELSE re_match
                 /\ held' = IF r = "TRUE" THEN held \cup {n} ELSE held \ {n}
            ELSE UNCHANGED <<prev_match, re_match, held>>
  BY <1>n, <1>s, EvalOpens
<1>3. /\ \A x \in Node : x # n => result'[x] = result[x]
      /\ result'[n] = r /\ result[n] = "-"
      /\ \A x \in Node : Evaluated(x) => Before(x, n) /\ x # n
  BY <1>n, <1>s, <1>1, <1>2, OnlyOnce DEF WalkInv, Shape, Evaluated
<1>4. /\ \A s \in DOMAIN rule : s \in Node /\ s \in Nat /\ s > 0
      /\ n > 0 => n \in DOMAIN rule /\ n \in Nat
      /\ n <= 0 => n \notin DOMAIN rule /\ Kind(n) = "PASSTHROUGH"
      /\ n \in Int
  BY <1>s, <1>1, NodeFacts DEF Kind
<1>5. Kind(n) = "MATCH" => n \in DOMAIN rule /\ n > 0
  BY <1>4
<1>6. Around(n) \in SUBSET (DOMAIN rule) /\ n \notin Around(n)
  BY <1>s, <1>1, AroundNode
<1>7. \A s \in Around(n) : n > 0 => s < n
  BY <1>s, <1>4, AroundStatement
<1>8. MatchShape'
  BY <1>s, <1>1, <1>2, <1>5 DEF MatchShape
<1>9. Saved'
  <2> SUFFICES ASSUME NEW k \in DOMAIN rule
               PROVE  IF Kind(k) = "MATCH" THEN k \in Open' => prev_match'[k] = Scope(k)' /\ k \in held'
                      ELSE prev_match'[k] = None
    BY <1>1, TreeKept DEF Saved
  <2>1. k # n => prev_match'[k] = prev_match[k]
    BY <1>s, <1>2, <1>5 DEF MatchShape
  <2>2. CASE Kind(k) # "MATCH"
    BY <1>s, <1>2, <2>1, <2>2 DEF Saved
  <2>3. CASE Kind(k) = "MATCH" /\ k \in Around(n)
    <3>1. k # n /\ prev_match[k] = Scope(k) /\ k \in held
      BY <1>s, <1>1, <1>6, <2>3 DEF Saved
    <3>2. k \in held'
      BY <1>2, <3>1
    <3>3. ASSUME NEW m \in 1 .. k - 1 PROVE m \in Node /\ m # n
      <4>1. k \in Nat /\ k <= Len(rule) /\ Len(rule) \in Nat /\ DOMAIN rule = 1 .. Len(rule)
        BY <1>s, NodeFacts
      <4>2. m \in DOMAIN rule
        BY <4>1
      <4>3. n > 0 => k < n
        BY <1>7, <2>3
      <4> QED
        BY <1>4, <4>1, <4>2, <4>3
    <3>4. Scope(k)' = Scope(k)
      BY <1>s, <1>1, <1>3, <3>3, ScopeKept
    <3> QED
      BY <2>1, <2>3, <3>1, <3>2, <3>4
  <2>4. CASE Kind(k) = "MATCH" /\ k = n /\ r = "TRUE"
    <3>1. n > 0 /\ n \in DOMAIN rule
      BY <1>5, <2>4
    <3>2. prev_match'[n] = re_match /\ n \in held'
      BY <1>s, <1>2, <2>4, <3>1 DEF MatchShape
    <3>3. re_match = Scope(n)
      BY <1>n, <1>1, <3>1, ScopeInUse
    <3>4. ASSUME NEW m \in 1 .. n - 1 PROVE m \in Node /\ m # n
      <4>1. n \in Nat /\ n <= Len(rule) /\ Len(rule) \in Nat /\ DOMAIN rule = 1 .. Len(rule)
        BY <1>s, <3>1, NodeFacts
      <4> QED
        BY <1>4, <4>1
    <3>5. Scope(n)' = Scope(n)
      BY <1>s, <1>1, <1>3, <3>1, <3>4, ScopeKept
    <3> QED
      BY <2>4, <3>2, <3>3, <3>5
  <2>5. k \in Open' => k \in Around(n) \/ (k = n /\ r = "TRUE")
    BY <1>2
  <2> QED
    BY <2>2, <2>3, <2>4, <2>5
<1>10. CASE Kind(n) = "MATCH" /\ r = "TRUE"
  <2>1. n > 0 /\ n \in DOMAIN rule /\ n \in Nat
    BY <1>4, <1>5, <1>10
  <2>2. Child(n) # None
    BY <1>1, <1>10, <2>1, RulesAssumption DEF Child, Kind, Compound
  <2>3. Open' = Around(n) \cup {n}
    BY <1>2, <1>10, <2>1, <2>2
  <2>4. PICK S : S = Open' /\ S \in SUBSET (DOMAIN rule) /\ n \in S
    BY <1>6, <2>1, <2>3
  <2>5. \A s \in S : s <= n
    BY <1>4, <1>7, <2>1, <2>3, <2>4
  <2>6. InnerMatch(S) = n
    BY <1>s, <1>10, <2>4, <2>5, InnerMatchOfLast
  <2>7. InnerMatch(Open)' = n
    BY <1>1, <2>4, <2>6, TreeKept DEF InnerMatch
  <2>8. ~Lost'
    <3> SUFFICES ASSUME NEW m \in DOMAIN rule, Kind(m) = "MATCHALL", result'[m] = "TRUE", Enclosing(m) = n
                 PROVE  FALSE
      BY <1>1, <2>7, TreeKept DEF Lost
    <3>1. m # n
      BY <1>10
    <3>2. Before(m, n)
      BY <1>3, <1>4, <3>1 DEF Evaluated
    <3>3. m < n
      BY <1>4, <2>1, <3>2 DEF Before, Abs
    <3>4. Around(m) \in SUBSET (DOMAIN rule) /\ Enclosing(m) = InnerMatch(Around(m)) /\ \A s \in Around(m) : s < m
      BY <1>s, AroundStatement
    <3>5. n # None
      BY <2>1, RulesAssumption
    <3>6. n \in Around(m)
      BY <1>s, <3>4, <3>5, InnerMatchIs
    <3> QED
      BY <1>4, <2>1, <3>3, <3>4, <3>6
  <2>9. re_match' = n
    BY <1>2, <1>10
  <2> QED
    BY <1>8, <1>9, <2>7, <2>8, <2>9 DEF Scoped
<1>11. CASE ~(Kind(n) = "MATCH" /\ r = "TRUE")
  <2>1. re_match' = re_match
    BY <1>2, <1>11
  <2>2. PICK S : S = Open'
    OBVIOUS
  <2>3. \A s : Kind(s) = "MATCH" => (s \in S <=> s \in Open)
    BY <1>1, <1>2, <1>11, <2>2
  <2>4. InnerMatch(S) = InnerMatch(Open)
    BY <2>3, InnerMatchSame
  <2>5. InnerMatch(Open)' = InnerMatch(Open)
    BY <1>1, <2>2, <2>4, TreeKept DEF InnerMatch
  <2>6. ASSUME NEW m \in DOMAIN rule, Kind(m) = "MATCHALL"
        PROVE  result'[m] = "TRUE" /\ m \notin Open' <=> result[m] = "TRUE" /\ m \notin Open
    <3>1. CASE m # n
      BY <1>1, <1>2, <1>3, <1>4, <3>1
    <3>2. CASE m = n
      <4>1. n > 0 /\ Child(n) # None
        BY <1>1, <1>4, <2>6, <3>2, RulesAssumption DEF Child, Kind, Compound
      <4> QED
        BY <1>2, <1>3, <3>2, <4>1
    <3> QED
      BY <3>1, <3>2
  <2>7. Lost' <=> Lost
    BY <1>1, <2>5, <2>6, TreeKept DEF Lost
  <2> QED
    BY <1>s, <1>8, <1>9, <2>1, <2>5, <2>7 DEF Scoped
<1> QED
  BY <1>8, <1>9, <1>10, <1>11

LEMMA ChildDoneCaptures ==
    ASSUME CaptureInv, ChildDone
    PROVE  MatchShape' /\ Scoped' /\ Saved'
<1>n. PICK n : n = Top.node
  OBVIOUS
<1>s. WalkInv /\ IsRule(rule) /\ MatchShape /\ Scoped /\ Saved /\ Shape
  BY DEF CaptureInv, WalkInv, Shape
<1>1. /\ stack # <<>> /\ Top.at = "child" /\ n \in Node
      /\ Open = IF n > 0 THEN Around(n) \cup {n} ELSE Around(n)
      /\ Open' = Around(n)
  BY <1>n, <1>s, ChildDoneCloses
<1>2. /\ UNCHANGED <<rule, prev_match, result>>
      /\ re_match' = OutOfScope(n) /\ held' = held \ {n}
  BY <1>n, <1>s, ChildDoneEffect
<1>3. /\ \A s \in DOMAIN rule : s \in Node /\ s \in Nat /\ s > 0
      /\ n > 0 => n \in DOMAIN rule /\ n \in Nat
      /\ n <= 0 => Kind(n) = "PASSTHROUGH"
      /\ n \in Int
  BY <1>s, <1>1, NodeFacts DEF Kind
<1>4. Around(n) \in SUBSET (DOMAIN rule) /\ n \notin Around(n)
  BY <1>s, <1>1, AroundNode
<1>5. result[n] = "TRUE"
  <2>1. Len(stack) \in DOMAIN stack /\ stack[Len(stack)] = Top
    BY <1>s, <1>1, TopIsCall
  <2> QED
    BY <1>n, <1>s, <1>1, <2>1 DEF WalkInv, Noted
<1>6. n > 0 => \A x \in Node : Evaluated(x) => Abs(x) <= n \/ Inside(Abs(x), n)
  <2>1. Len(stack) \in DOMAIN stack /\ stack[Len(stack)] = Top
    BY <1>s, <1>1, TopIsCall
  <2> QED
    BY <1>n, <1>s, <1>1, <2>1 DEF WalkInv, Within
<1>7. MatchShape'
  BY <1>s, <1>2, <1>3 DEF MatchShape, OutOfScope
<1>8. \A k : Scope(k)' = Scope(k)
  BY <1>2, TreeKept DEF Scope, Voided
<1>9. Saved'
  BY <1>s, <1>1, <1>2, <1>4, <1>8, TreeKept DEF Saved
<1>10. CASE Kind(n) = "MATCH"
  <2>1. n > 0 /\ n \in DOMAIN rule /\ n \in Nat
    BY <1>3, <1>10
  <2>2. re_match' = Scope(n)
    BY <1>s, <1>1, <1>2, <1>10, <2>1 DEF Saved, OutOfScope
  <2>3. PICK S : S = Open' /\ S = Around(n)
    BY <1>1
  <2>4. InnerMatch(Open)' = Enclosing(n)
    <3>1. InnerMatch(S) = Enclosing(n)
      BY <1>s, <2>1, <2>3, AroundStatement
    <3> QED
      BY <1>2, <2>3, <3>1, TreeKept DEF InnerMatch
  <2>5. Lost' <=> Voided(n)
    <3>1. ASSUME NEW m \in DOMAIN rule, Kind(m) = "MATCHALL", result[m] = "TRUE", Enclosing(m) = Enclosing(n)
          PROVE  m \in 1 .. n - 1
      <4>1. m \in Node /\ m \in Nat /\ m > 0 /\ Abs(m) = m /\ Evaluated(m)
        BY <1>3, <3>1 DEF Abs, Evaluated
      <4>2. ~Inside(m, n)
        BY <1>s, <1>10, <2>1, <3>1, EnclosingFrom
      <4>3. m # n
        BY <1>10, <3>1
      <4> QED
        BY <1>6, <2>1, <4>1, <4>2, <4>3
    <3>2. 1 .. n - 1 \subseteq DOMAIN rule
      BY <1>s, <2>1, NodeFacts
    <3>3. \A m \in DOMAIN rule : m \in Around(n) <=> Inside(n, m)
      BY <1>s, <2>1, AroundStatement
    <3>4. Lost' <=> \E m \in DOMAIN rule :
                       /\ Kind(m) = "MATCHALL" /\ result[m] = "TRUE" /\ m \notin Around(n)
                       /\ Enclosing(m) = Enclosing(n)
      BY <1>1, <1>2, <2>4, TreeKept DEF Lost
    <3> QED
      BY <3>1, <3>2, <3>3, <3>4 DEF Voided
  <2> QED
    BY <1>7, <1>9, <2>2, <2>4, <2>5 DEF Scoped, Scope
<1>11. CASE Kind(n) = "MATCHALL"
  <2>1. n > 0 /\ n \in DOMAIN rule
    BY <1>3, <1>11
  <2>2. re_match' = None
    BY <1>s, <1>2, <1>11, <2>1 DEF Saved, OutOfScope
  <2>3. PICK S : S = Open' /\ S = Around(n)
    BY <1>1
  <2>4. InnerMatch(Open)' = Enclosing(n)
    <3>1. InnerMatch(S) = Enclosing(n)
      BY <1>s, <2>1, <2>3, AroundStatement
    <3> QED
      BY <1>2, <2>3, <3>1, TreeKept DEF InnerMatch
  <2>5. Lost'
    BY <1>1, <1>2, <1>4, <1>5, <1>11, <2>1, <2>4, TreeKept DEF Lost
  <2> QED
    BY <1>7, <1>9, <2>2, <2>5 DEF Scoped
<1>12. CASE Kind(n) \notin {"MATCH", "MATCHALL"}
  <2>1. re_match' = re_match
    BY <1>2, <1>12 DEF OutOfScope
  <2>2. PICK S : S = Open'
    OBVIOUS
  <2>3. \A s : Kind(s) \in {"MATCH", "MATCHALL"} => (s \in S <=> s \in Open)
    BY <1>1, <1>12, <2>2
  <2>4. InnerMatch(S) = InnerMatch(Open)
    BY <2>3, InnerMatchSame
  <2>5. InnerMatch(Open)' = InnerMatch(Open)
    BY <1>2, <2>2, <2>4, TreeKept DEF InnerMatch
  <2>6. Lost' <=> Lost
    BY <1>2, <2>2, <2>3, <2>5, TreeKept DEF Lost
  <2> QED
    BY <1>s, <1>7, <1>9, <2>1, <2>5, <2>6 DEF Scoped
<1> QED
  BY <1>7, <1>9, <1>10, <1>11, <1>12

\* Steps that open and close no block.
LEMMA OtherCaptures ==
    ASSUME CaptureInv, UNCHANGED <<rule, result, re_match, prev_match>>, Open' = Open,
           held' \subseteq held, \A s \in Open : s \in held => s \in held'
    PROVE  MatchShape' /\ Scoped' /\ Saved'
<1>1. MatchShape' /\ IsRule(rule)
  BY DEF CaptureInv, MatchShape, WalkInv, Shape
<1>2. \A k : Scope(k)' = Scope(k)
  BY TreeKept DEF Scope, Voided
<1>3. Saved'
  BY <1>2, TreeKept DEF CaptureInv, Saved
<1>4. InnerMatch(Open)' = InnerMatch(Open)
  BY TreeKept DEF InnerMatch
<1>5. Lost' <=> Lost
  BY <1>4, TreeKept DEF Lost
<1>6. Scoped'
  BY <1>4, <1>5 DEF CaptureInv, Scoped
<1> QED
  BY <1>1, <1>3, <1>6

\* Every step keeps it, and it holds at first.
LEMMA NextCaptures == CaptureInv /\ [TreeNext]_treeVars => CaptureInv'
<1> SUFFICES ASSUME CaptureInv, [TreeNext]_treeVars PROVE MatchShape' /\ Scoped' /\ Saved'
  BY NextWalk DEF CaptureInv
<1>s. WalkInv /\ Shape /\ IsRule(rule) /\ WalkInv'
  BY NextWalk DEF CaptureInv, WalkInv, Shape
<1>1. CASE FollowsNull \/ PatternFails \/ UNCHANGED treeVars
  <2>1. UNCHANGED <<rule, stack, re_match, prev_match, held, result>>
    BY <1>1 DEF FollowsNull, PatternFails, treeVars
  <2>2. Open' = Open
    BY <2>1 DEF Open, OpenBelow
  <2> QED
    BY <2>1, <2>2, OtherCaptures
<1>2. CASE EvalSibling
  <2>1. UNCHANGED <<rule, re_match, prev_match, held, result>>
    BY <1>s, <1>2, EvalSiblingEffect
  <2> QED
    BY <1>s, <1>2, <2>1, EvalSiblingOpens, OtherCaptures
<1>3. CASE Return
  <2>1. UNCHANGED <<rule, re_match, prev_match, result>> /\ held' = held \ {Top.node}
    BY <1>s, <1>3, ReturnEffect
  <2>2. Open' = Open /\ Top.node \notin Open
    BY <1>s, <1>3, ReturnOpens
  <2>3. held' \subseteq held /\ \A s \in Open : s \in held => s \in held'
    BY <2>1, <2>2
  <2> QED
    BY <2>1, <2>2, <2>3, OtherCaptures
<1>4. CASE NextLine
  <2>1. /\ UNCHANGED <<rule, prev_match, held>> /\ re_match' = None
        /\ stack' = <<Frame(0, "TRUE")>> /\ result' = [m \in Node |-> "-"]
    BY <1>4, TreeKept DEF NextLine
  <2>2. (WalkInv /\ stack # <<>> =>
            Open = Around(Top.node) \cup {s \in DOMAIN rule : Top.at = "child" /\ Top.node = s})'
    BY OpenNow, PTL
  <2>3. stack' # <<>> /\ Top'.node = 0 /\ Top'.at = "eval"
    BY <2>1 DEF Top, Frame
  <2>4. Open' = {}
    <3>1. Around(0) = {}
      <4>1. \A s \in DOMAIN rule : s \in Nat /\ s > 0
        BY <1>s, NodeFacts
      <4>2. \A s \in DOMAIN rule : ~(s = -0 \/ Inside(-0, s)) /\ ~(0 > 0)
        BY <4>1 DEF Inside
      <4> QED
        BY <4>2 DEF Around
    <3> QED
      BY <1>s, <2>1, <2>2, <2>3, <3>1, TreeKept
  <2>5. InnerMatch(Open)' = None
    BY <2>4 DEF InnerMatch, Innermost
  <2>6. MatchShape' /\ Saved'
    BY <2>1, <2>4, TreeKept DEF CaptureInv, MatchShape, Saved
  <2> QED
    BY <2>1, <2>5, <2>6 DEF Scoped
<1> QED
  BY <1>1, <1>2, <1>3, <1>4, EvalNodeCaptures, ChildDoneCaptures DEF TreeNext

LEMMA InitCaptures == TreeInit => CaptureInv
<1> SUFFICES ASSUME TreeInit PROVE CaptureInv
  OBVIOUS
<1>1. WalkInv /\ IsRule(rule)
  BY InitWalk DEF WalkInv, Shape
<1>2. /\ re_match = None /\ prev_match = [s \in 1 .. Len(rule) |-> None] /\ held = {}
      /\ stack = <<Frame(0, "TRUE")>>
  BY DEF TreeInit
<1>3. DOMAIN rule = 1 .. Len(rule)
  BY <1>1, NodeFacts
<1>4. stack # <<>> /\ Top.node = 0 /\ Top.at = "eval"
  BY <1>2 DEF Top, Frame
<1>5. Open = {}
  <2>1. \A s \in DOMAIN rule : s \in Nat /\ s > 0
    BY <1>1, NodeFacts
  <2>2. \A s \in DOMAIN rule : ~(s = -0 \/ Inside(-0, s)) /\ ~(0 > 0)
    BY <2>1 DEF Inside
  <2>3. Around(0) = {}
    BY <2>2 DEF Around
  <2> QED
    BY <1>1, <1>4, <2>3, OpenNow
<1>6. InnerMatch(Open) = None
  BY <1>5 DEF InnerMatch, Innermost
<1>7. MatchShape /\ Saved
  BY <1>2, <1>3, <1>5 DEF MatchShape, Saved
<1> QED
  BY <1>1, <1>2, <1>6, <1>7 DEF CaptureInv, Scoped

\* For every rule and every course of its evaluation: when _eval_node comes to a
\* statement, ctx->re_match is the match around it, or null behind a matchall block
\* inside that match; and it never points to a match that was released.
THEOREM CapturesInScope == TreeSpec => []CapturesOfEnclosing
<1>1. CaptureInv => CapturesOfEnclosing
  <2> SUFFICES ASSUME CaptureInv PROVE CapturesOfEnclosing
    OBVIOUS
  <2>1. WalkInv /\ Shape /\ IsRule(rule) /\ MatchShape /\ Scoped /\ Saved
    BY DEF CaptureInv, WalkInv, Shape
  <2>2. TreeTypeOK
    <3>1. \A k \in DOMAIN stack : stack[k] \in Frames
      BY <2>1 DEF Shape
    <3>2. \A k \in DOMAIN stack :
             /\ stack[k].node \in Node
             /\ {stack[k].prev, stack[k].topr} \subseteq Results
             /\ stack[k].at \in {"eval", "child", "sibling", "end"}
      BY <3>1, FrameFields
    <3> QED
      BY <2>1, <3>2 DEF TreeTypeOK, Shape, MatchShape
  <2>3. Running("eval") /\ Top.node > 0 => re_match = Scope(Top.node)
    BY ScopeInUse DEF Running
  <2>4. re_match # None => re_match \in held
    <3> SUFFICES ASSUME re_match # None PROVE re_match \in held
      OBVIOUS
    <3>1. re_match = InnerMatch(Open)
      BY <2>1 DEF Scoped
    <3>2. Open \in SUBSET (DOMAIN rule)
      BY DEF Open, OpenBelow
    <3>3. re_match \in Open /\ Kind(re_match) = "MATCH"
      BY <2>1, <3>1, <3>2, InnerMatchIs
    <3> QED
      BY <2>1, <3>2, <3>3 DEF Saved
  <2> QED
    BY <2>2, <2>3, <2>4 DEF CapturesOfEnclosing, Scope
<1> QED
  BY <1>1, InitCaptures, NextCaptures, PTL DEF TreeSpec
=============================================================================
