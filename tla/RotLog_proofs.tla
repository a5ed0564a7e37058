---------------------------- MODULE RotLog_proofs ----------------------------
(***************************************************************************)
(* Proofs about the rotlog destination, for any number and length of lines *)
(* and any sequence of writes, short writes, failures and rotations: lines *)
(* are split only by a number given away, the size the code tracks is the  *)
(* size of the file, and every line is in a file, queued or known as lost. *)
(***************************************************************************)
EXTENDS RotLog, SequenceTheorems, WellFoundedInduction, TLAPS

\* A non-empty set of numbers has a least member: what inductions below rest on.
LEMMA LeastNumber ==
    ASSUME NEW T \in SUBSET Nat, T # {}
    PROVE  \E m \in T : \A n \in T : m <= n
<1>1. PICK m \in T : \A n \in T : ~ (<<n, m>> \in OpToRel(<, Nat))
  BY WFMin, NatLessThanWellFounded
<1>2. \A n \in T : ~ (n < m)
  BY <1>1 DEF OpToRel
<1> QED
  BY <1>2

\* Induction: a set that has 0 and, below n, the successors of its members reaches n.
LEMMA Reaches ==
    ASSUME NEW n \in Nat, NEW S, 0 \in S, \A m \in 0 .. n - 1 : m \in S => m + 1 \in S
    PROVE  n \in S
<1> DEFINE T == (0 .. n) \ S
<1> SUFFICES ASSUME n \notin S PROVE FALSE
  OBVIOUS
<1>0. T \in SUBSET Nat /\ T # {}
  OBVIOUS
<1> HIDE DEF T
<1>1. PICK m \in T : \A k \in T : m <= k
  BY <1>0, LeastNumber
<1>2. m \in 0 .. n /\ m \notin S
  BY <1>1 DEF T
<1>3. m # 0
  BY <1>2
<1>4. m - 1 \in 0 .. n /\ m - 1 \in 0 .. n - 1 /\ (m - 1) + 1 = m /\ ~(m <= m - 1)
  BY <1>2, <1>3
<1>5. m - 1 \in S
  BY <1>1, <1>4 DEF T
<1> QED
  BY <1>2, <1>4, <1>5

\* f[k] is the number of bytes in the first k pieces of s.
IsSum(f, s, n) == /\ f \in [0 .. n -> Nat]
                  /\ f[0] = 0
                  /\ \A k \in 1 .. n : f[k] = f[k - 1] + s[k].len

\* Pieces have lengths.
LEMMA PieceLength ==
    ASSUME NEW s \in Seq(Lines), NEW k \in 1 .. Len(s)
    PROVE  s[k].len \in Nat
<1>1. s[k] \in Lines
  BY LenProperties
<1> QED
  BY <1>1 DEF Lines

\* There is such a function for every prefix of a sequence of pieces ...
LEMMA SumExists ==
    ASSUME NEW s \in Seq(Lines)
    PROVE  \E f : IsSum(f, s, Len(s))
<1> DEFINE S == {m \in Nat : \E f : IsSum(f, s, m)}
<1>0. Len(s) \in Nat
  BY LenProperties
<1>1. 0 \in S
  <2>1. IsSum([k \in 0 .. 0 |-> 0], s, 0)
    BY DEF IsSum
  <2> QED
    BY <2>1
<1>2. ASSUME NEW m \in 0 .. Len(s) - 1, m \in S PROVE m + 1 \in S
  <2>1. m \in Nat /\ m + 1 \in 1 .. Len(s)
    BY <1>0
  <2>2. PICK f : IsSum(f, s, m)
    BY <1>2
  <2>3. s[m + 1].len \in Nat /\ f[m] \in Nat
    BY <2>1, <2>2, PieceLength DEF IsSum
  <2> DEFINE g == [k \in 0 .. m + 1 |-> IF k <= m THEN f[k] ELSE f[m] + s[m + 1].len]
  <2>4. /\ \A k \in 0 .. m : g[k] = f[k] /\ f[k] \in Nat
        /\ g[m + 1] = f[m] + s[m + 1].len
        /\ \A k \in 0 .. m + 1 : k \in 0 .. m \/ k = m + 1
    BY <2>1, <2>2 DEF IsSum
  <2>5. g \in [0 .. m + 1 -> Nat]
    <3>1. \A k \in 0 .. m + 1 : (IF k <= m THEN f[k] ELSE f[m] + s[m + 1].len) \in Nat
      BY <2>1, <2>2, <2>3 DEF IsSum
    <3> QED
      BY <3>1
  <2> HIDE DEF g
  <2>6. g[0] = 0
    BY <2>1, <2>2, <2>4 DEF IsSum
  <2>7. ASSUME NEW k \in 1 .. m + 1 PROVE g[k] = g[k - 1] + s[k].len
    <3>1. CASE k \in 1 .. m
      <4>1. k \in 0 .. m /\ k - 1 \in 0 .. m
        BY <2>1, <3>1
      <4> QED
        BY <2>2, <2>4, <3>1, <4>1 DEF IsSum
    <3>2. CASE k = m + 1
      <4>1. k - 1 = m /\ m \in 0 .. m
        BY <2>1, <3>2
      <4> QED
        BY <2>4, <3>2, <4>1
    <3> QED
      BY <2>1, <3>1, <3>2
  <2>8. IsSum(g, s, m + 1)
    BY <2>5, <2>6, <2>7 DEF IsSum
  <2> QED
    BY <2>1, <2>8
<1> HIDE DEF S
<1>3. Len(s) \in S
  BY <1>0, <1>1, <1>2, Reaches
<1> QED
  BY <1>3 DEF S

\* ... and Bytes is its last value.
LEMMA BytesIsSum ==
    ASSUME NEW s \in Seq(Lines)
    PROVE  \E f : IsSum(f, s, Len(s)) /\ Bytes(s) = f[Len(s)]
<1> DEFINE P(g) == g = [k \in 0 .. Len(s) |-> IF k = 0 THEN 0 ELSE g[k - 1] + s[k].len]
           sum == CHOOSE g : P(g)
<1>0. Len(s) \in Nat
  BY LenProperties
<1>1. PICK f : IsSum(f, s, Len(s))
  BY SumExists
<1>2. P(f)
  <2>1. \A k \in 0 .. Len(s) : f[k] = IF k = 0 THEN 0 ELSE f[k - 1] + s[k].len
    BY <1>0, <1>1 DEF IsSum
  <2> QED
    BY <1>1, <2>1 DEF IsSum
<1>3. P(sum)
  BY <1>2
<1>4. Bytes(s) = sum[Len(s)]
  BY DEF Bytes
<1> HIDE DEF sum
<1>5. sum[0] = 0 /\ \A k \in 1 .. Len(s) : sum[k] = sum[k - 1] + s[k].len
  BY <1>0, <1>3
<1>6. sum[Len(s)] = f[Len(s)]
  <2> DEFINE S == {m \in Nat : sum[m] = f[m]}
  <2>1. 0 \in S
    BY <1>1, <1>5 DEF IsSum
  <2>2. ASSUME NEW m \in 0 .. Len(s) - 1, m \in S PROVE m + 1 \in S
    <3>1. m \in Nat /\ m + 1 \in 1 .. Len(s) /\ (m + 1) - 1 = m
      BY <1>0
    <3> QED
      BY <1>1, <1>5, <2>2, <3>1 DEF IsSum
  <2> HIDE DEF S
  <2>3. Len(s) \in S
    BY <1>0, <2>1, <2>2, Reaches
  <2> QED
    BY <2>3 DEF S
<1> QED
  BY <1>1, <1>4, <1>6

\* Two sequences of pieces together have the bytes of both.
LEMMA BytesConcat ==
    ASSUME NEW s \in Seq(Lines), NEW t \in Seq(Lines)
    PROVE  /\ Bytes(s \o t) = Bytes(s) + Bytes(t)
           /\ Bytes(s) \in Nat /\ Bytes(t) \in Nat
<1> DEFINE c == s \o t
<1>1. Len(s) \in Nat /\ Len(t) \in Nat
  BY LenProperties
<1>2. /\ c \in Seq(Lines) /\ Len(c) = Len(s) + Len(t)
      /\ \A k \in 1 .. Len(s) + Len(t) : c[k] = IF k <= Len(s) THEN s[k] ELSE t[k - Len(s)]
  BY ConcatProperties
<1> HIDE DEF c
<1>3. PICK f : IsSum(f, s, Len(s)) /\ Bytes(s) = f[Len(s)]
  BY BytesIsSum
<1>4. PICK g : IsSum(g, t, Len(t)) /\ Bytes(t) = g[Len(t)]
  BY BytesIsSum
<1>5. PICK h : IsSum(h, c, Len(c)) /\ Bytes(c) = h[Len(c)]
  BY <1>2, BytesIsSum
<1>6. h[Len(s)] = f[Len(s)]
  <2> DEFINE S == {m \in Nat : h[m] = f[m]}
  <2>1. 0 \in S
    BY <1>3, <1>5 DEF IsSum
  <2>2. ASSUME NEW m \in 0 .. Len(s) - 1, m \in S PROVE m + 1 \in S
    <3>1. /\ m \in Nat /\ m + 1 \in 1 .. Len(s) /\ (m + 1) - 1 = m
          /\ m + 1 \in 1 .. Len(s) + Len(t)
      BY <1>1
    <3>2. c[m + 1] = s[m + 1]
      BY <1>2, <3>1
    <3>3. h[m + 1] = h[m] + s[m + 1].len
      BY <1>2, <1>5, <3>1, <3>2 DEF IsSum
    <3>4. f[m + 1] = f[m] + s[m + 1].len
      BY <1>3, <3>1 DEF IsSum
    <3> QED
      BY <2>2, <3>1, <3>3, <3>4
  <2> HIDE DEF S
  <2>3. Len(s) \in S
    BY <1>1, <2>1, <2>2, Reaches
  <2> QED
    BY <2>3 DEF S
<1>7. h[Len(s) + Len(t)] = f[Len(s)] + g[Len(t)]
  <2> DEFINE S == {m \in Nat : h[Len(s) + m] = f[Len(s)] + g[m]}
  <2>0. f[Len(s)] \in Nat
    BY <1>1, <1>3 DEF IsSum
  <2>1. 0 \in S
    <3>1. Len(s) + 0 = Len(s) /\ g[0] = 0
      BY <1>1, <1>4 DEF IsSum
    <3> QED
      BY <1>6, <2>0, <3>1
  <2>2. ASSUME NEW m \in 0 .. Len(t) - 1, m \in S PROVE m + 1 \in S
    <3> DEFINE n == Len(s) + (m + 1)
    <3>1. /\ m \in Nat /\ m \in 0 .. Len(t) /\ m + 1 \in 1 .. Len(t) /\ (m + 1) - 1 = m
          /\ n \in 1 .. Len(s) + Len(t) /\ ~(n <= Len(s)) /\ n - Len(s) = m + 1
          /\ n - 1 = Len(s) + m
      BY <1>1
    <3> HIDE DEF n
    <3>2. c[n] = t[m + 1]
      BY <1>2, <3>1
    <3>3. h[n] = h[Len(s) + m] + t[m + 1].len
      BY <1>2, <1>5, <3>1, <3>2 DEF IsSum
    <3>4. g[m + 1] = g[m] + t[m + 1].len
      BY <1>4, <3>1 DEF IsSum
    <3>5. h[Len(s) + m] = f[Len(s)] + g[m]
      BY <2>2
    <3>6. g[m] \in Nat
      BY <1>4, <3>1 DEF IsSum
    <3>7. t[m + 1].len \in Nat
      BY <3>1, PieceLength
    <3>8. \A a, b, d \in Nat : (a + b) + d = a + (b + d)
      OBVIOUS
    <3>9. h[n] = f[Len(s)] + g[m + 1]
      BY <2>0, <3>3, <3>4, <3>5, <3>6, <3>7, <3>8
    <3> QED
      BY <3>1, <3>9 DEF n
  <2> HIDE DEF S
  <2>3. Len(t) \in S
    BY <1>1, <2>1, <2>2, Reaches
  <2> QED
    BY <2>3 DEF S
<1>8. Bytes(s) \in Nat /\ Bytes(t) \in Nat
  BY <1>1, <1>3, <1>4 DEF IsSum
<1> QED
  BY <1>2, <1>3, <1>4, <1>5, <1>6, <1>7, <1>8 DEF c
-----------------------------------------------------------------------------
(* The write queue *)

\* The lines of two sequences are the lines of both.
LEMMA IdsConcat ==
    ASSUME NEW s \in Seq(Lines), NEW t \in Seq(Lines)
    PROVE  Ids(s \o t) = Ids(s) \cup Ids(t)
<1> DEFINE c == s \o t
<1>1. /\ DOMAIN s = 1 .. Len(s) /\ DOMAIN t = 1 .. Len(t)
      /\ Len(s) \in Nat /\ Len(t) \in Nat
  BY LenProperties
<1>2. /\ c \in Seq(Lines) /\ Len(c) = Len(s) + Len(t)
      /\ \A k \in 1 .. Len(s) + Len(t) :
            c[k] = IF k <= Len(s) THEN s[k] ELSE t[k - Len(s)]
  BY ConcatProperties
<1>3. DOMAIN c = 1 .. Len(s) + Len(t)
  BY <1>2, LenProperties
<1> HIDE DEF c
<1>4. Ids(c) \subseteq Ids(s) \cup Ids(t)
  <2> SUFFICES ASSUME NEW k \in 1 .. Len(s) + Len(t)
               PROVE  c[k].id \in Ids(s) \cup Ids(t)
    BY <1>3 DEF Ids
  <2>1. CASE k <= Len(s)
    <3>1. k \in 1 .. Len(s) /\ c[k] = s[k]
      BY <2>1, <1>1, <1>2
    <3> QED
      BY <3>1, <1>1 DEF Ids
  <2>2. CASE k > Len(s)
    <3>1. k - Len(s) \in 1 .. Len(t) /\ c[k] = t[k - Len(s)]
      BY <2>2, <1>1, <1>2
    <3> QED
      BY <3>1, <1>1 DEF Ids
  <2> QED
    BY <2>1, <2>2, <1>1
<1>5. Ids(s) \subseteq Ids(c)
  <2> SUFFICES ASSUME NEW k \in 1 .. Len(s) PROVE s[k].id \in Ids(c)
    BY <1>1 DEF Ids
  <2>1. k \in 1 .. Len(s) + Len(t) /\ c[k] = s[k]
    BY <1>1, <1>2
  <2> QED
    BY <2>1, <1>3 DEF Ids
<1>6. Ids(t) \subseteq Ids(c)
  <2> SUFFICES ASSUME NEW k \in 1 .. Len(t) PROVE t[k].id \in Ids(c)
    BY <1>1 DEF Ids
  <2>1. Len(s) + k \in 1 .. Len(s) + Len(t) /\ c[Len(s) + k] = t[k]
    <3>1. /\ Len(s) + k \in 1 .. Len(s) + Len(t) /\ ~(Len(s) + k <= Len(s))
          /\ (Len(s) + k) - Len(s) = k
      BY <1>1
    <3> QED
      BY <3>1, <1>2
  <2> QED
    BY <2>1, <1>3 DEF Ids
<1> QED
  BY <1>4, <1>5, <1>6 DEF c

\* The identities of lines are numbers.
LEMMA IdsNat ==
    ASSUME NEW s \in Seq(Lines)
    PROVE  Ids(s) \subseteq Nat /\ \A k \in DOMAIN s : s[k].id \in Nat
<1>1. \A k \in DOMAIN s : s[k] \in Lines
  BY LenProperties
<1> QED
  BY <1>1 DEF Ids, Lines

\* What a write sends and what it leaves are lines of the queue: every line of
\* the queue is sent whole, or left, or was the last one at a short write; and a
\* line that is sent whole is freed.
LEMMA WriteShares ==
    ASSUME NEW q \in Seq(Lines), NEW i \in DOMAIN q, NEW n \in 1 .. q[i].len
    PROVE  LET w == Written(q, i, n)
               r == Retained(q, i, n)
           IN /\ w \in Seq(Lines) /\ w # <<>> /\ Ids(w) \subseteq Ids(q)
              /\ r \in Seq(Lines) /\ Len(r) <= Len(q)
              /\ \A k \in DOMAIN r : \E m \in DOMAIN q : r[k] = q[m]
              /\ \A k \in DOMAIN q :
                    \/ \E m \in DOMAIN w : w[m] = q[k]
                    \/ q[k].id \in Ids(r)
                    \/ IsShort(q, i, n) /\ q[k] = q[Len(q)]
              /\ \A m \in DOMAIN w : \E k \in DOMAIN q :
                    w[m].id = q[k].id /\ (w[m] = q[k] => q[k].id \in FreedLines(q, i, n))
<1> DEFINE w == Written(q, i, n)
           r == Retained(q, i, n)
           h == SubSeq(q, 1, i - 1)
           p == [q[i] EXCEPT !.len = n]
           t == <<p>>
<1>1. /\ Len(q) \in Nat /\ DOMAIN q = 1 .. Len(q) /\ i \in 1 .. Len(q)
      /\ \A k \in 1 .. Len(q) : q[k] \in Lines
  BY LenProperties
<1>2. q[i] \in Lines /\ n \in Nat \ {0}
  BY <1>1 DEF Lines
<1>3. h \in Seq(Lines) /\ Len(h) = i - 1 /\ \A k \in 1 .. i - 1 : h[k] = q[k]
  BY <1>1, SubSeqProperties
<1>4. p \in Lines /\ p.id = q[i].id /\ (n = q[i].len => p = q[i])
  BY <1>2 DEF Lines
<1> HIDE DEF p
<1>5. t \in Seq(Lines) /\ Len(t) = 1 /\ t[1] = p
  BY <1>4
<1>6. w = h \o t
  BY DEF Written, p
<1> HIDE DEF h, t, w
<1>7. /\ w \in Seq(Lines) /\ Len(w) = i
      /\ \A k \in 1 .. i : w[k] = IF k <= i - 1 THEN h[k] ELSE t[k - (i - 1)]
  <2>1. /\ w \in Seq(Lines) /\ Len(w) = Len(h) + Len(t)
        /\ \A k \in 1 .. Len(h) + Len(t) : w[k] = IF k <= Len(h) THEN h[k] ELSE t[k - Len(h)]
    BY <1>3, <1>5, <1>6, ConcatProperties
  <2>2. Len(h) + Len(t) = i /\ Len(h) = i - 1
    BY <1>1, <1>3, <1>5
  <2> QED
    BY <2>1, <2>2
<1>8. DOMAIN w = 1 .. i /\ w[i] = p /\ \A k \in 1 .. i - 1 : w[k] = q[k]
  <2>1. i \in 1 .. i /\ ~(i <= i - 1) /\ i - (i - 1) = 1
    BY <1>1
  <2>2. \A k \in 1 .. i - 1 : k \in 1 .. i /\ k <= i - 1
    BY <1>1
  <2> QED
    BY <1>3, <1>5, <1>7, <2>1, <2>2, LenProperties
<1>9. /\ r \in Seq(Lines) /\ Len(r) = Len(q) - i /\ DOMAIN r = 1 .. Len(q) - i
      /\ \A k \in 1 .. Len(q) - i : r[k] = q[i + k - 1]
  <2>1. CASE i <= Len(q) - 1
    <3>1. r \in Seq(Lines) /\ Len(r) = Len(q) - i /\ \A k \in 1 .. Len(q) - i : r[k] = q[i + k - 1]
      BY <1>1, <2>1, SubSeqProperties DEF Retained
    <3> QED
      BY <3>1, LenProperties
  <2>2. CASE i = Len(q)
    BY <1>1, <2>2 DEF Retained
  <2> QED
    BY <1>1, <2>1, <2>2
<1> HIDE DEF r
<1>10. w # <<>>
  BY <1>1, <1>7
<1>11. Ids(w) \subseteq Ids(q)
  <2> SUFFICES ASSUME NEW k \in 1 .. i PROVE w[k].id \in Ids(q)
    BY <1>8 DEF Ids
  <2>1. k \in DOMAIN q /\ w[k].id = q[k].id
    BY <1>1, <1>4, <1>8
  <2> QED
    BY <2>1 DEF Ids
<1>12. Len(r) <= Len(q)
  BY <1>1, <1>9
<1>13. \A k \in DOMAIN r : \E m \in DOMAIN q : r[k] = q[m]
  <2> SUFFICES ASSUME NEW k \in 1 .. Len(q) - i PROVE \E m \in DOMAIN q : r[k] = q[m]
    BY <1>9
  <2>1. i + k - 1 \in DOMAIN q
    BY <1>1
  <2> QED
    BY <1>9, <2>1
<1>14. ASSUME NEW k \in DOMAIN q
       PROVE  \/ \E m \in DOMAIN w : w[m] = q[k]
              \/ q[k].id \in Ids(r)
              \/ IsShort(q, i, n) /\ q[k] = q[Len(q)]
  <2>1. CASE k < i
    <3>1. k \in DOMAIN w /\ k \in 1 .. i - 1
      BY <1>1, <1>8, <2>1
    <3> QED
      BY <1>8, <3>1
  <2>2. CASE k >= i /\ k < Len(q)
    <3>1. (k - i) + 1 \in DOMAIN r /\ (k - i) + 1 \in 1 .. Len(q) - i /\ i + ((k - i) + 1) - 1 = k
      BY <1>1, <1>9, <2>2
    <3>2. r[(k - i) + 1] = q[k]
      BY <1>9, <3>1
    <3> QED
      BY <3>1, <3>2 DEF Ids
  <2>3. CASE k = Len(q) /\ IsShort(q, i, n)
    BY <2>3
  <2>4. CASE k = Len(q) /\ ~IsShort(q, i, n)
    <3>1. k = i /\ n = q[i].len /\ i \in DOMAIN w
      BY <1>1, <1>8, <2>4 DEF IsShort
    <3> QED
      BY <1>4, <1>8, <3>1
  <2> QED
    BY <1>1, <2>1, <2>2, <2>3, <2>4
<1>15. ASSUME NEW m \in DOMAIN w
       PROVE  \E k \in DOMAIN q :
                 w[m].id = q[k].id /\ (w[m] = q[k] => q[k].id \in FreedLines(q, i, n))
  <2>1. m \in 1 .. i /\ m \in DOMAIN q
    BY <1>1, <1>8
  <2>2. ASSUME NEW j \in 0 .. Len(q), m <= j PROVE q[m].id \in Ids(SubSeq(q, 1, j))
    <3>1. /\ SubSeq(q, 1, j) \in Seq(Lines) /\ Len(SubSeq(q, 1, j)) = j
          /\ SubSeq(q, 1, j)[m] = q[m] /\ m \in 1 .. j
      BY <1>1, <2>1, <2>2, SubSeqProperties
    <3>2. m \in DOMAIN SubSeq(q, 1, j)
      BY <3>1, LenProperties
    <3> QED
      BY <3>1, <3>2 DEF Ids
  <2>3. CASE m < i
    <3>1. w[m] = q[m] /\ i \in 0 .. Len(q) /\ i - 1 \in 0 .. Len(q) /\ m <= i /\ m <= i - 1
      BY <1>1, <1>8, <2>1, <2>3
    <3>2. q[m].id \in FreedLines(q, i, n)
      BY <2>2, <3>1 DEF FreedLines
    <3> QED
      BY <2>1, <3>1, <3>2
  <2>4. CASE m = i
    <3>1. w[m] = p /\ i \in 0 .. Len(q) /\ m <= i
      BY <1>1, <1>8, <2>4
    <3>2. p.len = n
      BY <1>2 DEF p, Lines
    <3>3. w[m] = q[m] => q[m].id \in FreedLines(q, i, n)
      BY <2>2, <2>4, <3>1, <3>2 DEF FreedLines
    <3> QED
      BY <1>4, <2>1, <2>4, <3>1, <3>3
  <2> QED
    BY <1>1, <2>1, <2>3, <2>4
<1> QED
  BY <1>7, <1>9, <1>10, <1>11, <1>12, <1>13, <1>14, <1>15 DEF w, r

-----------------------------------------------------------------------------
(* The inductive invariant *)

Whole(f, ln) == \E k \in DOMAIN f : f[k] = ln

\* The archives share no line, and their lines are older than the c-th, or the
\* one that was in the file when it was first opened.
Archived(c) ==
    /\ archive \in [0 .. MaxNow -> Seq(Lines)]
    /\ \A t, u \in 0 .. MaxNow : t # u => Ids(archive[t]) \cap Ids(archive[u]) = {}
    /\ \A t \in 0 .. MaxNow : \A x \in Ids(archive[t]) : x < c \/ x = MaxWrites

\* A line that can still be written, or that strayed, is whole in no file of the
\* rotlog, and while the number stands for its file no line in the queue has strayed.
Apart(f, q, acc, c, str) ==
    /\ \A x \in Ids(str) : x < c
    /\ fd = "open" => Ids(q) \cap Ids(str) = {}
    /\ \A a \in DOMAIN acc : acc[a].id \in Ids(q) \cup Ids(str) =>
          ~Whole(f, acc[a]) /\ \A t \in 0 .. MaxNow : ~Whole(archive[t], acc[a])

\* With pieces f in the file, q in the queue, a believed size s, e failed writes and
\* lines g discarded, after c lines of which acc were accepted and str strayed: lines
\* of the file, and of a queue that can still be written, are in no archive; a
\* queued line is as it was accepted; and the size and every line are accounted for.
Settled(f, q, s, e, g, acc, c, str) ==
    /\ f \in Seq(Lines) /\ q \in Seq(Lines) /\ Len(q) <= HighWM
    /\ s \in Int /\ e \in Nat /\ g \subseteq Nat
    /\ \A x \in Ids(f) : x < c \/ x = MaxWrites
    /\ \A x \in Ids(q) : x < c
    /\ \A t \in 0 .. MaxNow : Ids(archive[t]) \cap Ids(f) = {}
    /\ state = "ACTIVE" => \A t \in 0 .. MaxNow : Ids(archive[t]) \cap Ids(q) = {}
    /\ \A k \in DOMAIN q : \A a \in DOMAIN acc : q[k].id = acc[a].id => q[k] = acc[a]
    /\ state = "ACTIVE" /\ str = <<>> => s = Bytes(f) - e
    /\ \A a \in DOMAIN acc :
          \/ Whole(f, acc[a])
          \/ \E t \in 0 .. MaxNow : Whole(archive[t], acc[a])
          \/ acc[a].id \in Ids(q) \cup Ids(str) \cup g
    /\ Apart(f, q, acc, c, str)

\* What the rules wrote.
History == /\ count \in 0 .. MaxWrites
           /\ accepted \in Seq(Lines) /\ strayed \in Seq(Lines)
           /\ \A x \in Ids(accepted) : x < count

\* A descriptor that is in use and has no open file has lost it to a failed rename.
LostByRename == /\ state = "ACTIVE" /\ fd # "open" => failed
                /\ strayed # <<>> => failed

Basics == /\ state \in {"ACTIVE", "DEAD"}
          /\ fd \in {"open", "closed", "other"}
          /\ now \in 0 .. MaxNow
          /\ failed \in BOOLEAN

IInv == /\ Basics /\ History /\ LostByRename
        /\ Archived(count)
        /\ Settled(file, line, size, errors, gone, accepted, count, strayed)

\* It says what the runs check.
LEMMA IInvSuffices == IInv => TypeOK /\ SplitOnlyIfStrayed /\ SizeTracksFile /\ LinesAccounted
<1> SUFFICES ASSUME IInv PROVE TypeOK /\ SplitOnlyIfStrayed /\ SizeTracksFile /\ LinesAccounted
  OBVIOUS
<1>0. DOMAIN archive = 0 .. MaxNow
  BY DEF IInv, Archived
<1>1. TypeOK
  BY DEF IInv, Basics, History, Archived, Settled, TypeOK
<1>2. SplitOnlyIfStrayed
  <2>1. ASSUME NEW a \in DOMAIN accepted, accepted[a].id \in Ids(strayed)
        PROVE  failed /\ \A f \in Files : \A k \in DOMAIN f : f[k] # accepted[a]
    <3>1. failed
      <4>1. strayed # <<>>
        BY <2>1 DEF Ids
      <4> QED
        BY <4>1 DEF IInv, LostByRename
    <3>2. ~Whole(file, accepted[a]) /\ \A t \in 0 .. MaxNow : ~Whole(archive[t], accepted[a])
      BY <2>1 DEF IInv, Settled, Apart
    <3> QED
      BY <1>0, <3>1, <3>2 DEF Whole, Files
  <2> QED
    BY <1>0, <2>1 DEF IInv, Archived, Settled, SplitOnlyIfStrayed
<1>3. SizeTracksFile
  BY <1>1 DEF IInv, Settled, SizeTracksFile
<1>4. LinesAccounted
  <2>1. ASSUME NEW a \in DOMAIN accepted
        PROVE  \/ \E f \in Files : \E k \in DOMAIN f : f[k] = accepted[a]
               \/ accepted[a].id \in Ids(line) \cup Ids(strayed) \cup gone
    <3>1. CASE Whole(file, accepted[a])
      BY <3>1 DEF Whole, Files
    <3>2. CASE \E t \in 0 .. MaxNow : Whole(archive[t], accepted[a])
      <4>1. PICK t \in 0 .. MaxNow : Whole(archive[t], accepted[a])
        BY <3>2
      <4>2. archive[t] \in Files
        BY <1>0 DEF Files
      <4> QED
        BY <4>1, <4>2 DEF Whole
    <3> QED
      BY <3>1, <3>2 DEF IInv, Settled
  <2> QED
    BY <2>1 DEF IInv, LostByRename, LinesAccounted
<1> QED
  BY <1>1, <1>2, <1>3, <1>4

\* An empty sequence holds no line and no byte.
LEMMA NoPieces == /\ Ids(<<>>) = {} /\ <<>> \in Seq(Lines) /\ Len(<<>>) = 0
                  /\ DOMAIN <<>> = {}
                  /\ Bytes(<<>>) = 0
<1>1. <<>> \in Seq(Lines) /\ Len(<<>>) = 0 /\ DOMAIN <<>> = {}
  OBVIOUS
<1>2. Ids(<<>>) = {}
  BY <1>1 DEF Ids
<1>3. PICK f : IsSum(f, <<>>, Len(<<>>)) /\ Bytes(<<>>) = f[Len(<<>>)]
  BY <1>1, BytesIsSum
<1>4. Bytes(<<>>) = 0
  BY <1>1, <1>3 DEF IsSum
<1> QED
  BY <1>1, <1>2, <1>4

\* Before the first line there is one empty file and nothing to account for.
LEMMA InitIInv == Init => IInv
<1> SUFFICES ASSUME Init PROVE IInv
  OBVIOUS
<1> USE DEF Init
<1>0. MaxWrites \in Nat /\ MaxNow \in Nat /\ RotSize \in Nat /\ HighWM \in Nat
  BY RotLogAssumption, HighWMAssumption
<1>1. /\ file \in Seq(Lines) /\ Bytes(file) \in Nat
      /\ \A x \in Ids(file) : x = MaxWrites
  <2>1. CASE file = <<>>
    BY <2>1, NoPieces
  <2>2. CASE file # <<>>
    <3>1. PICK l \in 1 .. RotSize + 1 : file = <<[id |-> MaxWrites, len |-> l]>>
      BY <2>2 DEF OldFiles
    <3>2. l \in Nat \ {0} /\ [id |-> MaxWrites, len |-> l] \in Lines
      BY <1>0 DEF Lines
    <3>3. file \in Seq(Lines) /\ DOMAIN file = {1} /\ file[1].id = MaxWrites
      BY <3>1, <3>2
    <3>4. Bytes(file) \in Nat
      BY <3>3, BytesConcat
    <3> QED
      BY <3>3, <3>4 DEF Ids
  <2> QED
    BY <2>1, <2>2
<1>2. Basics /\ LostByRename
  <2>1. now \in 0 .. MaxNow
    BY <1>0
  <2>2. state \in {"ACTIVE", "DEAD"} /\ fd \in {"open", "closed", "other"}
    OBVIOUS
  <2>3. failed \in BOOLEAN
    OBVIOUS
  <2> QED
    BY <2>1, <2>2, <2>3 DEF Basics, LostByRename
<1>3. History
  BY <1>0, NoPieces DEF History
<1>4. \A t \in 0 .. MaxNow : archive[t] = <<>>
  OBVIOUS
<1>5. Archived(count)
  <2>1. archive \in [0 .. MaxNow -> Seq(Lines)]
    BY NoPieces
  <2> QED
    BY <1>4, <2>1, NoPieces DEF Archived
<1>6. Settled(file, line, size, errors, gone, accepted, count, strayed)
  <2>1. line = <<>> /\ accepted = <<>> /\ strayed = <<>> /\ size = Bytes(file) /\ errors = 0
        /\ gone = {} /\ count = 0
    OBVIOUS
  <2>2. size = Bytes(file) - errors /\ size \in Int /\ Len(line) <= HighWM
    BY <1>0, <1>1, <2>1, NoPieces
  <2> QED
    BY <1>1, <1>4, <2>1, <2>2, NoPieces DEF Settled, Apart
<1> QED
  BY <1>2, <1>3, <1>5, <1>6 DEF IInv

-----------------------------------------------------------------------------
(* Rotation *)

\* rotlog_rotate on a file and a queue that are in order leaves all in order,
\* whichever of its steps fails.
LEMMA RotateKeeps ==
    ASSUME Basics, now' = now, History', Archived(count'),
           state = "ACTIVE" /\ fd # "open" => failed, strayed' # <<>> => failed,
           NEW f, NEW q, NEW s, NEW e, NEW g,
           Settled(f, q, s, e, g, accepted', count', strayed'),
           Rotate(f, q, s, e, g)
    PROVE  IInv'
<1>1. CASE /\ fd' = "closed" /\ file' = f /\ size' = s /\ line' = q
           /\ errors' = e /\ gone' = g /\ failed' = TRUE
           /\ UNCHANGED <<state, archive>>
  <2>1. Basics' /\ LostByRename'
    BY <1>1 DEF Basics, LostByRename
  <2>2. Archived(count)'
    BY <1>1 DEF Archived
  <2>3. Settled(file, line, size, errors, gone, accepted, count, strayed)'
    BY <1>1 DEF Settled, Apart
  <2> QED
    BY <2>1, <2>2, <2>3 DEF IInv
<1>2. CASE /\ state = "ACTIVE" /\ archive' = RenameTo(f) /\ file' = <<>> /\ failed' = failed
           /\ \/ /\ fd' = "open"
                 /\ line' = QueueOnOpen(q) /\ size' = 0 /\ errors' = 0
                 /\ gone' = g \cup Ids(q) \cup Ids(archive[now])
                 /\ state' = state
              \/ /\ fd' = "closed" /\ state' = "DEAD"
                 /\ line' = q /\ size' = s /\ errors' = e
                 /\ gone' = g \cup Ids(archive[now])
  <2>1. now \in 0 .. MaxNow /\ f \in Seq(Lines) /\ q \in Seq(Lines)
        /\ archive \in [0 .. MaxNow -> Seq(Lines)]
    BY DEF Basics, Settled, Archived
  <2>2. /\ archive' \in [0 .. MaxNow -> Seq(Lines)]
        /\ archive'[now] = f
        /\ \A t \in 0 .. MaxNow : t # now => archive'[t] = archive[t]
    BY <1>2, <2>1 DEF RenameTo
  <2>3. Ids(archive[now]) \subseteq Nat /\ Ids(q) \subseteq Nat
    BY <2>1, IdsNat
  <2>4. Basics'
    BY <1>2 DEF Basics
  <2>5. LostByRename'
    BY <1>2 DEF LostByRename
  <2>6. Archived(count)'
    <3>1. \A t, u \in 0 .. MaxNow : t # u => Ids(archive'[t]) \cap Ids(archive'[u]) = {}
      BY <2>2 DEF Archived, Settled
    <3>2. \A t \in 0 .. MaxNow : \A x \in Ids(archive'[t]) : x < count' \/ x = MaxWrites
      BY <2>2 DEF Archived, Settled
    <3> QED
      BY <2>2, <3>1, <3>2 DEF Archived
  <2>7. ASSUME NEW a \in DOMAIN accepted'
        PROVE  \/ \E t \in 0 .. MaxNow : Whole(archive'[t], accepted'[a])
               \/ accepted'[a].id \in Ids(q) \cup Ids(strayed') \cup g \cup Ids(archive[now])
    <3>1. CASE Whole(f, accepted'[a])
      BY <2>1, <2>2, <3>1
    <3>2. CASE \E t \in 0 .. MaxNow : Whole(archive[t], accepted'[a])
      <4>1. PICK t \in 0 .. MaxNow : Whole(archive[t], accepted'[a])
        BY <3>2
      <4>2. CASE t = now
        BY <4>1, <4>2 DEF Whole, Ids
      <4>3. CASE t # now
        BY <2>2, <4>1, <4>3
      <4> QED
        BY <4>2, <4>3
    <3> QED
      BY <3>1, <3>2 DEF Settled
  <2>10. ASSUME NEW a \in DOMAIN accepted', accepted'[a].id \in Ids(q) \cup Ids(strayed')
         PROVE  ~Whole(file', accepted'[a])
                /\ \A t \in 0 .. MaxNow : ~Whole(archive'[t], accepted'[a])
    <3>1. ~Whole(f, accepted'[a]) /\ \A t \in 0 .. MaxNow : ~Whole(archive[t], accepted'[a])
      BY <2>10 DEF Settled, Apart
    <3>2. ~Whole(file', accepted'[a])
      BY <1>2, NoPieces DEF Whole
    <3> QED
      BY <2>2, <3>1, <3>2
  <2>8. CASE /\ fd' = "open" /\ line' = <<>> /\ size' = 0 /\ errors' = 0
             /\ gone' = g \cup Ids(q) \cup Ids(archive[now])
    <3>1. Settled(file, line, size, errors, gone, accepted, count, strayed)'
      <4>1. /\ file' \in Seq(Lines) /\ line' \in Seq(Lines) /\ Len(line') <= HighWM
            /\ size' \in Int /\ errors' \in Nat
        BY <1>2, <2>8, NoPieces, HighWMAssumption
      <4>2. gone' \subseteq Nat
        BY <2>3, <2>8 DEF Settled
      <4>3. Ids(file') = {} /\ Ids(line') = {} /\ DOMAIN line' = {}
        BY <1>2, <2>8, NoPieces
      <4>4. size' = Bytes(file') - errors'
        BY <1>2, <2>8, NoPieces
      <4>5. \A a \in DOMAIN accepted' :
               \/ \E t \in 0 .. MaxNow : Whole(archive'[t], accepted'[a])
               \/ accepted'[a].id \in Ids(line') \cup Ids(strayed') \cup gone'
        BY <2>7, <2>8
      <4>6. Apart(file, line, accepted, count, strayed)'
        <5>1. \A x \in Ids(strayed') : x < count'
          BY DEF Settled, Apart
        <5> QED
          BY <2>10, <4>3, <5>1 DEF Apart
      <4> QED
        BY <4>1, <4>2, <4>3, <4>4, <4>5, <4>6 DEF Settled
    <3> QED
      BY <2>4, <2>5, <2>6, <3>1 DEF IInv
  <2>9. CASE /\ fd' = "closed" /\ state' = "DEAD" /\ line' = q /\ size' = s /\ errors' = e
             /\ gone' = g \cup Ids(archive[now])
    <3>1. Settled(file, line, size, errors, gone, accepted, count, strayed)'
      <4>1. /\ file' \in Seq(Lines) /\ line' \in Seq(Lines) /\ Len(line') <= HighWM
            /\ size' \in Int /\ errors' \in Nat
        BY <1>2, <2>9, NoPieces DEF Settled
      <4>2. gone' \subseteq Nat
        BY <2>3, <2>9 DEF Settled
      <4>3. Ids(file') = {}
        BY <1>2, NoPieces
      <4>4. \A a \in DOMAIN accepted' :
               \/ \E t \in 0 .. MaxNow : Whole(archive'[t], accepted'[a])
               \/ accepted'[a].id \in Ids(line') \cup Ids(strayed') \cup gone'
        BY <2>7, <2>9
      <4>5. /\ \A x \in Ids(line') : x < count'
            /\ \A k \in DOMAIN line' : \A a \in DOMAIN accepted' :
                  line'[k].id = accepted'[a].id => line'[k] = accepted'[a]
        BY <2>9 DEF Settled
      <4>6. Apart(file, line, accepted, count, strayed)'
        <5>1. \A x \in Ids(strayed') : x < count'
          BY DEF Settled, Apart
        <5> QED
          BY <2>9, <2>10, <5>1 DEF Apart
      <4> QED
        BY <2>9, <4>1, <4>2, <4>3, <4>4, <4>5, <4>6 DEF Settled
    <3> QED
      BY <2>4, <2>5, <2>6, <3>1 DEF IInv
  <2> QED
    BY <1>2, <2>8, <2>9 DEF QueueOnOpen
<1> QED
  BY <1>1, <1>2 DEF Rotate

\* rotlog_post_line_write, whether it rotates or not.
LEMMA AfterWriteKeeps ==
    ASSUME Basics, now' = now, History', Archived(count'),
           state = "ACTIVE" /\ fd # "open" => failed, strayed' # <<>> => failed,
           NEW f, NEW q, NEW s, NEW e, NEW g,
           Settled(f, q, s, e, g, accepted', count', strayed'),
           AfterWrite(f, q, s, e, g)
    PROVE  IInv'
<1>1. CASE MustRotate(s)
  <2>1. Rotate(f, q, s, e, g)
    BY <1>1 DEF AfterWrite
  <2> QED
    BY <2>1, RotateKeeps
<1>2. CASE ~MustRotate(s)
  <2>1. /\ file' = f /\ line' = q /\ size' = s /\ errors' = e /\ gone' = g
        /\ state' = state /\ fd' = fd /\ archive' = archive /\ failed' = failed
    BY <1>2 DEF AfterWrite
  <2>2. Basics' /\ LostByRename'
    BY <2>1 DEF Basics, LostByRename
  <2>3. Archived(count)'
    BY <2>1 DEF Archived
  <2>4. Settled(file, line, size, errors, gone, accepted, count, strayed)'
    BY <2>1 DEF Settled, Apart
  <2> QED
    BY <2>2, <2>3, <2>4 DEF IInv
<1> QED
  BY <1>1, <1>2

-----------------------------------------------------------------------------
(* Writes *)

\* A line of two sequences is a line of one of them.
LEMMA WholeConcat ==
    ASSUME NEW s \in Seq(Lines), NEW t \in Seq(Lines), NEW ln
    PROVE  Whole(s \o t, ln) <=> Whole(s, ln) \/ Whole(t, ln)
<1> DEFINE c == s \o t
<1>1. /\ DOMAIN s = 1 .. Len(s) /\ DOMAIN t = 1 .. Len(t)
      /\ Len(s) \in Nat /\ Len(t) \in Nat
  BY LenProperties
<1>2. /\ c \in Seq(Lines) /\ Len(c) = Len(s) + Len(t)
      /\ \A k \in 1 .. Len(s) + Len(t) :
            c[k] = IF k <= Len(s) THEN s[k] ELSE t[k - Len(s)]
  BY ConcatProperties
<1>3. DOMAIN c = 1 .. Len(s) + Len(t)
  BY <1>2, LenProperties
<1> HIDE DEF c
<1>4. CASE Whole(s, ln)
  <2>1. PICK k \in 1 .. Len(s) : s[k] = ln
    BY <1>1, <1>4 DEF Whole
  <2>2. k \in 1 .. Len(s) + Len(t) /\ c[k] = s[k]
    BY <1>1, <1>2
  <2> QED
    BY <1>3, <2>1, <2>2 DEF Whole, c
<1>5. CASE Whole(t, ln)
  <2>1. PICK k \in 1 .. Len(t) : t[k] = ln
    BY <1>1, <1>5 DEF Whole
  <2>2. /\ Len(s) + k \in 1 .. Len(s) + Len(t) /\ ~(Len(s) + k <= Len(s))
        /\ (Len(s) + k) - Len(s) = k
    BY <1>1
  <2>3. c[Len(s) + k] = t[k]
    BY <1>2, <2>2
  <2> QED
    BY <1>3, <2>1, <2>2, <2>3 DEF Whole, c
<1>6. ASSUME Whole(c, ln) PROVE Whole(s, ln) \/ Whole(t, ln)
  <2>1. PICK k \in 1 .. Len(s) + Len(t) : c[k] = ln
    BY <1>3, <1>6 DEF Whole
  <2>2. CASE k <= Len(s)
    <3>1. k \in 1 .. Len(s) /\ s[k] = ln
      BY <1>1, <1>2, <2>1, <2>2
    <3> QED
      BY <1>1, <3>1 DEF Whole
  <2>3. CASE ~(k <= Len(s))
    <3>1. k - Len(s) \in 1 .. Len(t) /\ t[k - Len(s)] = ln
      BY <1>1, <1>2, <2>1, <2>3
    <3> QED
      BY <1>1, <3>1 DEF Whole
  <2> QED
    BY <2>2, <2>3
<1> QED
  BY <1>4, <1>5, <1>6 DEF c

\* wq_write and rotlog_post_line_write on a queue in order: what was written is in
\* the file, or went to the file of another descriptor.
LEMMA WriteOutKeeps ==
    ASSUME Basics, now' = now, state = "ACTIVE", fd # "open" => failed,
           strayed \in Seq(Lines), strayed # <<>> => failed,
           count' \in 0 .. MaxWrites, accepted' \in Seq(Lines),
           \A x \in Ids(accepted') : x < count',
           Archived(count'),
           NEW q, Settled(file, q, size, errors, gone, accepted', count', strayed),
           WriteOut(q)
    PROVE  IInv'
<1>1. PICK i \in DOMAIN q : \E n \in 1 .. q[i].len :
        LET w == Written(q, i, n)
            g == IF IsShort(q, i, n) THEN {q[Len(q)].id} ELSE {}
        IN /\ fd \in {"open", "other"}
           /\ ~KeepsFreed(q, i, n)
           /\ strayed' = IF fd = "other" THEN strayed \o w ELSE strayed
           /\ AfterWrite(IF fd = "open" THEN file \o w ELSE file, Retained(q, i, n),
                         Counted(size, w), errors, gone \cup g)
  BY DEF WriteOut
<1>2. PICK n \in 1 .. q[i].len :
        LET w == Written(q, i, n)
            g == IF IsShort(q, i, n) THEN {q[Len(q)].id} ELSE {}
        IN /\ fd \in {"open", "other"}
           /\ ~KeepsFreed(q, i, n)
           /\ strayed' = IF fd = "other" THEN strayed \o w ELSE strayed
           /\ AfterWrite(IF fd = "open" THEN file \o w ELSE file, Retained(q, i, n),
                         Counted(size, w), errors, gone \cup g)
  BY <1>1
<1> DEFINE w == Written(q, i, n)
           r == Retained(q, i, n)
           g == IF IsShort(q, i, n) THEN {q[Len(q)].id} ELSE {}
           f == IF fd = "open" THEN file \o w ELSE file
           s == Counted(size, w)
<1>3. /\ fd \in {"open", "other"}
      /\ ~KeepsFreed(q, i, n)
      /\ strayed' = IF fd = "other" THEN strayed \o w ELSE strayed
      /\ AfterWrite(f, r, s, errors, gone \cup g)
  BY <1>2
<1>4. /\ q \in Seq(Lines) /\ file \in Seq(Lines) /\ Len(q) <= HighWM /\ size \in Int
      /\ errors \in Nat /\ gone \subseteq Nat /\ Len(q) \in Nat
      /\ \A t \in 0 .. MaxNow : Ids(archive[t]) \cap (Ids(file) \cup Ids(q)) = {}
      /\ \A x \in Ids(q) : x < count'
  BY LenProperties DEF Settled
<1>5. /\ w \in Seq(Lines) /\ w # <<>> /\ Ids(w) \subseteq Ids(q)
      /\ r \in Seq(Lines) /\ Len(r) <= Len(q)
      /\ \A k \in DOMAIN r : \E m \in DOMAIN q : r[k] = q[m]
      /\ \A k \in DOMAIN q : \/ \E m \in DOMAIN w : w[m] = q[k]
                             \/ q[k].id \in Ids(r)
                             \/ IsShort(q, i, n) /\ q[k] = q[Len(q)]
      /\ \A m \in DOMAIN w : \E k \in DOMAIN q :
            w[m].id = q[k].id /\ (w[m] = q[k] => q[k].id \in FreedLines(q, i, n))
  BY <1>4, WriteShares
<1>17. FreedLines(q, i, n) \cap Ids(r) = {}
  BY <1>3 DEF KeepsFreed
<1>6. g \subseteq Nat
  <2>1. Len(q) \in DOMAIN q
    BY <1>4, LenProperties
  <2> QED
    BY <1>4, <2>1, IdsNat
<1>7. \A k \in DOMAIN q : Whole(w, q[k]) \/ q[k].id \in Ids(r) \cup g
  BY <1>5 DEF Whole
<1> HIDE DEF w, r, g
<1>8. /\ Len(r) \in Nat /\ Len(r) <= HighWM
      /\ Ids(r) \subseteq Ids(q)
  <2>1. Len(r) \in Nat /\ Len(r) <= HighWM
    BY <1>4, <1>5, LenProperties, HighWMAssumption
  <2> QED
    BY <1>5, <2>1 DEF Ids
<1>9. f \in Seq(Lines) /\ Ids(f) \subseteq Ids(file) \cup Ids(q)
  BY <1>4, <1>5, ConcatProperties, IdsConcat
<1>10. s \in Int /\ (fd = "open" /\ strayed = <<>> => s = Bytes(f) - errors)
  <2>1. /\ Bytes(file \o w) = Bytes(file) + Bytes(w)
        /\ Bytes(file) \in Nat /\ Bytes(w) \in Nat
    BY <1>4, <1>5, BytesConcat
  <2>2. strayed = <<>> => size = Bytes(file) - errors
    BY DEF Settled
  <2>3. \A a, b \in Nat : \A c \in Nat : (a - c) + b = (a + b) - c
    OBVIOUS
  <2>4. s = size + Bytes(w)
    BY DEF Counted
  <2>5. s \in Int
    BY <1>4, <2>1, <2>4
  <2>6. ASSUME fd = "open", strayed = <<>> PROVE s = Bytes(f) - errors
    <3>1. s = (Bytes(file) - errors) + Bytes(w)
      BY <2>2, <2>4, <2>6
    <3>2. (Bytes(file) - errors) + Bytes(w) = (Bytes(file) + Bytes(w)) - errors
      BY <1>4, <2>1, <2>3
    <3> QED
      BY <2>1, <2>6, <3>1, <3>2
  <2> QED
    BY <2>5, <2>6
<1>11. /\ strayed' \in Seq(Lines) /\ Ids(strayed) \subseteq Ids(strayed')
       /\ fd = "other" => Ids(w) \subseteq Ids(strayed') /\ strayed' # <<>>
       /\ fd = "open" => strayed' = strayed
  <2>1. CASE fd = "other"
    <3>1. strayed' = strayed \o w
      BY <1>3, <2>1
    <3>2. strayed' \in Seq(Lines) /\ Ids(strayed') = Ids(strayed) \cup Ids(w)
      BY <1>5, <3>1, ConcatProperties, IdsConcat
    <3>3. strayed' # <<>>
      BY <1>5, <3>1, ConcatProperties
    <3> QED
      BY <2>1, <3>2, <3>3
  <2>2. CASE fd = "open"
    BY <1>3, <2>2
  <2> QED
    BY <1>3, <2>1, <2>2
<1>12. strayed' # <<>> => failed
  BY <1>3, <1>11
<1>13. ASSUME NEW a \in DOMAIN accepted'
       PROVE  \/ Whole(f, accepted'[a])
              \/ \E t \in 0 .. MaxNow : Whole(archive[t], accepted'[a])
              \/ accepted'[a].id \in Ids(r) \cup Ids(strayed') \cup (gone \cup g)
  <2>1. \/ Whole(file, accepted'[a])
        \/ \E t \in 0 .. MaxNow : Whole(archive[t], accepted'[a])
        \/ accepted'[a].id \in Ids(q) \cup Ids(strayed) \cup gone
    BY DEF Settled
  <2>2. CASE Whole(file, accepted'[a])
    BY <1>4, <1>5, <2>2, WholeConcat
  <2>3. CASE accepted'[a].id \in Ids(q)
    <3>1. PICK k \in DOMAIN q : q[k].id = accepted'[a].id
      BY <2>3 DEF Ids
    <3>2. q[k] = accepted'[a]
      BY <3>1 DEF Settled
    <3>3. CASE Whole(w, q[k])
      <4>1. CASE fd = "open"
        BY <1>4, <1>5, <3>2, <3>3, <4>1, WholeConcat
      <4>2. CASE fd = "other"
        <5>1. q[k].id \in Ids(w)
          BY <3>3 DEF Whole, Ids
        <5> QED
          BY <1>11, <3>2, <4>2, <5>1
      <4> QED
        BY <1>3, <4>1, <4>2
    <3>4. CASE q[k].id \in Ids(r) \cup g
      BY <3>2, <3>4
    <3> QED
      BY <1>7, <3>3, <3>4
  <2> QED
    BY <1>11, <2>1, <2>2, <2>3
<1>14. \A k \in DOMAIN r : \A a \in DOMAIN accepted' :
          r[k].id = accepted'[a].id => r[k] = accepted'[a]
  BY <1>5 DEF Settled
<1>18. Apart(f, r, accepted', count', strayed')
  <2>1. /\ \A x \in Ids(strayed) : x < count'
        /\ fd = "open" => Ids(q) \cap Ids(strayed) = {}
        /\ \A a \in DOMAIN accepted' : accepted'[a].id \in Ids(q) \cup Ids(strayed) =>
              ~Whole(file, accepted'[a])
              /\ \A t \in 0 .. MaxNow : ~Whole(archive[t], accepted'[a])
    BY DEF Settled, Apart
  <2>2. Ids(strayed') \subseteq Ids(strayed) \cup Ids(w)
    <3>1. CASE fd = "other"
      BY <1>3, <1>5, <3>1, IdsConcat
    <3>2. CASE fd = "open"
      BY <1>3, <3>2
    <3> QED
      BY <1>3, <3>1, <3>2
  <2>3. \A x \in Ids(strayed') : x < count'
    BY <1>4, <1>5, <2>1, <2>2
  <2>4. fd = "open" => Ids(r) \cap Ids(strayed') = {}
    BY <1>8, <1>11, <2>1
  <2>5. ASSUME NEW a \in DOMAIN accepted', accepted'[a].id \in Ids(r) \cup Ids(strayed')
        PROVE  ~Whole(f, accepted'[a]) /\ \A t \in 0 .. MaxNow : ~Whole(archive[t], accepted'[a])
    <3>1. accepted'[a].id \in Ids(q) \cup Ids(strayed)
      BY <1>5, <1>8, <2>2, <2>5
    <3>2. ~Whole(file, accepted'[a]) /\ \A t \in 0 .. MaxNow : ~Whole(archive[t], accepted'[a])
      BY <2>1, <3>1
    <3>3. CASE fd = "open"
      <4>1. ~Whole(w, accepted'[a])
        <5> SUFFICES ASSUME Whole(w, accepted'[a]) PROVE FALSE
          OBVIOUS
        <5>1. PICK m \in DOMAIN w : w[m] = accepted'[a]
          BY DEF Whole
        <5>2. PICK k \in DOMAIN q : /\ w[m].id = q[k].id
                                    /\ w[m] = q[k] => q[k].id \in FreedLines(q, i, n)
          BY <1>5
        <5>3. q[k] = accepted'[a]
          BY <5>1, <5>2 DEF Settled
        <5>4. q[k].id \in FreedLines(q, i, n) /\ q[k].id \in Ids(q)
          BY <5>1, <5>2, <5>3 DEF Ids
        <5>5. q[k].id \in Ids(r)
          BY <1>11, <2>1, <2>5, <3>3, <5>3, <5>4
        <5> QED
          BY <1>17, <5>4, <5>5
      <4> QED
        BY <1>4, <1>5, <3>2, <3>3, <4>1, WholeConcat
    <3>4. CASE fd = "other"
      BY <3>2, <3>4
    <3> QED
      BY <1>3, <3>3, <3>4
  <2> HIDE DEF f
  <2> QED
    BY <2>3, <2>4, <2>5 DEF Apart
<1>15. Settled(f, r, s, errors, gone \cup g, accepted', count', strayed')
  <2>1. \A x \in Ids(f) : x < count' \/ x = MaxWrites
    BY <1>4, <1>9 DEF Settled
  <2>2. \A t \in 0 .. MaxNow : Ids(archive[t]) \cap Ids(f) = {} /\ Ids(archive[t]) \cap Ids(r) = {}
    BY <1>4, <1>8, <1>9
  <2>3. strayed' = <<>> => s = Bytes(f) - errors
    BY <1>3, <1>10, <1>11
  <2>4. gone \cup g \subseteq Nat
    BY <1>4, <1>6
  <2>5. \A x \in Ids(r) : x < count'
    BY <1>4, <1>8
  <2> HIDE DEF f, s
  <2> QED
    BY <1>4, <1>5, <1>8, <1>9, <1>10, <1>13, <1>14, <1>18, <2>1, <2>2, <2>3, <2>4, <2>5
       DEF Settled
<1>16. History'
  BY <1>11 DEF History
<1> HIDE DEF f, s
<1> QED
  BY <1>3, <1>12, <1>15, <1>16, AfterWriteKeeps

\* A write that fails leaves the queue as it is.
LEMMA WriteFailsKeeps ==
    ASSUME Basics, now' = now, state = "ACTIVE", fd # "open" => failed,
           strayed \in Seq(Lines), strayed # <<>> => failed,
           count' \in 0 .. MaxWrites, accepted' \in Seq(Lines),
           \A x \in Ids(accepted') : x < count',
           Archived(count'),
           NEW q, Settled(file, q, size, errors, gone, accepted', count', strayed),
           WriteFails(q)
    PROVE  IInv'
<1>1. strayed' = strayed /\ AfterWrite(file, q, size - 1, errors + 1, gone)
  BY DEF WriteFails
<1>2. /\ size - 1 \in Int /\ errors + 1 \in Nat
      /\ strayed = <<>> => size - 1 = Bytes(file) - (errors + 1)
  <2>1. size \in Int /\ errors \in Nat /\ file \in Seq(Lines)
        /\ (strayed = <<>> => size = Bytes(file) - errors)
    BY DEF Settled
  <2>2. Bytes(file) \in Nat
    BY <2>1, BytesConcat
  <2>3. \A a, b \in Nat : (a - b) - 1 = a - (b + 1)
    OBVIOUS
  <2> QED
    BY <2>1, <2>2, <2>3
<1>3. Settled(file, q, size - 1, errors + 1, gone, accepted', count', strayed')
  BY <1>1, <1>2 DEF Settled
<1>4. History'
  BY <1>1 DEF History
<1> QED
  BY <1>1, <1>3, <1>4, AfterWriteKeeps

\* Appending a line adds it and its identity, and leaves the others where they were.
LEMMA AppendLine ==
    ASSUME NEW s \in Seq(Lines), NEW ln \in Lines
    PROVE  /\ Append(s, ln) \in Seq(Lines) /\ Len(Append(s, ln)) = Len(s) + 1
           /\ Ids(Append(s, ln)) = Ids(s) \cup {ln.id}
           /\ \A k \in DOMAIN Append(s, ln) :
                 \/ k \in DOMAIN s /\ Append(s, ln)[k] = s[k]
                 \/ Append(s, ln)[k] = ln
<1> DEFINE c == Append(s, ln)
<1>1. Len(s) \in Nat /\ DOMAIN s = 1 .. Len(s)
  BY LenProperties
<1>2. /\ c \in Seq(Lines) /\ Len(c) = Len(s) + 1
      /\ \A k \in 1 .. Len(s) : c[k] = s[k]
      /\ c[Len(s) + 1] = ln
  BY AppendProperties
<1>3. DOMAIN c = 1 .. Len(s) + 1
  BY <1>2, LenProperties
<1> HIDE DEF c
<1>4. \A k \in 1 .. Len(s) + 1 : k \in 1 .. Len(s) \/ k = Len(s) + 1
  BY <1>1
<1>5. Len(s) + 1 \in 1 .. Len(s) + 1 /\ \A k \in 1 .. Len(s) : k \in 1 .. Len(s) + 1
  BY <1>1
<1>6. \A k \in DOMAIN c : (k \in DOMAIN s /\ c[k] = s[k]) \/ c[k] = ln
  BY <1>1, <1>2, <1>3, <1>4
<1>7. Ids(c) \subseteq Ids(s) \cup {ln.id}
  BY <1>6 DEF Ids
<1>8. Ids(s) \cup {ln.id} \subseteq Ids(c)
  <2>1. ASSUME NEW k \in DOMAIN s PROVE s[k].id \in Ids(c)
    <3>1. k \in DOMAIN c /\ c[k] = s[k]
      BY <1>1, <1>2, <1>3, <1>5
    <3> QED
      BY <3>1 DEF Ids
  <2>2. ln.id \in Ids(c)
    BY <1>2, <1>3, <1>5 DEF Ids
  <2> QED
    BY <2>1, <2>2 DEF Ids
<1> QED
  BY <1>2, <1>6, <1>7, <1>8 DEF c

\* Before it is written, the new line is in order in the queue, or was turned down.
LEMMA LineAdded ==
    ASSUME IInv, NEW l \in Lens, count < MaxWrites, count' = count + 1,
           accepted' = IF Len(line) < HighWM THEN Append(accepted, [id |-> count, len |-> l])
                                             ELSE accepted
    PROVE  /\ count' \in 0 .. MaxWrites /\ accepted' \in Seq(Lines)
           /\ \A x \in Ids(accepted') : x < count'
           /\ Archived(count')
           /\ Settled(file, wq_add_line(line, [id |-> count, len |-> l]), size, errors, gone,
                      accepted', count', strayed)
<1> DEFINE ln == [id |-> count, len |-> l]
           q == wq_add_line(line, ln)
<1>1. /\ count \in Nat /\ MaxWrites \in Nat /\ HighWM \in Nat \ {0}
      /\ line \in Seq(Lines) /\ Len(line) \in Nat /\ Len(line) <= HighWM
      /\ accepted \in Seq(Lines) /\ file \in Seq(Lines)
      /\ archive \in [0 .. MaxNow -> Seq(Lines)]
      /\ size \in Int /\ errors \in Nat /\ gone \subseteq Nat
  <2>1. count \in Nat /\ MaxWrites \in Nat /\ HighWM \in Nat \ {0} /\ accepted \in Seq(Lines)
    BY RotLogAssumption, HighWMAssumption DEF IInv, History
  <2>2. archive \in [0 .. MaxNow -> Seq(Lines)]
    BY DEF IInv, Archived
  <2>3. /\ line \in Seq(Lines) /\ Len(line) <= HighWM /\ file \in Seq(Lines)
        /\ size \in Int /\ errors \in Nat /\ gone \subseteq Nat
    BY DEF IInv, Settled
  <2>4. Len(line) \in Nat
    BY <2>3, LenProperties
  <2> QED
    BY <2>1, <2>2, <2>3, <2>4
<1>2. ln \in Lines /\ ln.id = count
  <2>1. l \in Nat \ {0}
    BY RotLogAssumption
  <2> QED
    BY <1>1, <2>1 DEF Lines
<1>3. count' \in 0 .. MaxWrites
  BY <1>1
<1>4. accepted' = IF Len(line) < HighWM THEN Append(accepted, ln) ELSE accepted
  OBVIOUS
<1>5. q = IF Len(line) < HighWM THEN Append(line, ln) ELSE line
  BY <1>1 DEF wq_add_line
<1> HIDE DEF ln
<1>6. \A x \in Nat : x < count => x < count' /\ x # count
  BY <1>1
<1>7. /\ Ids(line) \subseteq Nat /\ Ids(accepted) \subseteq Nat /\ Ids(file) \subseteq Nat
      /\ \A t \in 0 .. MaxNow : Ids(archive[t]) \subseteq Nat
  BY <1>1, IdsNat
<1>8. \A x \in Ids(file) : x < count' \/ x = MaxWrites
  BY <1>6, <1>7 DEF IInv, Settled
<1>9. Archived(count')
  <2>1. \A t \in 0 .. MaxNow : \A x \in Ids(archive[t]) : x < count' \/ x = MaxWrites
    BY <1>6, <1>7 DEF IInv, Archived
  <2> QED
    BY <2>1 DEF IInv, Archived
<1>10. /\ \A x \in Ids(line) : x < count' /\ x # count
       /\ \A x \in Ids(accepted) : x < count' /\ x # count
  BY <1>6, <1>7 DEF IInv, Settled, History
<1>11. CASE Len(line) < HighWM
  <2>1. accepted' = Append(accepted, ln) /\ q = Append(line, ln)
    BY <1>4, <1>5, <1>11
  <2> HIDE DEF q
  <2>2. /\ accepted' \in Seq(Lines) /\ Ids(accepted') = Ids(accepted) \cup {count}
        /\ \A a \in DOMAIN accepted' : \/ a \in DOMAIN accepted /\ accepted'[a] = accepted[a]
                                       \/ accepted'[a] = ln
    BY <1>1, <1>2, <2>1, AppendLine
  <2>3. /\ q \in Seq(Lines) /\ Len(q) = Len(line) + 1 /\ Ids(q) = Ids(line) \cup {count}
        /\ \A k \in DOMAIN q : (k \in DOMAIN line /\ q[k] = line[k]) \/ q[k] = ln
    BY <1>1, <1>2, <2>1, AppendLine
  <2>4. Len(q) <= HighWM
    BY <1>1, <1>11, <2>3
  <2>5. count < count'
    BY <1>1
  <2>6. /\ \A x \in Ids(accepted') : x < count'
        /\ \A x \in Ids(q) : x < count'
    BY <1>10, <2>2, <2>3, <2>5
  <2>7. state = "ACTIVE" => \A t \in 0 .. MaxNow : Ids(archive[t]) \cap Ids(q) = {}
    <3>1. \A t \in 0 .. MaxNow : count \notin Ids(archive[t])
      <4>1. ~(count < count) /\ count # MaxWrites
        BY <1>1
      <4> QED
        BY <4>1 DEF IInv, Archived
    <3> QED
      BY <2>3, <3>1 DEF IInv, Settled
  <2>8. ASSUME NEW k \in DOMAIN q, NEW a \in DOMAIN accepted', q[k].id = accepted'[a].id
        PROVE  q[k] = accepted'[a]
    <3>1. CASE q[k] = ln /\ accepted'[a] = ln
      BY <3>1
    <3>2. CASE k \in DOMAIN line /\ q[k] = line[k] /\ accepted'[a] = ln
      <4>1. line[k].id \in Ids(line) /\ line[k].id = count
        BY <1>2, <2>8, <3>2 DEF Ids
      <4> QED
        BY <1>10, <4>1
    <3>3. CASE q[k] = ln /\ a \in DOMAIN accepted /\ accepted'[a] = accepted[a]
      <4>1. accepted[a].id \in Ids(accepted) /\ accepted[a].id = count
        BY <1>2, <2>8, <3>3 DEF Ids
      <4> QED
        BY <1>10, <4>1
    <3>4. CASE /\ k \in DOMAIN line /\ q[k] = line[k]
               /\ a \in DOMAIN accepted /\ accepted'[a] = accepted[a]
      BY <2>8, <3>4 DEF IInv, Settled
    <3> QED
      BY <2>2, <2>3, <3>1, <3>2, <3>3, <3>4
  <2>9. ASSUME NEW a \in DOMAIN accepted'
        PROVE  \/ Whole(file, accepted'[a])
               \/ \E t \in 0 .. MaxNow : Whole(archive[t], accepted'[a])
               \/ accepted'[a].id \in Ids(q) \cup Ids(strayed) \cup gone
    <3>1. CASE accepted'[a] = ln
      BY <1>2, <2>3, <3>1
    <3>2. CASE a \in DOMAIN accepted /\ accepted'[a] = accepted[a]
      BY <2>3, <3>2 DEF IInv, Settled
    <3> QED
      BY <2>2, <3>1, <3>2
  <2>11. Apart(file, q, accepted', count', strayed)
    <3>1. /\ \A x \in Ids(strayed) : x < count
          /\ fd = "open" => Ids(line) \cap Ids(strayed) = {}
          /\ \A a \in DOMAIN accepted : accepted[a].id \in Ids(line) \cup Ids(strayed) =>
                ~Whole(file, accepted[a])
                /\ \A t \in 0 .. MaxNow : ~Whole(archive[t], accepted[a])
      BY DEF IInv, Settled, Apart
    <3>2. strayed \in Seq(Lines) /\ Ids(strayed) \subseteq Nat
      BY IdsNat DEF IInv, History
    <3>3. \A x \in Ids(strayed) : x < count' /\ x # count
      BY <1>6, <3>1, <3>2
    <3>4. fd = "open" => Ids(q) \cap Ids(strayed) = {}
      BY <2>3, <3>1, <3>3
    <3>5. ASSUME NEW a \in DOMAIN accepted', accepted'[a].id \in Ids(q) \cup Ids(strayed)
          PROVE  ~Whole(file, accepted'[a])
                 /\ \A t \in 0 .. MaxNow : ~Whole(archive[t], accepted'[a])
      <4>1. CASE accepted'[a] = ln
        <5>1. ~(count < count) /\ count # MaxWrites
          BY <1>1
        <5>2. count \notin Ids(file) /\ \A t \in 0 .. MaxNow : count \notin Ids(archive[t])
          BY <5>1 DEF IInv, Settled, Archived
        <5> QED
          BY <1>2, <4>1, <5>2 DEF Whole, Ids
      <4>2. CASE a \in DOMAIN accepted /\ accepted'[a] = accepted[a]
        <5>1. accepted[a].id # count
          BY <1>10, <4>2 DEF Ids
        <5> QED
          BY <2>3, <3>1, <3>5, <4>2, <5>1
      <4> QED
        BY <2>2, <4>1, <4>2
    <3> QED
      BY <3>3, <3>4, <3>5 DEF Apart
  <2>10. Settled(file, q, size, errors, gone, accepted', count', strayed)
    <3>1. /\ \A t \in 0 .. MaxNow : Ids(archive[t]) \cap Ids(file) = {}
          /\ state = "ACTIVE" /\ strayed = <<>> => size = Bytes(file) - errors
      BY DEF IInv, Settled
    <3> QED
      BY <1>1, <1>8, <2>3, <2>4, <2>6, <2>7, <2>8, <2>9, <2>11, <3>1 DEF Settled
  <2> QED
    BY <1>3, <1>9, <2>2, <2>6, <2>10 DEF q, ln
<1>12. CASE ~(Len(line) < HighWM)
  <2>1. accepted' = accepted /\ q = line
    BY <1>4, <1>5, <1>12
  <2> HIDE DEF q
  <2>2. Settled(file, q, size, errors, gone, accepted', count', strayed)
    <3>1. Apart(file, q, accepted', count', strayed)
      <4>1. strayed \in Seq(Lines) /\ Ids(strayed) \subseteq Nat
        BY IdsNat DEF IInv, History
      <4>2. \A x \in Ids(strayed) : x < count'
        BY <1>6, <4>1 DEF IInv, Settled, Apart
      <4> QED
        BY <2>1, <4>2 DEF IInv, Settled, Apart
    <3> QED
      BY <1>8, <1>10, <2>1, <3>1 DEF IInv, Settled
  <2> QED
    BY <1>1, <1>3, <1>9, <1>10, <2>1, <2>2 DEF q, ln
<1> QED
  BY <1>11, <1>12

\* Every write of a rule, rotation, and step of the clock or of another descriptor
\* keeps the inductive invariant.
LEMMA NextIInv == IInv /\ [Next]_vars => IInv'
<1> SUFFICES ASSUME IInv, [Next]_vars PROVE IInv'
  OBVIOUS
<1>0. /\ Basics /\ History /\ LostByRename /\ Archived(count)
      /\ Settled(file, line, size, errors, gone, accepted, count, strayed)
  BY DEF IInv
<1>1. ASSUME NEW l \in Lens, descriptor_write(l) PROVE IInv'
  <2> DEFINE q == wq_add_line(line, [id |-> count, len |-> l])
  <2>1. /\ count < MaxWrites /\ count' = count + 1 /\ now' = now
        /\ accepted' = IF Len(line) < HighWM THEN Append(accepted, [id |-> count, len |-> l])
                                             ELSE accepted
        /\ \/ Writable /\ (WriteOut(q) \/ WriteFails(q))
           \/ /\ ~Writable /\ line' = q
              /\ UNCHANGED <<state, fd, file, archive, size, errors, strayed, failed, gone>>
    BY <1>1 DEF descriptor_write
  <2>2. /\ count' \in 0 .. MaxWrites /\ accepted' \in Seq(Lines)
        /\ \A x \in Ids(accepted') : x < count'
        /\ Archived(count')
        /\ Settled(file, q, size, errors, gone, accepted', count', strayed)
    BY <2>1, LineAdded
  <2> HIDE DEF q
  <2>3. strayed \in Seq(Lines) /\ (strayed # <<>> => failed)
        /\ (state = "ACTIVE" /\ fd # "open" => failed)
    BY <1>0 DEF History, LostByRename
  <2>4. CASE Writable /\ WriteOut(q)
    <3>1. state = "ACTIVE"
      BY <2>4 DEF Writable
    <3> QED
      BY <1>0, <2>1, <2>2, <2>3, <2>4, <3>1, WriteOutKeeps
  <2>5. CASE Writable /\ WriteFails(q)
    <3>1. state = "ACTIVE"
      BY <2>5 DEF Writable
    <3> QED
      BY <1>0, <2>1, <2>2, <2>3, <2>5, <3>1, WriteFailsKeeps
  <2>6. CASE /\ line' = q
             /\ UNCHANGED <<state, fd, file, archive, size, errors, strayed, failed, gone>>
    <3>1. Basics' /\ LostByRename'
      BY <1>0, <2>1, <2>6 DEF Basics, LostByRename
    <3>2. History'
      BY <2>2, <2>3, <2>6 DEF History
    <3>3. Archived(count)'
      BY <2>2, <2>6 DEF Archived
    <3>4. Settled(file, line, size, errors, gone, accepted, count, strayed)'
      BY <2>2, <2>6 DEF Settled, Apart
    <3> QED
      BY <3>1, <3>2, <3>3, <3>4 DEF IInv
  <2> QED
    BY <2>1, <2>4, <2>5, <2>6
<1>2. CASE SigRotate
  <2>1. /\ Rotate(file, line, size, errors, gone)
        /\ now' = now /\ count' = count /\ accepted' = accepted /\ strayed' = strayed
    BY <1>2 DEF SigRotate
  <2>2. History' /\ Archived(count')
        /\ Settled(file, line, size, errors, gone, accepted', count', strayed')
    BY <1>0, <2>1 DEF History
  <2>3. (strayed' # <<>> => failed) /\ (state = "ACTIVE" /\ fd # "open" => failed)
    BY <1>0, <2>1 DEF LostByRename
  <2> QED
    BY <1>0, <2>1, <2>2, <2>3, RotateKeeps
<1>3. CASE Tick
  <2>1. now' \in 0 .. MaxNow
    BY <1>0, <1>3, RotLogAssumption DEF Tick, Basics
  <2> QED
    BY <1>0, <1>3, <2>1 DEF Tick, IInv, Basics, History, LostByRename, Archived, Settled, Apart
<1>4. CASE NumberReused
  <2>1. Basics' /\ LostByRename'
    BY <1>0, <1>4 DEF NumberReused, Basics, LostByRename
  <2> QED
    BY <1>0, <1>4, <2>1 DEF NumberReused, IInv, History, Archived, Settled, Apart
<1>5. CASE UNCHANGED vars
  BY <1>0, <1>5 DEF vars, IInv, Basics, History, LostByRename, Archived, Settled, Apart
<1> QED
  BY <1>1, <1>2, <1>3, <1>4, <1>5 DEF Next

-----------------------------------------------------------------------------
\* Bytes of a line are in one of the rotlog's files only, wherever writes stop and
\* whichever step of rotlog_rotate fails; and a line with bytes in the file of another
\* descriptor is whole in none of them.
THEOREM SplitsOnlyByStray == Spec => []SplitOnlyIfStrayed
<1>1. IInv /\ [Next]_vars => IInv'
  BY NextIInv
<1>2. IInv => SplitOnlyIfStrayed
  BY IInvSuffices
<1> QED
  BY <1>1, <1>2, InitIInv, PTL DEF Spec

\* The size that decides about rotation is that of the file, less one for every
\* failed write, as long as no line went to another file: for every rotation size.
THEOREM SizeIsTracked == Spec => []SizeTracksFile
<1>1. IInv /\ [Next]_vars => IInv'
  BY NextIInv
<1>2. IInv => SizeTracksFile
  BY IInvSuffices
<1> QED
  BY <1>1, <1>2, InitIInv, PTL DEF Spec

\* Every accepted line is whole in a file or is where LinesAccounted says it was
\* lost; lines stray to another file only after a failed rename.
THEOREM EveryLineAccounted == Spec => []LinesAccounted
<1>1. IInv /\ [Next]_vars => IInv'
  BY NextIInv
<1>2. IInv => LinesAccounted
  BY IInvSuffices
<1> QED
  BY <1>1, <1>2, InitIInv, PTL DEF Spec

=============================================================================
